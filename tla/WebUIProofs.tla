---------------------------- MODULE WebUIProofs -----------------------------
(***************************************************************************)
(* Proofs about WebUI, for every set of traces, substrates, observers and   *)
(* queries and any number of loads, clicks and versions.                    *)
(***************************************************************************)
EXTENDS WebUI, SubsequencesProofs

(***************************************************************************)
(* What the handlers answer.                                                *)
(***************************************************************************)

\* The positions a query selects, for a reader of traces and of graphs.
Chosen(ts, q) == Included(ts, Options(q))

\* The two filters of the server select the same traces.
LEMMA OneFilter ==
    ASSUME NEW ts, NEW q
    PROVE  /\ filterTraces(ts, q) = Subsequence(ts, Chosen(ts, q))
           /\ handleArticulate(ts, q).data = Articulate(ts, Options(q))
           /\ Articulate(ts, Options(q)).edges = Subsequence(ts, Chosen(ts, q))
           /\ Chosen(ts, q) \in SUBSET DOMAIN ts
<1> DEFINE K == { k \in DOMAIN ts :
                    /\ ts[k].observer = q.observer
                    /\ q.start # 0 => ts[k].timestamp >= q.start
                    /\ q.end # 0 => ts[k].timestamp =< q.end
                    /\ q.tags # {} => ts[k].tags \cap q.tags # {} }
           o == Options(q)
<1>1. filterTraces(ts, q) = Subsequence(ts, K)
  BY DEF filterTraces
<1>2. /\ o.observers = {q.observer} /\ o.start = q.start /\ o.end = q.end /\ o.tags = q.tags
  BY DEF Options
<1> HIDE DEF o
<1>3. \A t : Failed(t, o) = {} <=> /\ t.observer = q.observer
                                   /\ q.start # 0 => t.timestamp >= q.start
                                   /\ q.end # 0 => t.timestamp =< q.end
                                   /\ q.tags # {} => t.tags \cap q.tags # {}
  <2> SUFFICES ASSUME NEW t
               PROVE  Failed(t, o) = {} <=> /\ t.observer = q.observer
                                            /\ q.start # 0 => t.timestamp >= q.start
                                            /\ q.end # 0 => t.timestamp =< q.end
                                            /\ q.tags # {} => t.tags \cap q.tags # {}
    OBVIOUS
  <2>1. Failed(t, o) = {} <=> PassesObserver(t, o) /\ PassesTime(t, o) /\ PassesTags(t, o)
    BY DEF Failed
  <2>2. PassesObserver(t, o) <=> t.observer = q.observer
    BY <1>2 DEF PassesObserver
  <2>3. PassesTime(t, o) <=> /\ q.start # 0 => t.timestamp >= q.start
                             /\ q.end # 0 => t.timestamp =< q.end
    BY <1>2 DEF PassesTime
  <2>4. PassesTags(t, o) <=> (q.tags # {} => t.tags \cap q.tags # {})
    BY <1>2 DEF PassesTags
  <2> QED
    BY <2>1, <2>2, <2>3, <2>4
<1>4. K = Included(ts, o)
  BY <1>3 DEF Included
<1>5. /\ handleArticulate(ts, q).data = Articulate(ts, Options(q))
      /\ Articulate(ts, Options(q)).edges = Subsequence(ts, Included(ts, Options(q)))
  BY DEF handleArticulate, Envelope, Articulate, buildEdges
<1> QED
  BY <1>1, <1>4, <1>5 DEF Chosen, o, Included

\* Nodes and shadow of a query share out the elements of a list, and its far
\* sides are other observers' nodes.
LEMMA NodesAndShadow ==
    ASSUME NEW ts, NEW o
    PROVE  LET g == Articulate(ts, o) IN
           /\ g.cut = o
           /\ Names(g) = Visible(ts, o)
           /\ Names(g) \cup DOMAIN g.shadow = UNION { Mentioned(ts[k]) : k \in DOMAIN ts }
           /\ Names(g) \cap DOMAIN g.shadow = {}
<1> DEFINE g == Articulate(ts, o)
<1>1. g.cut = o /\ g.nodes = buildNodes(ts, o) /\ g.shadow = buildShadow(ts, o)
  BY DEF Articulate
<1> HIDE DEF g
<1>2. /\ Names(g) = Visible(ts, o)
      /\ DOMAIN g.shadow = (UNION { Mentioned(ts[k]) : k \in Excluded(ts, o) }) \ Visible(ts, o)
  BY <1>1 DEF Names, buildNodes, buildShadow
<1>3. Included(ts, o) \cup Excluded(ts, o) = DOMAIN ts
  BY DEF Included, Excluded
<1>4. Visible(ts, o) = UNION { Mentioned(ts[k]) : k \in Included(ts, o) }
  BY DEF Visible
<1> QED
  BY <1>1, <1>2, <1>3, <1>4 DEF g

\* An element has traces exactly if it is a node.
LEMMA ElementHasTraces ==
    ASSUME NEW ts, List(ts), NEW q, NEW e
    PROVE  e \in Names(handleArticulate(ts, q).data) <=> handleElement(ts, q, e).data # <<>>
<1> DEFINE K == Chosen(ts, q)
           fs == Subsequence(ts, K)
           M == { n \in DOMAIN fs : e \in Range(fs[n].source) \/ e \in Range(fs[n].target) }
           es == Subsequence(fs, M)
<1>1. K \in SUBSET Int /\ IsFiniteSet(K)
  <2>1. K \in SUBSET DOMAIN ts
    BY OneFilter
  <2> QED
    BY <2>1, Places DEF List
<1>2. handleElement(ts, q, e).data = es
  BY OneFilter DEF handleElement, Envelope, filterByElement
<1>3. e \in Names(handleArticulate(ts, q).data) <=> \E k \in K : e \in Mentioned(ts[k])
  BY OneFilter, NodesAndShadow DEF Visible, Chosen
<1> HIDE DEF K
<1>4. /\ DOMAIN fs = 1..Cardinality(K) /\ Cardinality(K) \in Nat
      /\ \A n \in DOMAIN fs : Nth(K, n) \in K /\ fs[n] = ts[Nth(K, n)]
      /\ \A k \in K : \E n \in DOMAIN fs : Nth(K, n) = k /\ fs[n] = ts[k]
  BY <1>1, SubsequenceFacts
<1> HIDE DEF fs
<1>5. M # {} <=> \E k \in K : e \in Mentioned(ts[k])
  BY <1>4 DEF Mentioned
<1>6. M \in SUBSET Int /\ IsFiniteSet(M)
  <2>1. M \in SUBSET DOMAIN fs
    OBVIOUS
  <2>2. IsFiniteSet(DOMAIN fs) /\ DOMAIN fs \in SUBSET Int
    <3> DEFINE n == Cardinality(K)
    <3>1. n \in Nat /\ DOMAIN fs = 1..n
      BY <1>4
    <3> HIDE DEF n
    <3> QED
      BY <3>1, FS_Interval
  <2> HIDE DEF M
  <2> QED
    BY <2>1, <2>2, FS_Subset
<1> HIDE DEF M
<1>7. /\ DOMAIN es = 1..Cardinality(M) /\ Cardinality(M) \in Nat
      /\ es = [n \in 1..Cardinality(M) |-> es[n]]
  BY <1>6, SubsequenceFacts DEF Subsequence
<1>8. Cardinality(M) = 0 <=> M = {}
  BY <1>6, FS_EmptySet
<1> HIDE DEF es
<1>9. List(es) /\ Len(es) = Cardinality(M)
  BY <1>7, ListFacts
<1>10. es = <<>> <=> M = {}
  BY <1>8, <1>9, ListFacts
<1> QED
  BY <1>2, <1>3, <1>5, <1>10 DEF es

\* Asking again for the cut an envelope names gives that envelope, if its bounds
\* are whole seconds.
LEMMA AskedAgain ==
    ASSUME NEW ts, NEW q \in Query, q.start % Second = 0, q.end % Second = 0
    PROVE  handleArticulate(ts, Again(handleArticulate(ts, q).cut)) = handleArticulate(ts, q)
<1> DEFINE c == handleArticulate(ts, q).cut
           g == Articulate(ts, Options(q))
<1>1. c = CutMetaFromGraph(g) /\ g.cut = Options(q)
  BY NodesAndShadow DEF handleArticulate, Envelope
<1> HIDE DEF g
<1>2. /\ c.observer = q.observer /\ c.from = Printed(q.start) /\ c.to = Printed(q.end)
      /\ c.tags = q.tags
  <2>1. /\ g.cut.observers = {q.observer} /\ g.cut.start = q.start /\ g.cut.end = q.end
        /\ g.cut.tags = q.tags
    BY <1>1 DEF Options
  <2>2. (CHOOSE p \in {q.observer} : TRUE) = q.observer
    OBVIOUS
  <2> HIDE DEF c
  <2> QED
    BY <1>1, <2>1, <2>2 DEF CutMetaFromGraph
<1> HIDE DEF c
<1> DEFINE Bound(printed) == IF printed = {} THEN 0 ELSE CHOOSE b \in printed : TRUE
<1>3. ASSUME NEW b \in Nat, b % Second = 0 PROVE Bound(Printed(b)) = b
  <2>1. b - (b % Second) = b
    BY <1>3
  <2>2. Printed(b) = IF b = 0 THEN {} ELSE {b}
    BY <2>1 DEF Printed
  <2>3. (CHOOSE x \in {b} : TRUE) = b
    OBVIOUS
  <2> QED
    BY <2>2, <2>3
<1>4. Again(c) = [observer |-> c.observer, start |-> Bound(c.from), end |-> Bound(c.to),
                  tags |-> c.tags]
  BY DEF Again
<1>5. Bound(Printed(q.start)) = q.start /\ Bound(Printed(q.end)) = q.end
  BY <1>3, WebUIAssumption
<1> HIDE DEF Bound
<1>6. Options(Again(c)) = Options(q)
  BY <1>2, <1>4, <1>5 DEF Options
<1> QED
  BY <1>6 DEF handleArticulate, c

\* What EndpointsAgree says of one list and one query.
LEMMA OneStory ==
    ASSUME NEW ts, List(ts), NEW q \in Query
    PROVE  LET env == handleArticulate(ts, q)
               g == env.data
           IN  /\ handleShadow(ts, q) = Envelope(env.cut, g.shadow)
               /\ handleTraces(ts, q, 0).data = g.edges
               /\ \A e \in Names(g) \cup DOMAIN g.shadow :
                     e \in Names(g) <=> handleElement(ts, q, e).data # <<>>
               /\ \A b \in Observer :
                     /\ handleDiff(ts, q, b).cut = env.cut
                     /\ handleDiff(ts, q, b).data.added \subseteq DOMAIN g.shadow
               /\ q.observer \notin handleObservers(ts) => Names(g) = {}
               /\ q.start % Second = 0 /\ q.end % Second = 0 =>
                     handleArticulate(ts, Again(env.cut)) = env
<1> DEFINE g == Articulate(ts, Options(q))
           env == handleArticulate(ts, q)
<1>1. env.data = g /\ env.cut = CutMetaFromGraph(g)
  BY DEF handleArticulate, Envelope
<1>2. handleShadow(ts, q) = Envelope(env.cut, g.shadow)
  BY DEF handleShadow, handleArticulate, Envelope
<1>3. handleTraces(ts, q, 0).data = g.edges
  <2>1. filterTraces(ts, q) = g.edges
    BY OneFilter
  <2> HIDE DEF g
  <2>2. ~(0 > 0)
    OBVIOUS
  <2> QED
    BY <2>1, <2>2 DEF handleTraces, Envelope
<1>4. ASSUME NEW b \in Observer
      PROVE  /\ handleDiff(ts, q, b).cut = env.cut
             /\ handleDiff(ts, q, b).data.added \subseteq DOMAIN g.shadow
  <2> DEFINE h == Articulate(ts, Options([q EXCEPT !.observer = b]))
  <2>1. handleDiff(ts, q, b) = Envelope(CutMetaFromGraph(g), Diff(g, h))
    BY DEF handleDiff
  <2>2. /\ Names(g) \cup DOMAIN g.shadow = UNION { Mentioned(ts[k]) : k \in DOMAIN ts }
        /\ Names(h) \cup DOMAIN h.shadow = UNION { Mentioned(ts[k]) : k \in DOMAIN ts }
    <3>1. Names(g) \cup DOMAIN g.shadow = UNION { Mentioned(ts[k]) : k \in DOMAIN ts }
      BY NodesAndShadow
    <3>2. Names(h) \cup DOMAIN h.shadow = UNION { Mentioned(ts[k]) : k \in DOMAIN ts }
      BY NodesAndShadow
    <3> QED
      BY <3>1, <3>2
  <2> HIDE DEF g, h, env
  <2>3. Names(h) \ Names(g) \subseteq DOMAIN g.shadow
    BY <2>2
  <2> QED
    BY <1>1, <2>1, <2>3 DEF Envelope, Diff
<1>5. q.observer \notin handleObservers(ts) => Names(g) = {}
  <2>1. q.observer # ""
    BY WebUIAssumption DEF Refused
  <2>2. Names(g) = UNION { Mentioned(ts[k]) : k \in Included(ts, Options(q)) }
    BY NodesAndShadow DEF Visible
  <2>3. \A k \in Included(ts, Options(q)) : k \in DOMAIN ts /\ ts[k].observer = q.observer
    BY DEF Included, Failed, PassesObserver, Options
  <2> HIDE DEF g
  <2> QED
    BY <2>1, <2>2, <2>3 DEF handleObservers
<1>6. q.start % Second = 0 /\ q.end % Second = 0 => handleArticulate(ts, Again(env.cut)) = env
  BY AskedAgain
<1>7. \A e : e \in Names(env.data) <=> handleElement(ts, q, e).data # <<>>
  BY ElementHasTraces
<1> HIDE DEF g, env
<1>8. \A e \in Names(g) \cup DOMAIN g.shadow :
         e \in Names(g) <=> handleElement(ts, q, e).data # <<>>
  BY <1>1, <1>7
<1>9. env.data.shadow = g.shadow /\ env.data.edges = g.edges /\ Names(env.data) = Names(g)
  BY <1>1
<1> QED
  BY <1>2, <1>3, <1>4, <1>5, <1>6, <1>8, <1>9 DEF env

(***************************************************************************)
(* The types of the page, of the server and of what is on its way.          *)
(***************************************************************************)

IsLoad(l) ==
    /\ l = [observer |-> l.observer, articulate |-> l.articulate, shadow |-> l.shadow,
            settled |-> l.settled, alone |-> l.alone]
    /\ l.observer \in Observer /\ l.settled \in BOOLEAN /\ l.alone \in BOOLEAN

IsClick(c) ==
    /\ c = [element |-> c.element, observer |-> c.observer, reply |-> c.reply,
            settled |-> c.settled, on |-> c.on]
    /\ c.observer \in Observer /\ c.settled \in BOOLEAN

\* The versions of the substrate: lists of traces.
LogOK ==
    /\ List(log) /\ log # <<>> /\ Len(log) =< MaxVersions
    /\ \A v \in DOMAIN log : List(log[v])

LoadsOK ==
    /\ List(loads) /\ Len(loads) =< MaxLoads
    /\ \A i \in DOMAIN loads :
          /\ IsLoad(loads[i])
          /\ loads[i].articulate \in Request /\ loads[i].shadow \in Request

ClicksOK ==
    /\ List(clicks) /\ Len(clicks) =< MaxClicks
    /\ \A i \in DOMAIN clicks : IsClick(clicks[i]) /\ clicks[i].reply \in Request

\* A server that is gone left nothing on its way.
ServerOK ==
    /\ server \in {"serving", "draining", "down"}
    /\ server = "down" =>
          /\ \A i \in DOMAIN loads : loads[i].articulate # Sent /\ loads[i].shadow # Sent
          /\ \A i \in DOMAIN clicks : clicks[i].reply # Sent

\* The form and what the page shows.
PageOK ==
    /\ observer \in Observer \cup {""} /\ banner \in Observer \cup {""}
    /\ loads # <<>> => observer \in Observer
    /\ screen = [shown |-> screen.shown, header |-> screen.header,
                 graph |-> screen.graph, panel |-> screen.panel]
    /\ screen.shown \in BOOLEAN
    /\ screen.shown => observer \in Observer

TInv == LogOK /\ LoadsOK /\ ClicksOK /\ ServerOK /\ PageOK

\* What is stored into a list is a list.
LEMMA StoredIsList ==
    ASSUME NEW ts, List(ts), NEW t, NEW s \in StoredInto(ts, t)
    PROVE  List(s)
<1> DEFINE kept == { k \in DOMAIN ts : ts[k].id # t.id }
           n == Cardinality(kept) + 1
<1>1. n \in Nat
  <2>1. kept \in SUBSET DOMAIN ts
    OBVIOUS
  <2> HIDE DEF kept
  <2>2. IsFiniteSet(kept)
    BY <2>1, Places DEF List
  <2> QED
    BY <2>2, FS_CardinalityType
<1>2. s = [j \in 1..n |-> s[j]]
  BY DEF StoredInto
<1> QED
  BY <1>1, <1>2, ListFacts

\* A request of a load or a click that is on its way gets an answer or an error.
LEMMA Requested ==
    /\ NewRequest \in Request
    /\ Sent \in Request /\ Dead \in Request /\ Sent # Dead
    /\ \A v : Reply(v) # Sent /\ Reply(v) # Dead
    /\ \A v \in DOMAIN log : Reply(v) \in Request
    /\ server = "down" => NewRequest # Sent
    /\ \A r \in Request : r = Sent \/ r = Dead \/ \E v \in DOMAIN log : r = Reply(v)
  BY DEF NewRequest, Request, Sent, Dead, Reply

\* The versions a page knows stay what they are.
LEMMA LogKept ==
    ASSUME LogOK, [Next]_vars
    PROVE  /\ LogOK'
           /\ DOMAIN log \subseteq DOMAIN log' /\ \A v \in DOMAIN log : log'[v] = log[v]
           /\ Request \subseteq Request'
<1>1. CASE log' = log
  BY <1>1 DEF LogOK, Request
<1>2. ASSUME NEW t \in Trace, Store(t)
      PROVE  /\ LogOK'
             /\ DOMAIN log \subseteq DOMAIN log' /\ \A v \in DOMAIN log : log'[v] = log[v]
             /\ Request \subseteq Request'
  <2>1. PICK s \in StoredInto(log[Len(log)], t) : log' = Append(log, s)
    BY <1>2 DEF Store
  <2>2. List(s)
    <3>1. List(log[Len(log)])
      BY ListFacts DEF LogOK
    <3> QED
      BY <3>1, StoredIsList
  <2>3. List(log) /\ Len(log) \in Nat /\ Len(log) < MaxVersions
    BY <1>2, ListFacts DEF LogOK, Store
  <2>4. /\ List(log') /\ Len(log') = Len(log) + 1
        /\ \A v \in DOMAIN log : v \in DOMAIN log' /\ log'[v] = log[v]
        /\ log'[Len(log) + 1] = s
        /\ \A v \in DOMAIN log' : v \in DOMAIN log \/ v = Len(log) + 1
    BY <2>1, <2>3, Appended
  <2>5. \A v \in DOMAIN log' : List(log'[v])
    BY <2>2, <2>4 DEF LogOK
  <2>6. log' # <<>> /\ Len(log') =< MaxVersions
    <3>1. log' # <<>>
      BY <2>3, <2>4, ListFacts
    <3>2. MaxVersions \in Nat
      BY WebUIAssumption
    <3> QED
      BY <2>3, <2>4, <3>1, <3>2
  <2>7. Request \subseteq Request'
    BY <2>4 DEF Request, Sent, Dead, Reply
  <2> QED
    BY <2>4, <2>5, <2>6, <2>7 DEF LogOK
<1> QED
  BY <1>1, <1>2 DEF Next, vars, Progress, server_vars, Submit, LoadRequestFails,
     ElementRequestFails, handleNodeClick, Signal, Kill, ServeLoad, Show, LoadFails,
     ServeElement, renderDetailPanel, DetailFails, Exit

\* What becomes of the loads: a request gets its answer or fails, a load is settled,
\* or another one is added; if the server is down no request is on its way then.
LoadStep(i, l) ==
    /\ i \in DOMAIN loads /\ loads' = [loads EXCEPT ![i] = l]
    /\ IsLoad(l) /\ l.articulate \in Request /\ l.shadow \in Request
    /\ l.observer = loads[i].observer /\ l.alone = loads[i].alone
    /\ loads[i].settled => l.settled
    /\ l.articulate = Sent => loads[i].articulate = Sent
    /\ l.shadow = Sent => loads[i].shadow = Sent

\* What a step of one load of the graph can change, and that showing or
\* failing it settles it.
LEMMA LoadSteps ==
    ASSUME LogOK, LoadsOK, NEW i \in DOMAIN loads
    PROVE  /\ \A part \in Parts : ServeLoad(i, part) \/ LoadRequestFails(i, part) =>
                 \E l : LoadStep(i, l) /\ l.settled = loads[i].settled
           /\ Show(i) \/ LoadFails(i) => LoadStep(i, Settled(loads[i])) /\ Settled(loads[i]).settled
<1> DEFINE L == loads[i]
<1>1. /\ L = [observer |-> L.observer, articulate |-> L.articulate, shadow |-> L.shadow,
              settled |-> L.settled, alone |-> L.alone]
      /\ L.observer \in Observer /\ L.settled \in BOOLEAN /\ L.alone \in BOOLEAN
      /\ L.articulate \in Request /\ L.shadow \in Request
  BY DEF LoadsOK, IsLoad
<1>2. Dead \in Request /\ Sent \in Request /\ Reply(Len(log)) \in Request
      /\ Dead # Sent /\ Reply(Len(log)) # Sent
  <2>1. Len(log) \in DOMAIN log
    BY ListFacts DEF LogOK
  <2> QED
    BY <2>1, Requested
<1> HIDE DEF L
<1>3. ASSUME NEW r \in Request, r # Sent, NEW l,
             l = [L EXCEPT !.articulate = r] \/ l = [L EXCEPT !.shadow = r]
      PROVE  /\ IsLoad(l) /\ l.articulate \in Request /\ l.shadow \in Request
             /\ l.observer = L.observer /\ l.alone = L.alone /\ l.settled = L.settled
             /\ l.articulate = Sent => L.articulate = Sent
             /\ l.shadow = Sent => L.shadow = Sent
  BY <1>1, <1>3 DEF IsLoad
<1>4. ASSUME NEW part \in Parts, ServeLoad(i, part) \/ LoadRequestFails(i, part)
      PROVE  \E l : LoadStep(i, l) /\ l.settled = loads[i].settled
  <2>1. PICK r \in Request : r # Sent /\ loads' = [loads EXCEPT ![i][part] = r]
    <3>1. CASE ServeLoad(i, part)
      BY <1>2, <3>1 DEF ServeLoad
    <3>2. CASE LoadRequestFails(i, part)
      BY <1>2, <3>2 DEF LoadRequestFails
    <3> QED
      BY <1>4, <3>1, <3>2
  <2>2. CASE part = "articulate"
    <3> DEFINE l == [L EXCEPT !.articulate = r]
    <3>1. loads' = [loads EXCEPT ![i] = l]
      BY <2>1, <2>2 DEF L
    <3> HIDE DEF l
    <3>2. LoadStep(i, l) /\ l.settled = loads[i].settled
      BY <1>3, <2>1, <3>1 DEF LoadStep, L, l
    <3> QED
      BY <3>2
  <2>3. CASE part = "shadow"
    <3> DEFINE l == [L EXCEPT !.shadow = r]
    <3>1. loads' = [loads EXCEPT ![i] = l]
      BY <2>1, <2>3 DEF L
    <3> HIDE DEF l
    <3>2. LoadStep(i, l) /\ l.settled = loads[i].settled
      BY <1>3, <2>1, <3>1 DEF LoadStep, L, l
    <3> QED
      BY <3>2
  <2> QED
    BY <2>2, <2>3 DEF Parts
<1>5. ASSUME Show(i) \/ LoadFails(i)
      PROVE  LoadStep(i, Settled(loads[i])) /\ Settled(loads[i]).settled
  <2> DEFINE l == Settled(L)
  <2>1. loads' = [loads EXCEPT ![i] = l]
    BY <1>5 DEF Show, LoadFails, L
  <2>2. /\ IsLoad(l) /\ l.articulate \in Request /\ l.shadow \in Request
        /\ l.observer = L.observer /\ l.alone = L.alone /\ l.settled = TRUE
        /\ l.articulate = Sent => L.articulate = Sent
        /\ l.shadow = Sent => L.shadow = Sent
    <3> DEFINE ra == IF L.articulate = Sent THEN Sent ELSE Dead
               rs == IF L.shadow = Sent THEN Sent ELSE Dead
    <3>1. l = [L EXCEPT !.settled = TRUE, !.articulate = ra, !.shadow = rs]
      BY <1>1 DEF Settled
    <3>2. /\ ra \in Request /\ rs \in Request
          /\ ra = Sent => L.articulate = Sent
          /\ rs = Sent => L.shadow = Sent
      BY <1>2
    <3> HIDE DEF l, ra, rs
    <3>3. l = [observer |-> L.observer, articulate |-> ra, shadow |-> rs,
               settled |-> TRUE, alone |-> L.alone]
      BY <1>1, <3>1
    <3> QED
      BY <1>1, <3>2, <3>3 DEF IsLoad
  <2> HIDE DEF l
  <2> QED
    BY <2>1, <2>2 DEF LoadStep, L, l
<1> QED
  BY <1>4, <1>5

\* What becomes of the clicks.
ClickStep(i, c) ==
    /\ i \in DOMAIN clicks /\ clicks' = [clicks EXCEPT ![i] = c]
    /\ IsClick(c) /\ c.reply \in Request
    /\ c.element = clicks[i].element /\ c.observer = clicks[i].observer /\ c.on = clicks[i].on
    /\ clicks[i].settled => c.settled
    /\ c.reply = Sent => clicks[i].reply = Sent

\* What a step of one click on a node can change, and that drawing or
\* failing it settles it.
LEMMA ClickSteps ==
    ASSUME LogOK, ClicksOK, NEW i \in DOMAIN clicks
    PROVE  /\ ServeElement(i) \/ ElementRequestFails(i) =>
                 \E c : ClickStep(i, c) /\ c.settled = clicks[i].settled
           /\ renderDetailPanel(i) \/ DetailFails(i) =>
                 \E c : ClickStep(i, c) /\ c.settled /\ c.reply = clicks[i].reply
<1> DEFINE C == clicks[i]
<1>1. /\ C = [element |-> C.element, observer |-> C.observer, reply |-> C.reply,
              settled |-> C.settled, on |-> C.on]
      /\ C.observer \in Observer /\ C.settled \in BOOLEAN /\ C.reply \in Request
  BY DEF ClicksOK, IsClick
<1>2. Dead \in Request /\ Dead # Sent /\ Reply(Len(log)) \in Request /\ Reply(Len(log)) # Sent
  <2>1. Len(log) \in DOMAIN log
    BY ListFacts DEF LogOK
  <2> QED
    BY <2>1, Requested
<1> HIDE DEF C
<1>3. ASSUME NEW r \in Request, r # Sent, clicks' = [clicks EXCEPT ![i].reply = r]
      PROVE  \E c : ClickStep(i, c) /\ c.settled = clicks[i].settled
  <2> DEFINE c == [C EXCEPT !.reply = r]
  <2>1. clicks' = [clicks EXCEPT ![i] = c]
    BY <1>3 DEF C
  <2>2. c = [element |-> C.element, observer |-> C.observer, reply |-> r,
             settled |-> C.settled, on |-> C.on]
    BY <1>1
  <2> HIDE DEF c
  <2>3. ClickStep(i, c) /\ c.settled = clicks[i].settled
    BY <1>1, <1>3, <2>1, <2>2 DEF ClickStep, IsClick, C
  <2> QED
    BY <2>3
<1>4. ASSUME clicks' = [clicks EXCEPT ![i].settled = TRUE]
      PROVE  \E c : ClickStep(i, c) /\ c.settled /\ c.reply = clicks[i].reply
  <2> DEFINE c == [C EXCEPT !.settled = TRUE]
  <2>1. clicks' = [clicks EXCEPT ![i] = c]
    BY <1>4 DEF C
  <2>2. c = [element |-> C.element, observer |-> C.observer, reply |-> C.reply,
             settled |-> TRUE, on |-> C.on]
    <3>1. C = [element |-> C.element, observer |-> C.observer, reply |-> C.reply,
               settled |-> C.settled, on |-> C.on]
      BY <1>1
    <3>2. c = [C EXCEPT !.settled = TRUE]
      OBVIOUS
    <3> HIDE DEF c
    <3> QED
      BY <3>1, <3>2
  <2> HIDE DEF c
  <2>3. ClickStep(i, c) /\ c.settled /\ c.reply = clicks[i].reply
    BY <1>1, <2>1, <2>2 DEF ClickStep, IsClick, C
  <2> QED
    BY <2>3
<1> QED
  BY <1>2, <1>3, <1>4 DEF ServeElement, ElementRequestFails, renderDetailPanel, DetailFails

\* Each step, by what it does to the loads.
LEMMA LoadsChange ==
    ASSUME TInv, [Next]_vars
    PROVE  \/ loads' = loads
           \/ \E i, l : LoadStep(i, l)
           \/ \E o \in Observer : Submit(o)
           \/ Kill
<1>1. ASSUME NEW i \in DOMAIN loads, NEW part \in Parts,
             ServeLoad(i, part) \/ LoadRequestFails(i, part)
      PROVE  \E j, l : LoadStep(j, l)
  BY <1>1, LoadSteps DEF TInv
<1>2. ASSUME NEW i \in DOMAIN loads, Show(i) \/ LoadFails(i)
      PROVE  \E j, l : LoadStep(j, l)
  BY <1>2, LoadSteps DEF TInv
<1> QED
  BY <1>1, <1>2 DEF Next, vars, Progress, server_vars, page_vars, Store,
     ElementRequestFails, handleNodeClick, Signal, ServeElement, renderDetailPanel,
     DetailFails, Exit

\* And by what it does to the clicks.
LEMMA ClicksChange ==
    ASSUME TInv, [Next]_vars
    PROVE  \/ clicks' = clicks
           \/ \E i, c : ClickStep(i, c)
           \/ screen.shown /\ \E e : handleNodeClick(e)
           \/ Kill
<1>1. ASSUME NEW i \in DOMAIN clicks,
             ServeElement(i) \/ ElementRequestFails(i) \/ renderDetailPanel(i) \/ DetailFails(i)
      PROVE  \E j, c : ClickStep(j, c)
  BY <1>1, ClickSteps DEF TInv
<1> QED
  BY <1>1 DEF Next, vars, Progress, detail_vars, Store, Submit, LoadRequestFails,
     ServeLoad, Show, LoadFails, Signal, Exit

\* A request without its connection.
Cut(r) == IF r = Sent THEN Dead ELSE r

\* The process dies with its connections.
LEMMA Killed ==
    ASSUME TInv, Kill
    PROVE  /\ List(loads') /\ Len(loads') = Len(loads) /\ DOMAIN loads' = DOMAIN loads
           /\ \A i \in DOMAIN loads :
                 loads'[i] = [observer |-> loads[i].observer, settled |-> loads[i].settled,
                              alone |-> loads[i].alone, articulate |-> Cut(loads[i].articulate),
                              shadow |-> Cut(loads[i].shadow)]
           /\ List(clicks') /\ Len(clicks') = Len(clicks) /\ DOMAIN clicks' = DOMAIN clicks
           /\ \A i \in DOMAIN clicks :
                 clicks'[i] = [element |-> clicks[i].element, observer |-> clicks[i].observer,
                               reply |-> Cut(clicks[i].reply), settled |-> clicks[i].settled,
                               on |-> clicks[i].on]
           /\ server' = "down" /\ UNCHANGED <<log, observer, screen, banner, exported, detail>>
           /\ \A r \in Request : Cut(r) \in Request /\ Cut(r) # Sent
<1>1. /\ loads' = [i \in DOMAIN loads |->
                     [loads[i] EXCEPT !.articulate = Cut(@), !.shadow = Cut(@)]]
      /\ clicks' = [i \in DOMAIN clicks |-> [clicks[i] EXCEPT !.reply = Cut(@)]]
      /\ server' = "down" /\ UNCHANGED <<log, observer, screen, banner, exported, detail>>
  BY DEF Kill, Cut
<1>2. /\ loads' = [i \in DOMAIN loads |-> loads'[i]]
      /\ clicks' = [i \in DOMAIN clicks |-> clicks'[i]]
  BY <1>1
<1>3. /\ List(loads') /\ Len(loads') = Len(loads) /\ DOMAIN loads' = DOMAIN loads
      /\ List(clicks') /\ Len(clicks') = Len(clicks) /\ DOMAIN clicks' = DOMAIN clicks
  BY <1>2, Replacing DEF TInv, LoadsOK, ClicksOK
<1>4. ASSUME NEW i \in DOMAIN loads
      PROVE  loads'[i] = [observer |-> loads[i].observer, settled |-> loads[i].settled,
                          alone |-> loads[i].alone, articulate |-> Cut(loads[i].articulate),
                          shadow |-> Cut(loads[i].shadow)]
  <2> DEFINE L == loads[i]
  <2>1. L = [observer |-> L.observer, articulate |-> L.articulate, shadow |-> L.shadow,
             settled |-> L.settled, alone |-> L.alone]
    BY DEF TInv, LoadsOK, IsLoad
  <2>2. loads'[i] = [L EXCEPT !.articulate = Cut(@), !.shadow = Cut(@)]
    BY <1>1
  <2> HIDE DEF L
  <2>3. loads'[i] = [observer |-> L.observer, settled |-> L.settled,
                     alone |-> L.alone, articulate |-> Cut(L.articulate),
                     shadow |-> Cut(L.shadow)]
    BY <2>1, <2>2
  <2> QED
    BY <2>3 DEF L
<1>5. ASSUME NEW i \in DOMAIN clicks
      PROVE  clicks'[i] = [element |-> clicks[i].element, observer |-> clicks[i].observer,
                           reply |-> Cut(clicks[i].reply), settled |-> clicks[i].settled,
                           on |-> clicks[i].on]
  <2> DEFINE C == clicks[i]
  <2>1. C = [element |-> C.element, observer |-> C.observer, reply |-> C.reply,
             settled |-> C.settled, on |-> C.on]
    BY DEF TInv, ClicksOK, IsClick
  <2>2. clicks'[i] = [C EXCEPT !.reply = Cut(@)]
    BY <1>1
  <2> HIDE DEF C
  <2>3. clicks'[i] = [element |-> C.element, observer |-> C.observer,
                      reply |-> Cut(C.reply), settled |-> C.settled, on |-> C.on]
    BY <2>1, <2>2
  <2> QED
    BY <2>3 DEF C
<1>6. \A r \in Request : Cut(r) \in Request /\ Cut(r) # Sent
  BY Requested DEF Cut
<1> QED
  BY <1>1, <1>3, <1>4, <1>5, <1>6

\* The form is submitted.
LEMMA Submitted ==
    ASSUME TInv, NEW o \in Observer, Submit(o)
    PROVE  LET n == Len(loads) + 1
               l == [observer |-> o, articulate |-> NewRequest, shadow |-> NewRequest,
                     settled |-> FALSE, alone |-> \A i \in DOMAIN loads : loads[i].settled]
           IN  /\ List(loads') /\ Len(loads') = n /\ n =< MaxLoads /\ DOMAIN loads' = 1..n
               /\ loads'[n] = l /\ IsLoad(l)
               /\ \A j \in DOMAIN loads : j \in DOMAIN loads' /\ loads'[j] = loads[j]
               /\ \A j \in DOMAIN loads' : j \in DOMAIN loads \/ j = n
<1> DEFINE l == [observer |-> o, articulate |-> NewRequest, shadow |-> NewRequest,
                 settled |-> FALSE, alone |-> \A i \in DOMAIN loads : loads[i].settled]
<1>1. loads' = Append(loads, l) /\ Len(loads) < MaxLoads
  BY DEF Submit
<1>2. IsLoad(l)
  BY DEF IsLoad
<1>3. List(loads) /\ Len(loads) \in Nat
  BY ListFacts DEF TInv, LoadsOK
<1>4. MaxLoads \in Nat
  BY WebUIAssumption
<1> HIDE DEF l
<1>5. Len(loads) + 1 =< MaxLoads
  BY <1>1, <1>3, <1>4
<1> QED
  BY <1>1, <1>2, <1>3, <1>5, Appended DEF l

\* An element is clicked.
LEMMA Clicked ==
    ASSUME TInv, screen.shown, NEW e, handleNodeClick(e)
    PROVE  LET n == Len(clicks) + 1
               c == [element |-> e, observer |-> observer, reply |-> NewRequest,
                     settled |-> FALSE, on |-> screen.graph]
           IN  /\ List(clicks') /\ Len(clicks') = n /\ n =< MaxClicks /\ DOMAIN clicks' = 1..n
               /\ clicks'[n] = c /\ IsClick(c)
               /\ \A j \in DOMAIN clicks : j \in DOMAIN clicks' /\ clicks'[j] = clicks[j]
               /\ \A j \in DOMAIN clicks' : j \in DOMAIN clicks \/ j = n
<1> DEFINE c == [element |-> e, observer |-> observer, reply |-> NewRequest,
                 settled |-> FALSE, on |-> screen.graph]
<1>1. clicks' = Append(clicks, c) /\ Len(clicks) < MaxClicks
  BY DEF handleNodeClick
<1>2. IsClick(c)
  BY DEF IsClick, TInv, PageOK
<1>3. List(clicks) /\ Len(clicks) \in Nat
  BY ListFacts DEF TInv, ClicksOK
<1>4. MaxClicks \in Nat
  BY WebUIAssumption
<1> HIDE DEF c
<1>5. Len(clicks) + 1 =< MaxClicks
  BY <1>1, <1>3, <1>4
<1> QED
  BY <1>1, <1>2, <1>3, <1>5, Appended DEF c

\* Every step keeps the loads well typed.
LEMMA LoadsTyped ==
    ASSUME TInv, [Next]_vars
    PROVE  LoadsOK'
<1>1. /\ Request \subseteq Request' /\ List(loads) /\ Len(loads) =< MaxLoads
      /\ \A i \in DOMAIN loads :
            IsLoad(loads[i]) /\ loads[i].articulate \in Request /\ loads[i].shadow \in Request
  BY LogKept DEF TInv, LoadsOK
<1>2. CASE loads' = loads
  BY <1>1, <1>2 DEF LoadsOK
<1>3. ASSUME NEW i, NEW l, LoadStep(i, l)
      PROVE  LoadsOK'
  <2>1. /\ List(loads') /\ Len(loads') = Len(loads) /\ DOMAIN loads' = DOMAIN loads
        /\ loads'[i] = l /\ \A j \in DOMAIN loads : j # i => loads'[j] = loads[j]
    <3>1. i \in DOMAIN loads /\ loads' = [loads EXCEPT ![i] = l]
      BY <1>3 DEF LoadStep
    <3> QED
      BY <1>1, <3>1, Replaced
  <2>2. IsLoad(l) /\ l.articulate \in Request /\ l.shadow \in Request
    BY <1>3 DEF LoadStep
  <2> QED
    BY <1>1, <2>1, <2>2 DEF LoadsOK
<1>4. ASSUME NEW o \in Observer, Submit(o)
      PROVE  LoadsOK'
  <2> DEFINE n == Len(loads) + 1
             l == [observer |-> o, articulate |-> NewRequest, shadow |-> NewRequest,
                   settled |-> FALSE, alone |-> \A i \in DOMAIN loads : loads[i].settled]
  <2>1. /\ List(loads') /\ Len(loads') = n /\ n =< MaxLoads /\ DOMAIN loads' = 1..n
        /\ loads'[n] = l /\ IsLoad(l)
        /\ \A j \in DOMAIN loads : j \in DOMAIN loads' /\ loads'[j] = loads[j]
        /\ \A j \in DOMAIN loads' : j \in DOMAIN loads \/ j = n
    BY <1>4, Submitted
  <2>2. l.articulate \in Request /\ l.shadow \in Request
    BY Requested
  <2> HIDE DEF l, n
  <2> QED
    BY <1>1, <2>1, <2>2 DEF LoadsOK
<1>5. ASSUME Kill
      PROVE  LoadsOK'
  <2>1. /\ List(loads') /\ Len(loads') = Len(loads) /\ DOMAIN loads' = DOMAIN loads
        /\ \A i \in DOMAIN loads :
              loads'[i] = [observer |-> loads[i].observer, settled |-> loads[i].settled,
                           alone |-> loads[i].alone, articulate |-> Cut(loads[i].articulate),
                           shadow |-> Cut(loads[i].shadow)]
        /\ \A r \in Request : Cut(r) \in Request
    BY <1>5, Killed
  <2>2. ASSUME NEW i \in DOMAIN loads
        PROVE  /\ IsLoad(loads'[i])
               /\ loads'[i].articulate \in Request /\ loads'[i].shadow \in Request
    BY <1>1, <2>1 DEF IsLoad
  <2> QED
    BY <1>1, <2>1, <2>2 DEF LoadsOK
<1> QED
  BY <1>2, <1>3, <1>4, <1>5, LoadsChange

\* Every step keeps the clicks well typed.
LEMMA ClicksTyped ==
    ASSUME TInv, [Next]_vars
    PROVE  ClicksOK'
<1>1. /\ Request \subseteq Request' /\ List(clicks) /\ Len(clicks) =< MaxClicks
      /\ \A i \in DOMAIN clicks : IsClick(clicks[i]) /\ clicks[i].reply \in Request
  BY LogKept DEF TInv, ClicksOK
<1>2. CASE clicks' = clicks
  BY <1>1, <1>2 DEF ClicksOK
<1>3. ASSUME NEW i, NEW c, ClickStep(i, c)
      PROVE  ClicksOK'
  <2>1. /\ List(clicks') /\ Len(clicks') = Len(clicks) /\ DOMAIN clicks' = DOMAIN clicks
        /\ clicks'[i] = c /\ \A j \in DOMAIN clicks : j # i => clicks'[j] = clicks[j]
    BY <1>1, <1>3, Replaced DEF ClickStep
  <2>2. IsClick(c) /\ c.reply \in Request
    BY <1>3 DEF ClickStep
  <2> QED
    BY <1>1, <2>1, <2>2 DEF ClicksOK
<1>4. ASSUME screen.shown, NEW e, handleNodeClick(e)
      PROVE  ClicksOK'
  <2> DEFINE n == Len(clicks) + 1
             c == [element |-> e, observer |-> observer, reply |-> NewRequest,
                   settled |-> FALSE, on |-> screen.graph]
  <2>1. /\ List(clicks') /\ Len(clicks') = n /\ n =< MaxClicks /\ DOMAIN clicks' = 1..n
        /\ clicks'[n] = c /\ IsClick(c)
        /\ \A j \in DOMAIN clicks : j \in DOMAIN clicks' /\ clicks'[j] = clicks[j]
        /\ \A j \in DOMAIN clicks' : j \in DOMAIN clicks \/ j = n
    BY <1>4, Clicked
  <2>2. c.reply \in Request
    BY Requested
  <2> HIDE DEF c, n
  <2> QED
    BY <1>1, <2>1, <2>2 DEF ClicksOK
<1>5. ASSUME Kill
      PROVE  ClicksOK'
  <2>1. /\ List(clicks') /\ Len(clicks') = Len(clicks) /\ DOMAIN clicks' = DOMAIN clicks
        /\ \A i \in DOMAIN clicks :
              clicks'[i] = [element |-> clicks[i].element, observer |-> clicks[i].observer,
                            reply |-> Cut(clicks[i].reply), settled |-> clicks[i].settled,
                            on |-> clicks[i].on]
        /\ \A r \in Request : Cut(r) \in Request
    BY <1>5, Killed
  <2>2. ASSUME NEW i \in DOMAIN clicks
        PROVE  IsClick(clicks'[i]) /\ clicks'[i].reply \in Request
    BY <1>1, <2>1 DEF IsClick
  <2> QED
    BY <1>1, <2>1, <2>2 DEF ClicksOK
<1> QED
  BY <1>2, <1>3, <1>4, <1>5, ClicksChange

\* A server that is gone gets no requests.
LEMMA ServerTyped ==
    ASSUME TInv, [Next]_vars
    PROVE  ServerOK'
<1>1. CASE Kill
  <2>1. /\ server' = "down" /\ DOMAIN loads' = DOMAIN loads /\ DOMAIN clicks' = DOMAIN clicks
        /\ \A i \in DOMAIN loads : /\ loads'[i].articulate = Cut(loads[i].articulate)
                                   /\ loads'[i].shadow = Cut(loads[i].shadow)
        /\ \A i \in DOMAIN clicks : clicks'[i].reply = Cut(clicks[i].reply)
        /\ \A r \in Request : Cut(r) # Sent
    BY <1>1, Killed
  <2> QED
    BY <2>1 DEF ServerOK, TInv, LoadsOK, ClicksOK
<1>2. CASE Signal
  BY <1>2 DEF Signal, ServerOK, TInv
<1>3. CASE Exit
  BY <1>3 DEF Exit, ServerOK, TInv, Requests, page_vars, detail_vars
<1>4. CASE server' = server /\ ~Kill
  <2> SUFFICES ASSUME server = "down" PROVE ServerOK'
    BY <1>4 DEF ServerOK, TInv
  <2>1. /\ \A i \in DOMAIN loads : loads[i].articulate # Sent /\ loads[i].shadow # Sent
        /\ \A i \in DOMAIN clicks : clicks[i].reply # Sent
        /\ NewRequest # Sent
    BY Requested DEF TInv, ServerOK
  <2>2. \A i \in DOMAIN loads' : loads'[i].articulate # Sent /\ loads'[i].shadow # Sent
    <3>1. CASE loads' = loads
      BY <2>1, <3>1
    <3>2. ASSUME NEW i, NEW l, LoadStep(i, l)
          PROVE  \A j \in DOMAIN loads' : loads'[j].articulate # Sent /\ loads'[j].shadow # Sent
      <4>1. /\ DOMAIN loads' = DOMAIN loads /\ loads'[i] = l /\ i \in DOMAIN loads
            /\ \A j \in DOMAIN loads : j # i => loads'[j] = loads[j]
            /\ l.articulate # Sent /\ l.shadow # Sent
        BY <2>1, <3>2, Replaced DEF LoadStep, TInv, LoadsOK
      <4> QED
        BY <2>1, <4>1
    <3>3. ASSUME NEW o \in Observer, Submit(o)
          PROVE  \A j \in DOMAIN loads' : loads'[j].articulate # Sent /\ loads'[j].shadow # Sent
      <4> DEFINE n == Len(loads) + 1
                 l == [observer |-> o, articulate |-> NewRequest, shadow |-> NewRequest,
                       settled |-> FALSE, alone |-> \A i \in DOMAIN loads : loads[i].settled]
      <4>1. /\ loads'[n] = l
            /\ \A j \in DOMAIN loads : loads'[j] = loads[j]
            /\ \A j \in DOMAIN loads' : j \in DOMAIN loads \/ j = n
        BY <3>3, Submitted
      <4>2. l.articulate = NewRequest /\ l.shadow = NewRequest
        OBVIOUS
      <4> HIDE DEF n, l
      <4> QED
        BY <2>1, <4>1, <4>2
    <3> QED
      BY <1>4, <3>1, <3>2, <3>3, LoadsChange
  <2>3. \A i \in DOMAIN clicks' : clicks'[i].reply # Sent
    <3>1. CASE clicks' = clicks
      BY <2>1, <3>1
    <3>2. ASSUME NEW i, NEW c, ClickStep(i, c)
          PROVE  \A j \in DOMAIN clicks' : clicks'[j].reply # Sent
      <4>1. /\ DOMAIN clicks' = DOMAIN clicks /\ clicks'[i] = c /\ i \in DOMAIN clicks
            /\ \A j \in DOMAIN clicks : j # i => clicks'[j] = clicks[j]
            /\ c.reply # Sent
        BY <2>1, <3>2, Replaced DEF ClickStep, TInv, ClicksOK
      <4> QED
        BY <2>1, <4>1
    <3>3. ASSUME screen.shown, NEW e, handleNodeClick(e)
          PROVE  \A j \in DOMAIN clicks' : clicks'[j].reply # Sent
      <4> DEFINE n == Len(clicks) + 1
                 c == [element |-> e, observer |-> observer, reply |-> NewRequest,
                       settled |-> FALSE, on |-> screen.graph]
      <4>1. /\ clicks'[n] = c
            /\ \A j \in DOMAIN clicks : clicks'[j] = clicks[j]
            /\ \A j \in DOMAIN clicks' : j \in DOMAIN clicks \/ j = n
        BY <3>3, Clicked
      <4>2. c.reply = NewRequest
        OBVIOUS
      <4> HIDE DEF n, c
      <4> QED
        BY <2>1, <4>1, <4>2
    <3> QED
      BY <1>4, <3>1, <3>2, <3>3, ClicksChange
  <2> QED
    BY <1>4, <2>2, <2>3 DEF ServerOK
<1> QED
  BY <1>1, <1>2, <1>3, <1>4 DEF Next, vars, Progress, server_vars, Store, Submit,
     LoadRequestFails, ElementRequestFails, handleNodeClick, ServeLoad, Show, LoadFails,
     ServeElement, renderDetailPanel, DetailFails

\* What a step does to the page: it submits the form, shows a cut or an error, or
\* leaves the page alone.
LEMMA PageChange ==
    ASSUME [Next]_vars
    PROVE  \/ UNCHANGED <<observer, screen, banner, exported>>
           \/ \E o \in Observer : Submit(o)
           \/ \E i \in DOMAIN loads : Show(i) \/ LoadFails(i)
  BY DEF Next, vars, Progress, page_vars, Store, LoadRequestFails, ElementRequestFails,
     handleNodeClick, Signal, Kill, ServeLoad, ServeElement, renderDetailPanel,
     DetailFails, Exit

\* Every step keeps what the page shows well typed.
LEMMA PageTyped ==
    ASSUME TInv, [Next]_vars
    PROVE  PageOK'
<1>1. CASE \E o \in Observer : Submit(o)
  BY <1>1 DEF Submit, PageOK, TInv, server_vars, detail_vars
<1>2. CASE \E i \in DOMAIN loads : Show(i) \/ LoadFails(i)
  <2>1. PICK i \in DOMAIN loads : Show(i) \/ LoadFails(i)
    BY <1>2
  <2>2. observer' = observer /\ observer \in Observer /\ loads[i].observer \in Observer
    <3>1. loads # <<>>
      BY <2>1, ListFacts DEF TInv, LoadsOK
    <3> QED
      BY <2>1, <3>1 DEF Show, LoadFails, TInv, PageOK, LoadsOK, IsLoad
  <2>3. CASE Show(i)
    BY <2>2, <2>3 DEF Show, TInv, PageOK
  <2>4. CASE LoadFails(i)
    <3>1. screen' = [shown |-> FALSE, header |-> screen.header, graph |-> screen.graph,
                     panel |-> screen.panel]
      BY <2>4 DEF LoadFails, TInv, PageOK
    <3> QED
      BY <2>2, <2>4, <3>1 DEF LoadFails, PageOK
  <2> QED
    BY <2>1, <2>3, <2>4
<1>3. CASE UNCHANGED <<observer, screen, banner, exported>> /\ ~\E o \in Observer : Submit(o)
  <2>1. loads' # <<>> => loads # <<>>
    <3>1. CASE loads' = loads
      BY <3>1
    <3>2. ASSUME NEW i, NEW l, LoadStep(i, l) PROVE loads # <<>>
      BY <3>2, ListFacts DEF LoadStep, TInv, LoadsOK
    <3>3. CASE Kill
      <4>1. List(loads') /\ List(loads) /\ Len(loads') = Len(loads)
        BY <3>3, Killed DEF TInv, LoadsOK
      <4> QED
        BY <4>1, ListFacts
    <3> QED
      BY <1>3, <3>1, <3>2, <3>3, LoadsChange
  <2> QED
    BY <1>3, <2>1 DEF TInv, PageOK
<1> QED
  BY <1>1, <1>2, <1>3, PageChange

\* The types hold in every state.
THEOREM TypesInvariant == Spec => []TInv
<1>1. Init => TInv
  <2> SUFFICES ASSUME Init PROVE TInv
    OBVIOUS
  <2>1. PICK ts \in Substrate : log = <<ts>>
    BY DEF Init
  <2>2. List(ts)
    BY WebUIAssumption DEF List
  <2>3. List(log) /\ Len(log) = 1 /\ DOMAIN log = 1..1 /\ log[1] = ts
    <3>1. DOMAIN log = 1..1 /\ log[1] = ts /\ log = [j \in 1..1 |-> log[j]]
      BY <2>1
    <3> QED
      BY <3>1, ListFacts
  <2>4. LogOK
    <3>1. log # <<>>
      BY <2>1
    <3>2. \A v \in DOMAIN log : v = 1
      BY <2>3
    <3>3. Len(log) =< MaxVersions
      <4>1. MaxVersions \in Nat \ {0}
        BY WebUIAssumption
      <4> QED
        BY <2>3, <4>1
    <3> QED
      BY <2>2, <2>3, <3>1, <3>2, <3>3 DEF LogOK
  <2>5. List(<<>>) /\ Len(<<>>) = 0 /\ DOMAIN <<>> = {}
    BY DEF List
  <2>6. 0 =< MaxLoads /\ 0 =< MaxClicks
    <3>1. MaxLoads \in Nat /\ MaxClicks \in Nat
      BY WebUIAssumption
    <3> QED
      BY <3>1
  <2>7. LoadsOK /\ ClicksOK
    BY <2>5, <2>6 DEF Init, LoadsOK, ClicksOK
  <2>8. ServerOK
    BY <2>5 DEF Init, ServerOK
  <2>9. PageOK
    BY DEF Init, PageOK
  <2> QED
    BY <2>4, <2>7, <2>8, <2>9 DEF TInv
<1>2. TInv /\ [Next]_vars => TInv'
  BY LogKept, LoadsTyped, ClicksTyped, ServerTyped, PageTyped DEF TInv
<1> QED
  BY <1>1, <1>2, PTL DEF Spec

\* Whatever the constants, the state is well typed and a server that is gone left
\* no request without an answer (Shutdown in cmd_serve.go).
THEOREM TypeCorrect == Spec => []TypeOK
<1>1. TInv => TypeOK
  <2> SUFFICES ASSUME TInv PROVE TypeOK
    OBVIOUS
  <2>1. Requests \subseteq Request /\ (server = "down" => Sent \notin Requests)
    BY DEF TInv, LoadsOK, ClicksOK, ServerOK, Requests
  <2> QED
    BY <2>1, WebUIAssumption DEF TInv, LogOK, LoadsOK, ClicksOK, ServerOK, PageOK, TypeOK, IsLoad, IsClick
<1> QED
  BY <1>1, TypesInvariant, PTL

(***************************************************************************)
(* What the page shows.                                                     *)
(***************************************************************************)

\* The endpoints tell one story of any list of traces and any query that is not
\* refused (handlers.go).
THEOREM OneStoryTold == Spec => []EndpointsAgree
<1>1. TInv => EndpointsAgree
  <2> SUFFICES ASSUME TInv PROVE EndpointsAgree
    OBVIOUS
  <2>1. List(log[Len(log)])
    BY ListFacts DEF TInv, LogOK
  <2> QED
    BY <2>1, OneStory DEF EndpointsAgree
<1> QED
  BY <1>1, TypesInvariant, PTL

\* The header, the graph and the export are one answer, and the panel another to
\* the same observer.
SInv ==
    screen.shown =>
        /\ screen.header = exported /\ screen.graph = exported
        /\ screen.panel.observer = exported.observer

\* The two halves of a load that were read from one version are one cut.
LEMMA OneCut ==
    ASSUME NEW ts, NEW o
    PROVE  LET env == handleArticulate(ts, PageQuery(o))
               hidden == DOMAIN handleShadow(ts, PageQuery(o)).data
           IN  /\ env.cut.observer = o
               /\ Names(env.data) \cap hidden = {}
               /\ env.cut.shadowCount = Cardinality(hidden)
<1> DEFINE q == PageQuery(o)
           g == Articulate(ts, Options(q))
<1>1. /\ handleArticulate(ts, q) = Envelope(CutMetaFromGraph(g), g)
      /\ handleShadow(ts, q) = Envelope(CutMetaFromGraph(g), g.shadow)
  BY DEF handleArticulate, handleShadow
<1>2. g.cut = Options(q) /\ Names(g) \cap DOMAIN g.shadow = {}
  BY NodesAndShadow
<1>3. Options(q).observers = {o}
  BY DEF Options, PageQuery
<1>4. (CHOOSE p \in {o} : TRUE) = o
  OBVIOUS
<1> HIDE DEF g
<1>5. CutMetaFromGraph(g).observer = o
      /\ CutMetaFromGraph(g).shadowCount = Cardinality(DOMAIN g.shadow)
  BY <1>2, <1>3, <1>4 DEF CutMetaFromGraph
<1> QED
  BY <1>1, <1>2, <1>5 DEF Envelope

\* Whatever arrives in whatever order, the page tells of one cut (loadGraph).
THEOREM OneCutOnScreen == Spec => []ScreenTellsOneCut
<1>1. Init => SInv
  <2>1. Init => screen = [shown |-> FALSE, header |-> Nobody, graph |-> Nobody, panel |-> Nobody]
    BY DEF Init
  <2>2. Init => screen.shown = FALSE
    BY <2>1
  <2> QED
    BY <2>2 DEF SInv
<1>2. TInv /\ SInv /\ [Next]_vars => SInv'
  <2> SUFFICES ASSUME TInv, SInv, [Next]_vars PROVE SInv'
    OBVIOUS
  <2>1. CASE UNCHANGED <<observer, screen, banner, exported>>
    BY <2>1 DEF SInv
  <2>2. CASE \E o \in Observer : Submit(o)
    BY <2>2 DEF Submit, SInv
  <2>3. ASSUME NEW i \in DOMAIN loads, Show(i)
        PROVE  SInv'
    BY <2>3 DEF Show, SInv, Answer
  <2>4. ASSUME NEW i \in DOMAIN loads, LoadFails(i)
        PROVE  SInv'
    <3>1. screen' = [shown |-> FALSE, header |-> screen.header, graph |-> screen.graph,
                     panel |-> screen.panel]
      BY <2>4 DEF LoadFails, TInv, PageOK
    <3> QED
      BY <3>1 DEF SInv
  <2> QED
    BY <2>1, <2>2, <2>3, <2>4, PageChange
<1>3. SInv => ScreenTellsOneCut
  <2> SUFFICES ASSUME SInv, screen.shown PROVE ScreenTellsOneCut
    BY DEF ScreenTellsOneCut
  <2>1. /\ screen.header = exported /\ screen.graph = exported
        /\ screen.panel.observer = exported.observer
    BY DEF SInv
  <2>2. Graph(exported).cut.observer = exported.observer
    BY OneCut DEF Graph
  <2>3. ASSUME screen.panel.version = screen.graph.version
        PROVE  /\ Drawn.nodes \cap Listed = {}
               /\ Graph(exported).cut.shadowCount = Cardinality(Listed)
    <3> DEFINE ts == log[exported.version]
               o == exported.observer
    <3>1. Graph(exported) = handleArticulate(ts, PageQuery(o))
      BY DEF Graph
    <3>2. Listed = DOMAIN handleShadow(ts, PageQuery(o)).data
      BY <2>1, <2>3 DEF Listed, Shadow
    <3>3. Drawn.nodes = Names(Graph(exported).data)
      BY <2>1 DEF Drawn, buildCytoscapeElements
    <3> HIDE DEF ts, o
    <3> QED
      BY <3>1, <3>2, <3>3, OneCut
  <2> QED
    BY <2>1, <2>2, <2>3 DEF ScreenTellsOneCut
<1> QED
  BY <1>1, <1>2, <1>3, TypesInvariant, PTL DEF Spec

\* Whether the last load was alone, what it leaves on the page.
Leaves(last) ==
    IF last.settled
    THEN \/ screen.shown /\ banner = "" /\ screen.header.observer = observer
         \/ ~screen.shown /\ banner = observer
    ELSE banner = ""

\* A load that started alone stays alone until the form is submitted again: the
\* loads before it are settled and touch nothing any more.
QInv ==
    loads # <<>> =>
        LET n == Len(loads) IN
        /\ loads[n].observer = observer
        /\ loads[n].alone => /\ \A i \in DOMAIN loads : i # n => loads[i].settled
                             /\ Leaves(loads[n])

\* A load of which only the requests change, and the page does not.
LEMMA QKept ==
    ASSUME TInv, QInv, UNCHANGED <<observer, screen, banner>>,
           List(loads'), Len(loads') = Len(loads), DOMAIN loads' = DOMAIN loads,
           \A i \in DOMAIN loads : /\ loads'[i].observer = loads[i].observer
                                   /\ loads'[i].alone = loads[i].alone
                                   /\ loads'[i].settled = loads[i].settled
    PROVE  QInv'
<1>1. loads' # <<>> <=> loads # <<>>
  BY ListFacts DEF TInv, LoadsOK
<1> SUFFICES ASSUME loads # <<>> PROVE QInv'
  BY <1>1 DEF QInv
<1>2. Len(loads) \in DOMAIN loads
  BY ListFacts DEF TInv, LoadsOK
<1>3. /\ loads[Len(loads)].observer = observer
      /\ loads[Len(loads)].alone =>
            /\ \A i \in DOMAIN loads : i # Len(loads) => loads[i].settled
            /\ Leaves(loads[Len(loads)])
  BY DEF QInv
<1> DEFINE n == Len(loads)
<1>4. Len(loads') = n
  OBVIOUS
<1> HIDE DEF n
<1>5. loads'[n].observer = observer'
  BY <1>2, <1>3 DEF n
<1>6. ASSUME loads'[n].alone
      PROVE  /\ \A i \in DOMAIN loads' : i # n => loads'[i].settled
             /\ Leaves(loads[n]) /\ loads'[n].settled = loads[n].settled
  BY <1>2, <1>3, <1>6 DEF n
<1>7. loads'[n].alone => Leaves(loads[n])'
  <2>1. loads'[n].alone => IF loads'[n].settled
          THEN \/ screen'.shown /\ banner' = "" /\ screen'.header.observer = observer'
               \/ ~screen'.shown /\ banner' = observer'
          ELSE banner' = ""
    BY <1>6 DEF Leaves
  <2>2. n' = n
    BY <1>4 DEF n
  <2> QED
    BY <2>1, <2>2 DEF Leaves
<1> QED
  BY <1>4, <1>5, <1>6, <1>7 DEF QInv, n

\* The form is submitted: what the load leaves is no error.
LEMMA QSubmitted ==
    ASSUME TInv, NEW o \in Observer, Submit(o)
    PROVE  QInv'
<1> DEFINE n == Len(loads) + 1
           l == [observer |-> o, articulate |-> NewRequest, shadow |-> NewRequest,
                 settled |-> FALSE, alone |-> \A i \in DOMAIN loads : loads[i].settled]
<1>1. /\ List(loads') /\ Len(loads') = n /\ DOMAIN loads' = 1..n
      /\ loads'[n] = l
      /\ \A j \in DOMAIN loads : j \in DOMAIN loads' /\ loads'[j] = loads[j]
      /\ \A j \in DOMAIN loads' : j \in DOMAIN loads \/ j = n
  BY Submitted
<1>2. l.observer = o /\ l.settled = FALSE /\ (l.alone => \A i \in DOMAIN loads : loads[i].settled)
  OBVIOUS
<1>3. observer' = o /\ banner' = ""
  BY DEF Submit
<1> HIDE DEF n, l
<1>4. loads'[Len(loads')] = l
  BY <1>1
<1>5. Leaves(loads[Len(loads)])'
  <2>1. loads'[Len(loads')].settled = FALSE
    BY <1>2, <1>4
  <2> QED
    BY <1>3, <2>1 DEF Leaves
<1>6. l.alone => \A i \in DOMAIN loads' : i # n => loads'[i].settled
  BY <1>1, <1>2
<1> QED
  BY <1>1, <1>2, <1>3, <1>4, <1>5, <1>6 DEF QInv

\* A load gets on the page, or its error: if the last load was alone, it is that one.
LEMMA QShown ==
    ASSUME TInv, QInv, NEW i \in DOMAIN loads, Show(i) \/ LoadFails(i)
    PROVE  QInv'
<1> DEFINE n == Len(loads)
           l == Settled(loads[i])
<1>1. ~loads[i].settled /\ observer' = observer
  BY DEF Show, LoadFails
<1>2. LoadStep(i, l) /\ l.settled
  BY LoadSteps DEF TInv
<1>3. l.observer = loads[i].observer /\ l.alone = loads[i].alone
  BY <1>2 DEF LoadStep
<1>4. List(loads) /\ loads' = [loads EXCEPT ![i] = l] /\ loads # <<>>
  BY <1>2, ListFacts DEF LoadStep, TInv, LoadsOK
<1> HIDE DEF l
<1>5. /\ List(loads') /\ Len(loads') = n /\ DOMAIN loads' = DOMAIN loads
      /\ loads'[i] = l /\ \A j \in DOMAIN loads : j # i => loads'[j] = loads[j]
  BY <1>4, Replaced
<1>6. /\ loads[n].observer = observer
      /\ loads[n].alone => /\ \A j \in DOMAIN loads : j # n => loads[j].settled
                           /\ Leaves(loads[n])
  BY <1>4 DEF QInv
<1>7. n \in DOMAIN loads
  BY <1>4, ListFacts
<1> HIDE DEF n
<1>8. loads'[n].observer = observer' /\ loads'[n].alone = loads[n].alone
  BY <1>1, <1>3, <1>5, <1>6, <1>7
<1>9. ASSUME loads'[n].alone
      PROVE  /\ i = n
             /\ \A j \in DOMAIN loads' : j # n => loads'[j].settled
             /\ Leaves(loads[n])
  BY <1>1, <1>5, <1>6, <1>8, <1>9
<1>10. ASSUME loads'[n].alone
       PROVE  \/ screen'.shown /\ banner' = "" /\ screen'.header.observer = observer'
              \/ ~screen'.shown /\ banner' = observer'
  <2>1. i = n /\ banner = "" /\ loads[i].observer = observer
    BY <1>1, <1>6, <1>9, <1>10 DEF Leaves
  <2>2. CASE Show(i)
    <3>1. /\ screen' = [shown |-> TRUE, header |-> Answer(i, "articulate"),
                        graph |-> Answer(i, "articulate"), panel |-> Answer(i, "shadow")]
          /\ banner' = banner
      BY <2>2 DEF Show
    <3>2. Answer(i, "articulate").observer = loads[i].observer
      BY DEF Answer
    <3>3. screen'.shown = TRUE /\ screen'.header = Answer(i, "articulate")
      BY <3>1
    <3> QED
      BY <1>1, <2>1, <3>1, <3>2, <3>3
  <2>3. CASE LoadFails(i)
    <3>1. screen' = [shown |-> FALSE, header |-> screen.header, graph |-> screen.graph,
                     panel |-> screen.panel]
      BY <2>3 DEF LoadFails, TInv, PageOK
    <3>2. screen'.shown = FALSE
      BY <3>1
    <3>3. banner' = loads[i].observer
      BY <2>3 DEF LoadFails
    <3> QED
      BY <1>1, <2>1, <3>2, <3>3
  <2> QED
    BY <2>2, <2>3
<1>11. ASSUME loads'[n].alone
       PROVE  loads'[n].settled
  BY <1>2, <1>5, <1>9, <1>11
<1>12. loads'[n].alone => Leaves(loads[Len(loads)])'
  BY <1>5, <1>10, <1>11 DEF Leaves
<1> QED
  BY <1>5, <1>8, <1>9, <1>12 DEF QInv

\* When nothing is on its way, the page shows the observer last asked for, or that
\* observer's error, unless loads overlapped (app.js:24 to 142).
THEOREM QuietIsCurrent == Spec => []QuietScreenIsCurrent
<1>1. Init => QInv
  BY DEF Init, QInv
<1>2. TInv /\ QInv /\ [Next]_vars => QInv'
  <2> SUFFICES ASSUME TInv, QInv, [Next]_vars PROVE QInv'
    OBVIOUS
  <2>1. CASE \E o \in Observer : Submit(o)
    BY <2>1, QSubmitted
  <2>2. CASE \E i \in DOMAIN loads : Show(i) \/ LoadFails(i)
    BY <2>2, QShown
  <2>3. ASSUME UNCHANGED <<observer, screen, banner>>, List(loads'),
               Len(loads') = Len(loads), DOMAIN loads' = DOMAIN loads,
               \A i \in DOMAIN loads : /\ loads'[i].observer = loads[i].observer
                                       /\ loads'[i].alone = loads[i].alone
                                       /\ loads'[i].settled = loads[i].settled
        PROVE  QInv'
    BY <2>3, QKept
  <2>4. List(loads)
    BY DEF TInv, LoadsOK
  <2>5. ASSUME NEW i \in DOMAIN loads, NEW part \in Parts,
               ServeLoad(i, part) \/ LoadRequestFails(i, part)
        PROVE  QInv'
    <3>1. PICK l : LoadStep(i, l) /\ l.settled = loads[i].settled
      BY <2>5, LoadSteps DEF TInv
    <3>2. /\ loads' = [loads EXCEPT ![i] = l]
          /\ l.observer = loads[i].observer /\ l.alone = loads[i].alone
      BY <3>1 DEF LoadStep
    <3>3. /\ List(loads') /\ Len(loads') = Len(loads) /\ DOMAIN loads' = DOMAIN loads
          /\ loads'[i] = l /\ \A j \in DOMAIN loads : j # i => loads'[j] = loads[j]
      BY <2>4, <3>2, Replaced
    <3>4. UNCHANGED <<observer, screen, banner>>
      BY <2>5 DEF ServeLoad, LoadRequestFails
    <3> QED
      BY <2>3, <3>1, <3>2, <3>3, <3>4
  <2>6. CASE Kill
    <3>1. /\ List(loads') /\ Len(loads') = Len(loads) /\ DOMAIN loads' = DOMAIN loads
          /\ \A i \in DOMAIN loads :
                loads'[i] = [observer |-> loads[i].observer, settled |-> loads[i].settled,
                             alone |-> loads[i].alone, articulate |-> Cut(loads[i].articulate),
                             shadow |-> Cut(loads[i].shadow)]
          /\ UNCHANGED <<observer, screen, banner>>
      BY <2>6, Killed
    <3>2. \A i \in DOMAIN loads : /\ loads'[i].observer = loads[i].observer
                                  /\ loads'[i].alone = loads[i].alone
                                  /\ loads'[i].settled = loads[i].settled
      BY <3>1
    <3> QED
      BY <2>3, <3>1, <3>2
  <2>7. CASE UNCHANGED <<observer, screen, banner, loads>>
    BY <2>3, <2>4, <2>7
  <2> QED
    BY <2>1, <2>2, <2>5, <2>6, <2>7 DEF Next, vars, Progress, page_vars, Store,
       ElementRequestFails, handleNodeClick, Signal, ServeElement, renderDetailPanel,
       DetailFails, Exit
<1>3. TInv /\ QInv => QuietScreenIsCurrent
  <2> SUFFICES ASSUME TInv, QInv, loads # <<>>, loads[Len(loads)].alone,
                      \A i \in DOMAIN loads : loads[i].settled
               PROVE  \/ screen.shown /\ banner = "" /\ screen.header.observer = observer
                      \/ ~screen.shown /\ banner = observer
    BY DEF QuietScreenIsCurrent
  <2>1. Len(loads) \in DOMAIN loads
    BY ListFacts DEF TInv, LoadsOK
  <2> QED
    BY <2>1 DEF QInv, Leaves
<1> QED
  BY <1>1, <1>2, <1>3, TypesInvariant, PTL DEF Spec

(***************************************************************************)
(* The detail panel.                                                        *)
(***************************************************************************)

\* The traces in the panel are the answer a click got, from the version of the
\* substrate it names.
Answered(c, traces) ==
    \E v \in DOMAIN log :
        /\ c.reply = Reply(v)
        /\ traces = handleElement(log[v], PageQuery(c.observer), c.element).data

DInv == detail.of # 0 => /\ detail.of \in DOMAIN clicks
                         /\ Answered(clicks[detail.of], detail.traces)

\* An answer stays what it was when others store.
LEMMA AnsweredKept ==
    ASSUME TInv, [Next]_vars, NEW c, NEW d, NEW ts, Answered(c, ts),
           d.reply = c.reply, d.observer = c.observer, d.element = c.element
    PROVE  \E v \in DOMAIN log' :
               /\ d.reply = Reply(v)
               /\ ts = handleElement(log'[v], PageQuery(d.observer), d.element).data
<1>1. PICK v \in DOMAIN log :
         /\ c.reply = Reply(v)
         /\ ts = handleElement(log[v], PageQuery(c.observer), c.element).data
  BY DEF Answered
<1>2. v \in DOMAIN log' /\ log'[v] = log[v]
  BY LogKept DEF TInv
<1> QED
  BY <1>1, <1>2

\* So if a click keeps its answer, the panel is still right.
LEMMA DKept ==
    ASSUME TInv, DInv, [Next]_vars, detail' = detail,
           detail.of # 0 /\ detail.of \in DOMAIN clicks =>
              /\ detail.of \in DOMAIN clicks'
              /\ \/ clicks'[detail.of].reply = clicks[detail.of].reply
                 \/ clicks[detail.of].reply = Sent
              /\ clicks'[detail.of].observer = clicks[detail.of].observer
              /\ clicks'[detail.of].element = clicks[detail.of].element
    PROVE  DInv'
<1> SUFFICES ASSUME detail.of # 0 PROVE DInv'
  BY DEF DInv
<1> DEFINE i == detail.of
<1>1. i \in DOMAIN clicks /\ Answered(clicks[i], detail.traces)
  BY DEF DInv
<1>2. clicks[i].reply # Sent
  BY <1>1, Requested DEF Answered
<1>3. /\ i \in DOMAIN clicks' /\ clicks'[i].reply = clicks[i].reply
      /\ clicks'[i].observer = clicks[i].observer /\ clicks'[i].element = clicks[i].element
  BY <1>1, <1>2
<1> HIDE DEF i
<1>4. \E v \in DOMAIN log' :
         /\ clicks'[i].reply = Reply(v)
         /\ detail.traces
               = handleElement(log'[v], PageQuery(clicks'[i].observer), clicks'[i].element).data
  BY <1>1, <1>3, AnsweredKept
<1> QED
  BY <1>3, <1>4 DEF DInv, Answered, i

\* Whatever the substrate, the query and the order of the answers, a click shows
\* traces exactly of the nodes (handleNodeClick, renderDetailPanel, handleElement).
THEOREM ClickShowsTraces == Spec => []ClickedNodeHasTraces
<1>1. Init => DInv
  <2>1. Init => detail = NoDetail
    BY DEF Init
  <2>2. NoDetail.of = 0
    BY DEF NoDetail
  <2> QED
    BY <2>1, <2>2 DEF DInv
<1>2. TInv /\ DInv /\ [Next]_vars => DInv'
  <2> SUFFICES ASSUME TInv, DInv, [Next]_vars PROVE DInv'
    OBVIOUS
  <2>1. ASSUME NEW i \in DOMAIN clicks, renderDetailPanel(i)
        PROVE  DInv'
    <3>1. PICK c : ClickStep(i, c) /\ c.settled /\ c.reply = clicks[i].reply
      BY <2>1, ClickSteps DEF TInv
    <3>2. /\ clicks' = [clicks EXCEPT ![i] = c]
          /\ c.observer = clicks[i].observer /\ c.element = clicks[i].element
      BY <3>1 DEF ClickStep
    <3>3. DOMAIN clicks' = DOMAIN clicks /\ clicks'[i] = c
      BY <3>2, Replaced DEF TInv, ClicksOK
    <3>4. clicks[i].reply \in Request /\ clicks[i].reply.state = "answered"
      BY <2>1 DEF renderDetailPanel, TInv, ClicksOK
    <3>5. PICK v \in DOMAIN log : clicks[i].reply = Reply(v)
      BY <3>4 DEF Request, Sent, Dead
    <3>6. clicks[i].reply.version = v
      BY <3>5 DEF Reply
    <3>7. detail' = [of |-> i, traces |-> handleElement(log[v], PageQuery(clicks[i].observer),
                                                        clicks[i].element).data]
      BY <2>1, <3>6 DEF renderDetailPanel
    <3>8. log' = log
      BY <2>1 DEF renderDetailPanel, server_vars
    <3> DEFINE ts == handleElement(log[v], PageQuery(clicks[i].observer), clicks[i].element).data
    <3>9. detail'.of = i /\ detail'.traces = ts
      BY <3>7
    <3>10. c.reply = Reply(v) /\ ts = handleElement(log'[v], PageQuery(c.observer), c.element).data
      BY <3>1, <3>2, <3>5, <3>8
    <3> HIDE DEF ts
    <3> QED
      BY <3>3, <3>8, <3>9, <3>10 DEF DInv, Answered
  <2>2. ASSUME NEW i \in DOMAIN clicks, DetailFails(i)
        PROVE  DInv'
    <3>1. detail'.of = 0
      BY <2>2 DEF DetailFails, NoDetail
    <3> QED
      BY <3>1 DEF DInv
  <2>3. ASSUME NEW i \in DOMAIN clicks, ServeElement(i) \/ ElementRequestFails(i)
        PROVE  DInv'
    <3>1. PICK c : ClickStep(i, c)
      BY <2>3, ClickSteps DEF TInv
    <3>2. /\ clicks' = [clicks EXCEPT ![i] = c]
          /\ c.observer = clicks[i].observer /\ c.element = clicks[i].element
      BY <3>1 DEF ClickStep
    <3>3. /\ DOMAIN clicks' = DOMAIN clicks /\ clicks'[i] = c
          /\ \A j \in DOMAIN clicks : j # i => clicks'[j] = clicks[j]
      BY <3>2, Replaced DEF TInv, ClicksOK
    <3>4. clicks[i].reply = Sent /\ detail' = detail
      BY <2>3 DEF ServeElement, ElementRequestFails
    <3>5. detail.of \in DOMAIN clicks =>
             /\ detail.of \in DOMAIN clicks'
             /\ \/ clicks'[detail.of].reply = clicks[detail.of].reply
                \/ clicks[detail.of].reply = Sent
             /\ clicks'[detail.of].observer = clicks[detail.of].observer
             /\ clicks'[detail.of].element = clicks[detail.of].element
      BY <3>2, <3>3, <3>4
    <3> QED
      BY <3>4, <3>5, DKept
  <2>4. ASSUME screen.shown, NEW e, handleNodeClick(e)
        PROVE  DInv'
    <3>1. \A j \in DOMAIN clicks : j \in DOMAIN clicks' /\ clicks'[j] = clicks[j]
      BY <2>4, Clicked
    <3>2. detail' = detail
      BY <2>4 DEF handleNodeClick
    <3> QED
      BY <3>1, <3>2, DKept
  <2>5. CASE Kill
    <3>1. /\ DOMAIN clicks' = DOMAIN clicks /\ detail' = detail
          /\ \A i \in DOMAIN clicks :
                clicks'[i] = [element |-> clicks[i].element, observer |-> clicks[i].observer,
                              reply |-> Cut(clicks[i].reply), settled |-> clicks[i].settled,
                              on |-> clicks[i].on]
      BY <2>5, Killed
    <3>2. \A i \in DOMAIN clicks :
             /\ clicks'[i].reply = clicks[i].reply \/ clicks[i].reply = Sent
             /\ clicks'[i].observer = clicks[i].observer
             /\ clicks'[i].element = clicks[i].element
      BY <3>1 DEF Cut
    <3> QED
      BY <3>1, <3>2, DKept
  <2>6. CASE UNCHANGED <<clicks, detail>>
    BY <2>6, DKept
  <2> QED
    BY <2>1, <2>2, <2>3, <2>4, <2>5, <2>6 DEF Next, vars, Progress, detail_vars, Store, Submit,
       LoadRequestFails, Signal, ServeLoad, Show, LoadFails, Exit
<1>3. TInv /\ DInv => ClickedNodeHasTraces
  <2> SUFFICES ASSUME TInv, DInv, detail.of # 0,
                      clicks[detail.of].observer = clicks[detail.of].on.observer,
                      clicks[detail.of].reply.version = clicks[detail.of].on.version
               PROVE  clicks[detail.of].element \in Names(Graph(clicks[detail.of].on).data)
                         <=> detail.traces # <<>>
    BY DEF ClickedNodeHasTraces
  <2> DEFINE c == clicks[detail.of]
  <2>1. PICK v \in DOMAIN log :
           /\ c.reply = Reply(v)
           /\ detail.traces = handleElement(log[v], PageQuery(c.observer), c.element).data
    BY DEF DInv, Answered
  <2>2. c.on.version = v
    BY <2>1 DEF Reply
  <2>3. Graph(c.on) = handleArticulate(log[v], PageQuery(c.observer))
    BY <2>2 DEF Graph
  <2>4. List(log[v])
    BY DEF TInv, LogOK
  <2> HIDE DEF c
  <2>5. c.element \in Names(Graph(c.on).data) <=> detail.traces # <<>>
    BY <2>1, <2>3, <2>4, ElementHasTraces
  <2> QED
    BY <2>5 DEF c
<1> QED
  BY <1>1, <1>2, <1>3, TypesInvariant, PTL DEF Spec
=============================================================================
