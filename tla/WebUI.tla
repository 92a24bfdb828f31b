-------------------------------- MODULE WebUI --------------------------------
(***************************************************************************)
(* The page of the web UI (serve/web/app.js), the server behind it          *)
(* (cmd_serve.go, serve/server.go) and a substrate that others change.      *)
(*                                                                          *)
(* A load asks for /articulate and /shadow in parallel and shows both       *)
(* answers at once; a click asks for /element.  Answers are computed from   *)
(* the substrate of that moment and arrive in any order, or not at all.     *)
(*                                                                          *)
(* An answer is kept as the version of the substrate it was computed from:  *)
(* what it says follows from that and from the query.                       *)
(***************************************************************************)
EXTENDS Endpoints

CONSTANTS
    Trace,        \* the traces somebody may store
    Substrate,    \* the substrates the server may start with
    Observer,     \* the observers a user may type in
    Query,        \* what other clients ask the server for
    MaxVersions,  \* bound: versions of the substrate
    MaxLoads,     \* bound: loads of a page
    MaxClicks     \* bound: clicks on an element

\* A substrate is a slice; a bound that is given is a time.
ASSUME WebUIAssumption ==
    /\ Observer # {} /\ "" \notin Observer
    /\ \A ts \in Substrate : ts \in Seq(Range(ts))
    /\ \A q \in Query : ~Refused(q) /\ q.start \in Nat /\ q.end \in Nat
    /\ MaxVersions \in Nat \ {0} /\ MaxLoads \in Nat /\ MaxClicks \in Nat

VARIABLES
    log,          \* the versions of the substrate, the last one current
    server,       \* "serving", "draining" after a signal, "down"
    observer,     \* currentObserver, "" before the first submit
    loads,        \* the loads so far, each with its two requests
    clicks,       \* the clicks so far, each with its request
    screen,       \* #cut-header and #main: hidden or not, and what they hold
    banner,       \* the observer whose failed load the error banner is about
    exported,     \* _lastEnvelope: what the export buttons write
    detail        \* the detail panel: whose click, and the traces

vars == <<log, server, observer, loads, clicks, screen, banner, exported, detail>>
server_vars == <<log, server>>
page_vars == <<observer, loads, screen, banner, exported>>
detail_vars == <<clicks, detail>>

PageQuery(o) == [observer |-> o, start |-> 0, end |-> 0, tags |-> {}]

(* A request: on its way, answered from a version, or failed.               *)
Sent == [state |-> "sent", version |-> 0]
Dead == [state |-> "failed", version |-> 0]
Reply(v) == [state |-> "answered", version |-> v]

\* A server that does not listen refuses the connection.
NewRequest == IF server = "serving" THEN Sent ELSE Dead

Requests ==
    { loads[i].articulate : i \in DOMAIN loads }
        \cup { loads[i].shadow : i \in DOMAIN loads }
        \cup { clicks[i].reply : i \in DOMAIN clicks }

(* An answer on the page: whose it is and the version it was computed from. *)
Nobody == [observer |-> "", version |-> 1]

Graph(a) == handleArticulate(log[a.version], PageQuery(a.observer))

Shadow(a) == handleShadow(log[a.version], PageQuery(a.observer))

\* The graph as drawn: every node, and one arc per trace, source and target.
\* An edge without sources or without targets has no arc.
buildCytoscapeElements(g) ==
    [nodes |-> Names(g),
     arcs  |-> UNION { {g.edges[k].id} \X Range(g.edges[k].source)
                                      \X Range(g.edges[k].target) : k \in DOMAIN g.edges }]

Drawn == buildCytoscapeElements(Graph(screen.graph).data)

Listed == DOMAIN Shadow(screen.panel).data

NoDetail == [of |-> 0, traces |-> <<>>]     \* a hint to click, or an error

Init ==
    /\ \E ts \in Substrate : log = <<ts>>
    /\ server = "serving"
    /\ observer = "" /\ loads = <<>> /\ clicks = <<>>
    /\ screen = [shown |-> FALSE, header |-> Nobody, graph |-> Nobody, panel |-> Nobody]
    /\ banner = "" /\ exported = Nobody /\ detail = NoDetail

----------------------------------------------------------------------------
(* The substrate and the server.                                            *)

Store(t) ==
    /\ Len(log) < MaxVersions
    /\ \E s \in StoredInto(log[Len(log)], t) : s # log[Len(log)] /\ log' = Append(log, s)
    /\ UNCHANGED <<server, page_vars, detail_vars>>

\* The answer to a load that failed meanwhile is not looked at.
ServeLoad(i, part) ==
    /\ loads[i][part] = Sent
    /\ loads' = [loads EXCEPT ![i][part] = IF loads[i].settled THEN Dead ELSE Reply(Len(log))]
    /\ UNCHANGED <<server_vars, observer, screen, banner, exported, detail_vars>>

ServeElement(i) ==
    /\ clicks[i].reply = Sent
    /\ clicks' = [clicks EXCEPT ![i].reply = Reply(Len(log))]
    /\ UNCHANGED <<server_vars, page_vars, detail>>

\* The store cannot be read, or the request or its answer gets lost.
LoadRequestFails(i, part) ==
    /\ loads[i][part] = Sent
    /\ loads' = [loads EXCEPT ![i][part] = Dead]
    /\ UNCHANGED <<server_vars, observer, screen, banner, exported, detail_vars>>

ElementRequestFails(i) ==
    /\ clicks[i].reply = Sent
    /\ clicks' = [clicks EXCEPT ![i].reply = Dead]
    /\ UNCHANGED <<server_vars, page_vars, detail>>

\* SIGINT or SIGTERM: no new connections, those that are open are served.
Signal ==
    /\ server = "serving"
    /\ server' = "draining"
    /\ UNCHANGED <<log, page_vars, detail_vars>>

\* Close instead of Shutdown.
Exit_Mutant ==
    /\ server = "draining"
    /\ server' = "down"
    /\ UNCHANGED <<log, page_vars, detail_vars>>

\* Shutdown returns when no request is being served, and the process ends.
Exit ==
    /\ server = "draining"
    /\ Sent \notin Requests
    /\ server' = "down"
    /\ UNCHANGED <<log, page_vars, detail_vars>>

\* The process dies with its connections.
Kill ==
    LET Cut(r) == IF r = Sent THEN Dead ELSE r IN
    /\ server # "down"
    /\ server' = "down"
    /\ loads' = [i \in DOMAIN loads |->
                   [loads[i] EXCEPT !.articulate = Cut(@), !.shadow = Cut(@)]]
    /\ clicks' = [i \in DOMAIN clicks |-> [clicks[i] EXCEPT !.reply = Cut(@)]]
    /\ UNCHANGED <<log, observer, screen, banner, exported, detail>>

----------------------------------------------------------------------------
(* The page.                                                                *)

\* clearError is forgotten.
Submit_Mutant(o) ==
    /\ Len(loads) < MaxLoads
    /\ observer' = o
    /\ loads' = Append(loads,
                       [observer |-> o, articulate |-> NewRequest, shadow |-> NewRequest,
                        settled  |-> FALSE,
                        alone    |-> \A i \in DOMAIN loads : loads[i].settled])
    /\ UNCHANGED <<server_vars, screen, banner, exported, detail_vars>>

\* The form is submitted, whatever is still on its way.  "alone" is not in the
\* code: it notes that nothing was.
Submit(o) ==
    /\ Len(loads) < MaxLoads
    /\ observer' = o
    /\ banner' = ""
    /\ loads' = Append(loads,
                       [observer |-> o, articulate |-> NewRequest, shadow |-> NewRequest,
                        settled  |-> FALSE,
                        alone    |-> \A i \in DOMAIN loads : loads[i].settled])
    /\ UNCHANGED <<server_vars, screen, exported, detail_vars>>

Answer(i, part) == [observer |-> loads[i].observer, version |-> loads[i][part].version]

\* What becomes of a load nobody waits for any more: a request that is still on
\* its way stays there, an answer is of no further use.
Settled(load) ==
    LET Rest(r) == IF r = Sent THEN Sent ELSE Dead IN
    [load EXCEPT !.settled = TRUE, !.articulate = Rest(@), !.shadow = Rest(@)]

\* The header names the observer of the form.
Show_Mutant(i) ==
    /\ ~loads[i].settled
    /\ loads[i].articulate.state = "answered" /\ loads[i].shadow.state = "answered"
    /\ exported' = Answer(i, "articulate")
    /\ screen' = [shown |-> TRUE, header |-> [Answer(i, "articulate") EXCEPT !.observer = observer],
                  graph |-> Answer(i, "articulate"), panel |-> Answer(i, "shadow")]
    /\ loads' = [loads EXCEPT ![i] = Settled(@)]
    /\ UNCHANGED <<server_vars, observer, banner, detail_vars>>

\* Both answers are there: export, header, graph and panel change together, the
\* banner stays as it is, and whether another load came later is not asked.
Show(i) ==
    /\ ~loads[i].settled
    /\ loads[i].articulate.state = "answered" /\ loads[i].shadow.state = "answered"
    /\ exported' = Answer(i, "articulate")
    /\ screen' = [shown |-> TRUE, header |-> Answer(i, "articulate"),
                  graph |-> Answer(i, "articulate"), panel |-> Answer(i, "shadow")]
    /\ loads' = [loads EXCEPT ![i] = Settled(@)]
    /\ UNCHANGED <<server_vars, observer, banner, detail_vars>>

\* Waits for both requests, as Promise.allSettled would.
LoadFails_Mutant(i) ==
    /\ ~loads[i].settled
    /\ loads[i].articulate = Dead /\ loads[i].shadow = Dead
    /\ screen' = [screen EXCEPT !.shown = FALSE]
    /\ banner' = loads[i].observer
    /\ loads' = [loads EXCEPT ![i] = Settled(@)]
    /\ UNCHANGED <<server_vars, observer, exported, detail_vars>>

\* One of the requests failed: the other is not waited for.
LoadFails(i) ==
    /\ ~loads[i].settled
    /\ Dead \in {loads[i].articulate, loads[i].shadow}
    /\ screen' = [screen EXCEPT !.shown = FALSE]
    /\ banner' = loads[i].observer
    /\ loads' = [loads EXCEPT ![i] = Settled(@)]
    /\ UNCHANGED <<server_vars, observer, exported, detail_vars>>

\* A node of the graph or an item of the shadow panel is clicked: its traces
\* are asked for from the current observer, be it the one on screen or not.
\* "on" is not in the code: what was on screen.
handleNodeClick(e) ==
    /\ Len(clicks) < MaxClicks
    /\ clicks' = Append(clicks,
                        [element |-> e, observer |-> observer, reply |-> NewRequest,
                         settled |-> FALSE, on |-> screen.graph])
    /\ UNCHANGED <<server_vars, page_vars, detail>>

renderDetailPanel(i) ==
    /\ ~clicks[i].settled
    /\ clicks[i].reply.state = "answered"
    /\ clicks' = [clicks EXCEPT ![i].settled = TRUE]
    /\ detail' = [of |-> i,
                  traces |-> handleElement(log[clicks[i].reply.version],
                                           PageQuery(clicks[i].observer),
                                           clicks[i].element).data]
    /\ UNCHANGED <<server_vars, page_vars>>

\* The error goes into the detail panel; the banner and the graph stay.
DetailFails(i) ==
    /\ ~clicks[i].settled
    /\ clicks[i].reply = Dead
    /\ clicks' = [clicks EXCEPT ![i].settled = TRUE]
    /\ detail' = NoDetail
    /\ UNCHANGED <<server_vars, page_vars>>

----------------------------------------------------------------------------

Parts == {"articulate", "shadow"}

\* What happens by itself: the server answers or ends, the page reacts.
Progress ==
    \/ \E i \in DOMAIN loads :
          \/ \E part \in Parts : ServeLoad(i, part)
          \/ Show(i)
          \/ LoadFails(i)
    \/ \E i \in DOMAIN clicks :
          \/ ServeElement(i)
          \/ renderDetailPanel(i)
          \/ DetailFails(i)
    \/ Exit

Next ==
    \/ Progress
    \/ \E t \in Trace : Store(t)
    \/ \E o \in Observer : Submit(o)
    \/ \E i \in DOMAIN loads, part \in Parts : LoadRequestFails(i, part)
    \/ \E i \in DOMAIN clicks : ElementRequestFails(i)
    \/ /\ screen.shown /\ Len(clicks) < MaxClicks
       /\ \E e \in Drawn.nodes \cup Listed : handleNodeClick(e)
    \/ Signal
    \/ Kill

\* net/http serves every connection it accepted, and promises settle.
Fairness == WF_vars(Progress)

Spec == Init /\ [][Next]_vars /\ Fairness

----------------------------------------------------------------------------
(* Properties.                                                              *)

Request == {Sent, Dead} \cup { Reply(v) : v \in DOMAIN log }

\* The state is well typed, and a server that is gone left no request without
\* an answer or an error ("Shutdown" in cmd_serve.go).
TypeOK ==
    /\ log # <<>> /\ Len(log) =< MaxVersions
    /\ server \in {"serving", "draining", "down"}
    /\ observer \in Observer \cup {""} /\ banner \in Observer \cup {""}
    /\ Len(loads) =< MaxLoads /\ Len(clicks) =< MaxClicks
    /\ Requests \subseteq Request
    /\ \A i \in DOMAIN loads : loads[i].observer \in Observer
    /\ \A i \in DOMAIN clicks : clicks[i].observer \in Observer
    /\ screen.shown => observer # ""
    /\ server = "down" => Sent \notin Requests

\* Whatever answers arrive in whatever order, the header, the graph, the panel
\* and the export are those of one observer, and the export is what is shown;
\* when the substrate did not change between the two answers, they are one cut,
\* in which nothing is both drawn and in the shadow (loadGraph, app.js:111).
ScreenTellsOneCut ==
    screen.shown =>
        /\ screen.graph = exported
        /\ Graph(screen.header).cut = Graph(exported).cut
        /\ screen.panel.observer = Graph(exported).cut.observer
        /\ screen.panel.version = screen.graph.version =>
              /\ Drawn.nodes \cap Listed = {}
              /\ Graph(exported).cut.shadowCount = Cardinality(Listed)

\* When nothing is on its way, and the last load was not started while another
\* one was, the page shows the cut of the observer last asked for without an
\* error, or that observer's error without a cut (app.js:24 to 142).
QuietScreenIsCurrent ==
    loads # <<>> /\ loads[Len(loads)].alone /\ (\A i \in DOMAIN loads : loads[i].settled) =>
        \/ screen.shown /\ banner = "" /\ screen.header.observer = observer
        \/ ~screen.shown /\ banner = observer

\* An element that is clicked has traces to show exactly if it is a node, not
\* an item of the shadow panel, unless the form was submitted or the substrate
\* changed since the graph was read: /element and /articulate, which filter
\* each in their own way, agree about who mentions what.
ClickedNodeHasTraces ==
    detail.of # 0 =>
        LET c == clicks[detail.of] IN
        c.observer = c.on.observer /\ c.reply.version = c.on.version =>
            (c.element \in Names(Graph(c.on).data) <=> detail.traces # <<>>)

Again(meta) ==
    LET Bound(printed) == IF printed = {} THEN 0 ELSE CHOOSE b \in printed : TRUE IN
    [observer |-> meta.observer, start |-> Bound(meta.from), end |-> Bound(meta.to),
     tags |-> meta.tags]

\* The six endpoints tell one story of one substrate: the traces of a cut are
\* the edges of its graph, an element has traces exactly if it is a node, the
\* shadow and the near side of a diff are those of the graph, what the far side
\* adds was in the shadow, an observer who is not listed sees nothing; and
\* asking for the cut an envelope names gives that envelope again, if its
\* bounds are whole seconds (handlers.go, in five filters of their own).
EndpointsAgree ==
    loads = <<>> =>
        LET ts == log[Len(log)] IN
        \A q \in Query :
            LET env == handleArticulate(ts, q)
                g == env.data
            IN  /\ handleShadow(ts, q) = Envelope(env.cut, g.shadow)
                /\ handleTraces(ts, q, 0).data = g.edges
                /\ \A e \in Names(g) \cup DOMAIN g.shadow :
                      e \in Names(g) <=> handleElement(ts, q, e).data # <<>>
                /\ \A b \in Observer :
                      /\ handleDiff(ts, q, b).cut = env.cut
                      /\ handleDiff(ts, q, b).data.added \subseteq DOMAIN g.shadow
                /\ q.observer \notin handleObservers(ts) => Names(g) = {}
                /\ q.start % Second = 0 /\ q.end % Second = 0 =>
                      handleArticulate(ts, Again(env.cut)) = env

\* Every load ends on the screen or in the banner, every click in the detail
\* panel, and a server that got a signal ends, whatever is on its way.
EverythingSettles ==
    /\ \A i \in 1..MaxLoads :
          (i \in DOMAIN loads) ~> (i \in DOMAIN loads /\ loads[i].settled)
    /\ \A i \in 1..MaxClicks :
          (i \in DOMAIN clicks) ~> (i \in DOMAIN clicks /\ clicks[i].settled)
    /\ (server = "draining") ~> (server = "down")

\* No cut is on screen under the error of a load from another position ("hide
\* any stale graph from a previous observer so the UI does not display a cut
\* that names a different position than the current error state", app.js:133).
StaleGraphIsHidden ==
    screen.shown => banner \in {"", screen.header.observer}
============================================================================
