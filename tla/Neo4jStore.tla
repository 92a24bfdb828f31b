----------------------------- MODULE Neo4jStore -----------------------------
(***************************************************************************)
(* The graph database behind the TraceStore interface                       *)
(* (meshant/store/neo4j_store.go and neo4j_cypher.go, build tag neo4j).     *)
(* The database and its driver are external: a write transaction keeps its  *)
(* statements to itself until it commits, locks the nodes it changes, and   *)
(* may be rolled back at any time; the driver then tries again or gives up. *)
(*                                                                          *)
(* The lists of elements of a trace come back from collect(DISTINCT ...), so *)
(* they are the sets Source[t] and Target[t].  Instants are half seconds,   *)
(* so that some have a fraction and some have none.                         *)
(***************************************************************************)
EXTENDS TraceData, Functions

CONSTANTS
    Source, Target, \* trace -> the elements it names
    Caller,         \* goroutines or processes that store
    Batch,          \* the slices of traces they store
    Options,        \* the options of queries
    InitialNodes,   \* what the database may hold before
    MaxAttempts     \* bound: attempts of the driver at one transaction

ASSUME Neo4jAssumption ==
    /\ \A b \in Batch : b \in Seq(Trace)
    /\ \A o \in Options : o.start \in Nat /\ o.end \in Nat /\ o.limit \in Nat
    /\ MaxAttempts \in Nat \ {0}

VARIABLES
    nodes,          \* the :Trace nodes as committed, each with its relations
    tx,             \* caller -> its transaction, or NoTx
    reply           \* caller -> what its last Store returned

vars == <<nodes, tx, reply>>

NoTx == [open |-> FALSE, batch |-> <<>>, onto |-> <<>>, attempt |-> 0]

Init ==
    /\ nodes \in InitialNodes
    /\ tx = [c \in Caller |-> NoTx]
    /\ reply = [c \in Caller |-> "none"]

----------------------------------------------------------------------------
(* Statements.                                                              *)

Named(ns, i) == { n \in DOMAIN ns : ns[n].trace.id = i }

\* The turns of c that make a node: none is committed, none its own yet.
Created(c) ==
    LET b == tx[c].batch
        onto == tx[c].onto
    IN  { k \in DOMAIN onto :
            /\ onto[k] = {}
            /\ \A j \in 1..(k - 1) : b[j].id = b[k].id => onto[j] # {} }

\* A node after some turns of c.  SET replaces the properties, MERGE only adds
\* relations: those of an earlier version of the trace stay.
Merged(c, turns, source, target) ==
    LET b == tx[c].batch
        last == CHOOSE k \in turns : \A j \in turns : j =< k
    IN  [trace  |-> b[last],
         source |-> source \cup UNION { Source[b[k]] : k \in turns },
         target |-> target \cup UNION { Target[b[k]] : k \in turns }]

\* The nodes when the turns of c have their effect: on the committed nodes they
\* found, and on those c made itself.
storeCypher(c) ==
    LET Found(n) == { k \in DOMAIN tx[c].onto : n \in tx[c].onto[k] }
        Same(k) == { m \in DOMAIN tx[c].onto :
                       m >= k /\ tx[c].batch[m].id = tx[c].batch[k].id }
        kept == [n \in DOMAIN nodes |->
                    IF Found(n) = {} THEN nodes[n]
                    ELSE Merged(c, Found(n), nodes[n].source, nodes[n].target)]
        made == [j \in 1..Cardinality(Created(c)) |->
                    Merged(c, Same(Nth(Created(c), j)), {}, {})]
    IN  kept \o made

\* The nodes c holds a lock on.
Locked(c) == UNION Range(tx[c].onto)

Open(c, b, attempt) == [open |-> TRUE, batch |-> b, onto |-> <<>>, attempt |-> attempt]

----------------------------------------------------------------------------
(* Store.                                                                   *)

StoreReturns(c, r) ==
    /\ reply' = [reply EXCEPT ![c] = r]
    /\ tx' = [tx EXCEPT ![c] = NoTx]

\* The context is cancelled, or a trace of the batch is not valid.
StoreRefused(c, b) ==
    /\ ~tx[c].open
    /\ StoreReturns(c, "error")
    /\ UNCHANGED nodes

StoreNothing(c) ==
    /\ ~tx[c].open
    /\ <<>> \in Batch
    /\ StoreReturns(c, "ok")
    /\ UNCHANGED nodes

ExecuteWrite(c, b) ==
    /\ ~tx[c].open
    /\ b # <<>> /\ \A k \in DOMAIN b : b[k] \in ValidTrace
    /\ tx' = [tx EXCEPT ![c] = Open(c, b, 1)]
    /\ reply' = [reply EXCEPT ![c] = "none"]
    /\ UNCHANGED nodes

\* One trace: MERGE finds what is committed, waiting for whoever has changed it.
Run(c) ==
    LET found == Named(nodes, tx[c].batch[Len(tx[c].onto) + 1].id) IN
    /\ tx[c].open /\ Len(tx[c].onto) < Len(tx[c].batch)
    /\ \A d \in Caller \ {c} : Locked(d) \cap found = {}
    /\ tx' = [tx EXCEPT ![c].onto = Append(@, found)]
    /\ UNCHANGED <<nodes, reply>>

\* A transaction of its own for each statement.
Commit_Mutant(c) ==
    /\ tx[c].open /\ tx[c].onto # <<>>
    /\ nodes' = storeCypher(c)
    /\ StoreReturns(c, "ok")

\* The answer may get lost; the driver does not try again what may be done.
Commit(c) ==
    /\ tx[c].open /\ Len(tx[c].onto) = Len(tx[c].batch)
    /\ nodes' = storeCypher(c)
    /\ \E r \in {"ok", "error"} : StoreReturns(c, r)

\* A statement fails, a deadlock is broken, the connection or the server is
\* gone: nothing has happened, and the driver tries again if it may.
Rollback(c) ==
    /\ tx[c].open
    /\ \/ /\ tx[c].attempt < MaxAttempts
          /\ tx' = [tx EXCEPT ![c] = Open(c, tx[c].batch, tx[c].attempt + 1)]
          /\ UNCHANGED reply
       \/ StoreReturns(c, "error")
    /\ UNCHANGED nodes

Next ==
    \E c \in Caller :
        \/ \E b \in Batch : StoreRefused(c, b) \/ ExecuteWrite(c, b)
        \/ StoreNothing(c)
        \/ Run(c)
        \/ Commit(c)
        \/ Rollback(c)

Spec == Init /\ [][Next]_vars

----------------------------------------------------------------------------
(* Query and Get: each reads what is committed, in one transaction.         *)

\* The place of an instant among the strings RFC3339Nano prints: trailing zeros
\* are dropped, and "." sorts before "Z", so that a whole second comes after its
\* fractions.
AsString(t) == IF t % 2 = 0 THEN t + 1 ELSE t - 1

\* The WHERE clause.
queryCypher(t, o) ==
    /\ o.observer # "" => t.observer = o.observer
    /\ o.start # 0 => AsString(t.timestamp) >= AsString(o.start)
    /\ o.end # 0 => AsString(t.timestamp) =< AsString(o.end)
    /\ o.tags \subseteq t.tags

\* As if LIMIT came before ORDER BY.
Query_Mutant(o) ==
    LET hits == { n \in DOMAIN nodes : queryCypher(nodes[n].trace, o) }
        n == IF o.limit > 0 /\ Cardinality(hits) > o.limit THEN o.limit ELSE Cardinality(hits)
        Sorted(p) == \A j, k \in DOMAIN p : j < k =>
                        /\ p[j] # p[k]
                        /\ AsString(nodes[p[j]].trace.timestamp)
                              =< AsString(nodes[p[k]].trace.timestamp)
    IN  { [k \in DOMAIN p |-> nodes[p[k]]] : p \in { p \in [1..n -> hits] : Sorted(p) } }

\* The rows in the orders ORDER BY allows, up to the limit.
Query(o) ==
    LET hits == { n \in DOMAIN nodes : queryCypher(nodes[n].trace, o) }
        Sorted(p) == \A j, k \in DOMAIN p : j < k =>
                        /\ p[j] # p[k]
                        /\ AsString(nodes[p[j]].trace.timestamp)
                              =< AsString(nodes[p[k]].trace.timestamp)
        rows == { p \in [1..Cardinality(hits) -> hits] : Sorted(p) }
    IN  { Limited([k \in DOMAIN p |-> nodes[p[k]]], o.limit) : p \in rows }

\* The records Get may return for an ID: one of the nodes that have it.
Get(i) == { nodes[n] : n \in Named(nodes, i) }

----------------------------------------------------------------------------
(* Properties.                                                              *)

\* No ID is on two nodes.  Nothing in the database forbids it: two transactions
\* that look for an ID before either has committed it make a node each.
OneNodeEach == \A m, n \in DOMAIN nodes : nodes[m].trace.id = nodes[n].trace.id => m = n

\* Two instants of one second, whose strings may be in the wrong order.
Clash(x, y) == x # y /\ x \div 2 = y \div 2

Before(t, u) == Clash(t.timestamp, u.timestamp) \/ t.timestamp =< u.timestamp

\* t lies in the second of no bound of o.
Clear(t, o) == \A x \in {o.start, o.end} \ {0} : ~Clash(t.timestamp, x)

Unbounded(o) == [o EXCEPT !.start = 0, !.end = 0]

\* A query answers as QueryOpts promises wherever it has not to tell two instants
\* of one second apart: no row that does not match, rows in the order of time, no
\* trace twice that is not on two nodes, all that match or the earliest of them
\* ("ISO 8601 UTC strings sort chronologically", queryCypher).
AnswersAsPromised ==
    \A o \in Options : \A rows \in Query(o) :
        LET s == [k \in DOMAIN rows |-> rows[k].trace]
            stored == { nodes[n].trace : n \in DOMAIN nodes }
            wanted == { t \in stored : Clear(t, o) /\ Matches(t, o) }
        IN  /\ Range(s) \subseteq stored
            /\ \A t \in Range(s) : Matches(t, IF Clear(t, o) THEN o ELSE Unbounded(o))
            /\ OneNodeEach => UniqueIDs(s)
            /\ \A j, k \in DOMAIN s : j < k => Before(s[j], s[k])
            /\ o.limit = 0 \/ Len(s) < o.limit => wanted \subseteq Range(s)
            /\ o.limit > 0 => Len(s) =< o.limit
            /\ \A t \in Range(s), u \in wanted \ Range(s) : Before(t, u)

Versions(i) == { t \in ValidTrace : t.id = i }

\* What Get returns names the elements of the trace it is, and no others but
\* those of other versions of it, which no statement removes (the MERGE clauses
\* of storeCypher).
NoElementIsMissing ==
    \A i \in TraceID : \A g \in Get(i) :
        /\ Source[g.trace] \subseteq g.source
        /\ g.source \subseteq UNION { Source[u] : u \in Versions(i) }
        /\ Target[g.trace] \subseteq g.target
        /\ g.target \subseteq UNION { Target[u] : u \in Versions(i) }

\* Whatever is stored, and whoever is storing, Get returns complete traces and
\* Query those that were asked for.
ReadsAreRight == NoElementIsMissing /\ AnswersAsPromised

\* The traces Get may return for an ID.
Held(i) == { g.trace : g \in Get(i) }

\* Batch b takes effect: under each of its IDs Get may return the last trace b
\* has of it, and else nothing it could not return before; other IDs are left alone.
TakesEffect(b) ==
    \A i \in TraceID :
        LET last == LastPositions(b, i)
        IN  /\ last = {} => Get(i)' = Get(i)
            /\ \A k \in last : b[k] \in Held(i)' /\ Held(i)' \subseteq Held(i) \cup {b[k]}

\* Whoever else stores, also the same new IDs: the database only changes by a
\* batch of valid traces that takes effect as a whole, and a Store that returns
\* nil has taken effect at that moment ("all writes occur in a single
\* transaction", Neo4jStore.Store).
StoresAreWhole ==
    [][/\ nodes' # nodes => \E b \in Batch : /\ \A k \in DOMAIN b : b[k] \in ValidTrace
                                            /\ TakesEffect(b)
       /\ \A c \in Caller : tx[c].open /\ ~tx'[c].open /\ reply'[c] = "ok" =>
                             TakesEffect(tx[c].batch)]_vars

StoredUnder(i) == IF Get(i) = {} THEN NoTrace ELSE (CHOOSE g \in Get(i) : TRUE).trace

Promise == INSTANCE TraceStore WITH
    db <- [i \in TraceID |-> StoredUnder(i)],
    survivors <- {[i \in TraceID |-> StoredUnder(i)]}

\* Every step that leaves no ID on two nodes is a step of the store TraceStore
\* describes: a whole batch takes effect in the map from IDs to traces, through
\* retries, lost answers and callers that overlap.
ImplementsTraceStore ==
    /\ Promise!Init
    /\ [][OneNodeEach' => Promise!Next]_nodes
============================================================================
