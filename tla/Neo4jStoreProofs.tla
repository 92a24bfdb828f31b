--------------------------- MODULE Neo4jStoreProofs ---------------------------
(***************************************************************************)
(* Proofs about Neo4jStore, for any number of callers, any traces, batches  *)
(* and options.                                                             *)
(***************************************************************************)
EXTENDS Neo4jStore, SubsequencesProofs

(***************************************************************************)
(* Types, and what a node says of its trace.                                *)
(***************************************************************************)

Element == UNION { Source[t] \cup Target[t] : t \in ValidTrace }

\* A node names the elements of its trace, and no others but those of other
\* versions of it.
Complete(g) ==
    /\ Source[g.trace] \subseteq g.source
    /\ g.source \subseteq UNION { Source[u] : u \in Versions(g.trace.id) }
    /\ Target[g.trace] \subseteq g.target
    /\ g.target \subseteq UNION { Target[u] : u \in Versions(g.trace.id) }

Whole == { g \in [trace : ValidTrace, source : SUBSET Element, target : SUBSET Element] :
             Complete(g) }

\* The database holds what earlier stores left.
WholeStart == InitialNodes \subseteq Seq(Whole)

\* A transaction and the turns it has taken; each found nodes of the ID it was
\* for, and all that earlier turns for that ID had found.
Fits(c) ==
    /\ IF tx[c].open THEN tx[c].batch \in Batch ELSE tx[c].batch = <<>>
    /\ Len(tx[c].onto) =< Len(tx[c].batch)
    /\ \A k \in DOMAIN tx[c].onto : tx[c].onto[k] \subseteq Named(nodes, tx[c].batch[k].id)
    /\ \A j, k \in DOMAIN tx[c].onto :
          j < k /\ tx[c].batch[j].id = tx[c].batch[k].id => tx[c].onto[j] \subseteq tx[c].onto[k]

Transaction ==
    [open : BOOLEAN, batch : Seq(ValidTrace), onto : Seq(SUBSET Nat), attempt : Nat]

TInv ==
    /\ nodes \in Seq(Whole)
    /\ tx \in [Caller -> Transaction]
    /\ reply \in [Caller -> {"none", "ok", "error"}]
    /\ \A c \in Caller : Fits(c)

\* Some trace of s has the last position of its ID.
LEMMA LastPosition ==
    ASSUME NEW s \in Seq(ValidTrace), NEW i
    PROVE  /\ (\E k \in DOMAIN s : s[k].id = i) <=> LastPositions(s, i) # {}
           /\ \A j, k \in LastPositions(s, i) : j = k
           /\ \A k \in LastPositions(s, i) : k \in DOMAIN s /\ s[k].id = i
<1>1. DOMAIN s = 1..Len(s) /\ Len(s) \in Nat
  OBVIOUS
<1>2. \A j, k \in LastPositions(s, i) : j = k
  BY <1>1 DEF LastPositions
<1>3. ASSUME \E k \in DOMAIN s : s[k].id = i PROVE LastPositions(s, i) # {}
  <2> DEFINE K == { k \in DOMAIN s : s[k].id = i }
  <2>1. K # {}
    BY <1>3
  <2>2. K \in SUBSET Int /\ IsFiniteSet(K)
    BY Places
  <2>3. PICK m \in K : \A k \in K : k =< m
    <3> HIDE DEF K
    <3> QED
      BY <2>1, <2>2, FirstAndLast
  <2>4. \A j \in DOMAIN s : j > m => s[j].id # i
    BY <1>1, <2>3
  <2> QED
    BY <2>3, <2>4 DEF LastPositions
<1> QED
  BY <1>2, <1>3 DEF LastPositions

\* What some turns of one ID leave of a node is whole: the trace of the last
\* turn, with its elements.
LEMMA MergedFacts ==
    ASSUME TInv, NEW c \in Caller, NEW turns \in SUBSET DOMAIN tx[c].onto, turns # {},
           NEW i, \A k \in turns : tx[c].batch[k].id = i,
           NEW source \in SUBSET Element, source \subseteq UNION { Source[u] : u \in Versions(i) },
           NEW target \in SUBSET Element, target \subseteq UNION { Target[u] : u \in Versions(i) }
    PROVE  LET g == Merged(c, turns, source, target) IN
           /\ g \in Whole
           /\ g.trace.id = i
           /\ \E last \in turns : (\A k \in turns : k =< last) /\ g.trace = tx[c].batch[last]
<1> DEFINE b == tx[c].batch
           g == Merged(c, turns, source, target)
           last == CHOOSE k \in turns : \A j \in turns : j =< k
<1>1. /\ b \in Seq(ValidTrace) /\ tx[c].onto \in Seq(SUBSET Nat)
      /\ Len(tx[c].onto) =< Len(b)
  BY DEF TInv, Transaction, Fits
<1>2. turns \in SUBSET Int /\ IsFiniteSet(turns)
  BY <1>1, Places
<1>3. \E k \in turns : \A j \in turns : j =< k
  BY <1>2, FirstAndLast
<1>4. last \in turns /\ \A j \in turns : j =< last
  BY <1>3
<1>5. \A k \in turns : b[k] \in ValidTrace /\ b[k] \in Versions(i)
  <2>1. turns \subseteq DOMAIN b
    BY <1>1
  <2> QED
    BY <1>1, <2>1 DEF Versions
<1>6. /\ g = [trace |-> b[last],
              source |-> source \cup UNION { Source[b[k]] : k \in turns },
              target |-> target \cup UNION { Target[b[k]] : k \in turns }]
  BY DEF Merged
<1> HIDE DEF g, last
<1>7. g.trace = b[last] /\ b[last] \in ValidTrace /\ b[last].id = i
  BY <1>4, <1>5, <1>6
<1>8. g.source \subseteq Element /\ g.target \subseteq Element
  BY <1>5, <1>6 DEF Element
<1>9. /\ Source[b[last]] \subseteq g.source
      /\ g.source \subseteq UNION { Source[u] : u \in Versions(i) }
  BY <1>4, <1>5, <1>6
<1>10. /\ Target[b[last]] \subseteq g.target
       /\ g.target \subseteq UNION { Target[u] : u \in Versions(i) }
  BY <1>4, <1>5, <1>6
<1>11. g \in [trace : ValidTrace, source : SUBSET Element, target : SUBSET Element]
  BY <1>6, <1>7, <1>8
<1>12. g \in Whole
  BY <1>7, <1>9, <1>10, <1>11 DEF Whole, Complete
<1> QED
  BY <1>4, <1>7, <1>12 DEF g


(***************************************************************************)
(* What a commit makes of the nodes.                                        *)
(***************************************************************************)

\* The first turns of the IDs that no node has make the nodes, in their order.
LEMMA CreatedFacts ==
    ASSUME TInv, NEW c \in Caller
    PROVE  /\ Created(c) \in SUBSET DOMAIN tx[c].onto
           /\ Created(c) \in SUBSET Int /\ IsFiniteSet(Created(c))
           /\ Cardinality(Created(c)) \in Nat
           /\ \A j \in 1..Cardinality(Created(c)) : Nth(Created(c), j) \in Created(c)
           /\ \A k \in Created(c) : \E j \in 1..Cardinality(Created(c)) : Nth(Created(c), j) = k
           /\ \A i, j \in 1..Cardinality(Created(c)) :
                 Nth(Created(c), i) = Nth(Created(c), j) => i = j
<1>1. tx[c].onto \in Seq(SUBSET Nat)
  BY DEF TInv, Transaction
<1>2. Created(c) \in SUBSET DOMAIN tx[c].onto
  BY DEF Created
<1>3. Created(c) \in SUBSET Int /\ IsFiniteSet(Created(c))
  BY <1>1, <1>2, Places
<1>4. /\ Cardinality(Created(c)) \in Nat
      /\ \A j \in 1..Cardinality(Created(c)) : Nth(Created(c), j) \in Created(c)
      /\ \A k \in Created(c) : /\ Rank(Created(c), k) \in 1..Cardinality(Created(c))
                               /\ Nth(Created(c), Rank(Created(c), k)) = k
      /\ \A j \in 1..Cardinality(Created(c)) : Rank(Created(c), Nth(Created(c), j)) = j
  BY <1>3, NthFacts
<1> QED
  BY <1>2, <1>3, <1>4

\* The turns that found node n, and those of one ID from turn k on.
FoundBy(c, n) == { k \in DOMAIN tx[c].onto : n \in tx[c].onto[k] }
SameFrom(c, k) == { m \in DOMAIN tx[c].onto : m >= k /\ tx[c].batch[m].id = tx[c].batch[k].id }

\* The trace of the last turn in turns.
FromLast(c, turns, trace) ==
    \E last \in turns : (\A k \in turns : k =< last) /\ trace = tx[c].batch[last]

\* A commit adds nodes and keeps the IDs of those there are; all are whole.
LEMMA CypherFacts ==
    ASSUME TInv, NEW c \in Caller
    PROVE  LET ns == storeCypher(c)
               N == Cardinality(Created(c))
           IN
           /\ ns \in Seq(Whole) /\ Len(ns) = Len(nodes) + N
           /\ \A n \in DOMAIN nodes :
                 /\ n \in DOMAIN ns /\ ns[n].trace.id = nodes[n].trace.id
                 /\ IF FoundBy(c, n) = {} THEN ns[n] = nodes[n]
                    ELSE FromLast(c, FoundBy(c, n), ns[n].trace)
           /\ \A j \in 1..N :
                 /\ Len(nodes) + j \in DOMAIN ns
                 /\ ns[Len(nodes) + j].trace.id = tx[c].batch[Nth(Created(c), j)].id
                 /\ FromLast(c, SameFrom(c, Nth(Created(c), j)), ns[Len(nodes) + j].trace)
           /\ \A n \in DOMAIN ns : n \in DOMAIN nodes \/ \E j \in 1..N : n = Len(nodes) + j
<1> DEFINE N == Cardinality(Created(c))
           b == tx[c].batch
           onto == tx[c].onto
           Fresh(j) == Merged(c, SameFrom(c, Nth(Created(c), j)), {}, {})
           Old(n) == IF FoundBy(c, n) = {} THEN nodes[n]
                     ELSE Merged(c, FoundBy(c, n), nodes[n].source, nodes[n].target)
           kept == [n \in DOMAIN nodes |-> Old(n)]
           made == [j \in 1..N |-> Fresh(j)]
           ns == storeCypher(c)
<1>1. /\ nodes \in Seq(Whole) /\ b \in Seq(ValidTrace) /\ onto \in Seq(SUBSET Nat)
      /\ Len(onto) =< Len(b)
  BY DEF TInv, Transaction, Fits
<1>2. Created(c) \in SUBSET DOMAIN onto /\ N \in Nat
  BY CreatedFacts
<1>3. ns = kept \o made
  BY DEF storeCypher, FoundBy, SameFrom
<1>4. ASSUME NEW n \in DOMAIN nodes
      PROVE  /\ Old(n) \in Whole /\ Old(n).trace.id = nodes[n].trace.id
             /\ FoundBy(c, n) # {} => FromLast(c, FoundBy(c, n), Old(n).trace)
  <2>1. nodes[n] \in Whole
    BY <1>1
  <2>2. CASE FoundBy(c, n) = {}
    BY <2>1, <2>2
  <2>3. CASE FoundBy(c, n) # {}
    <3>1. FoundBy(c, n) \in SUBSET DOMAIN tx[c].onto
      BY DEF FoundBy
    <3>2. \A k \in FoundBy(c, n) : tx[c].batch[k].id = nodes[n].trace.id
      BY DEF TInv, Fits, FoundBy, Named
    <3>3. /\ nodes[n].source \in SUBSET Element
          /\ nodes[n].source \subseteq UNION { Source[u] : u \in Versions(nodes[n].trace.id) }
          /\ nodes[n].target \in SUBSET Element
          /\ nodes[n].target \subseteq UNION { Target[u] : u \in Versions(nodes[n].trace.id) }
      BY <2>1 DEF Whole, Complete
    <3>4. /\ Merged(c, FoundBy(c, n), nodes[n].source, nodes[n].target) \in Whole
          /\ Merged(c, FoundBy(c, n), nodes[n].source, nodes[n].target).trace.id = nodes[n].trace.id
          /\ \E last \in FoundBy(c, n) :
                /\ \A k \in FoundBy(c, n) : k =< last
                /\ Merged(c, FoundBy(c, n), nodes[n].source, nodes[n].target).trace = tx[c].batch[last]
      BY <2>3, <3>1, <3>2, <3>3, MergedFacts
    <3> QED
      BY <2>3, <3>4 DEF FromLast
  <2> QED
    BY <2>2, <2>3
<1>5. ASSUME NEW j \in 1..N
      PROVE  /\ Fresh(j) \in Whole /\ Fresh(j).trace.id = b[Nth(Created(c), j)].id
             /\ FromLast(c, SameFrom(c, Nth(Created(c), j)), Fresh(j).trace)
  <2> DEFINE k == Nth(Created(c), j)
             turns == SameFrom(c, k)
             i == b[k].id
  <2>1. k \in DOMAIN onto
    BY <1>2, CreatedFacts
  <2>2. k \in Int /\ DOMAIN onto \subseteq Int
    BY <1>1, <2>1
  <2> HIDE DEF k
  <2>3. turns \in SUBSET DOMAIN tx[c].onto /\ turns # {}
    BY <2>1, <2>2 DEF SameFrom
  <2>4. \A m \in turns : tx[c].batch[m].id = i
    BY <2>1, <2>2 DEF SameFrom
  <2> HIDE DEF turns, i
  <2>5. \A s \in SUBSET Element : s \subseteq UNION { Source[u] : u \in Versions(i) } =>
        \A t \in SUBSET Element : t \subseteq UNION { Target[u] : u \in Versions(i) } =>
          /\ Merged(c, turns, s, t) \in Whole
          /\ Merged(c, turns, s, t).trace.id = i
          /\ \E last \in turns : /\ \A m \in turns : m =< last
                                /\ Merged(c, turns, s, t).trace = tx[c].batch[last]
    BY <2>3, <2>4, MergedFacts
  <2>6. /\ Merged(c, turns, {}, {}) \in Whole
        /\ Merged(c, turns, {}, {}).trace.id = i
        /\ \E last \in turns : /\ \A m \in turns : m =< last
                              /\ Merged(c, turns, {}, {}).trace = tx[c].batch[last]
    BY <2>5
  <2> QED
    BY <2>6 DEF FromLast, k, turns, i
<1> HIDE DEF Old, Fresh, ns, N
<1>6. kept \in Seq(Whole) /\ Len(kept) = Len(nodes) /\ DOMAIN kept = DOMAIN nodes
  BY <1>1, <1>4
<1>7. made \in Seq(Whole) /\ Len(made) = N /\ DOMAIN made = 1..N
  BY <1>2, <1>5
<1>8. /\ \A n \in DOMAIN nodes : kept[n] = Old(n)
      /\ \A j \in 1..N : made[j] = Fresh(j)
  OBVIOUS
<1> HIDE DEF kept, made
<1>9. /\ ns \in Seq(Whole) /\ Len(ns) = Len(kept) + Len(made)
      /\ \A n \in DOMAIN kept : n \in DOMAIN ns /\ ns[n] = kept[n]
      /\ \A j \in DOMAIN made : Len(kept) + j \in DOMAIN ns /\ ns[Len(kept) + j] = made[j]
      /\ \A n \in DOMAIN ns : n \in DOMAIN kept \/ \E j \in DOMAIN made : n = Len(kept) + j
  <2> HIDE DEF Whole
  <2>1. kept \o made \in Seq(Whole) /\ Len(kept \o made) = Len(kept) + Len(made)
    BY <1>6, <1>7
  <2>2. /\ \A i \in DOMAIN kept : i \in DOMAIN (kept \o made) /\ (kept \o made)[i] = kept[i]
        /\ \A i \in DOMAIN made : /\ Len(kept) + i \in DOMAIN (kept \o made)
                                /\ (kept \o made)[Len(kept) + i] = made[i]
    BY <1>6, <1>7
  <2>3. \A i \in DOMAIN (kept \o made) : i \in DOMAIN kept \/ i - Len(kept) \in DOMAIN made
    BY <1>6, <1>7
  <2>4. ASSUME NEW i \in DOMAIN (kept \o made), i \notin DOMAIN kept
        PROVE  \E j \in DOMAIN made : i = Len(kept) + j
    <3>1. i \in Int /\ Len(kept) \in Int
      BY <1>6, <1>7, <2>1
    <3> QED
      BY <2>3, <2>4, <3>1
  <2> QED
    BY <1>3, <2>1, <2>2, <2>4
<1>10. \A n \in DOMAIN nodes :
                 /\ n \in DOMAIN ns /\ ns[n].trace.id = nodes[n].trace.id
                 /\ IF FoundBy(c, n) = {} THEN ns[n] = nodes[n]
                    ELSE FromLast(c, FoundBy(c, n), ns[n].trace)
  <2> TAKE n \in DOMAIN nodes
  <2>1. n \in DOMAIN ns /\ ns[n] = Old(n)
    BY <1>6, <1>8, <1>9
  <2>2. FoundBy(c, n) = {} => Old(n) = nodes[n]
    BY DEF Old
  <2> QED
    BY <1>4, <2>1, <2>2
<1>11. \A j \in 1..N :
                 /\ Len(nodes) + j \in DOMAIN ns
                 /\ ns[Len(nodes) + j].trace.id = tx[c].batch[Nth(Created(c), j)].id
                 /\ FromLast(c, SameFrom(c, Nth(Created(c), j)), ns[Len(nodes) + j].trace)
  <2> TAKE j \in 1..N
  <2>1. Len(nodes) + j \in DOMAIN ns /\ ns[Len(nodes) + j] = Fresh(j)
    BY <1>6, <1>7, <1>8, <1>9
  <2> QED
    BY <1>5, <2>1
<1>12. \A n \in DOMAIN ns : n \in DOMAIN nodes \/ \E j \in 1..N : n = Len(nodes) + j
  BY <1>6, <1>7, <1>9
<1> QED
  BY <1>6, <1>7, <1>9, <1>10, <1>11, <1>12 DEF ns, N


(***************************************************************************)
(* Every step keeps the types and whole nodes.                              *)
(***************************************************************************)

\* A database whose nodes may be other ones, and more, keeps the nodes of an ID.
Grows == /\ nodes' \in Seq(Whole)
         /\ \A n \in DOMAIN nodes : n \in DOMAIN nodes' /\ nodes'[n].trace.id = nodes[n].trace.id

\* A commit is such a growth.
LEMMA CommitGrows ==
    ASSUME TInv, NEW c \in Caller, Commit(c)
    PROVE  Grows
<1> DEFINE ns == storeCypher(c)
<1>1. /\ ns \in Seq(Whole)
      /\ \A n \in DOMAIN nodes : n \in DOMAIN ns /\ ns[n].trace.id = nodes[n].trace.id
  BY CypherFacts
<1>2. nodes' = ns
  BY DEF Commit
<1> HIDE DEF ns
<1> QED
  BY <1>1, <1>2 DEF Grows

\* A growth keeps what a transaction of the same turns has found.
LEMMA NamedGrows ==
    ASSUME Grows, NEW i
    PROVE  Named(nodes, i) \subseteq Named(nodes', i)
  BY DEF Grows, Named

\* What a step does to the transactions: it ends one, begins one, takes it one
\* turn further, or begins it again.
Ends(c) == tx' = [tx EXCEPT ![c] = NoTx]
Begins(c, b) == \E attempt \in Nat : tx' = [tx EXCEPT ![c] = Open(c, b, attempt)]
Turns(c) ==
    /\ tx[c].open /\ Len(tx[c].onto) < Len(tx[c].batch)
    /\ tx' = [tx EXCEPT ![c].onto = Append(@, Named(nodes, tx[c].batch[Len(tx[c].onto) + 1].id))]

\* Each operation in these terms.
LEMMA StepRows ==
    ASSUME TInv, NEW c \in Caller
    PROVE  /\ \A b \in Batch : StoreRefused(c, b) => Ends(c) /\ UNCHANGED nodes
           /\ StoreNothing(c) => Ends(c) /\ UNCHANGED nodes
           /\ \A b \in Batch : ExecuteWrite(c, b) =>
                 b \in Seq(ValidTrace) /\ Begins(c, b) /\ UNCHANGED nodes
           /\ Run(c) => Turns(c) /\ UNCHANGED nodes
           /\ Commit(c) => Ends(c)
           /\ Rollback(c) =>
                 tx[c].open /\ (Ends(c) \/ Begins(c, tx[c].batch)) /\ UNCHANGED nodes
<1>1. ASSUME NEW b \in Batch, ExecuteWrite(c, b) PROVE b \in Seq(ValidTrace)
  <2>1. b \in Seq(Trace) /\ \A k \in DOMAIN b : b[k] \in ValidTrace
    BY <1>1, Neo4jAssumption DEF ExecuteWrite
  <2> QED
    BY <2>1
<1>2. tx[c].attempt + 1 \in Nat
  BY DEF TInv, Transaction
<1>3. ASSUME Rollback(c)
      PROVE  tx[c].open /\ (Ends(c) \/ Begins(c, tx[c].batch)) /\ UNCHANGED nodes
  BY <1>2, <1>3 DEF Rollback, StoreReturns, Ends, Begins
<1>4. ASSUME NEW b \in Batch, ExecuteWrite(c, b) PROVE Begins(c, b) /\ UNCHANGED nodes
  BY <1>4 DEF ExecuteWrite, Begins
<1> QED
  BY <1>1, <1>3, <1>4 DEF StoreRefused, StoreNothing, Run, Commit, StoreReturns, Ends, Turns

\* A transaction that ends leaves its caller without one.
LEMMA EndsFacts ==
    ASSUME TInv, NEW c \in Caller, Ends(c)
    PROVE  /\ tx' \in [Caller -> Transaction]
           /\ tx'[c] = NoTx /\ ~NoTx.open /\ NoTx.batch = <<>> /\ NoTx.onto = <<>>
           /\ \A d \in Caller : d # c => tx'[d] = tx[d]
<1>1. NoTx \in Transaction /\ ~NoTx.open /\ NoTx.batch = <<>> /\ NoTx.onto = <<>>
  BY DEF NoTx, Transaction
<1> QED
  BY <1>1 DEF TInv, Ends

\* A transaction that begins has its batch and has taken no turn.
LEMMA BeginsFacts ==
    ASSUME TInv, NEW c \in Caller, NEW b \in Seq(ValidTrace), Begins(c, b)
    PROVE  /\ tx' \in [Caller -> Transaction]
           /\ tx'[c].open /\ tx'[c].batch = b /\ tx'[c].onto = <<>>
           /\ \A d \in Caller : d # c => tx'[d] = tx[d]
<1>1. PICK attempt \in Nat : tx' = [tx EXCEPT ![c] = Open(c, b, attempt)]
  BY DEF Begins
<1> DEFINE o == Open(c, b, attempt)
<1>2. o \in Transaction /\ o.open /\ o.batch = b /\ o.onto = <<>>
  BY DEF Open, Transaction
<1> HIDE DEF o
<1> QED
  BY <1>1, <1>2 DEF TInv, o

\* A turn adds the nodes it has found.
LEMMA TurnsFacts ==
    ASSUME TInv, NEW c \in Caller, Turns(c)
    PROVE  LET found == Named(nodes, tx[c].batch[Len(tx[c].onto) + 1].id) IN
           /\ tx' \in [Caller -> Transaction]
           /\ tx'[c].open = tx[c].open /\ tx'[c].batch = tx[c].batch
           /\ tx'[c].onto = Append(tx[c].onto, found)
           /\ \A d \in Caller : d # c => tx'[d] = tx[d]
<1> DEFINE found == Named(nodes, tx[c].batch[Len(tx[c].onto) + 1].id)
           o == [tx[c] EXCEPT !.onto = Append(tx[c].onto, found)]
<1>1. found \in SUBSET Nat
  BY DEF Named, TInv
<1>2. tx[c] \in Transaction /\ tx' = [tx EXCEPT ![c] = o]
  BY DEF TInv, Turns
<1> HIDE DEF found
<1>3. o \in Transaction /\ o.open = tx[c].open /\ o.batch = tx[c].batch /\ o.onto = Append(tx[c].onto, found)
  <2> DEFINE r == tx[c]
             q == Append(tx[c].onto, found)
  <2>1. tx[c].onto \in Seq(SUBSET Nat)
    BY <1>2 DEF Transaction
  <2>2. q \in Seq(SUBSET Nat)
    BY <1>1, <2>1
  <2>3. r \in Transaction /\ o = [r EXCEPT !.onto = q]
    BY <1>2
  <2> HIDE DEF r, q, o
  <2>4. o \in Transaction /\ o.open = r.open /\ o.batch = r.batch /\ o.onto = q
    BY <2>2, <2>3 DEF Transaction
  <2> QED
    BY <2>4 DEF r, q
<1> HIDE DEF o
<1> QED
  BY <1>2, <1>3 DEF TInv, found


\* No transaction has begun.
LEMMA TypesStart ==
    ASSUME WholeStart, Init
    PROVE  TInv
<1>1. NoTx \in Transaction /\ ~NoTx.open /\ NoTx.batch = <<>> /\ NoTx.onto = <<>>
  BY DEF NoTx, Transaction
<1>2. nodes \in Seq(Whole)
  BY DEF Init, WholeStart
<1>3. tx \in [Caller -> Transaction] /\ \A c \in Caller : tx[c] = NoTx
  BY <1>1 DEF Init
<1>4. ASSUME NEW c \in Caller PROVE Fits(c)
  BY <1>1, <1>3 DEF Fits
<1> QED
  BY <1>2, <1>3, <1>4 DEF TInv, Init

\* A transaction that goes on as it was fits nodes that have grown.
LEMMA FitsStays ==
    ASSUME TInv, Grows \/ UNCHANGED nodes, NEW d \in Caller, tx'[d] = tx[d]
    PROVE  Fits(d)'
<1>1. \A i : Named(nodes, i) \subseteq Named(nodes', i)
  BY NamedGrows
<1>2. Named(nodes, tx[d].batch[1].id)' = Named(nodes', tx'[d].batch[1].id)
  BY DEF Named
<1>3. \A k : Named(nodes, tx[d].batch[k].id)' = Named(nodes', tx[d].batch[k].id)
  BY DEF Named
<1>4. Fits(d)
  BY DEF TInv
<1> QED
  BY <1>1, <1>3, <1>4 DEF Fits

\* Every step keeps types and fitting transactions.
LEMMA TypesKept ==
    ASSUME TInv, [Next]_vars
    PROVE  TInv'
<1>0. reply' \in [Caller -> {"none", "ok", "error"}]
  <2>1. reply' = reply \/ \E c \in Caller : \E r \in {"none", "ok", "error"} :
                             reply' = [reply EXCEPT ![c] = r]
    BY DEF Next, vars, StoreRefused, ExecuteWrite, StoreNothing, Run, Commit, Rollback, StoreReturns
  <2> QED
    BY <2>1 DEF TInv
<1>1. CASE UNCHANGED vars
  <2>1. \A c \in Caller : Fits(c)'
    BY <1>1, FitsStays DEF vars
  <2> QED
    BY <1>0, <1>1, <2>1 DEF vars, TInv
<1>2. ASSUME NEW c \in Caller, Ends(c), Grows \/ UNCHANGED nodes
      PROVE  TInv'
  <2>1. /\ tx' \in [Caller -> Transaction]
        /\ tx'[c] = NoTx /\ ~NoTx.open /\ NoTx.batch = <<>> /\ NoTx.onto = <<>>
        /\ \A d \in Caller : d # c => tx'[d] = tx[d]
    BY <1>2, EndsFacts
  <2>2. Fits(c)'
    BY <2>1 DEF Fits
  <2>3. \A d \in Caller : Fits(d)'
    BY <1>2, <2>1, <2>2, FitsStays
  <2>4. nodes' \in Seq(Whole)
    BY <1>2 DEF TInv, Grows
  <2> QED
    BY <1>0, <2>1, <2>3, <2>4 DEF TInv
<1>3. ASSUME NEW c \in Caller, NEW b \in Seq(ValidTrace), b \in Batch,
             Begins(c, b), UNCHANGED nodes
      PROVE  TInv'
  <2>1. /\ tx' \in [Caller -> Transaction]
        /\ tx'[c].open /\ tx'[c].batch = b /\ tx'[c].onto = <<>>
        /\ \A d \in Caller : d # c => tx'[d] = tx[d]
    BY <1>3, BeginsFacts
  <2>2. Fits(c)'
    BY <1>3, <2>1 DEF Fits
  <2>3. \A d \in Caller : Fits(d)'
    BY <1>3, <2>1, <2>2, FitsStays
  <2> QED
    BY <1>0, <1>3, <2>1, <2>3 DEF TInv
<1>4. ASSUME NEW c \in Caller, Turns(c), UNCHANGED nodes
      PROVE  TInv'
  <2> DEFINE found == Named(nodes, tx[c].batch[Len(tx[c].onto) + 1].id)
  <2>1. /\ tx' \in [Caller -> Transaction]
        /\ tx'[c].open = tx[c].open /\ tx'[c].batch = tx[c].batch
        /\ tx'[c].onto = Append(tx[c].onto, found)
        /\ \A d \in Caller : d # c => tx'[d] = tx[d]
    BY <1>4, TurnsFacts
  <2>2. Fits(c)'
    <3>1. /\ tx[c].batch \in Batch /\ tx[c].open
          /\ Len(tx[c].onto) < Len(tx[c].batch)
          /\ tx[c].onto \in Seq(SUBSET Nat) /\ tx[c].batch \in Seq(ValidTrace)
          /\ \A k \in DOMAIN tx[c].onto : tx[c].onto[k] \subseteq Named(nodes, tx[c].batch[k].id)
      BY <1>4 DEF TInv, Fits, Turns, Transaction
    <3>2. \A k : Named(nodes, tx[c].batch[k].id)' = Named(nodes, tx'[c].batch[k].id)
      BY <1>4 DEF Named
    <3> DEFINE onto == tx[c].onto
    <3> HIDE DEF found, onto
    <3>3. /\ Len(Append(onto, found)) = Len(onto) + 1
          /\ \A k \in DOMAIN Append(onto, found) :
                \/ k \in DOMAIN onto /\ Append(onto, found)[k] = onto[k]
                \/ k = Len(onto) + 1 /\ Append(onto, found)[k] = found
      <4>1. onto \in Seq(SUBSET Nat) /\ found \in SUBSET Nat
        BY <3>1 DEF found, onto, Named, TInv
      <4> QED
        BY <4>1
    <3>4. \A k \in DOMAIN Append(onto, found) :
             Append(onto, found)[k] \subseteq Named(nodes, tx[c].batch[k].id)
      BY <3>1, <3>3 DEF found, onto
    <3>6. ASSUME NEW j \in DOMAIN Append(onto, found), NEW k \in DOMAIN Append(onto, found),
                 j < k, tx[c].batch[j].id = tx[c].batch[k].id
          PROVE  Append(onto, found)[j] \subseteq Append(onto, found)[k]
      <4>1. onto \in Seq(SUBSET Nat)
        BY <3>1 DEF onto
      <4>2. j \in DOMAIN onto /\ Append(onto, found)[j] = onto[j]
        BY <3>3, <3>6, <4>1
      <4>3. CASE k \in DOMAIN onto /\ Append(onto, found)[k] = onto[k]
        BY <3>6, <4>2, <4>3 DEF TInv, Fits, onto
      <4>4. CASE k = Len(onto) + 1 /\ Append(onto, found)[k] = found
        <5>1. onto[j] \subseteq Named(nodes, tx[c].batch[j].id)
          BY <3>1, <4>2 DEF onto
        <5>2. found = Named(nodes, tx[c].batch[k].id)
          BY <4>4 DEF found, onto
        <5> QED
          BY <3>6, <4>2, <4>4, <5>1, <5>2
      <4> QED
        BY <3>3, <4>3, <4>4
    <3>5. Len(tx'[c].onto) =< Len(tx'[c].batch)
      <4>1. Len(onto) \in Nat /\ Len(tx[c].batch) \in Nat
        BY <3>1 DEF onto
      <4> QED
        BY <2>1, <3>1, <3>3, <4>1 DEF onto
    <3> QED
      BY <2>1, <3>1, <3>2, <3>4, <3>5, <3>6 DEF Fits, onto
  <2>3. \A d \in Caller : Fits(d)'
    BY <1>4, <2>1, <2>2, FitsStays
  <2> QED
    BY <1>0, <1>4, <2>1, <2>3 DEF TInv
<1>5. ASSUME NEW c \in Caller
      PROVE  tx[c].batch \in Seq(ValidTrace) /\ (tx[c].open => tx[c].batch \in Batch)
  BY DEF TInv, Fits, Transaction
<1>6. CASE Next
  <2>1. PICK c \in Caller :
          \/ \E b \in Batch : StoreRefused(c, b) \/ ExecuteWrite(c, b)
          \/ StoreNothing(c) \/ Run(c) \/ Commit(c) \/ Rollback(c)
    BY <1>6 DEF Next
  <2>2. CASE Commit(c)
    BY <2>2, CommitGrows, StepRows, <1>2
  <2>3. CASE Rollback(c)
    BY <2>3, StepRows, <1>2, <1>3, <1>5
  <2>4. CASE Run(c)
    BY <2>4, StepRows, <1>4
  <2>5. ASSUME NEW b \in Batch, StoreRefused(c, b) \/ ExecuteWrite(c, b) PROVE TInv'
    BY <2>5, StepRows, <1>2, <1>3
  <2>6. CASE StoreNothing(c)
    BY <2>6, StepRows, <1>2
  <2> QED
    BY <2>1, <2>2, <2>3, <2>4, <2>5, <2>6
<1> QED
  BY <1>1, <1>6

\* From a database of whole nodes, types and whole nodes hold for good.
LEMMA TypesInvariant ==
    ASSUME WholeStart
    PROVE  Spec => []TInv
  BY TypesStart, TypesKept, PTL DEF Spec

\* Whatever callers overlap, coordinated or not, through retries and lost
\* answers, Get finds no node without an element of its trace, and none with an
\* element no version of it names (storeCypher).
THEOREM ElementsKept ==
    ASSUME WholeStart
    PROVE  Spec => []NoElementIsMissing
<1>1. TInv => NoElementIsMissing
  <2> SUFFICES ASSUME TInv, NEW i \in TraceID, NEW n \in Named(nodes, i)
               PROVE  LET g == nodes[n] IN
                      /\ Source[g.trace] \subseteq g.source
                      /\ g.source \subseteq UNION { Source[u] : u \in Versions(i) }
                      /\ Target[g.trace] \subseteq g.target
                      /\ g.target \subseteq UNION { Target[u] : u \in Versions(i) }
    BY DEF NoElementIsMissing, Get
  <2>1. nodes[n] \in Whole /\ nodes[n].trace.id = i
    BY DEF TInv, Named
  <2> QED
    BY <2>1 DEF Whole, Complete
<1> QED
  BY <1>1, TypesInvariant, PTL


(***************************************************************************)
(* A batch takes effect as a whole, whoever else stores.                    *)
(***************************************************************************)

IDsIn(b) == { b[k].id : k \in DOMAIN b }

\* What a commit of c leaves under an ID: nodes as they were, where the batch
\* does not have the ID; otherwise a node with the batch's last trace of the ID,
\* and beside it only nodes that others made and c has not found.
LEMMA CommitNames ==
    ASSUME TInv, NEW c \in Caller, Commit(c), NEW i
    PROVE  LET b == tx[c].batch IN
           /\ i \notin IDsIn(b) => /\ Named(nodes', i) = Named(nodes, i)
                                   /\ \A n \in Named(nodes, i) : nodes'[n] = nodes[n]
           /\ \A k \in LastPositions(b, i) :
                 /\ \E n \in Named(nodes', i) : nodes'[n].trace = b[k]
                 /\ \A n \in Named(nodes', i) :
                       \/ nodes'[n].trace = b[k]
                       \/ n \in Named(nodes, i) /\ nodes'[n] = nodes[n]
<1> DEFINE b == tx[c].batch
           onto == tx[c].onto
           C == Created(c)
           N == Cardinality(C)
           ns == storeCypher(c)
<1>1. /\ nodes \in Seq(Whole) /\ b \in Seq(ValidTrace) /\ onto \in Seq(SUBSET Nat)
      /\ Len(onto) = Len(b)
  BY DEF TInv, Transaction, Commit
<1>2. /\ DOMAIN onto = 1..Len(b) /\ DOMAIN b = 1..Len(b) /\ Len(b) \in Nat
      /\ DOMAIN nodes = 1..Len(nodes) /\ Len(nodes) \in Nat
  BY <1>1
<1>3. /\ \A k \in DOMAIN b : onto[k] \subseteq Named(nodes, b[k].id)
      /\ \A j, k \in DOMAIN b : j < k /\ b[j].id = b[k].id => onto[j] \subseteq onto[k]
  BY <1>2 DEF TInv, Fits
<1>4. /\ C \in SUBSET DOMAIN onto /\ N \in Nat
      /\ \A j \in 1..N : Nth(C, j) \in C
      /\ \A k \in C : \E j \in 1..N : Nth(C, j) = k
  BY CreatedFacts
<1>5. /\ \A n \in DOMAIN nodes :
            /\ n \in DOMAIN ns /\ ns[n].trace.id = nodes[n].trace.id
            /\ FoundBy(c, n) = {} => ns[n] = nodes[n]
            /\ FoundBy(c, n) # {} => FromLast(c, FoundBy(c, n), ns[n].trace)
      /\ \A j \in 1..N :
            /\ Len(nodes) + j \in DOMAIN ns
            /\ ns[Len(nodes) + j].trace.id = b[Nth(C, j)].id
            /\ FromLast(c, SameFrom(c, Nth(C, j)), ns[Len(nodes) + j].trace)
      /\ \A n \in DOMAIN ns : n \in DOMAIN nodes \/ \E j \in 1..N : n = Len(nodes) + j
  BY CypherFacts
<1>6. nodes' = ns
  BY DEF Commit
<1>7. \A k \in DOMAIN b : onto[k] = {} /\ (\A j \in 1..(k - 1) : b[j].id # b[k].id) => k \in C
  BY <1>2 DEF Created
<1> HIDE DEF ns, N, C
<1>8. \A n \in Named(ns, i) : \/ n \in Named(nodes, i)
                              \/ \E j \in 1..N : n = Len(nodes) + j /\ b[Nth(C, j)].id = i
  BY <1>5 DEF Named
<1>9. Named(nodes, i) \subseteq Named(ns, i)
  BY <1>5 DEF Named
<1>10. ASSUME i \notin IDsIn(b)
       PROVE  Named(ns, i) = Named(nodes, i) /\ \A n \in Named(nodes, i) : ns[n] = nodes[n]
  <2>1. \A j \in 1..N : b[Nth(C, j)].id \in IDsIn(b)
    BY <1>2, <1>4 DEF IDsIn
  <2>2. ASSUME NEW n \in Named(nodes, i) PROVE FoundBy(c, n) = {}
    <3> SUFFICES ASSUME NEW k \in FoundBy(c, n) PROVE FALSE
      OBVIOUS
    <3>1. k \in DOMAIN b /\ n \in onto[k]
      BY <1>2 DEF FoundBy
    <3>2. b[k].id = i
      BY <1>3, <2>2, <3>1 DEF Named
    <3> QED
      BY <1>10, <3>1, <3>2 DEF IDsIn
  <2> QED
    BY <1>5, <1>8, <1>9, <1>10, <2>1, <2>2 DEF Named
<1>11. ASSUME NEW k \in LastPositions(b, i)
       PROVE  /\ \E n \in Named(ns, i) : ns[n].trace = b[k]
              /\ \A n \in Named(ns, i) : \/ ns[n].trace = b[k]
                                         \/ n \in Named(nodes, i) /\ ns[n] = nodes[n]
  <2>1. k \in DOMAIN b /\ b[k].id = i /\ \A j \in DOMAIN b : b[j].id = i => j =< k
    BY <1>2 DEF LastPositions
  <2>2. ASSUME NEW n \in Named(nodes, i), FoundBy(c, n) # {}
        PROVE  ns[n].trace = b[k]
    <3>1. PICK last \in FoundBy(c, n) : (\A m \in FoundBy(c, n) : m =< last) /\ ns[n].trace = b[last]
      BY <1>5, <2>2 DEF FromLast, Named
    <3>2. last \in DOMAIN b /\ n \in onto[last]
      BY <1>2 DEF FoundBy
    <3>3. b[last].id = i
      BY <1>3, <2>2, <3>2 DEF Named
    <3>4. last =< k /\ last \in Int /\ k \in Int
      BY <1>2, <2>1, <3>2, <3>3
    <3>5. n \in onto[k]
      BY <1>3, <2>1, <3>2, <3>3, <3>4
    <3>6. k \in FoundBy(c, n)
      BY <1>2, <2>1, <3>5 DEF FoundBy
    <3> QED
      BY <3>1, <3>4, <3>6
  <2>3. ASSUME NEW j \in 1..N, b[Nth(C, j)].id = i
        PROVE  ns[Len(nodes) + j].trace = b[k]
    <3> DEFINE first == Nth(C, j)
    <3>1. first \in DOMAIN b
      BY <1>2, <1>4
    <3>2. PICK last \in SameFrom(c, first) :
             /\ \A m \in SameFrom(c, first) : m =< last
             /\ ns[Len(nodes) + j].trace = b[last]
      BY <1>5 DEF FromLast
    <3> HIDE DEF first
    <3>3. last \in DOMAIN b /\ b[last].id = i
      BY <1>2, <2>3, <3>2 DEF SameFrom, first
    <3>4. first =< k /\ last =< k /\ last \in Int /\ k \in Int /\ first \in Int
      BY <1>2, <2>1, <2>3, <3>1, <3>3 DEF first
    <3>5. k \in SameFrom(c, first)
      BY <1>2, <2>1, <2>3, <3>4 DEF SameFrom, first
    <3> QED
      BY <3>2, <3>4, <3>5
  <2>4. CASE onto[k] # {}
    <3>1. PICK n \in onto[k] : n \in Named(nodes, i)
      BY <1>3, <2>1, <2>4
    <3>2. k \in FoundBy(c, n)
      BY <1>2, <2>1, <3>1 DEF FoundBy
    <3>3. n \in Named(ns, i) /\ ns[n].trace = b[k]
      BY <1>9, <2>2, <3>1, <3>2
    <3> QED
      BY <1>5, <1>8, <2>2, <2>3, <3>3 DEF Named
  <2>5. CASE onto[k] = {}
    <3> DEFINE K == { j \in DOMAIN b : b[j].id = i }
    <3>1. PICK first \in K : \A j \in K : first =< j
      <4>1. K # {} /\ K \in SUBSET DOMAIN b
        BY <2>1
      <4> HIDE DEF K
      <4>2. K \in SUBSET Int /\ IsFiniteSet(K)
        BY <1>1, <4>1, Places
      <4> QED
        BY <4>1, <4>2, FirstAndLast
    <3>2. first \in DOMAIN b /\ b[first].id = i /\ first =< k
      BY <2>1, <3>1
    <3>3. onto[first] = {}
      <4>1. CASE first = k
        BY <2>5, <4>1
      <4>2. CASE first # k
        <5>1. first < k
          BY <1>2, <2>1, <3>2, <4>2
        <5> QED
          BY <1>3, <2>1, <2>5, <3>2, <5>1
      <4> QED
        BY <4>1, <4>2
    <3>4. \A j \in 1..(first - 1) : b[j].id # b[first].id
      BY <1>2, <3>1, <3>2
    <3>5. first \in C
      BY <1>7, <3>2, <3>3, <3>4
    <3>6. PICK j \in 1..N : Nth(C, j) = first
      BY <1>4, <3>5
    <3>7. Len(nodes) + j \in Named(ns, i) /\ ns[Len(nodes) + j].trace = b[k]
      BY <1>5, <2>3, <3>2, <3>6 DEF Named
    <3> QED
      BY <1>5, <1>8, <2>2, <2>3, <3>7 DEF Named
  <2> QED
    BY <2>4, <2>5
<1> QED
  BY <1>6, <1>10, <1>11

\* The nodes of an ID, and their traces, now and after a step.
LEMMA GetFacts ==
    ASSUME NEW i
    PROVE  /\ Get(i) = { nodes[n] : n \in Named(nodes, i) }
           /\ Get(i)' = { nodes'[n] : n \in Named(nodes', i) }
           /\ Held(i) = { nodes[n].trace : n \in Named(nodes, i) }
           /\ Held(i)' = { nodes'[n].trace : n \in Named(nodes', i) }
  BY DEF Get, Held, Named

\* A commit is the moment a batch takes effect, and it is a batch of valid traces.
LEMMA CommitTakes ==
    ASSUME TInv, NEW c \in Caller, Commit(c)
    PROVE  /\ tx[c].batch \in Batch
           /\ \A k \in DOMAIN tx[c].batch : tx[c].batch[k] \in ValidTrace
           /\ TakesEffect(tx[c].batch)
<1> DEFINE b == tx[c].batch
<1>1. b \in Batch
  BY DEF TInv, Fits, Commit
<1>2. b \in Seq(ValidTrace)
  BY DEF TInv, Transaction
<1>3. \A k \in DOMAIN b : b[k] \in ValidTrace
  BY <1>2
<1>4. ASSUME NEW i \in TraceID, LastPositions(b, i) = {}
      PROVE  Get(i)' = Get(i)
  <2>1. i \notin IDsIn(b)
    BY <1>2, <1>4, LastPosition DEF IDsIn
  <2> HIDE DEF b
  <2>2. /\ Named(nodes', i) = Named(nodes, i)
        /\ \A n \in Named(nodes, i) : nodes'[n] = nodes[n]
    BY <2>1, CommitNames DEF b
  <2>3. { nodes'[n] : n \in Named(nodes', i) } = { nodes[n] : n \in Named(nodes, i) }
    BY <2>2
  <2>4. /\ Get(i) = { nodes[n] : n \in Named(nodes, i) }
        /\ Get(i)' = { nodes'[n] : n \in Named(nodes', i) }
    BY GetFacts
  <2> QED
    BY <2>3, <2>4
<1>5. ASSUME NEW i \in TraceID, NEW k \in LastPositions(b, i)
      PROVE  b[k] \in Held(i)' /\ Held(i)' \subseteq Held(i) \cup {b[k]}
  <2>1. /\ \E n \in Named(nodes', i) : nodes'[n].trace = b[k]
        /\ \A n \in Named(nodes', i) :
              \/ nodes'[n].trace = b[k]
              \/ n \in Named(nodes, i) /\ nodes'[n] = nodes[n]
    BY <1>5, CommitNames
  <2> QED
    BY <2>1, GetFacts
<1> QED
  BY <1>1, <1>3, <1>4, <1>5 DEF TakesEffect

\* Only a commit changes nodes, or says of a transaction that all went well.
LEMMA OnlyCommits ==
    ASSUME TInv, [Next]_vars
    PROVE  /\ nodes' # nodes => \E c \in Caller : Commit(c)
           /\ \A c \in Caller : tx[c].open /\ ~tx'[c].open /\ reply'[c] = "ok" => Commit(c)
<1>1. CASE UNCHANGED vars
  BY <1>1 DEF vars
<1>2. CASE Next
  <2>1. PICK d \in Caller :
          \/ \E b \in Batch : StoreRefused(d, b) \/ ExecuteWrite(d, b)
          \/ StoreNothing(d) \/ Run(d) \/ Commit(d) \/ Rollback(d)
    BY <1>2 DEF Next
  <2>2. ~Commit(d) => UNCHANGED nodes
    BY <2>1, StepRows
  <2>3. \A c \in Caller : c # d => tx'[c] = tx[c]
    <3>1. \/ \E r : tx' = [tx EXCEPT ![d] = r]
          \/ \E s : tx' = [tx EXCEPT ![d].onto = s]
      BY <2>1 DEF StoreRefused, ExecuteWrite, StoreNothing, Run, Commit, Rollback, StoreReturns
    <3> QED
      BY <3>1 DEF TInv
  <2>4. ASSUME tx[d].open, ~tx'[d].open, reply'[d] = "ok", ~Commit(d)
        PROVE  FALSE
    <3>1. CASE Run(d)
      <4>1. tx'[d].open = tx[d].open
        BY <3>1, StepRows, TurnsFacts
      <4> QED
        BY <2>4, <4>1
    <3>2. CASE Rollback(d)
      <4>1. CASE tx' = [tx EXCEPT ![d] = Open(d, tx[d].batch, tx[d].attempt + 1)]
        BY <2>4, <4>1 DEF TInv, Open
      <4>2. CASE StoreReturns(d, "error")
        <5>1. reply' = [reply EXCEPT ![d] = "error"]
          BY <4>2 DEF StoreReturns
        <5> QED
          BY <2>4, <5>1 DEF TInv
      <4> QED
        BY <3>2, <4>1, <4>2 DEF Rollback
    <3>3. /\ ~StoreNothing(d)
          /\ \A b \in Batch : ~StoreRefused(d, b) /\ ~ExecuteWrite(d, b)
      BY <2>4 DEF StoreRefused, ExecuteWrite, StoreNothing
    <3> QED
      BY <2>1, <2>4, <3>1, <3>2, <3>3
  <2> QED
    BY <2>1, <2>2, <2>3, <2>4
<1> QED
  BY <1>1, <1>2

\* For any number of callers, coordinated or not: the database changes by whole
\* batches of valid traces only, and each Store that returns nil has taken effect
\* then (Store, storeCypher).
THEOREM StoresWhole ==
    ASSUME WholeStart
    PROVE  Spec => StoresAreWhole
<1>1. ASSUME TInv, [Next]_vars
      PROVE  /\ nodes' # nodes => \E b \in Batch : /\ \A k \in DOMAIN b : b[k] \in ValidTrace
                                                  /\ TakesEffect(b)
             /\ \A c \in Caller : tx[c].open /\ ~tx'[c].open /\ reply'[c] = "ok" =>
                                   TakesEffect(tx[c].batch)
  <2>1. \A c \in Caller : Commit(c) => /\ tx[c].batch \in Batch
                                       /\ \A k \in DOMAIN tx[c].batch : tx[c].batch[k] \in ValidTrace
                                       /\ TakesEffect(tx[c].batch)
    BY <1>1, CommitTakes
  <2> QED
    BY <1>1, <2>1, OnlyCommits
<1> QED
  BY <1>1, TypesInvariant, PTL DEF Spec, StoresAreWhole


(***************************************************************************)
(* Where no ID is on two nodes that is what TraceStore promises.            *)
(***************************************************************************)

\* The trace that nodes ns hold under an ID.
Under(ns, i) == IF Named(ns, i) = {} THEN NoTrace
                ELSE (CHOOSE g \in { ns[n] : n \in Named(ns, i) } : TRUE).trace

\* The promised map is read off the nodes.
LEMMA UnderIsStored ==
    /\ \A i : StoredUnder(i) = Under(nodes, i)
    /\ \A i : StoredUnder(i)' = Under(nodes', i)
    /\ [i \in TraceID |-> StoredUnder(i)] = [i \in TraceID |-> Under(nodes, i)]
    /\ [i \in TraceID |-> StoredUnder(i)]' = [i \in TraceID |-> Under(nodes', i)]
<1>1. \A i : StoredUnder(i) = Under(nodes, i)
  BY DEF StoredUnder, Get, Under
<1>2. \A i : StoredUnder(i)' = Under(nodes', i)
  BY DEF StoredUnder, Get, Under, Named
<1> QED
  BY <1>1, <1>2

\* It depends on the nodes of that ID only.
LEMMA SameUnder ==
    ASSUME NEW ms, NEW ns, NEW i, Named(ms, i) = Named(ns, i),
           { ms[n] : n \in Named(ms, i) } = { ns[n] : n \in Named(ns, i) }
    PROVE  Under(ms, i) = Under(ns, i)
<1> DEFINE G == { ms[n] : n \in Named(ms, i) }
           H == { ns[n] : n \in Named(ns, i) }
<1>1. G = H
  OBVIOUS
<1>2. /\ Under(ms, i) = IF Named(ms, i) = {} THEN NoTrace ELSE (CHOOSE g \in G : TRUE).trace
      /\ Under(ns, i) = IF Named(ns, i) = {} THEN NoTrace ELSE (CHOOSE g \in H : TRUE).trace
  BY DEF Under
<1> HIDE DEF G, H
<1> QED
  BY <1>1, <1>2

\* Where one node has an ID, its trace is what is stored under it.
LEMMA UnderOne ==
    ASSUME NEW ns, NEW i, NEW n, Named(ns, i) = {n}
    PROVE  Under(ns, i) = ns[n].trace
<1>1. { ns[m] : m \in Named(ns, i) } = {ns[n]} /\ Named(ns, i) # {}
  OBVIOUS
<1>2. (CHOOSE g \in {ns[n]} : TRUE) = ns[n]
  OBVIOUS
<1> QED
  BY <1>1, <1>2 DEF Under

\* What is stored under an ID is a trace or none.
LEMMA UnderType ==
    ASSUME TInv
    PROVE  [i \in TraceID |-> Under(nodes, i)] \in Maps
<1>1. ASSUME NEW i \in TraceID PROVE Under(nodes, i) \in Trace \cup {NoTrace}
  <2>1. CASE Named(nodes, i) = {}
    BY <2>1 DEF Under
  <2>2. CASE Named(nodes, i) # {}
    <3> DEFINE G == { nodes[n] : n \in Named(nodes, i) }
    <3>1. G # {} /\ G \subseteq Whole
      BY <2>2 DEF TInv, Named
    <3> HIDE DEF G
    <3>2. (CHOOSE g \in G : TRUE) \in Whole
      BY <3>1
    <3>3. (CHOOSE g \in G : TRUE).trace \in Trace
      BY <3>2, TraceAssumption DEF Whole
    <3> QED
      BY <2>2, <3>3 DEF Under, G
  <2> QED
    BY <2>1, <2>2
<1> QED
  BY <1>1 DEF Maps

\* A commit that leaves each ID on one node puts the batch into the map.
LEMMA CommitStores ==
    ASSUME TInv, NEW c \in Caller, Commit(c), OneNodeEach'
    PROVE  [i \in TraceID |-> Under(nodes', i)]
              = Upsert([i \in TraceID |-> Under(nodes, i)], tx[c].batch)
<1> DEFINE b == tx[c].batch
<1>1. b \in Seq(ValidTrace)
  BY DEF TInv, Transaction
<1>2. ASSUME NEW i \in TraceID
      PROVE  Under(nodes', i) = IF LastPositions(b, i) = {} THEN Under(nodes, i)
                                ELSE b[CHOOSE k \in LastPositions(b, i) : TRUE]
  <2>1. /\ i \notin IDsIn(b) => /\ Named(nodes', i) = Named(nodes, i)
                                /\ \A n \in Named(nodes, i) : nodes'[n] = nodes[n]
        /\ \A k \in LastPositions(b, i) : \E n \in Named(nodes', i) : nodes'[n].trace = b[k]
    BY CommitNames
  <2>2. LastPositions(b, i) # {} <=> i \in IDsIn(b)
    BY <1>1, LastPosition DEF IDsIn
  <2>3. CASE i \notin IDsIn(b)
    <3>1. { nodes'[n] : n \in Named(nodes', i) } = { nodes[n] : n \in Named(nodes, i) }
      BY <2>1, <2>3
    <3>2. Named(nodes', i) = Named(nodes, i)
      BY <2>1, <2>3
    <3>3. Under(nodes', i) = Under(nodes, i)
      BY <3>1, <3>2, SameUnder
    <3> QED
      BY <2>2, <2>3, <3>3
  <2>4. CASE i \in IDsIn(b)
    <3> DEFINE k == CHOOSE k \in LastPositions(b, i) : TRUE
    <3>1. k \in LastPositions(b, i)
      BY <2>2, <2>4
    <3> HIDE DEF k
    <3>2. PICK n \in Named(nodes', i) : nodes'[n].trace = b[k]
      BY <2>1, <3>1
    <3>3. \A m \in Named(nodes', i) : m = n
      BY DEF OneNodeEach, Named
    <3>4. Under(nodes', i) = nodes'[n].trace
      BY <3>2, <3>3, UnderOne
    <3> QED
      BY <3>1, <3>2, <3>4 DEF k
  <2> QED
    BY <2>3, <2>4
<1> QED
  BY <1>2 DEF Upsert

\* The two upserts are one operator.
LEMMA PromiseUpsert == \A m, s : Promise!Upsert(m, s) = Upsert(m, s)
BY DEF Promise!Upsert, Upsert, Promise!LastPositions, LastPositions

\* Every change that leaves each ID on one node is a step of the promised store.
LEMMA StepImplements ==
    ASSUME TInv, NEW c \in Caller, Commit(c), OneNodeEach'
    PROVE  Promise!Next
<1> DEFINE old == [i \in TraceID |-> StoredUnder(i)]
           b == tx[c].batch
<1>1. b \in Batch /\ \A k \in DOMAIN b : b[k] \in ValidTrace
  BY CommitTakes
<1>2. old' = Upsert(old, b)
  BY CommitStores, UnderIsStored
<1>3. {old}' = {old'}
  OBVIOUS
<1>4. Promise!StoreBatch(b)
  BY <1>1, <1>2, <1>3, PromiseUpsert DEF Promise!StoreBatch
<1> QED
  BY <1>1, <1>4 DEF Promise!Next

\* Whoever stores, and however often a transaction is tried again or its answer
\* lost: a step that leaves no ID on two nodes is a step of the store TraceStore
\* describes (Store, storeCypher).
THEOREM DatabaseImplementsPromise ==
    ASSUME WholeStart
    PROVE  Spec => ImplementsTraceStore
<1>1. ASSUME Init PROVE Promise!Init
  <2> DEFINE m == [i \in TraceID |-> StoredUnder(i)]
  <2>1. m \in Maps
    BY <1>1, TypesStart, UnderType, UnderIsStored
  <2> QED
    BY <2>1 DEF Promise!Init, Promise!Maps, Maps
<1>2. ASSUME TInv, [Next]_vars
      PROVE  [OneNodeEach' => Promise!Next]_nodes
  BY <1>2, OnlyCommits, StepImplements
<1> QED
  BY <1>1, <1>2, TypesInvariant, PTL DEF Spec, ImplementsTraceStore


(***************************************************************************)
(* Queries answer as QueryOpts promises.                                    *)
(***************************************************************************)

\* The nodes a query wants.
Hits(o) == { n \in DOMAIN nodes : queryCypher(nodes[n].trace, o) }

\* Instants of different seconds compare as the strings they are printed as.
LEMMA StringsSort ==
    ASSUME NEW x \in Nat, NEW y \in Nat, ~Clash(x, y)
    PROVE  /\ AsString(x) =< AsString(y) <=> x =< y
           /\ AsString(x) >= AsString(y) <=> x >= y
<1>1. x = 2 * (x \div 2) + (x % 2) /\ (x % 2) \in {0, 1} /\ (x \div 2) \in Nat
  OBVIOUS
<1>2. y = 2 * (y \div 2) + (y % 2) /\ (y % 2) \in {0, 1} /\ (y \div 2) \in Nat
  OBVIOUS
<1>3. x = y \/ x \div 2 # y \div 2
  BY DEF Clash
<1> QED
  BY <1>1, <1>2, <1>3 DEF AsString

\* What the database holds, and what is asked, has instants.
LEMMA InstantsOf ==
    ASSUME TInv, NEW o \in Options
    PROVE  /\ o.start \in Nat /\ o.end \in Nat /\ o.limit \in Nat
           /\ \A n \in DOMAIN nodes : nodes[n].trace.timestamp \in Nat
<1>1. \A n \in DOMAIN nodes : nodes[n].trace \in Trace
  BY TraceAssumption DEF TInv, Whole
<1> QED
  BY <1>1, Neo4jAssumption, TraceAssumption

\* Of the traces in the second of no bound the WHERE clause selects what the
\* options describe; of others it gets observer and tags right.
LEMMA HitsMatch ==
    ASSUME TInv, NEW o \in Options, NEW n \in DOMAIN nodes
    PROVE  /\ Clear(nodes[n].trace, o) => (n \in Hits(o) <=> Matches(nodes[n].trace, o))
           /\ n \in Hits(o) => Matches(nodes[n].trace, Unbounded(o))
<1> DEFINE t == nodes[n].trace
<1>1. /\ o.start \in Nat /\ o.end \in Nat /\ t.timestamp \in Nat
  BY InstantsOf
<1>2. n \in Hits(o) <=> queryCypher(t, o)
  BY DEF Hits
<1> HIDE DEF t
<1>3. ASSUME Clear(t, o) PROVE queryCypher(t, o) <=> Matches(t, o)
  <2>1. o.start # 0 => (AsString(t.timestamp) >= AsString(o.start) <=> t.timestamp >= o.start)
    BY <1>1, <1>3, StringsSort DEF Clear
  <2>2. o.end # 0 => (AsString(t.timestamp) =< AsString(o.end) <=> t.timestamp =< o.end)
    BY <1>1, <1>3, StringsSort DEF Clear
  <2> QED
    BY <2>1, <2>2 DEF queryCypher, Matches
<1>4. ASSUME queryCypher(t, o) PROVE Matches(t, Unbounded(o))
  <2>1. /\ Unbounded(o).start = 0 /\ Unbounded(o).end = 0
        /\ Unbounded(o).observer = o.observer /\ Unbounded(o).tags = o.tags
    BY Neo4jAssumption DEF Unbounded
  <2> HIDE DEF t
  <2> QED
    BY <1>4, <2>1 DEF queryCypher, Matches
<1> QED
  BY <1>2, <1>3, <1>4 DEF t

\* An order of the nodes a query wants: each has one place, by time.
Order(o, p) ==
    /\ p \in [1..Cardinality(Hits(o)) -> Hits(o)]
    /\ \A j, k \in DOMAIN p : j < k =>
          p[j] # p[k] /\ Before(nodes[p[j]].trace, nodes[p[k]].trace)

\* The rows of an answer are the first of such an order.
LEMMA RowsAreOrdered ==
    ASSUME TInv, NEW o \in Options, NEW rows \in Query(o)
    PROVE  \E p : /\ Order(o, p)
                  /\ rows = Limited([k \in DOMAIN p |-> nodes[p[k]]], o.limit)
<1>1. PICK p \in [1..Cardinality(Hits(o)) -> Hits(o)] :
         /\ \A j, k \in DOMAIN p : j < k =>
               /\ p[j] # p[k]
               /\ AsString(nodes[p[j]].trace.timestamp) =< AsString(nodes[p[k]].trace.timestamp)
         /\ rows = Limited([k \in DOMAIN p |-> nodes[p[k]]], o.limit)
  BY DEF Query, Hits
<1>2. \A k \in DOMAIN p : p[k] \in DOMAIN nodes
  BY <1>1 DEF Hits
<1>3. ASSUME NEW j \in DOMAIN p, NEW k \in DOMAIN p, j < k
      PROVE  Before(nodes[p[j]].trace, nodes[p[k]].trace)
  BY <1>1, <1>2, <1>3, InstantsOf, StringsSort DEF Before
<1>4. Order(o, p)
  BY <1>1, <1>3 DEF Order
<1> QED
  BY <1>1, <1>4

\* An order of the nodes reaches each of them.
LEMMA OrderIsOnto ==
    ASSUME TInv, NEW o, NEW p, Order(o, p)
    PROVE  /\ Cardinality(Hits(o)) \in Nat
           /\ \A j, k \in DOMAIN p : p[j] = p[k] => j = k
           /\ \A n \in Hits(o) : \E k \in DOMAIN p : p[k] = n
<1> DEFINE H == Hits(o)
           N == Cardinality(H)
<1>1. H \subseteq DOMAIN nodes /\ nodes \in Seq(Whole)
  BY DEF Hits, TInv
<1>2. IsFiniteSet(H)
  BY <1>1, Places
<1>3. N \in Nat
  BY <1>2, FS_CardinalityType
<1>4. p \in [1..N -> H]
  BY DEF Order
<1>5. \A j, k \in DOMAIN p : j < k => p[j] # p[k]
  BY DEF Order
<1> HIDE DEF H, N
<1>6. \A j, k \in DOMAIN p : p[j] = p[k] => j = k
  <2> SUFFICES ASSUME NEW j \in DOMAIN p, NEW k \in DOMAIN p, p[j] = p[k]
               PROVE  j = k
    OBVIOUS
  <2>1. j \in Int /\ k \in Int
    BY <1>3, <1>4
  <2> QED
    BY <1>5, <2>1
<1>7. p \in Injection(1..N, H)
  BY <1>4, <1>6 DEF Injection, IsInjective
<1>8. IsFiniteSet(1..N) /\ Cardinality(1..N) = N
  <2>1. Cardinality(1..N) = IF 1 > N THEN 0 ELSE N - 1 + 1
    BY <1>3, FS_Interval
  <2> QED
    BY <1>3, <2>1, FS_Interval
<1>9. p \in Surjection(1..N, H)
  BY <1>2, <1>7, <1>8, FS_Injection DEF N
<1>10. \A n \in H : \E k \in 1..N : p[k] = n
  BY <1>9 DEF Surjection
<1> QED
  BY <1>3, <1>4, <1>6, <1>10 DEF H, N


\* The first of h rows: all of them, or as many as the limit.
First(r, f, h, limit) ==
    \E m \in Nat :
        /\ m =< h /\ DOMAIN r = 1..m
        /\ \A k \in 1..m : r[k] = f[k]
        /\ m < h => limit > 0 /\ m = limit
        /\ limit > 0 => m =< limit

\* What is cut off an answer are its last rows, and only by the limit.
LEMMA RowsCut ==
    ASSUME NEW S, NEW h \in Nat, NEW f \in [1..h -> S], NEW limit \in Nat
    PROVE  First(Limited(f, limit), f, h, limit)
<1>1. f \in Seq(S) /\ Len(f) = h
  OBVIOUS
<1>2. CASE limit > 0 /\ h > limit
  <2>1. Limited(f, limit) = SubSeq(f, 1, limit)
    BY <1>1, <1>2 DEF Limited
  <2>2. SubSeq(f, 1, limit) = [k \in 1..limit |-> f[k]]
    <3>1. SubSeq(f, 1, limit) = [k \in 1..(limit - 1 + 1) |-> f[1 + k - 1]]
      BY <1>1, <1>2
    <3>2. \A k \in 1..limit : 1 + k - 1 = k
      OBVIOUS
    <3>3. limit - 1 + 1 = limit
      OBVIOUS
    <3> QED
      BY <3>1, <3>2, <3>3
  <2> QED
    BY <1>2, <2>1, <2>2 DEF First
<1>3. CASE ~(limit > 0 /\ h > limit)
  <2>1. Limited(f, limit) = f
    BY <1>1, <1>3 DEF Limited
  <2> QED
    BY <1>3, <2>1 DEF First
<1> QED
  BY <1>2, <1>3

\* What AnswersAsPromised says of one answer.
Answer(o, rows) ==
    LET s == [k \in DOMAIN rows |-> rows[k].trace]
        stored == { nodes[n].trace : n \in DOMAIN nodes }
        wanted == { t \in stored : Clear(t, o) /\ Matches(t, o) }
    IN  /\ Range(s) \subseteq stored
        /\ \A t \in Range(s) : Matches(t, IF Clear(t, o) THEN o ELSE Unbounded(o))
        /\ OneNodeEach => UniqueIDs(s)
        /\ \A j, k \in DOMAIN s : j < k => Before(s[j], s[k])
        /\ o.limit = 0 \/ Len(s) < o.limit => wanted \subseteq Range(s)
        /\ o.limit > 0 => Len(s) =< o.limit
        /\ \A t \in Range(s), u \in wanted \ Range(s) : Before(t, u)

\* Each answer is the earliest of what matches, each trace once, in order.
LEMMA EachAnswer ==
    ASSUME TInv, NEW o \in Options, NEW rows \in Query(o)
    PROVE  Answer(o, rows)
<1> DEFINE s == [k \in DOMAIN rows |-> rows[k].trace]
           stored == { nodes[n].trace : n \in DOMAIN nodes }
           wanted == { t \in stored : Clear(t, o) /\ Matches(t, o) }
           h == Cardinality(Hits(o))
<1>1. PICK p : Order(o, p) /\ rows = Limited([k \in DOMAIN p |-> nodes[p[k]]], o.limit)
  BY RowsAreOrdered
<1>2. /\ h \in Nat
      /\ \A j, k \in DOMAIN p : p[j] = p[k] => j = k
      /\ \A n \in Hits(o) : \E k \in DOMAIN p : p[k] = n
  BY <1>1, OrderIsOnto
<1>3. p \in [1..h -> Hits(o)] /\ DOMAIN p = 1..h
  BY <1>1 DEF Order
<1>4. o.limit \in Nat
  BY InstantsOf
<1> DEFINE f == [k \in 1..h |-> nodes[p[k]]]
<1>5. f \in [1..h -> Whole] /\ \A k \in 1..h : p[k] \in DOMAIN nodes
  BY <1>3 DEF Hits, TInv
<1>6. PICK m \in Nat :
         /\ m =< h /\ DOMAIN rows = 1..m /\ \A k \in 1..m : rows[k] = f[k]
         /\ m < h => o.limit > 0 /\ m = o.limit
         /\ o.limit > 0 => m =< o.limit
  <2> HIDE DEF f, h
  <2>1. First(Limited(f, o.limit), f, h, o.limit)
    BY <1>2, <1>4, <1>5, RowsCut
  <2>2. rows = Limited(f, o.limit)
    BY <1>1, <1>3 DEF f
  <2> QED
    BY <2>1, <2>2 DEF First
<1> HIDE DEF h
<1>7. \A k \in 1..m : k \in 1..h
  BY <1>2, <1>6
<1>8. DOMAIN s = 1..m /\ Len(s) = m /\ \A k \in 1..m : s[k] = nodes[p[k]].trace
  <2>1. \A k \in 1..m : rows[k] = nodes[p[k]]
    BY <1>6, <1>7
  <2> HIDE DEF f
  <2> QED
    BY <1>6, <2>1
<1> HIDE DEF s, f
<1>9. \A t \in wanted : \E n \in Hits(o) : t = nodes[n].trace
  BY HitsMatch DEF Hits
<1>16. stored = { nodes[n].trace : n \in DOMAIN nodes }
  OBVIOUS
<1> HIDE DEF wanted, stored
<1>10. \A t \in Range(s) : \E n \in Hits(o) : t = nodes[n].trace
  BY <1>3, <1>7, <1>8 DEF Range
<1>17. /\ Range(s) \subseteq stored
       /\ \A t \in Range(s) : Matches(t, IF Clear(t, o) THEN o ELSE Unbounded(o))
  <2> SUFFICES ASSUME NEW t \in Range(s)
               PROVE  /\ t \in stored
                      /\ Matches(t, IF Clear(t, o) THEN o ELSE Unbounded(o))
    OBVIOUS
  <2>1. PICK n \in Hits(o) : t = nodes[n].trace
    BY <1>10
  <2>2. n \in DOMAIN nodes
    BY DEF Hits
  <2> QED
    BY <1>16, <2>1, <2>2, HitsMatch
<1>11. ASSUME OneNodeEach PROVE UniqueIDs(s)
  <2> SUFFICES ASSUME NEW j \in 1..m, NEW k \in 1..m, s[j].id = s[k].id
               PROVE  j = k
    BY <1>8 DEF UniqueIDs
  <2>1. p[j] \in DOMAIN nodes /\ p[k] \in DOMAIN nodes
    BY <1>5, <1>7
  <2>2. p[j] = p[k]
    BY <1>8, <1>11, <2>1 DEF OneNodeEach
  <2> QED
    BY <1>2, <1>3, <1>7, <2>2
<1>12. ASSUME NEW j \in 1..h, NEW k \in 1..h, j < k
       PROVE  Before(nodes[p[j]].trace, nodes[p[k]].trace)
  BY <1>1, <1>3, <1>12 DEF Order
<1>13. \A j, k \in DOMAIN s : j < k => Before(s[j], s[k])
  BY <1>7, <1>8, <1>12
<1>14. ASSUME o.limit = 0 \/ Len(s) < o.limit PROVE wanted \subseteq Range(s)
  <2>1. m = h
    BY <1>2, <1>4, <1>6, <1>8, <1>14
  <2> QED
    BY <1>2, <1>3, <1>8, <1>9, <2>1 DEF Range
<1>15. ASSUME NEW t \in Range(s), NEW u \in wanted \ Range(s)
       PROVE  Before(t, u)
  <2>1. PICK j \in 1..m : t = nodes[p[j]].trace
    BY <1>8 DEF Range
  <2>2. PICK k \in 1..h : u = nodes[p[k]].trace
    BY <1>2, <1>3, <1>9
  <2>3. k \notin 1..m
    BY <1>8, <2>2 DEF Range
  <2>4. j \in 1..h /\ j < k
    BY <1>2, <1>6, <1>7, <2>3
  <2> QED
    BY <1>12, <2>1, <2>2, <2>4
<1> QED
  BY <1>6, <1>8, <1>11, <1>13, <1>14, <1>15, <1>17 DEF Answer, s, wanted, stored

\* Whatever the database holds and whoever stores, a query that has not to tell
\* two instants of one second apart is answered as QueryOpts says (Query,
\* queryCypher).
THEOREM QueriesAnswered ==
    ASSUME WholeStart
    PROVE  Spec => []AnswersAsPromised
<1>1. TInv => AnswersAsPromised
  <2>1. TInv => \A o \in Options : \A rows \in Query(o) : Answer(o, rows)
    BY EachAnswer
  <2> QED
    BY <2>1 DEF Answer, AnswersAsPromised
<1> QED
  BY <1>1, TypesInvariant, PTL

\* Whatever the database holds and whoever stores, Get and Query tell the truth
\* (storeCypher, queryCypher).
THEOREM ReadsRight ==
    ASSUME WholeStart
    PROVE  Spec => []ReadsAreRight
<1>1. NoElementIsMissing /\ AnswersAsPromised => ReadsAreRight
  BY DEF ReadsAreRight
<1> QED
  BY <1>1, ElementsKept, QueriesAnswered, PTL
=============================================================================
