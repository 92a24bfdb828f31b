----------------------------- MODULE TraceData -----------------------------
(***************************************************************************)
(* The data every MeshAnt store handles: traces, the ID-keyed map a store   *)
(* builds from them, and the pre-filter of a query.  No variables: the      *)
(* store modules share these definitions.                                   *)
(*                                                                          *)
(* A trace is a record with the fields the store looks at.  What the other  *)
(* fields say is abstracted into "rev": two traces of one ID that differ in *)
(* rev differ in some field the store copies but never reads.               *)
(***************************************************************************)
EXTENDS Integers, Sequences, FiniteSets, Subsequences

CONSTANTS
    Trace,        \* the traces that exist
    ValidTrace,   \* those that Trace.Validate accepts
    TraceID,      \* the UUIDs that identify traces
    NoTrace       \* the value of an ID no trace is stored under

\* A trace is identified by its ID and placed in time; instants are integers,
\* 0 being Go's zero time, which Validate refuses.  There are finitely many
\* UUIDs.
ASSUME TraceAssumption ==
    /\ \A t \in Trace : t.id \in TraceID /\ t.timestamp \in Nat
    /\ ValidTrace \subseteq Trace
    /\ \A t \in ValidTrace : t.timestamp > 0
    /\ NoTrace \notin Trace
    /\ IsFiniteSet(TraceID)

Maps == [TraceID -> Trace \cup {NoTrace}]

EmptyMap == [i \in TraceID |-> NoTrace]

\* The positions of s that hold the last trace with ID i: one, or none.
LastPositions(s, i) ==
    { k \in DOMAIN s : /\ s[k].id = i
                       /\ \A j \in DOMAIN s : j > k => s[j].id # i }

\* What a loop  for _, t := range s { m[t.ID] = t }  leaves in the map: of
\* several traces with one ID the last one wins.
Upsert(m, s) ==
    [i \in TraceID |->
        IF LastPositions(s, i) = {} THEN m[i]
        ELSE s[CHOOSE k \in LastPositions(s, i) : TRUE]]

Stored(m) == { m[i] : i \in { j \in TraceID : m[j] # NoTrace } }

\* Every trace of a map sits under its own ID.
WellKeyed(m) == \A i \in TraceID : m[i] # NoTrace => m[i].id = i

\* The positions of s that hold the first trace with ID i: one, or none.
FirstPositions(s, i) ==
    { k \in DOMAIN s : /\ s[k].id = i
                       /\ \A j \in DOMAIN s : j < k => s[j].id # i }

UniqueIDs(s) == \A j, k \in DOMAIN s : s[j].id = s[k].id => j = k

SortedByTime(s) ==
    \A j, k \in DOMAIN s : j < k => s[j].timestamp =< s[k].timestamp

----------------------------------------------------------------------------
(* Queries.  Options are [observer, start, end, tags, limit]: "" stands for *)
(* no observer, 0 for no bound and for no limit, {} for no tags.            *)

Matches(t, o) ==
    /\ o.observer # "" => t.observer = o.observer
    /\ o.start # 0 => t.timestamp >= o.start
    /\ o.end # 0 => t.timestamp =< o.end
    /\ o.tags \subseteq t.tags

Select(s, o) == Subsequence(s, { k \in DOMAIN s : Matches(s[k], o) })

Limited(s, n) == IF n > 0 /\ Len(s) > n THEN SubSeq(s, 1, n) ELSE s
============================================================================
