---------------------------- MODULE MCNeo4jStore ----------------------------
(* Instances of Neo4jStore small enough for TLC. *)
EXTENDS Neo4jStore, TLC

CONSTANTS c1, c2

T(i, time, rev) ==
    [id |-> i, timestamp |-> time, observer |-> "o", tags |-> {"s"}, rev |-> rev]

\* Two versions of trace a, the second without a fraction, b within a second of
\* it, c with another observer and tags, and a trace without a timestamp.
a1 == T("a", 3, 1)
a2 == T("a", 4, 2)
b1 == T("b", 5, 1)
c9 == [T("c", 6, 1) EXCEPT !.observer = "p", !.tags = {"s", "t"}]
bad == T("b", 0, 2)

MCTrace == {a1, a2, b1, c9, bad}
MCValid == MCTrace \ {bad}

\* The versions of a name different elements.
MCSource == [t \in MCTrace |-> CASE t = a1 -> {"x"} [] t = a2 -> {"z"} [] OTHER -> {}]
MCTarget == [t \in MCTrace |-> IF t.id = "a" THEN {"y"} ELSE {"x"}]

\* Batches that share IDs in opposite orders, one that repeats an ID, one that
\* is half invalid.
MCBatch == {<<>>, <<a1, b1>>, <<b1, a2>>, <<a2, a1>>, <<a1, bad>>}

\* No filter, and each with others.
MCOptions ==
    LET With(who, start, end, tags, n) ==
            [observer |-> who, start |-> start, end |-> end, tags |-> tags, limit |-> n]
    IN  {With("", 0, 0, {}, 0), With("o", 0, 0, {}, 1), With("", 3, 0, {}, 2),
         With("", 4, 6, {"s", "t"}, 0), With("o", 0, 5, {"s"}, 0), With("", 4, 5, {}, 1)}

Node(t) == [trace |-> t, source |-> MCSource[t], target |-> MCTarget[t]]

MCInitialNodes == {<<>>, <<Node(c9), Node(a1)>>}
============================================================================
