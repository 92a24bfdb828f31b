--------------------------- MODULE MCJSONFileStore ---------------------------
(* Instances of JSONFileStore small enough for TLC. *)
EXTENDS JSONFileStore, TLC

CONSTANTS c1, c2

T(i, time, rev) ==
    [id |-> i, timestamp |-> time, observer |-> "o", tags |-> {}, rev |-> rev]

\* Two revisions of trace a, two traces b and c of one instant, a trace d that is
\* one too many for the loader, and a trace without a timestamp.
a1 == T("a", 1, 1)
a2 == T("a", 3, 2)
b1 == T("b", 2, 1)
c1t == T("c", 2, 1)
d1 == T("d", 4, 1)
bad == T("a", 0, 3)

MCTrace == {a1, a2, b1, c1t, d1, bad}
MCValid == MCTrace \ {bad}

\* One ID twice in a batch, a batch over two IDs, one that is half invalid.
MCBatch == {<<>>, <<a1>>, <<a2, a1>>, <<b1, c1t>>, <<d1>>, <<a2, bad>>}

\* No file, a cut-off one, a hand-made one with a duplicate ID, one too long
\* to load, and one Store has written.
MCInitial ==
    {Absent, Torn, Json(<<a1, a2>>), Json(<<a1, a2, a1, a2>>), Json(<<a2>>)}

\* For the refinement: files without duplicate IDs.
MCCleanInitial == {Absent, Json(<<a2>>)}

Symmetric == Permutations(Caller)
============================================================================
