------------------------- MODULE MCTranslationChain -------------------------
(* Instances of TranslationChain small enough for TLC. *)
EXTENDS TranslationChain, TLC

T(i, who, source, target) ==
    [id |-> i, timestamp |-> i, observer |-> who, tags |-> {}, source |-> source,
     target |-> target, mediation |-> ""]

\* The sides a trace may have: none, one element, two, one twice.
Sides == {<<>>, <<"x">>, <<"y", "z">>, <<"z", "z">>}

\* The graphs one observer makes of two such traces, one of them from x, and of
\* a third, which leads back and which another observer may have recorded.
MCGraphs ==
    { Articulate(<<T(1, "a", s[1], s[2]), T(2, "a", <<"x", "y">>, s[3]), T(3, who, <<"z">>, <<"x">>)>>,
                 [observers |-> {"a"}, start |-> 0, end |-> 0, tags |-> {}])
      : s \in [1..3 -> Sides], who \in {"a", "b"} }

MCStarts == {"x", "y", "nowhere"}
MCDepths == {0, 1, 2}
============================================================================
