------------------------------- MODULE MCWebUI -------------------------------
(* Instances of WebUI small enough for TLC. *)
EXTENDS WebUI, TLC

T(i, time, who, tags, source, target) ==
    [id |-> i, timestamp |-> time, observer |-> who, tags |-> tags,
     source |-> source, target |-> target, mediation |-> ""]

\* What may be stored while the page is open: a trace that moves an element out
\* of a shadow, and a new version of one that is there.
MCTrace ==
    { T(1, 1, "bob", {}, <<"y">>, <<"z">>),
      T(2, 4, "alice", {"s", "t"}, <<"x">>, <<"z">>) }

\* Nothing, and two observers who share an element.
MCSubstrate ==
    { <<>>,
      <<T(1, 2, "alice", {"s"}, <<"x">>, <<"y">>),
        T(3, 3, "bob", {"t"}, <<"z">>, <<"y", "y">>)>> }

\* Alice is in both substrates, bob in some, carol in none.
MCQuery ==
    { [observer |-> o, start |-> w[1], end |-> w[2], tags |-> tags] :
        o \in {"alice", "bob", "carol"},
        w \in {<<0, 0>>, <<2, 0>>, <<0, 3>>, <<2, 4>>},
        tags \in {{}, {"t"}, {"s", "t"}} }
============================================================================
