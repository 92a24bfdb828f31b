------------------------------- MODULE MCCuts -------------------------------
(* Instances of Cuts small enough for TLC. *)
EXTENDS Cuts, TLC

T(i, time, who, tags, source, target, by) ==
    [id |-> i, timestamp |-> time, observer |-> who, tags |-> tags,
     source |-> source, target |-> target, mediation |-> by]

\* Two observers at three instants, tagged and untagged; a trace that names an
\* element on both sides, one in two versions, one without a target whose element
\* has the empty name, which Validate lets through.
MCTrace ==
    { T(1, 1, "alice", {}, <<"x">>, <<"y">>, "m"),
      T(1, 3, "bob", {"t"}, <<"x">>, <<"z">>, ""),
      T(2, 2, "bob", {"t"}, <<"y">>, <<"z">>, ""),
      T(3, 3, "alice", {"t"}, <<"x", "y">>, <<"x">>, "y"),
      T(4, 1, "bob", {}, <<"">>, <<>>, "x") }

Cut(who, from, until, tags) ==
    [observers |-> who, start |-> from, end |-> until, tags |-> tags]

\* One and two observers, each filter alone and with the other.
MCCutOptions ==
    { Cut({"alice"}, 0, 0, {}), Cut({"alice"}, 2, 0, {}), Cut({"alice"}, 0, 2, {"t"}),
      Cut({"bob"}, 0, 0, {}), Cut({"bob"}, 0, 0, {"t"}), Cut({"bob"}, 0, 2, {}),
      Cut({"alice", "bob"}, 2, 0, {}), Cut({"alice", "bob"}, 0, 0, {"t"}) }
============================================================================
