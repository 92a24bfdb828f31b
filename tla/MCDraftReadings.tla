--------------------------- MODULE MCDraftReadings ---------------------------
(* Instances of DraftReadings small enough for TLC. *)
EXTENDS DraftReadings, TLC

\* What is in a draft depends on its place in the file: two analysts, the first
\* of whom has three drafts, and two spans, one of which both have.
At4(k, i, from) ==
    [id |-> i, timestamp |-> k, derivedFrom |-> from,
     by |-> <<"ann", "ann", "ben", "ann">>[k], span |-> <<"s", "s", "s", "r">>[k],
     stage |-> <<"weak-draft", "reviewed", "", "reviewed">>[k],
     what |-> <<"w", "w", "v", "">>[k], source |-> <<<<"x", "y">>, <<"x", "y">>, <<"y", "x">>, <<>>>>[k],
     observer |-> <<"o", "o", "o", "o">>[k],
     doc |-> "d", note |-> "", blank |-> <<>>]

\* The same with everything of one analyst, one span and no time.
AllOfOne(d) == [d EXCEPT !.by = "ann", !.span = "s", !.timestamp = 0]

\* All links among four drafts with an ID each, the third also derived from what
\* is not in the file, and among three that share IDs or lack them.
Links ==
    { [k \in 1..4 |-> At4(k, k, from[k])] :
        from \in { f \in [1..4 -> {0, 1, 2, 3, 4, 9}] : \A k \in 1..4 : f[k] = 9 => k = 3 } }
        \cup { [k \in 1..3 |-> At4(k, i[k], from[k])] :
                 i \in [1..3 -> {0, 1, 2}], from \in [1..3 -> {0, 1, 2}] }

\* Of the IDs in files 4 is not a UUID; those a load gives are.
MCUUID == {1, 2, 3} \cup 1000..9999

\* What two analysts made of one span: the same, or something else in any fields,
\* a list in another order or with an element twice among them.
Pairs ==
    { <<At4(1, 1, 0), [At4(2, 2, 1) EXCEPT !.by = "ben", !.what = w, !.source = s,
                            !.observer = o, !.doc = d, !.note = n, !.blank = b]>> :
        w \in {"w", "v"}, s \in {<<"x", "y">>, <<"y", "x">>, <<"x", "y", "x">>},
        o \in {"o", "p"}, d \in {"d", "e"}, n \in {"", "n"}, b \in {<<>>, <<"target">>} }

MCDraftFile ==
    Links \cup Pairs \cup { [k \in DOMAIN f |-> AllOfOne(f[k])] : f \in Links }
==============================================================================
