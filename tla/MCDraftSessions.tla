-------------------------- MODULE MCDraftSessions --------------------------
(* An instance of DraftSessions small enough for TLC. *)
EXTENDS DraftSessions, TLC

CONSTANTS p1, p2, s1, s2

\* The LLM quotes one text honestly and forges a link for the other.
MCReplies == {[parent |-> NoId, span |-> s1], [parent |-> Forged, span |-> s2]}

\* The second command from a text has a shorter one, to keep the runs few.
MCInputs == [n \in 1..MaxSessions |-> IF n = 1 THEN {<<s1, s2>>} ELSE {<<s1>>}]

\* No file, or one hand-written draft.
MCFound == {<<>>, <<s1>>}
============================================================================
