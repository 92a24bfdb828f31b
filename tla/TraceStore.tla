----------------------------- MODULE TraceStore -----------------------------
(***************************************************************************)
(* What the TraceStore interface (meshant/store/store.go) promises its      *)
(* callers, with no file and no database in sight: a map from IDs to        *)
(* traces, changed by whole batches only, and after a power failure equal   *)
(* to the map some whole number of batches left.                            *)
(***************************************************************************)
EXTENDS TraceData

CONSTANT Batch    \* the slices of traces callers pass to Store

VARIABLES
    db,           \* what the store holds: ID -> trace
    survivors     \* the maps a power failure now may leave behind

abstractVars == <<db, survivors>>

Init ==
    /\ db \in Maps
    /\ survivors = {db}

\* Store: all traces of the slice are valid and take effect together, and may be
\* safe at once.
StoreBatch(b) ==
    /\ \A k \in DOMAIN b : b[k] \in ValidTrace
    /\ db' = Upsert(db, b)
    /\ survivors' \in {survivors \cup {db'}, {db'}}

\* The medium catches up with what the callers see.
Persist ==
    /\ survivors' = {db}
    /\ UNCHANGED db

\* A power failure: the store restarts from one of the maps it has held.
Outage ==
    /\ db' \in survivors
    /\ survivors' = {db'}

Next ==
    \/ \E b \in Batch : StoreBatch(b)
    \/ Persist
    \/ Outage

Spec == Init /\ [][Next]_abstractVars
============================================================================
