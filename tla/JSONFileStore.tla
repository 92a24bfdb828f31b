--------------------------- MODULE JSONFileStore ---------------------------
(***************************************************************************)
(* JSONFileStore (meshant/store/json_file_store.go): a TraceStore kept as   *)
(* one JSON array in one file.  Every Store call reads the whole file,      *)
(* merges its batch into an ID-keyed map, and replaces the file by renaming *)
(* a synced temporary file over it.                                         *)
(*                                                                          *)
(* Callers are goroutines or processes that share the path; the code takes  *)
(* no lock, so their steps interleave.  A process may die between any two   *)
(* steps and the power may fail.  After a power failure a file that was     *)
(* renamed but not synced may be torn, and a rename may not have happened.  *)
(***************************************************************************)
EXTENDS TraceData, Functions

CONSTANTS
    Caller,          \* goroutines or processes that call the store
    Batch,           \* the slices of traces they pass to Store
    InitialFile,     \* what the path may hold before the first call
    Coordinated,     \* TRUE iff callers keep their Store calls apart
    MaxFileTraces,   \* how many traces fit in loader.Load's 50 MB
    MaxSurvivors     \* bound: renames the file system may hold unflushed

\* A file is absent, torn (empty, cut short or not JSON), or a JSON array.
Absent  == [kind |-> "absent", traces |-> <<>>]
Torn    == [kind |-> "torn", traces |-> <<>>]
Json(s) == [kind |-> "json", traces |-> s]
File    == { f \in [kind : {"absent", "torn", "json"}, traces : Seq(Trace)] :
                f.kind # "json" => f.traces = <<>> }

ASSUME StoreAssumption ==
    /\ \A b \in Batch : b \in Seq(Trace)
    /\ InitialFile \subseteq File
    /\ Coordinated \in BOOLEAN
    /\ MaxFileTraces \in Nat
    /\ MaxSurvivors \in Nat

VARIABLES
    target,        \* the file at the store's path, as the running system sees it
    survivors,     \* the files a power failure now may leave at the path
    found,         \* history: the file that was there before the first call
    pc,            \* where each caller is in Store, "idle" outside
    batch,         \* the traces it was given
    merged,        \* the array it is writing
    tmp,           \* its temporary file
    synced,        \* whether that file's data has reached the disk
    reply          \* the outcome of its last call

storeVars == <<target, survivors, found, pc, batch, merged, tmp, synced, reply>>

disk == <<target, survivors, found>>

Stages == {"idle", "load", "create", "write", "sync", "close", "rename"}

TypeOK ==
    /\ target \in File
    /\ survivors \subseteq File
    /\ found \in InitialFile
    /\ pc \in [Caller -> Stages]
    /\ batch \in [Caller -> Seq(Trace)]
    /\ merged \in [Caller -> Seq(Trace)]
    /\ tmp \in [Caller -> File]
    /\ synced \in [Caller -> BOOLEAN]
    /\ reply \in [Caller -> {"none", "ok", "error"}]

Init ==
    /\ target \in InitialFile
    /\ survivors = {target}
    /\ found = target
    /\ pc = [c \in Caller |-> "idle"]
    /\ batch = [c \in Caller |-> <<>>]
    /\ merged = [c \in Caller |-> <<>>]
    /\ tmp = [c \in Caller |-> Absent]
    /\ synced = [c \in Caller |-> FALSE]
    /\ reply = [c \in Caller |-> "none"]

----------------------------------------------------------------------------
(* Reading the file.                                                        *)

AllValid(s) == \A k \in DOMAIN s : s[k] \in ValidTrace

\* loadOrEmpty succeeds: no file, or an array that decodes within the size
\* limit and holds valid traces only.
Readable(f) ==
    \/ f.kind = "absent"
    \/ f.kind = "json" /\ Len(f.traces) =< MaxFileTraces /\ AllValid(f.traces)

\* What Query and Get find in file f.  They open the path once and read one
\* inode to the end, which no writer changes: a step of its own each, that
\* changes nothing.  Like every Go call they return a value and an error, here
\* that of loadOrEmpty.  (A cancelled context and an I/O error fail them too:
\* a caller who can meet these has an action for it, as MCPServer!QueryFails.)
Query(f, o) ==
    [err |-> ~Readable(f),
     traces |-> IF Readable(f) THEN Limited(Select(f.traces, o), o.limit) ELSE <<>>]

\* Get's loop stops at the first trace with the ID.
Find(s, i) ==
    IF FirstPositions(s, i) = {} THEN NoTrace
    ELSE s[CHOOSE k \in FirstPositions(s, i) : TRUE]

Get(f, i) ==
    [err |-> ~Readable(f),
     trace |-> IF Readable(f) THEN Find(f.traces, i) ELSE NoTrace]

\* The arrays Store may write for a map: every trace once, ordered by
\* timestamp.  sort.Slice is not stable and a map has no order, so traces of
\* one timestamp come out in any order.
Layouts(m) ==
    LET S == Stored(m) IN
    { s \in [1..Cardinality(S) -> S] :
        /\ Range(s) = S
        /\ IsInjective(s)
        /\ SortedByTime(s) }

----------------------------------------------------------------------------
(* Store, step by step.                                                     *)

Goto(c, stage) == pc' = [pc EXCEPT ![c] = stage]

\* The call ends: its locals are gone, its temporary file is renamed away or
\* removed.  (A file os.Remove leaves behind, as one a dead process leaves,
\* has a random name that nothing opens again.)
Return(c, outcome) ==
    /\ Goto(c, "idle")
    /\ reply' = [reply EXCEPT ![c] = outcome]
    /\ batch' = [batch EXCEPT ![c] = <<>>]
    /\ merged' = [merged EXCEPT ![c] = <<>>]
    /\ tmp' = [tmp EXCEPT ![c] = Absent]
    /\ synced' = [synced EXCEPT ![c] = FALSE]

MayCall(c) ==
    /\ pc[c] = "idle"
    /\ Coordinated => \A d \in Caller : pc[d] = "idle"

\* The context is already cancelled.
StoreCancelled(c) ==
    /\ MayCall(c)
    /\ Return(c, "error")
    /\ UNCHANGED disk

\* One trace of the slice is invalid: the call fails before it reads the file.
StoreRejected(c, b) ==
    /\ MayCall(c)
    /\ ~AllValid(b)
    /\ Return(c, "error")
    /\ UNCHANGED disk

StoreNothing_Mutant(c, b) ==
    MayCall(c) /\ b = <<>> /\ Return(c, "nothing") /\ UNCHANGED disk

\* Nothing to store: the file is not even read.
StoreNothing(c, b) ==
    /\ MayCall(c)
    /\ b = <<>>
    /\ Return(c, "ok")
    /\ UNCHANGED disk

StoreBegin(c, b) ==
    /\ MayCall(c)
    /\ AllValid(b)
    /\ b # <<>>
    /\ Goto(c, "load")
    /\ batch' = [batch EXCEPT ![c] = b]
    /\ reply' = [reply EXCEPT ![c] = "none"]
    /\ UNCHANGED <<disk, merged, tmp, synced>>

\* Every read error taken for a missing file.
LoadFails_Mutant(c) ==
    /\ pc[c] = "load"
    /\ ~Readable(target) \/ target.kind = "json"
    /\ \E s \in Layouts(Upsert(EmptyMap, batch[c])) :
         merged' = [merged EXCEPT ![c] = s]
    /\ Goto(c, "create")
    /\ UNCHANGED <<disk, batch, tmp, synced, reply>>

\* The existing file cannot be opened, is not JSON, is too long or holds an
\* invalid trace; or (the last disjunct) an I/O error ends the read.
LoadFails(c) ==
    /\ pc[c] = "load"
    /\ \/ ~Readable(target)
       \/ target.kind = "json"
    /\ Return(c, "error")
    /\ UNCHANGED disk

\* The loops over existing and incoming traces swapped.
LoadAndMerge_MutantOldWins(c) ==
    /\ pc[c] = "load"
    /\ Readable(target)
    /\ \E s \in Layouts(Upsert(Upsert(EmptyMap, batch[c]), target.traces)) :
         merged' = [merged EXCEPT ![c] = s]
    /\ Goto(c, "create")
    /\ UNCHANGED <<disk, batch, tmp, synced, reply>>

\* Incoming traces appended to the existing ones, no map and no sort.
LoadAndMerge_MutantAppends(c) ==
    /\ pc[c] = "load"
    /\ Readable(target)
    /\ merged' = [merged EXCEPT ![c] = target.traces \o batch[c]]
    /\ Goto(c, "create")
    /\ UNCHANGED <<disk, batch, tmp, synced, reply>>

\* Existing traces, then incoming ones, go into one map by ID; its values are
\* sorted into the array to be written.
LoadAndMerge(c) ==
    /\ pc[c] = "load"
    /\ Readable(target)
    /\ \E s \in Layouts(Upsert(Upsert(EmptyMap, target.traces), batch[c])) :
         merged' = [merged EXCEPT ![c] = s]
    /\ Goto(c, "create")
    /\ UNCHANGED <<disk, batch, tmp, synced, reply>>

CreateTemp(c) ==
    /\ pc[c] = "create"
    /\ tmp' = [tmp EXCEPT ![c] = Torn]
    /\ synced' = [synced EXCEPT ![c] = FALSE]
    /\ Goto(c, "write")
    /\ UNCHANGED <<disk, batch, merged, reply>>

\* A short write taken for a complete one.
WriteTemp_Mutant(c) ==
    /\ pc[c] = "write"
    /\ \E n \in 0..Len(merged[c]) :
         tmp' = [tmp EXCEPT ![c] = Json(SubSeq(merged[c], 1, n))]
    /\ Goto(c, "sync")
    /\ UNCHANGED <<disk, batch, merged, synced, reply>>

\* Write reports every short write as an error, so success means all of it.
WriteTemp(c) ==
    /\ pc[c] = "write"
    /\ tmp' = [tmp EXCEPT ![c] = Json(merged[c])]
    /\ Goto(c, "sync")
    /\ UNCHANGED <<disk, batch, merged, synced, reply>>

\* The temporary file closed without a sync.
SyncTemp_Mutant(c) ==
    /\ pc[c] = "sync"
    /\ Goto(c, "close")
    /\ UNCHANGED <<disk, batch, merged, tmp, synced, reply>>

SyncTemp(c) ==
    /\ pc[c] = "sync"
    /\ synced' = [synced EXCEPT ![c] = TRUE]
    /\ Goto(c, "close")
    /\ UNCHANGED <<disk, batch, merged, tmp, reply>>

CloseTemp(c) ==
    /\ pc[c] = "close"
    /\ Goto(c, "rename")
    /\ UNCHANGED <<disk, batch, merged, tmp, synced, reply>>

\* The rename takes effect at once for the running system.  The directory is
\* not synced: a power failure may undo it, and finds the data whole only if
\* it was synced before.
RenameTemp(c) ==
    /\ pc[c] = "rename"
    /\ Cardinality(survivors) < MaxSurvivors
    /\ target' = tmp[c]
    /\ survivors' = survivors \cup
                      (IF synced[c] THEN {tmp[c]} ELSE {tmp[c], Torn})
    /\ UNCHANGED found
    /\ Return(c, "ok")

\* Marshalling fails, or a system call of the current stage does: the
\* temporary file is removed and the error returned.
WriteFails(c) ==
    /\ pc[c] \in {"create", "write", "sync", "close", "rename"}
    /\ Return(c, "error")
    /\ UNCHANGED disk

----------------------------------------------------------------------------
(* The environment.                                                         *)

\* The process of one caller dies inside Store.
ProcessDies(c) ==
    /\ pc[c] # "idle"
    /\ Return(c, "none")
    /\ UNCHANGED disk

\* The file system flushes its directory.
Writeback ==
    /\ survivors' = {target}
    /\ UNCHANGED <<target, found, pc, batch, merged, tmp, synced, reply>>

\* The power fails: every process is gone, the path holds a survivor.
PowerFails ==
    /\ target' \in survivors
    /\ survivors' = {target'}
    /\ UNCHANGED found
    /\ pc' = [c \in Caller |-> "idle"]
    /\ batch' = [c \in Caller |-> <<>>]
    /\ merged' = [c \in Caller |-> <<>>]
    /\ tmp' = [c \in Caller |-> Absent]
    /\ synced' = [c \in Caller |-> FALSE]
    /\ reply' = [c \in Caller |-> "none"]

StoreStep(c) ==
    \/ LoadFails(c)
    \/ LoadAndMerge(c)
    \/ CreateTemp(c)
    \/ WriteTemp(c)
    \/ SyncTemp(c)
    \/ CloseTemp(c)
    \/ RenameTemp(c)
    \/ WriteFails(c)

StoreCall(c) ==
    \/ StoreCancelled(c)
    \/ \E b \in Batch :
         \/ StoreRejected(c, b)
         \/ StoreNothing(c, b)
         \/ StoreBegin(c, b)

Next ==
    \/ \E c \in Caller : StoreCall(c) \/ StoreStep(c) \/ ProcessDies(c)
    \/ Writeback
    \/ PowerFails

Spec == Init /\ [][Next]_storeVars

----------------------------------------------------------------------------
(* Properties.                                                              *)

\* Files the path holds or may hold after a power failure, other than the one
\* it held before the first call.
WrittenFiles == (survivors \cup {target}) \ {found}

\* Whatever steps of other callers, deaths and power failures interleave with
\* it, Store never leaves a torn file, or one that holds an invalid trace,
\* where the next call would find it: the point of validating before the
\* write and of write, sync, close, rename in this order (writeAtomic).  Nor one
\* out of order: a Query with a limit only cuts the array short.
StoreNeverCorrupts ==
    \A f \in WrittenFiles :
        f.kind = "json" /\ AllValid(f.traces) /\ SortedByTime(f.traces)

\* The options of a query that asks for everything.
AnyTrace == [observer |-> "", start |-> 0, end |-> 0, tags |-> {}, limit |-> 0]

\* Get without an error, and t found.
Found(t) == [err |-> FALSE, trace |-> t]

\* After any Store, Get returns for an ID the very trace Query lists: the
\* array holds each ID once, although callers race, batches repeat IDs and
\* the file that was there first may have held duplicates.
GetAgreesWithQuery ==
    \A f \in WrittenFiles :
        LET listed == Query(f, AnyTrace).traces IN
        \A k \in DOMAIN listed : Get(f, listed[k].id) = Found(listed[k])

IDsOf(s) == { s[k].id : k \in DOMAIN s }

\* No other batch, and no file to begin with, holds an ID of b.
Exclusive(b) ==
    /\ \A d \in Batch \ {b} : IDsOf(b) \cap IDsOf(d) = {}
    /\ \A f \in InitialFile : IDsOf(b) \cap IDsOf(f.traces) = {}

\* A batch is in the file as a whole or not at all, at every moment and after
\* every power failure, even when callers do not coordinate: a racing Store
\* may overwrite all of it, never a part ("fails atomically", store.go).
BatchAllOrNothing ==
    \A f \in survivors \cup {target}, b \in Batch :
        Exclusive(b) => \/ IDsOf(b) \subseteq IDsOf(f.traces)
                        \/ IDsOf(b) \cap IDsOf(f.traces) = {}

\* More traces than loader.Load reads.  Store does not look at what it is about
\* to write, so a Store that succeeds may leave such a file, and from then on
\* every call on it fails.
Outgrown(f) == Len(f.traces) > MaxFileTraces

\* At the moment Store returns nil, Get finds each trace of the batch as given
\* (the last one, where the batch repeats an ID), whatever was stored under
\* its ID before and whatever other callers did since the file was read; unless
\* Store has just outgrown the loader, which is the only way for it to succeed
\* and leave a file that Get refuses.
AcknowledgedIsVisible ==
    [][\A c \in Caller :
         (batch[c] # <<>> /\ reply'[c] = "ok") =>
            \/ Outgrown(target')
            \/ \A i \in IDsOf(batch[c]) : \A k \in LastPositions(batch[c], i) :
                   Get(target', i) = Found(batch[c][k])]_storeVars

\* The map from IDs to traces that a file stores, and Get sees while the loader
\* reads the file.
MapOf(f) == [i \in TraceID |-> Find(f.traces, i)]

Promise == INSTANCE TraceStore WITH
    db <- MapOf(target),
    survivors <- { MapOf(f) : f \in survivors }

\* With coordinated callers, who find no file or one without duplicate IDs,
\* the file behaves as the TraceStore interface promises: every change applies
\* one whole batch to what was stored before, a power failure only takes back
\* whole batches, and nothing else ever changes.
ImplementsTraceStore == Promise!Spec
============================================================================
