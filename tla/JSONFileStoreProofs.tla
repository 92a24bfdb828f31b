------------------------ MODULE JSONFileStoreProofs ------------------------
(***************************************************************************)
(* Proofs about JSONFileStore, for any number of callers, any traces and    *)
(* any batches.                                                             *)
(***************************************************************************)
EXTENDS JSONFileStore, SubsequencesProofs, FiniteSetTheorems, TLAPS

(***************************************************************************)
(* What the map and the array written from it hold.                         *)
(***************************************************************************)

\* The map built from an array of traces maps IDs to traces.
LEMMA UpsertType ==
    ASSUME NEW m \in Maps, NEW s \in Seq(Trace)
    PROVE  Upsert(m, s) \in Maps
<1>1. ASSUME NEW i \in TraceID, LastPositions(s, i) # {}
      PROVE  s[CHOOSE k \in LastPositions(s, i) : TRUE] \in Trace
  BY <1>1 DEF LastPositions
<1> QED
  BY <1>1 DEF Upsert, Maps

\* ... and each under its own ID.
LEMMA UpsertKeyed ==
    ASSUME NEW m \in Maps, WellKeyed(m), NEW s \in Seq(Trace)
    PROVE  WellKeyed(Upsert(m, s))
<1>1. ASSUME NEW i \in TraceID, LastPositions(s, i) # {}
      PROVE  s[CHOOSE k \in LastPositions(s, i) : TRUE].id = i
  BY <1>1 DEF LastPositions
<1> QED
  BY <1>1 DEF Upsert, WellKeyed

\* Valid traces merged into a map of valid traces leave a map of valid traces.
LEMMA UpsertValid ==
    ASSUME NEW m \in Maps, Stored(m) \subseteq ValidTrace,
           NEW s \in Seq(Trace), AllValid(s)
    PROVE  Stored(Upsert(m, s)) \subseteq ValidTrace
<1>1. ASSUME NEW i \in TraceID, LastPositions(s, i) # {}
      PROVE  s[CHOOSE k \in LastPositions(s, i) : TRUE] \in ValidTrace
  BY <1>1 DEF LastPositions, AllValid
<1> QED
  BY <1>1 DEF Upsert, Stored, Maps

\* byID starts as a map with no trace in it.
LEMMA EmptyMapFacts ==
    EmptyMap \in Maps /\ WellKeyed(EmptyMap) /\ Stored(EmptyMap) = {}
BY DEF EmptyMap, Maps, WellKeyed, Stored

\* The array written for a map is a sequence of traces that holds each ID once.
LEMMA LayoutFacts ==
    ASSUME NEW m \in Maps, WellKeyed(m), NEW s \in Layouts(m)
    PROVE  /\ s \in Seq(Trace)
           /\ UniqueIDs(s)
           /\ SortedByTime(s)
           /\ Range(s) = Stored(m)
<1> DEFINE S == Stored(m)
<1>1. S \subseteq Trace
  BY DEF Stored, Maps
<1>2. IsFiniteSet(S)
  <2> DEFINE I == { j \in TraceID : m[j] # NoTrace }
  <2>1. IsFiniteSet(I)
    BY FS_Subset, TraceAssumption
  <2> DEFINE f == [i \in I |-> m[i]]
  <2>2. f \in Surjection(I, S)
    BY DEF Surjection, Stored
  <2> HIDE DEF f, I, S
  <2> QED
    BY <2>1, <2>2, FS_Surjection
<1>3. Cardinality(S) \in Nat
  BY <1>2, FS_CardinalityType
<1>4. s \in [1..Cardinality(S) -> S]
  BY DEF Layouts
<1>5. s \in Seq(Trace)
  BY <1>1, <1>3, <1>4
<1>6. UniqueIDs(s)
  <2> SUFFICES ASSUME NEW j \in DOMAIN s, NEW k \in DOMAIN s, s[j].id = s[k].id
               PROVE  j = k
    BY DEF UniqueIDs
  <2>1. PICK a \in TraceID : m[a] # NoTrace /\ s[j] = m[a]
    BY <1>4 DEF Stored
  <2>2. PICK b \in TraceID : m[b] # NoTrace /\ s[k] = m[b]
    BY <1>4 DEF Stored
  <2>3. a = b
    BY <2>1, <2>2 DEF WellKeyed
  <2>4. IsInjective(s)
    BY DEF Layouts
  <2> QED
    BY <2>1, <2>2, <2>3, <2>4 DEF IsInjective
<1> QED
  BY <1>5, <1>6 DEF Layouts

\* ... and, where the map holds valid traces, only valid ones.
LEMMA LayoutValid ==
    ASSUME NEW m \in Maps, WellKeyed(m), Stored(m) \subseteq ValidTrace,
           NEW s \in Layouts(m)
    PROVE  AllValid(s)
BY LayoutFacts DEF AllValid, Range

(***************************************************************************)
(* The inductive invariant behind StoreNeverCorrupts and GetAgreesWithQuery *)
(* follows the array from the merge to the rename.                          *)
(***************************************************************************)

\* What Store writes: valid traces, each ID once, in order of time.
GoodArray(s) == AllValid(s) /\ UniqueIDs(s) /\ SortedByTime(s)

InStore == Stages \ {"idle"}

\* While a caller is in Store its batch is valid; from the merge on its array
\* is fit to be written; from the write on its temporary file holds that array,
\* and from the close on is on disk: so what a rename puts at the path is good.
IInv ==
    /\ \A c \in Caller : pc[c] \in InStore => AllValid(batch[c])
    /\ \A c \in Caller : pc[c] \in InStore \ {"load"} => GoodArray(merged[c])
    /\ \A c \in Caller : pc[c] \in {"sync", "close", "rename"}
                            => tmp[c] = Json(merged[c])
    /\ \A c \in Caller : pc[c] \in {"close", "rename"} => synced[c]
    /\ \A f \in WrittenFiles : f.kind = "json" /\ GoodArray(f.traces)

\* The three kinds of file are files.
LEMMA FileFacts ==
    /\ Absent \in File /\ Torn \in File
    /\ \A s \in Seq(Trace) : Json(s) \in File
    /\ \A s : Json(s).traces = s /\ Json(s).kind = "json"
    /\ Absent.traces = <<>> /\ Absent.kind = "absent"
BY DEF Absent, Torn, Json, File

\* What LoadAndMerge computes is a sequence of traces fit to be written.
LEMMA MergeFacts ==
    ASSUME NEW f \in File, Readable(f), NEW b \in Seq(Trace), AllValid(b),
           NEW s \in Layouts(Upsert(Upsert(EmptyMap, f.traces), b))
    PROVE  s \in Seq(Trace) /\ GoodArray(s)
<1>1. f.traces \in Seq(Trace)
  BY DEF File
<1>2. AllValid(f.traces)
  BY DEF File, Readable, AllValid
<1> DEFINE m == Upsert(EmptyMap, f.traces)
<1>3. m \in Maps /\ WellKeyed(m) /\ Stored(m) \subseteq ValidTrace
  BY <1>1, <1>2, EmptyMapFacts, UpsertType, UpsertKeyed, UpsertValid
<1> HIDE DEF m
<1>4. /\ Upsert(m, b) \in Maps
      /\ WellKeyed(Upsert(m, b))
      /\ Stored(Upsert(m, b)) \subseteq ValidTrace
  BY <1>3, UpsertType, UpsertKeyed, UpsertValid
<1>5. s \in Layouts(Upsert(m, b))
  BY DEF m
<1> QED
  BY <1>4, <1>5, LayoutFacts, LayoutValid DEF GoodArray

(***************************************************************************)
(* Type correctness.                                                        *)
(***************************************************************************)

\* Every step, of callers, the file system or the power, keeps the types.
LEMMA TypeStep == TypeOK /\ [Next]_storeVars => TypeOK'
<1> USE StoreAssumption, FileFacts
<1> SUFFICES ASSUME TypeOK, [Next]_storeVars
             PROVE  TypeOK'
  OBVIOUS
<1> USE DEF TypeOK, Stages, Goto, disk
<1>1. ASSUME NEW c \in Caller, StoreCall(c)
      PROVE  TypeOK'
  <2>1. CASE StoreCancelled(c)
    BY <2>1 DEF StoreCancelled, Return
  <2>2. ASSUME NEW b \in Batch, StoreRejected(c, b)
        PROVE  TypeOK'
    BY <2>2 DEF StoreRejected, Return
  <2>3. ASSUME NEW b \in Batch, StoreNothing(c, b)
        PROVE  TypeOK'
    BY <2>3 DEF StoreNothing, Return
  <2>4. ASSUME NEW b \in Batch, StoreBegin(c, b)
        PROVE  TypeOK'
    BY <2>4 DEF StoreBegin
  <2> QED
    BY <1>1, <2>1, <2>2, <2>3, <2>4 DEF StoreCall
<1>2. ASSUME NEW c \in Caller, StoreStep(c)
      PROVE  TypeOK'
  <2>1. CASE LoadFails(c)
    BY <2>1 DEF LoadFails, Return
  <2>2. CASE LoadAndMerge(c)
    <3>1. PICK s \in Layouts(Upsert(Upsert(EmptyMap, target.traces), batch[c])) :
             merged' = [merged EXCEPT ![c] = s]
      BY <2>2 DEF LoadAndMerge
    <3>2. s \in Seq(Trace)
      <4>1. target.traces \in Seq(Trace) /\ batch[c] \in Seq(Trace)
        BY DEF File
      <4> DEFINE m == Upsert(Upsert(EmptyMap, target.traces), batch[c])
      <4>2. m \in Maps /\ WellKeyed(m)
        BY <4>1, EmptyMapFacts, UpsertType, UpsertKeyed
      <4>3. s \in Layouts(m)
        OBVIOUS
      <4> HIDE DEF m
      <4> QED
        BY <4>2, <4>3, LayoutFacts
    <3> QED
      BY <2>2, <3>1, <3>2 DEF LoadAndMerge
  <2>3. CASE CreateTemp(c)
    BY <2>3 DEF CreateTemp
  <2>4. CASE WriteTemp(c)
    BY <2>4 DEF WriteTemp
  <2>5. CASE SyncTemp(c)
    BY <2>5 DEF SyncTemp
  <2>6. CASE CloseTemp(c)
    BY <2>6 DEF CloseTemp
  <2>7. CASE RenameTemp(c)
    BY <2>7 DEF RenameTemp, Return
  <2>8. CASE WriteFails(c)
    BY <2>8 DEF WriteFails, Return
  <2> QED
    BY <1>2, <2>1, <2>2, <2>3, <2>4, <2>5, <2>6, <2>7, <2>8 DEF StoreStep
<1>3. ASSUME NEW c \in Caller, ProcessDies(c)
      PROVE  TypeOK'
  BY <1>3 DEF ProcessDies, Return
<1>4. CASE Writeback
  BY <1>4 DEF Writeback
<1>5. CASE PowerFails
  BY <1>5 DEF PowerFails
<1>6. CASE UNCHANGED storeVars
  BY <1>6 DEF storeVars
<1> QED
  BY <1>1, <1>2, <1>3, <1>4, <1>5, <1>6 DEF Next

\* The variables keep their types whatever the callers, the file system and
\* the power do.
THEOREM TypeCorrect == Spec => []TypeOK
<1>1. Init => TypeOK
  BY StoreAssumption, FileFacts DEF Init, TypeOK, Stages
<1> QED
  BY <1>1, TypeStep, PTL DEF Spec

(***************************************************************************)
(* Safety of the file.                                                      *)
(***************************************************************************)

\* Ending a call without touching the disk keeps the invariant.
LEMMA ReturnKeepsIInv ==
    ASSUME TypeOK, IInv, NEW c \in Caller,
           NEW outcome, Return(c, outcome), UNCHANGED disk
    PROVE  IInv'
BY DEF TypeOK, IInv, Return, Goto, disk, Stages, InStore, WrittenFiles

\* Entering Store, or being refused by it, keeps the invariant.
LEMMA CallKeepsIInv ==
    ASSUME TypeOK, IInv, NEW c \in Caller, StoreCall(c)
    PROVE  IInv'
<1>1. CASE StoreCancelled(c)
  BY <1>1, ReturnKeepsIInv DEF StoreCancelled
<1>2. ASSUME NEW b \in Batch, StoreRejected(c, b)
      PROVE  IInv'
  BY <1>2, ReturnKeepsIInv DEF StoreRejected
<1>3. ASSUME NEW b \in Batch, StoreNothing(c, b)
      PROVE  IInv'
  BY <1>3, ReturnKeepsIInv DEF StoreNothing
<1>4. ASSUME NEW b \in Batch, StoreBegin(c, b)
      PROVE  IInv'
  BY <1>4 DEF StoreBegin, TypeOK, IInv, Goto, disk, Stages, InStore, WrittenFiles
<1> QED
  BY <1>1, <1>2, <1>3, <1>4 DEF StoreCall

\* Each step of a call in Store keeps the invariant.
LEMMA StepKeepsIInv ==
    ASSUME TypeOK, IInv, NEW c \in Caller, StoreStep(c)
    PROVE  IInv'
<1> USE DEF TypeOK, IInv, Goto, disk, Stages, InStore, WrittenFiles
<1>1. CASE LoadFails(c)
  BY <1>1, ReturnKeepsIInv DEF LoadFails
<1>2. CASE LoadAndMerge(c)
  <2>1. PICK s \in Layouts(Upsert(Upsert(EmptyMap, target.traces), batch[c])) :
           merged' = [merged EXCEPT ![c] = s]
    BY <1>2 DEF LoadAndMerge
  <2>2. /\ target \in File /\ Readable(target)
        /\ batch[c] \in Seq(Trace) /\ AllValid(batch[c])
    BY <1>2 DEF LoadAndMerge
  <2>3. GoodArray(s)
    BY <2>2, MergeFacts
  <2> QED
    BY <1>2, <2>1, <2>3 DEF LoadAndMerge
<1>3. CASE CreateTemp(c)
  BY <1>3 DEF CreateTemp
<1>4. CASE WriteTemp(c)
  BY <1>4 DEF WriteTemp
<1>5. CASE SyncTemp(c)
  BY <1>5 DEF SyncTemp
<1>6. CASE CloseTemp(c)
  BY <1>6 DEF CloseTemp
<1>7. CASE RenameTemp(c)
  <2>1. tmp[c] = Json(merged[c]) /\ GoodArray(merged[c]) /\ synced[c]
    BY <1>7 DEF RenameTemp
  <2>2. tmp[c].kind = "json" /\ GoodArray(tmp[c].traces)
    BY <2>1, FileFacts
  <2>3. target' = tmp[c] /\ survivors' = survivors \cup {tmp[c]} /\ found' = found
    BY <1>7, <2>1 DEF RenameTemp
  <2>4. \A f \in WrittenFiles' : f.kind = "json" /\ GoodArray(f.traces)
    BY <2>2, <2>3
  <2> QED
    BY <1>7, <2>4 DEF RenameTemp, Return
<1>8. CASE WriteFails(c)
  BY <1>8, ReturnKeepsIInv DEF WriteFails
<1> QED
  BY <1>1, <1>2, <1>3, <1>4, <1>5, <1>6, <1>7, <1>8 DEF StoreStep

\* So do a flushed directory and a power failure.
LEMMA EnvironmentKeepsIInv ==
    ASSUME TypeOK, IInv, Writeback \/ PowerFails
    PROVE  IInv'
<1> USE DEF TypeOK, IInv, Stages, InStore, WrittenFiles
<1>1. CASE Writeback
  BY <1>1 DEF Writeback
<1>2. CASE PowerFails
  BY <1>2 DEF PowerFails
<1> QED
  BY <1>1, <1>2

\* Every reachable state satisfies it, for any number of callers in Store.
THEOREM Inductive == Spec => []IInv
<1>1. Init => IInv
  BY DEF Init, IInv, InStore, WrittenFiles
<1>2. TypeOK /\ IInv /\ [Next]_storeVars => IInv'
  <2> SUFFICES ASSUME TypeOK, IInv, [Next]_storeVars
               PROVE  IInv'
    OBVIOUS
  <2>1. ASSUME NEW c \in Caller, ProcessDies(c)
        PROVE  IInv'
    BY <2>1, ReturnKeepsIInv DEF ProcessDies
  <2>2. CASE UNCHANGED storeVars
    BY <2>2 DEF storeVars, IInv, WrittenFiles
  <2> QED
    BY <2>1, <2>2, CallKeepsIInv, StepKeepsIInv, EnvironmentKeepsIInv DEF Next
<1> QED
  BY <1>1, <1>2, TypeCorrect, PTL DEF Spec

\* No interleaving of any number of callers, no death and no power failure
\* leaves a torn file or an invalid trace at the path (writeAtomic, Store).
THEOREM FileNeverCorrupted == Spec => []StoreNeverCorrupts
<1>1. IInv => StoreNeverCorrupts
  BY DEF IInv, StoreNeverCorrupts, GoodArray
<1> QED
  BY <1>1, Inductive, PTL

\* In an array that holds each ID once, Get's loop finds the trace at every
\* position.
LEMMA GetUnique ==
    ASSUME NEW f \in File, UniqueIDs(f.traces), NEW k \in DOMAIN f.traces
    PROVE  Find(f.traces, f.traces[k].id) = f.traces[k]
<1> DEFINE s == f.traces
           P == FirstPositions(s, s[k].id)
<1>1. s \in Seq(Trace)
  BY DEF File
<1>2. P = {k}
  BY <1>1 DEF UniqueIDs, FirstPositions
<1> QED
  BY <1>2 DEF Find

\* What a query of everything lists is in a file that can be loaded.
LEMMA ListedIsStored ==
    ASSUME NEW f \in File, NEW k \in DOMAIN Query(f, AnyTrace).traces
    PROVE  /\ Readable(f)
           /\ \E j \in DOMAIN f.traces : Query(f, AnyTrace).traces[k] = f.traces[j]
<1> DEFINE s == f.traces
           K == { j \in DOMAIN s : Matches(s[j], AnyTrace) }
<1>1. Readable(f)
  BY DEF Query
<1>2. Query(f, AnyTrace).traces = Subsequence(s, K)
  <2>1. Query(f, AnyTrace).traces = Limited(Select(s, AnyTrace), AnyTrace.limit)
    BY <1>1 DEF Query
  <2>2. AnyTrace.limit = 0
    BY DEF AnyTrace
  <2>3. \A u : Limited(u, 0) = u
    BY DEF Limited
  <2> QED
    BY <2>1, <2>2, <2>3 DEF Select
<1>3. s \in Seq(Trace)
  BY DEF File
<1>4. K \in SUBSET DOMAIN s /\ K \in SUBSET Int /\ IsFiniteSet(K)
  <2> K \in SUBSET DOMAIN s
    OBVIOUS
  <2> QED
    BY <1>3, Places
<1>5. Nth(K, k) \in K /\ Subsequence(s, K)[k] = s[Nth(K, k)]
  <2>1. k \in DOMAIN Subsequence(s, K)
    BY <1>2
  <2> HIDE DEF K
  <2> QED
    BY <1>4, <2>1, SubsequenceFacts
<1> QED
  BY <1>1, <1>2, <1>4, <1>5

\* After any Store, in any interleaving, Get and Query agree on every trace:
\* the duplicates a hand-made file may hold do not survive a Store.
THEOREM GetQueryAgree == Spec => []GetAgreesWithQuery
<1>1. TypeOK /\ IInv => GetAgreesWithQuery
  <2> SUFFICES ASSUME TypeOK, IInv, NEW f \in WrittenFiles,
                      NEW k \in DOMAIN Query(f, AnyTrace).traces
               PROVE  LET t == Query(f, AnyTrace).traces[k] IN Get(f, t.id) = Found(t)
    BY DEF GetAgreesWithQuery
  <2>1. f \in File /\ UniqueIDs(f.traces)
    BY DEF TypeOK, WrittenFiles, IInv, GoodArray
  <2>2. PICK j \in DOMAIN f.traces : Query(f, AnyTrace).traces[k] = f.traces[j]
    BY <2>1, ListedIsStored
  <2>3. Readable(f)
    BY <2>1, ListedIsStored
  <2>4. Find(f.traces, f.traces[j].id) = f.traces[j]
    BY <2>1, GetUnique
  <2> QED
    BY <2>2, <2>3, <2>4 DEF Get, Found
<1> QED
  BY <1>1, Inductive, TypeCorrect, PTL

(***************************************************************************)
(* The file implements the TraceStore interface.                            *)
(***************************************************************************)

\* What a file stores maps IDs to traces, each under its own ID.
LEMMA MapOfType ==
    ASSUME NEW f \in File
    PROVE  MapOf(f) \in Maps /\ WellKeyed(MapOf(f))
<1>1. f.traces \in Seq(Trace)
  BY DEF File
<1>2. ASSUME NEW i \in TraceID, FirstPositions(f.traces, i) # {}
      PROVE  Find(f.traces, i) \in Trace /\ Find(f.traces, i).id = i
  BY <1>1, <1>2 DEF FirstPositions, Find
<1>3. ASSUME NEW i \in TraceID, FirstPositions(f.traces, i) = {}
      PROVE  Find(f.traces, i) = NoTrace
  BY <1>3 DEF Find
<1> QED
  BY <1>2, <1>3 DEF MapOf, Maps, WellKeyed

\* Reading back the array written for a map gives the map.
LEMMA LayoutMap ==
    ASSUME NEW m \in Maps, WellKeyed(m), NEW s \in Layouts(m)
    PROVE  MapOf(Json(s)) = m
<1>1. /\ s \in Seq(Trace) /\ UniqueIDs(s) /\ Range(s) = Stored(m)
      /\ Json(s) \in File /\ Json(s).traces = s
  BY LayoutFacts, FileFacts
<1>2. ASSUME NEW i \in TraceID
      PROVE  Find(s, i) = m[i]
  <2>1. CASE m[i] = NoTrace
    <3>1. ASSUME NEW k \in DOMAIN s PROVE s[k].id # i
      <4>1. s[k] \in Stored(m)
        BY <1>1 DEF Range
      <4>2. PICK j \in TraceID : m[j] # NoTrace /\ s[k] = m[j]
        BY <4>1 DEF Stored
      <4> QED
        BY <2>1, <4>2 DEF WellKeyed
    <3> QED
      BY <1>1, <2>1, <3>1 DEF Find, FirstPositions
  <2>2. CASE m[i] # NoTrace
    <3>1. PICK k \in DOMAIN s : s[k] = m[i]
      BY <1>1, <2>2 DEF Stored, Range
    <3>2. s[k].id = i
      BY <2>2, <3>1 DEF WellKeyed
    <3> QED
      BY <1>1, <3>1, <3>2, GetUnique
  <2> QED
    BY <2>1, <2>2
<1> QED
  BY <1>1, <1>2 DEF MapOf, Maps

\* The map Store builds from a file without duplicate IDs is the one Get's
\* loop finds in it.
LEMMA ByIDMap ==
    ASSUME NEW f \in File, UniqueIDs(f.traces)
    PROVE  Upsert(EmptyMap, f.traces) = MapOf(f)
<1> DEFINE s == f.traces
<1>1. s \in Seq(Trace)
  BY DEF File
<1>2. ASSUME NEW i \in TraceID
      PROVE  LastPositions(s, i) = FirstPositions(s, i)
  BY <1>1 DEF UniqueIDs, LastPositions, FirstPositions
<1>3. ASSUME NEW i \in TraceID
      PROVE  Upsert(EmptyMap, s)[i] = Find(s, i)
  <2> DEFINE Pick(S) == IF S = {} THEN NoTrace ELSE s[CHOOSE k \in S : TRUE]
  <2>1. Upsert(EmptyMap, s)[i] = Pick(LastPositions(s, i))
    BY DEF Upsert, EmptyMap
  <2>2. Find(s, i) = Pick(FirstPositions(s, i))
    BY DEF Find
  <2> HIDE DEF Pick
  <2> QED
    BY <1>2, <2>1, <2>2
<1>4. Upsert(EmptyMap, s) = [i \in TraceID |-> Upsert(EmptyMap, s)[i]]
  BY DEF Upsert
<1> QED
  BY <1>3, <1>4 DEF MapOf

\* The promised store applies a batch as the file store does.
LEMMA PromiseUpsert ==
    ASSUME NEW m, NEW s
    PROVE  Promise!Upsert(m, s) = Upsert(m, s)
BY DEF Promise!Upsert, Upsert, Promise!LastPositions, LastPositions

\* While a coordinated caller is in Store, nobody else is, and what it is about
\* to write is what is stored with its batch applied.
RInv ==
    /\ \A f \in survivors \cup {target} : UniqueIDs(f.traces)
    /\ \A c, d \in Caller : pc[c] \in InStore /\ pc[d] \in InStore => c = d
    /\ \A c \in Caller : pc[c] \in InStore => batch[c] \in Batch
    /\ \A c \in Caller : pc[c] \in InStore \ {"load"} =>
          MapOf(Json(merged[c])) = Upsert(MapOf(target), batch[c])

\* The callers keep their calls apart, and no file to begin with holds an ID
\* twice.
CleanStart == Coordinated /\ \A f \in InitialFile : UniqueIDs(f.traces)

\* The array LoadAndMerge computes holds what was stored before, with the batch
\* applied.
LEMMA MergeMap ==
    ASSUME NEW f \in File, UniqueIDs(f.traces), NEW b \in Seq(Trace),
           NEW s \in Layouts(Upsert(Upsert(EmptyMap, f.traces), b))
    PROVE  MapOf(Json(s)) = Upsert(MapOf(f), b)
<1>1. s \in Layouts(Upsert(MapOf(f), b))
  BY ByIDMap
<1>2. MapOf(f) \in Maps /\ WellKeyed(MapOf(f))
  BY MapOfType
<1> DEFINE m == MapOf(f)
<1> HIDE DEF m
<1>3. Upsert(m, b) \in Maps /\ WellKeyed(Upsert(m, b))
  BY <1>2, UpsertType, UpsertKeyed DEF m
<1> QED
  BY <1>1, <1>3, LayoutMap DEF m

\* Ending a call without touching the disk keeps the refinement invariant.
LEMMA ReturnKeepsRInv ==
    ASSUME TypeOK, RInv, NEW c \in Caller,
           NEW outcome, Return(c, outcome), UNCHANGED disk
    PROVE  RInv'
BY DEF TypeOK, RInv, Return, Goto, disk, Stages, InStore, MapOf

\* Each step of the one call in Store keeps the refinement invariant.
LEMMA StepKeepsRInv ==
    ASSUME CleanStart, TypeOK, IInv, IInv', RInv,
           NEW c \in Caller, StoreStep(c)
    PROVE  RInv'
<1> USE DEF TypeOK, RInv, Goto, disk, Stages, InStore
<1>1. CASE LoadFails(c)
  BY <1>1, ReturnKeepsRInv DEF LoadFails
<1>2. CASE LoadAndMerge(c)
  <2>1. PICK s \in Layouts(Upsert(Upsert(EmptyMap, target.traces), batch[c])) :
           merged' = [merged EXCEPT ![c] = s]
    BY <1>2 DEF LoadAndMerge
  <2>2. MapOf(Json(s)) = Upsert(MapOf(target), batch[c])
    BY <2>1, MergeMap
  <2>3. merged'[c] = s /\ \A d \in Caller \ {c} : merged'[d] = merged[d]
    BY <2>1
  <2>4. MapOf(Json(merged'[c])) = Upsert(MapOf(target'), batch'[c])
    BY <1>2, <2>2, <2>3 DEF LoadAndMerge
  <2> QED
    BY <1>2, <2>3, <2>4 DEF LoadAndMerge
<1>3. CASE CreateTemp(c)
  BY <1>3 DEF CreateTemp
<1>4. CASE WriteTemp(c)
  BY <1>4 DEF WriteTemp
<1>5. CASE SyncTemp(c)
  BY <1>5 DEF SyncTemp
<1>6. CASE CloseTemp(c)
  BY <1>6 DEF CloseTemp
<1>7. CASE RenameTemp(c)
  <2>1. \A f \in (survivors \cup {target})' : UniqueIDs(f.traces)
    <3>1. UniqueIDs(found'.traces)
      BY <1>7 DEF RenameTemp, CleanStart
    <3> QED
      BY <3>1 DEF IInv, WrittenFiles, GoodArray
  <2>2. \A d \in Caller : pc'[d] = "idle"
    BY <1>7 DEF RenameTemp, Return
  <2> QED
    BY <2>1, <2>2
<1>8. CASE WriteFails(c)
  BY <1>8, ReturnKeepsRInv DEF WriteFails
<1> QED
  BY <1>1, <1>2, <1>3, <1>4, <1>5, <1>6, <1>7, <1>8 DEF StoreStep

\* Entering Store while nobody else is in it keeps the refinement invariant.
LEMMA CallKeepsRInv ==
    ASSUME CleanStart, TypeOK, RInv, NEW c \in Caller, StoreCall(c)
    PROVE  RInv'
<1>1. CASE StoreCancelled(c)
  BY <1>1, ReturnKeepsRInv DEF StoreCancelled
<1>2. ASSUME NEW b \in Batch, StoreRejected(c, b)
      PROVE  RInv'
  BY <1>2, ReturnKeepsRInv DEF StoreRejected
<1>3. ASSUME NEW b \in Batch, StoreNothing(c, b)
      PROVE  RInv'
  BY <1>3, ReturnKeepsRInv DEF StoreNothing
<1>4. ASSUME NEW b \in Batch, StoreBegin(c, b)
      PROVE  RInv'
  BY <1>4 DEF StoreBegin, MayCall, CleanStart, TypeOK, RInv, Goto, disk, Stages,
              InStore
<1> QED
  BY <1>1, <1>2, <1>3, <1>4 DEF StoreCall

\* A flushed directory and a power failure keep the refinement invariant.
LEMMA EnvironmentKeepsRInv ==
    ASSUME CleanStart, TypeOK, IInv', RInv, Writeback \/ PowerFails
    PROVE  RInv'
<1> USE DEF TypeOK, RInv, Stages, InStore
<1>1. CASE Writeback
  BY <1>1 DEF Writeback
<1>2. CASE PowerFails
  BY <1>2 DEF PowerFails
<1> QED
  BY <1>1, <1>2

\* With coordinated callers the refinement invariant holds in every reachable
\* state.
THEOREM RefinementInvariant ==
    ASSUME CleanStart
    PROVE  Spec => []RInv
<1>1. Init => RInv
  BY DEF Init, RInv, InStore, CleanStart
<1>2. TypeOK /\ IInv /\ IInv' /\ RInv /\ [Next]_storeVars => RInv'
  <2> SUFFICES ASSUME TypeOK, IInv, IInv', RInv, [Next]_storeVars
               PROVE  RInv'
    OBVIOUS
  <2>1. ASSUME NEW c \in Caller, ProcessDies(c)
        PROVE  RInv'
    BY <2>1, ReturnKeepsRInv DEF ProcessDies
  <2>2. CASE UNCHANGED storeVars
    BY <2>2 DEF storeVars, RInv, MapOf
  <2> QED
    BY <2>1, <2>2, CallKeepsRInv, StepKeepsRInv, EnvironmentKeepsRInv DEF Next
<1> QED
  BY <1>1, <1>2, TypeCorrect, Inductive, PTL DEF Spec

\* A rename is the moment a batch takes effect in the promised store.
LEMMA RenameStores ==
    ASSUME TypeOK, IInv, RInv, NEW c \in Caller, RenameTemp(c)
    PROVE  Promise!StoreBatch(batch[c])
<1> USE DEF TypeOK, RInv, IInv, InStore, Stages
<1>1. /\ tmp[c] = Json(merged[c]) /\ synced[c] /\ AllValid(batch[c])
      /\ MapOf(Json(merged[c])) = Upsert(MapOf(target), batch[c])
  BY DEF RenameTemp
<1>2. target' = tmp[c] /\ survivors' = survivors \cup {tmp[c]}
  BY <1>1 DEF RenameTemp
<1>3. MapOf(target)' = Upsert(MapOf(target), batch[c])
  BY <1>1, <1>2 DEF MapOf
<1>4. { MapOf(f) : f \in survivors }' =
         { MapOf(f) : f \in survivors } \cup {MapOf(target)'}
  <2>1. { MapOf(f) : f \in survivors }' = { MapOf(f) : f \in survivors' }
    BY DEF MapOf
  <2>2. MapOf(target)' = MapOf(target')
    BY DEF MapOf
  <2> QED
    BY <1>2, <2>1, <2>2
<1> QED
  BY <1>1, <1>3, <1>4, PromiseUpsert DEF Promise!StoreBatch, AllValid

\* Steps that leave the disk alone are invisible to the promised store.
LEMMA DiskUnchanged ==
    ASSUME UNCHANGED disk
    PROVE  UNCHANGED Promise!abstractVars
BY DEF disk, Promise!abstractVars, MapOf

\* Every step of the file store is a step of the promised store or invisible
\* to it.
LEMMA StepImplements ==
    ASSUME TypeOK, IInv, RInv, [Next]_storeVars
    PROVE  [Promise!Next]_(Promise!abstractVars)
<1>1. ASSUME NEW c \in Caller, StoreCall(c) \/ ProcessDies(c)
      PROVE  UNCHANGED disk
  BY <1>1 DEF StoreCall, StoreCancelled, StoreRejected, StoreNothing, StoreBegin,
              ProcessDies
<1>2. ASSUME NEW c \in Caller, StoreStep(c), ~RenameTemp(c)
      PROVE  UNCHANGED disk
  BY <1>2 DEF StoreStep, LoadFails, LoadAndMerge, CreateTemp, WriteTemp,
              SyncTemp, CloseTemp, WriteFails, disk
<1>3. ASSUME NEW c \in Caller, RenameTemp(c)
      PROVE  Promise!Next
  <2>1. batch[c] \in Batch
    BY <1>3 DEF RenameTemp, RInv, InStore, Stages
  <2> QED
    BY <1>3, <2>1, RenameStores DEF Promise!Next
<1>4. CASE Writeback
  BY <1>4 DEF Writeback, Promise!Next, Promise!Persist, MapOf
<1>5. CASE PowerFails
  <2>1. MapOf(target)' \in { MapOf(f) : f \in survivors }
    BY <1>5 DEF PowerFails, MapOf
  <2>2. { MapOf(f) : f \in survivors }' = {MapOf(target)'}
    BY <1>5 DEF PowerFails, MapOf
  <2> QED
    BY <2>1, <2>2 DEF Promise!Next, Promise!Outage
<1>6. CASE UNCHANGED storeVars
  BY <1>6, DiskUnchanged DEF storeVars, disk
<1> QED
  BY <1>1, <1>2, <1>3, <1>4, <1>5, <1>6, DiskUnchanged DEF Next

\* Callers that coordinate get the promise of store.go from the file: whole
\* batches, applied one after the other, and a power failure takes back whole
\* batches only (Store, writeAtomic).
THEOREM FileImplementsPromise ==
    ASSUME CleanStart
    PROVE  Spec => ImplementsTraceStore
<1>1. Init => Promise!Init
  BY MapOfType, StoreAssumption DEF Init, Promise!Init, Promise!Maps, Maps
<1>2. TypeOK /\ IInv /\ RInv /\ [Next]_storeVars
        => [Promise!Next]_(Promise!abstractVars)
  BY StepImplements
<1> QED
  BY <1>1, <1>2, TypeCorrect, Inductive, RefinementInvariant, PTL
     DEF Spec, ImplementsTraceStore, Promise!Spec

(***************************************************************************)
(* Batches stay whole and what is acknowledged is there, also when callers  *)
(* race.                                                                    *)
(***************************************************************************)

\* The last position of an ID decides what the map holds under it.
LEMMA LastHeld ==
    ASSUME NEW m \in Maps, NEW s \in Seq(Trace), NEW i \in TraceID
    PROVE  /\ \A k \in LastPositions(s, i) : Upsert(m, s)[i] = s[k]
           /\ i \in IDsOf(s) <=> LastPositions(s, i) # {}
           /\ i \notin IDsOf(s) => Upsert(m, s)[i] = m[i]
<1>1. DOMAIN s = 1..Len(s) /\ Len(s) \in Nat
  OBVIOUS
<1>2. \A j, k \in LastPositions(s, i) : j = k
  BY <1>1 DEF LastPositions
<1>3. ASSUME i \in IDsOf(s) PROVE LastPositions(s, i) # {}
  <2> DEFINE K == { k \in DOMAIN s : s[k].id = i }
  <2>1. K # {}
    BY <1>3 DEF IDsOf
  <2>2. K \in SUBSET Int /\ IsFiniteSet(K)
    BY Places
  <2>3. PICK m2 \in K : \A k \in K : k =< m2
    <3> HIDE DEF K
    <3> QED
      BY <2>1, <2>2, FirstAndLast
  <2>4. m2 \in LastPositions(s, i)
    <3>1. \A j \in DOMAIN s : j > m2 => s[j].id # i
      BY <1>1, <2>3
    <3> QED
      BY <2>3, <3>1 DEF LastPositions
  <2> QED
    BY <2>4
<1>4. LastPositions(s, i) # {} => i \in IDsOf(s)
  BY DEF LastPositions, IDsOf
<1>5. ASSUME NEW k \in LastPositions(s, i) PROVE Upsert(m, s)[i] = s[k]
  BY <1>2 DEF Upsert
<1>6. i \notin IDsOf(s) => Upsert(m, s)[i] = m[i]
  BY <1>4 DEF Upsert
<1> QED
  BY <1>3, <1>4, <1>5, <1>6

\* The array written for a map holds the IDs of the map.
LEMMA LayoutIDs ==
    ASSUME NEW m \in Maps, WellKeyed(m), NEW s \in Layouts(m)
    PROVE  \A i : i \in IDsOf(s) <=> i \in TraceID /\ m[i] # NoTrace
<1>1. Range(s) = Stored(m)
  BY LayoutFacts
<1>2. ASSUME NEW i, i \in IDsOf(s) PROVE i \in TraceID /\ m[i] # NoTrace
  <2>1. PICK k \in DOMAIN s : s[k].id = i
    BY <1>2 DEF IDsOf
  <2>2. PICK j \in TraceID : m[j] # NoTrace /\ s[k] = m[j]
    BY <1>1 DEF Range, Stored
  <2> QED
    BY <2>1, <2>2 DEF WellKeyed
<1>3. ASSUME NEW i \in TraceID, m[i] # NoTrace PROVE i \in IDsOf(s)
  <2>1. PICK k \in DOMAIN s : s[k] = m[i]
    BY <1>1, <1>3 DEF Range, Stored
  <2> QED
    BY <2>1, <1>3 DEF WellKeyed, IDsOf
<1> QED
  BY <1>2, <1>3

\* Store writes the IDs that were there and those of the batch, no others, and
\* under each ID of the batch its last trace.
LEMMA MergeIDs ==
    ASSUME NEW f \in File, NEW b \in Seq(Trace),
           NEW s \in Layouts(Upsert(Upsert(EmptyMap, f.traces), b))
    PROVE  /\ IDsOf(s) = IDsOf(f.traces) \cup IDsOf(b)
           /\ \A i \in TraceID : \A k \in LastPositions(b, i) : Find(s, i) = b[k]
<1> DEFINE m == Upsert(EmptyMap, f.traces)
           n == Upsert(m, b)
<1>1. f.traces \in Seq(Trace)
  BY DEF File
<1>2. m \in Maps /\ WellKeyed(m)
  BY <1>1, EmptyMapFacts, UpsertType, UpsertKeyed
<1>3. n \in Maps /\ WellKeyed(n)
  <2> HIDE DEF m
  <2> QED
    BY <1>2, UpsertType, UpsertKeyed
<1>4. \A i \in IDsOf(f.traces) \cup IDsOf(b) : i \in TraceID
  BY <1>1, TraceAssumption DEF IDsOf
<1>5. ASSUME NEW i \in TraceID, i \in IDsOf(f.traces) PROVE m[i] # NoTrace
  <2>1. PICK k \in LastPositions(f.traces, i) : m[i] = f.traces[k]
    BY <1>1, <1>5, EmptyMapFacts, LastHeld
  <2> QED
    BY <1>1, <2>1, TraceAssumption DEF LastPositions
<1>6. ASSUME NEW i \in TraceID, i \notin IDsOf(f.traces) PROVE m[i] = NoTrace
  BY <1>1, <1>6, EmptyMapFacts, LastHeld DEF EmptyMap
<1> HIDE DEF m
<1>7. ASSUME NEW i \in TraceID, i \in IDsOf(b) PROVE n[i] # NoTrace
  <2>1. PICK k \in LastPositions(b, i) : n[i] = b[k]
    BY <1>2, <1>7, LastHeld
  <2> QED
    BY <2>1, TraceAssumption DEF LastPositions
<1>8. ASSUME NEW i \in TraceID, i \notin IDsOf(b) PROVE n[i] = m[i]
  BY <1>2, <1>8, LastHeld
<1>9. s \in Layouts(n)
  BY DEF m
<1>10. ASSUME NEW i \in TraceID, NEW k \in LastPositions(b, i) PROVE Find(s, i) = b[k]
  <2>1. n[i] = b[k]
    BY <1>2, <1>10, LastHeld
  <2>2. MapOf(Json(s)) = n
    <3> HIDE DEF n
    <3> QED
      BY <1>3, <1>9, LayoutMap
  <2> QED
    BY <2>1, <2>2, FileFacts DEF MapOf
<1>11. \A i : i \in IDsOf(s) <=> i \in TraceID /\ n[i] # NoTrace
  <2> HIDE DEF n
  <2> QED
    BY <1>3, <1>9, LayoutIDs
<1> HIDE DEF n
<1>12. IDsOf(s) = IDsOf(f.traces) \cup IDsOf(b)
  BY <1>4, <1>5, <1>6, <1>7, <1>8, <1>11
<1> QED
  BY <1>10, <1>12

\* All of b is in the array s, or none of it.
WholeIn(b, s) == IDsOf(b) \subseteq IDsOf(s) \/ IDsOf(b) \cap IDsOf(s) = {}

\* Outside Store a caller has no batch; inside, the batch is one of those passed
\* and nothing is reported yet; from the merge on the array to be written holds
\* the last trace of the batch under each of its IDs, and every exclusive batch
\* as a whole or not at all, as do the files a power failure may leave.
WInv ==
    /\ \A c \in Caller : pc[c] \notin InStore => batch[c] = <<>>
    /\ \A c \in Caller : pc[c] \in InStore => batch[c] \in Batch /\ reply[c] = "none"
    /\ \A c \in Caller : pc[c] \in InStore \ {"load"} =>
          /\ \A i \in TraceID : \A k \in LastPositions(batch[c], i) :
                Find(merged[c], i) = batch[c][k]
          /\ \A b \in Batch : Exclusive(b) => WholeIn(b, merged[c])
    /\ \A f \in survivors \cup {target} : \A b \in Batch :
          Exclusive(b) => WholeIn(b, f.traces)

\* Ending a call without touching the disk keeps it.
LEMMA ReturnKeepsWInv ==
    ASSUME TypeOK, WInv, NEW c \in Caller,
           NEW outcome, Return(c, outcome), UNCHANGED disk
    PROVE  WInv'
BY DEF TypeOK, WInv, Return, Goto, disk, Stages, InStore

\* Entering Store, or being refused by it, keeps it.
LEMMA CallKeepsWInv ==
    ASSUME TypeOK, WInv, NEW c \in Caller, StoreCall(c)
    PROVE  WInv'
<1>1. CASE StoreCancelled(c)
  BY <1>1, ReturnKeepsWInv DEF StoreCancelled
<1>2. ASSUME NEW b \in Batch, StoreRejected(c, b)
      PROVE  WInv'
  BY <1>2, ReturnKeepsWInv DEF StoreRejected
<1>3. ASSUME NEW b \in Batch, StoreNothing(c, b)
      PROVE  WInv'
  BY <1>3, ReturnKeepsWInv DEF StoreNothing
<1>4. ASSUME NEW b \in Batch, StoreBegin(c, b)
      PROVE  WInv'
  BY <1>4 DEF StoreBegin, TypeOK, WInv, Goto, disk, Stages, InStore
<1> QED
  BY <1>1, <1>2, <1>3, <1>4 DEF StoreCall

\* Each step of a call in Store keeps it: a merge adds its batch to what is whole,
\* a rename puts the array at the path.
LEMMA StepKeepsWInv ==
    ASSUME TypeOK, IInv, WInv, NEW c \in Caller, StoreStep(c)
    PROVE  WInv'
<1> USE DEF TypeOK, Goto, disk, Stages, InStore
<1>1. CASE LoadFails(c)
  BY <1>1, ReturnKeepsWInv DEF LoadFails
<1>2. CASE LoadAndMerge(c)
  <2>1. PICK s \in Layouts(Upsert(Upsert(EmptyMap, target.traces), batch[c])) :
           merged' = [merged EXCEPT ![c] = s]
    BY <1>2 DEF LoadAndMerge
  <2>2. /\ target \in File /\ batch[c] \in Seq(Trace) /\ batch[c] \in Batch
        /\ pc[c] = "load" /\ pc' = [pc EXCEPT ![c] = "create"]
        /\ UNCHANGED <<target, survivors, batch, reply>>
    BY <1>2 DEF LoadAndMerge, WInv
  <2>3. /\ IDsOf(s) = IDsOf(target.traces) \cup IDsOf(batch[c])
        /\ \A i \in TraceID : \A k \in LastPositions(batch[c], i) :
              Find(s, i) = batch[c][k]
    BY <2>2, MergeIDs
  <2>4. ASSUME NEW b \in Batch, Exclusive(b)
        PROVE  WholeIn(b, s)
    <3>1. WholeIn(b, target.traces)
      BY <2>4 DEF WInv
    <3>2. CASE b = batch[c]
      BY <2>3, <3>2 DEF WholeIn
    <3>3. CASE b # batch[c]
      <4>1. IDsOf(b) \cap IDsOf(batch[c]) = {}
        BY <2>2, <2>4, <3>3 DEF Exclusive
      <4> QED
        BY <2>3, <3>1, <4>1 DEF WholeIn
    <3> QED
      BY <3>2, <3>3
  <2>5. merged'[c] = s /\ \A d \in Caller \ {c} : merged'[d] = merged[d]
    BY <2>1
  <2>6. ASSUME NEW d \in Caller, pc'[d] \in InStore \ {"load"}
        PROVE  /\ \A i \in TraceID : \A k \in LastPositions(batch'[d], i) :
                     Find(merged'[d], i) = batch'[d][k]
               /\ \A b \in Batch : Exclusive(b) => WholeIn(b, merged'[d])
    <3>1. CASE d = c
      BY <2>2, <2>3, <2>4, <2>5, <3>1
    <3>2. CASE d # c
      BY <2>2, <2>5, <2>6, <3>2 DEF WInv
    <3> QED
      BY <3>1, <3>2
  <2> QED
    BY <2>2, <2>6 DEF WInv
<1>3. CASE CreateTemp(c)
  BY <1>3 DEF CreateTemp, WInv
<1>4. CASE WriteTemp(c)
  BY <1>4 DEF WriteTemp, WInv
<1>5. CASE SyncTemp(c)
  BY <1>5 DEF SyncTemp, WInv
<1>6. CASE CloseTemp(c)
  BY <1>6 DEF CloseTemp, WInv
<1>7. CASE RenameTemp(c)
  <2>1. tmp[c] = Json(merged[c]) /\ synced[c] /\ pc[c] = "rename"
    BY <1>7 DEF RenameTemp, IInv
  <2>2. target' = tmp[c] /\ survivors' = survivors \cup {tmp[c]}
    BY <1>7, <2>1 DEF RenameTemp
  <2>3. \A b \in Batch : Exclusive(b) => WholeIn(b, tmp[c].traces)
    <3>1. tmp[c].traces = merged[c]
      BY <2>1, FileFacts
    <3> QED
      BY <2>1, <3>1 DEF WInv
  <2>4. \A f \in (survivors \cup {target})' : \A b \in Batch :
           Exclusive(b) => WholeIn(b, f.traces)
    BY <2>2, <2>3 DEF WInv
  <2> QED
    BY <1>7, <2>4 DEF RenameTemp, Return, WInv
<1>8. CASE WriteFails(c)
  BY <1>8, ReturnKeepsWInv DEF WriteFails
<1> QED
  BY <1>1, <1>2, <1>3, <1>4, <1>5, <1>6, <1>7, <1>8 DEF StoreStep

\* It holds in every reachable state.
THEOREM WholenessInvariant == Spec => []WInv
<1>1. Init => WInv
  BY DEF Init, WInv, InStore, Exclusive, WholeIn
<1>2. TypeOK /\ IInv /\ WInv /\ [Next]_storeVars => WInv'
  <2> SUFFICES ASSUME TypeOK, IInv, WInv, [Next]_storeVars
               PROVE  WInv'
    OBVIOUS
  <2>1. ASSUME NEW c \in Caller, ProcessDies(c)
        PROVE  WInv'
    BY <2>1, ReturnKeepsWInv DEF ProcessDies
  <2>2. CASE Writeback
    BY <2>2 DEF Writeback, WInv
  <2>3. CASE PowerFails
    BY <2>3 DEF PowerFails, WInv, InStore
  <2>4. CASE UNCHANGED storeVars
    BY <2>4 DEF storeVars, WInv
  <2> QED
    BY <2>1, <2>2, <2>3, <2>4, CallKeepsWInv, StepKeepsWInv DEF Next
<1> QED
  BY <1>1, <1>2, TypeCorrect, Inductive, PTL DEF Spec

\* A batch that shares no ID with others is in the file as a whole or not at all,
\* however calls race, die or lose power (Store, writeAtomic).
THEOREM BatchesStayWhole == Spec => []BatchAllOrNothing
<1>1. WInv => BatchAllOrNothing
  BY DEF WInv, BatchAllOrNothing, WholeIn
<1> QED
  BY <1>1, WholenessInvariant, PTL

\* When Store returns nil its batch is what Get finds, whatever other callers did
\* between its read of the file and its rename, or the file it has just written
\* is longer than the loader reads (Store, Get).
THEOREM AcknowledgedVisible == Spec => AcknowledgedIsVisible
<1> DEFINE Visible ==
      \A c \in Caller :
         (batch[c] # <<>> /\ reply'[c] = "ok") =>
            \/ Outgrown(target')
            \/ \A i \in IDsOf(batch[c]) : \A k \in LastPositions(batch[c], i) :
                   Get(target', i) = Found(batch[c][k])
<1>1. TypeOK /\ IInv /\ WInv /\ Next => Visible
  <2> SUFFICES ASSUME TypeOK, IInv, WInv, Next,
                      NEW c \in Caller, batch[c] # <<>>, reply'[c] = "ok",
                      ~Outgrown(target'),
                      NEW i \in IDsOf(batch[c]), NEW k \in LastPositions(batch[c], i)
               PROVE  Get(target', i) = Found(batch[c][k])
    OBVIOUS
  <2> USE DEF TypeOK, Goto, disk, Stages, InStore
  <2>1. pc[c] # "idle" /\ reply[c] = "none" /\ batch[c] \in Seq(Trace)
    BY DEF WInv
  <2>2. i \in TraceID
    BY <2>1, TraceAssumption DEF IDsOf
  <2>3. RenameTemp(c)
    <3>1. ASSUME NEW d \in Caller, StoreCall(d) PROVE FALSE
      <4>1. reply'[d] # "ok" \/ pc[d] = "idle"
        BY <3>1 DEF StoreCall, StoreCancelled, StoreRejected, StoreNothing, StoreBegin, MayCall
      <4>2. \A e \in Caller \ {d} : reply'[e] = reply[e]
        BY <3>1 DEF StoreCall, StoreCancelled, StoreRejected, StoreNothing, StoreBegin, Return
      <4> QED
        BY <2>1, <4>1, <4>2
    <3>2. ASSUME NEW d \in Caller, StoreStep(d), ~RenameTemp(d) PROVE FALSE
      <4>1. \A e \in Caller : reply'[e] \in {reply[e], "error"}
        BY <3>2 DEF StoreStep, LoadFails, LoadAndMerge, CreateTemp, WriteTemp, SyncTemp,
                    CloseTemp, WriteFails, Return
      <4> QED
        BY <2>1, <4>1
    <3>3. ASSUME NEW d \in Caller, RenameTemp(d), d # c PROVE FALSE
      BY <2>1, <3>3 DEF RenameTemp, Return
    <3>4. ASSUME NEW d \in Caller, ProcessDies(d) PROVE FALSE
      BY <2>1, <3>4 DEF ProcessDies, Return
    <3>5. ~Writeback /\ ~PowerFails
      BY <2>1 DEF Writeback, PowerFails
    <3> QED
      BY <3>1, <3>2, <3>3, <3>4, <3>5 DEF Next
  <2>4. target' = Json(merged[c]) /\ pc[c] = "rename"
    BY <2>3 DEF RenameTemp, IInv
  <2>5. target'.kind = "json" /\ target'.traces = merged[c] /\ merged[c] \in Seq(Trace)
    BY <2>4, FileFacts
  <2>6. AllValid(target'.traces)
    BY <2>4, <2>5 DEF IInv, GoodArray
  <2>7. Readable(target')
    BY <2>5, <2>6, StoreAssumption DEF Outgrown, Readable
  <2>8. Find(target'.traces, i) = batch[c][k]
    <3>1. Find(merged[c], i) = batch[c][k]
      BY <2>2, <2>4 DEF WInv
    <3> QED
      BY <2>5, <3>1
  <2> QED
    BY <2>7, <2>8 DEF Get, Found
<1>2. TypeOK /\ IInv /\ WInv /\ [Next]_storeVars => [Visible]_storeVars
  BY <1>1
<1> QED
  BY <1>2, TypeCorrect, Inductive, WholenessInvariant, PTL DEF Spec, AcknowledgedIsVisible
============================================================================
