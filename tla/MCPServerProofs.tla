-------------------------- MODULE MCPServerProofs --------------------------
(***************************************************************************)
(* Proofs about MCPServer, for any number of servers and requests.  What    *)
(* the servers do to their file is what callers of JSONFileStore do, so its *)
(* theorems hold of them; the invariants here follow a line from the        *)
(* client's pipe to its response, and the trace of a call from the server   *)
(* that records it into the file the others read.                           *)
(***************************************************************************)
EXTENDS MCPServer, SubsequencesProofs

\* JSONFileStore with its theorems, of the constants and variables of FS.
FSP == INSTANCE JSONFileStoreProofs WITH
    Caller <- Server,
    Coordinated <- FALSE,
    Batch <- { <<InvocationTrace(p, n)>> : p \in Server, n \in Request }

(***************************************************************************)
(* The servers' file is a JSONFileStore.                                    *)
(***************************************************************************)

\* What JSONFileStore assumes holds here.
LEMMA FileAssumed ==
    /\ \A t \in Trace : t.id \in TraceID /\ t.timestamp \in Nat
    /\ ValidTrace \subseteq Trace
    /\ \A t \in ValidTrace : t.timestamp > 0
    /\ NoTrace \notin Trace
    /\ FSP!IsFiniteSet(TraceID)
    /\ \A b \in { <<InvocationTrace(p, n)>> : p \in Server, n \in Request } : b \in Seq(Trace)
    /\ InitialFile \subseteq FSP!File
    /\ FALSE \in BOOLEAN
    /\ MaxFileTraces \in Nat
    /\ MaxSurvivors \in Nat
<1>1. ASSUME NEW p \in Server, NEW n \in Request
      PROVE  <<InvocationTrace(p, n)>> \in Seq(Trace)
  <2>1. InvocationTrace(p, n) \in Trace
    BY ServerAssumption, FileAssumption
  <2> QED
    BY <2>1
<1>2. ASSUME NEW b \in { <<InvocationTrace(p, n)>> : p \in Server, n \in Request }
      PROVE  b \in Seq(Trace)
  <2>1. PICK p \in Server, n \in Request : b = <<InvocationTrace(p, n)>>
    OBVIOUS
  <2> QED
    BY <1>1, <2>1
<1>3. FS!File = FSP!File
  BY DEF FS!File, FSP!File
<1>4. FSP!IsFiniteSet(TraceID) <=> IsFiniteSet(TraceID)
  BY DEF FSP!IsFiniteSet, IsFiniteSet
<1> QED
  BY <1>2, <1>3, <1>4, FileAssumption

\* The operators of FS and those the theorems are about are the same.
LEMMA SameStore ==
    /\ FS!Init <=> FSP!Init
    /\ FS!TypeOK <=> FSP!TypeOK
    /\ \A p, b : FS!StoreBegin(p, b) <=> FSP!StoreBegin(p, b)
    /\ \A p : FS!StoreCancelled(p) <=> FSP!StoreCancelled(p)
    /\ \A p : FS!ProcessDies(p) <=> FSP!ProcessDies(p)
    /\ \A s : FS!IDsOf(s) = FSP!IDsOf(s)
<1>1. FS!Init <=> FSP!Init
  BY DEF FS!Init, FSP!Init, FS!Absent, FSP!Absent
<1>2. FS!TypeOK <=> FSP!TypeOK
  BY DEF FS!TypeOK, FSP!TypeOK, FS!File, FSP!File, FS!Stages, FSP!Stages
<1>3. \A p, b : FS!StoreBegin(p, b) <=> FSP!StoreBegin(p, b)
  BY DEF FS!StoreBegin, FSP!StoreBegin, FS!MayCall, FSP!MayCall, FS!AllValid, FSP!AllValid,
         FS!Goto, FSP!Goto, FS!disk, FSP!disk
<1>4. \A p, o : FS!Return(p, o) <=> FSP!Return(p, o)
  BY DEF FS!Return, FSP!Return, FS!Goto, FSP!Goto, FS!Absent, FSP!Absent
<1>5. \A p : FS!StoreCancelled(p) <=> FSP!StoreCancelled(p)
  BY <1>4 DEF FS!StoreCancelled, FSP!StoreCancelled, FS!MayCall, FSP!MayCall, FS!disk, FSP!disk
<1>6. \A p : FS!ProcessDies(p) <=> FSP!ProcessDies(p)
  BY <1>4 DEF FS!ProcessDies, FSP!ProcessDies, FS!disk, FSP!disk
<1>7. \A s : FS!IDsOf(s) = FSP!IDsOf(s)
  BY DEF FS!IDsOf, FSP!IDsOf
<1> QED
  BY <1>1, <1>2, <1>3, <1>5, <1>6, <1>7

\* The step of Store is the same whether FileStore is reached from the
\* server or from the proofs about the file.
LEMMA SameStep ==
    ASSUME NEW p
    PROVE  FS!StoreStep(p) <=> FSP!StoreStep(p)
<1>1. \A o : FS!Return(p, o) <=> FSP!Return(p, o)
  BY DEF FS!Return, FSP!Return, FS!Goto, FSP!Goto, FS!Absent, FSP!Absent
<1>2. \A f : FS!Readable(f) <=> FSP!Readable(f)
  BY DEF FS!Readable, FSP!Readable, FS!AllValid, FSP!AllValid
<1>3. \A m, s : FS!Upsert(m, s) = FSP!Upsert(m, s)
  BY DEF FS!Upsert, FSP!Upsert, FS!LastPositions, FSP!LastPositions
<1>4. FS!EmptyMap = FSP!EmptyMap
  BY DEF FS!EmptyMap, FSP!EmptyMap
<1>5. \A m : FS!Layouts(m) = FSP!Layouts(m)
  BY DEF FS!Layouts, FSP!Layouts, FS!Stored, FSP!Stored, FS!SortedByTime, FSP!SortedByTime,
         FS!Range, FSP!Range, FS!IsInjective, FSP!IsInjective,
         FS!Cardinality, FSP!Cardinality
<1>6. FS!LoadFails(p) <=> FSP!LoadFails(p)
  BY <1>1, <1>2 DEF FS!LoadFails, FSP!LoadFails, FS!disk, FSP!disk
<1>7. FS!LoadAndMerge(p) <=> FSP!LoadAndMerge(p)
  BY <1>2, <1>3, <1>4, <1>5
     DEF FS!LoadAndMerge, FSP!LoadAndMerge, FS!disk, FSP!disk, FS!Goto, FSP!Goto
<1>8. FS!CreateTemp(p) <=> FSP!CreateTemp(p)
  BY DEF FS!CreateTemp, FSP!CreateTemp, FS!disk, FSP!disk, FS!Goto, FSP!Goto, FS!Torn, FSP!Torn
<1>9. FS!WriteTemp(p) <=> FSP!WriteTemp(p)
  BY DEF FS!WriteTemp, FSP!WriteTemp, FS!disk, FSP!disk, FS!Goto, FSP!Goto, FS!Json, FSP!Json
<1>10. FS!SyncTemp(p) <=> FSP!SyncTemp(p)
  BY DEF FS!SyncTemp, FSP!SyncTemp, FS!disk, FSP!disk, FS!Goto, FSP!Goto
<1>11. FS!CloseTemp(p) <=> FSP!CloseTemp(p)
  BY DEF FS!CloseTemp, FSP!CloseTemp, FS!disk, FSP!disk, FS!Goto, FSP!Goto
<1>12. FS!RenameTemp(p) <=> FSP!RenameTemp(p)
  BY <1>1 DEF FS!RenameTemp, FSP!RenameTemp, FS!Torn, FSP!Torn,
                FS!Cardinality, FSP!Cardinality
<1>13. FS!WriteFails(p) <=> FSP!WriteFails(p)
  BY <1>1 DEF FS!WriteFails, FSP!WriteFails, FS!disk, FSP!disk
<1> QED
  BY <1>6, <1>7, <1>8, <1>9, <1>10, <1>11, <1>12, <1>13 DEF FS!StoreStep, FSP!StoreStep

(***************************************************************************)
(* The loop of a server: types, and where it is in its client's lines.      *)
(***************************************************************************)

Spots == {"scan", "query", "record", "recording", "answer", "failed", "exited"}

Response == [line : Nat, outcome : Outcomes, saw : SUBSET TraceID]

Types ==
    /\ at \in [Server -> Spots]
    /\ sent \in [Server -> Seq(Kinds)]
    /\ consumed \in [Server -> Nat]
    /\ open \in [Server -> BOOLEAN]
    /\ listening \in [Server -> BOOLEAN]
    /\ cancelled \in [Server -> BOOLEAN]
    /\ saw \in [Server -> SUBSET TraceID]
    /\ out \in [Server -> Seq(Response)]
    /\ logged \in [Server -> SUBSET Request]

\* While a tool runs, the line in hand is a call of one; only a cut is recorded.
Line(p) ==
    /\ Len(sent[p]) =< MaxRequests
    /\ consumed[p] =< Len(sent[p])
    /\ at[p] \in Spots \ {"scan", "exited"} =>
          consumed[p] >= 1 /\ sent[p][consumed[p]] \in {"validate", "cut"}
    /\ at[p] \in {"record", "recording"} => sent[p][consumed[p]] = "cut"
    /\ \A k \in DOMAIN out[p] : out[p][k].line \in 1..consumed[p]

TInv ==
    /\ FSP!TypeOK
    /\ Types
    /\ \A p \in Server : Line(p)

\* The request in hand is one of those a client may send.
LEMMA InRange ==
    ASSUME TInv, NEW p \in Server, at[p] \in Spots \ {"scan", "exited"}
    PROVE  consumed[p] \in Request /\ consumed[p] \in 1..Len(sent[p])
<1>1. consumed[p] \in Nat /\ Len(sent[p]) \in Nat /\ MaxRequests \in Nat
  BY ServerAssumption DEF TInv, Types
<1> QED
  BY <1>1 DEF TInv, Line, Request

\* What the servers do to the file are steps of callers of the store.
LEMMA StoreSteps ==
    ASSUME TInv, [Next]_vars
    PROVE  [FSP!Next]_(FSP!storeVars)
<1>1. CASE UNCHANGED fileVars
  BY <1>1 DEF fileVars, FSP!storeVars
<1>2. CASE UNCHANGED vars
  BY <1>1, <1>2 DEF vars
<1>3. ASSUME NEW p \in Server, Killed(p), ~ UNCHANGED fileVars
      PROVE  FSP!Next
  <2>1. FSP!ProcessDies(p)
    BY <1>3, SameStore DEF Killed
  <2> QED
    BY <2>1 DEF FSP!Next
<1>4. ASSUME NEW p \in Server, RecordBegin(p)
      PROVE  FSP!Next
  <2>1. consumed[p] \in Request
    BY <1>4, InRange DEF RecordBegin, Spots
  <2>2. FSP!StoreCancelled(p) \/ FSP!StoreBegin(p, <<InvocationTrace(p, consumed[p])>>)
    BY <1>4, SameStore DEF RecordBegin
  <2>3. FSP!StoreCall(p)
    BY <2>1, <2>2 DEF FSP!StoreCall
  <2> QED
    BY <2>3 DEF FSP!Next
<1>5. ASSUME NEW p \in Server, RecordStep(p)
      PROVE  FSP!Next
  BY <1>5, SameStep DEF RecordStep, FSP!Next
<1> QED
  BY <1>1, <1>2, <1>3, <1>4, <1>5 DEF Next, ServerStep, ClientSends, ClientClosesInput,
     ClientDies, Signal, Takes, StopReading, AnswerAtOnce, SkipNotification, CallTool,
     EndOfInput, QueryStore, QueryFails, RecordEnds, Answer

\* What a query of everything returns, where the file can be loaded: the IDs of
\* the file.
LEMMA QueryAll ==
    ASSUME FSP!TypeOK
    PROVE  /\ FS!Readable(target) => FS!IDsOf(FS!Query(target, FS!AnyTrace).traces)
                                       = FSP!IDsOf(target.traces)
           /\ FSP!IDsOf(target.traces) \subseteq TraceID
           /\ target \in FSP!File /\ target.traces \in Seq(Trace)
<1> DEFINE s == target.traces
           K == DOMAIN s
<1>1. target \in FSP!File /\ s \in Seq(Trace)
  BY DEF FSP!TypeOK, FSP!File
<1>2. { k \in DOMAIN s : FS!Matches(s[k], FS!AnyTrace) } = K
  BY DEF FS!Matches, FS!AnyTrace
<1>3. ASSUME FS!Readable(target)
      PROVE  FS!Query(target, FS!AnyTrace).traces = Subsequence(s, K)
  <2>1. FS!Query(target, FS!AnyTrace).traces = FS!Select(s, FS!AnyTrace)
    <3>1. FS!Query(target, FS!AnyTrace).traces
            = FS!Limited(FS!Select(s, FS!AnyTrace), FS!AnyTrace.limit)
      BY <1>3 DEF FS!Query
    <3>2. FS!AnyTrace.limit = 0
      BY DEF FS!AnyTrace
    <3>3. \A u : FS!Limited(u, 0) = u
      BY DEF FS!Limited
    <3> QED
      BY <3>1, <3>2, <3>3
  <2>2. FS!Select(s, FS!AnyTrace) = FS!Subsequence(s, K)
    BY <1>2 DEF FS!Select
  <2>3. \A S : FS!Cardinality(S) = Cardinality(S)
    BY DEF FS!Cardinality, Cardinality
  <2>4. \A S, n : FS!Nth(S, n) = Nth(S, n)
    BY <2>3 DEF FS!Nth, Nth
  <2>5. FS!Subsequence(s, K) = Subsequence(s, K)
    BY <2>3, <2>4 DEF FS!Subsequence, Subsequence
  <2> QED
    BY <2>1, <2>2, <2>5
<1>4. K \in SUBSET Int /\ IsFiniteSet(K)
  <2> K \in SUBSET DOMAIN s
    OBVIOUS
  <2> QED
    BY <1>1, Places
<1>5. FSP!IDsOf(Subsequence(s, K)) = FSP!IDsOf(s)
  <2> HIDE DEF K
  <2>1. /\ \A n \in DOMAIN Subsequence(s, K) :
              Nth(K, n) \in K /\ Subsequence(s, K)[n] = s[Nth(K, n)]
        /\ \A k \in K : \E n \in DOMAIN Subsequence(s, K) :
              Nth(K, n) = k /\ Subsequence(s, K)[n] = s[k]
    BY <1>4, SubsequenceFacts
  <2> QED
    BY <2>1 DEF FSP!IDsOf, K
<1>6. FSP!IDsOf(s) \subseteq TraceID
  BY <1>1, FileAssumption DEF FSP!IDsOf
<1> QED
  BY <1>1, <1>3, <1>5, <1>6, SameStore

\* A response is one, and the loop goes on or ends.
LEMMA WriteTypes ==
    ASSUME Types, NEW p \in Server, NEW line \in Nat, NEW outcome \in Outcomes,
           Write(p, line, outcome)
    PROVE  /\ at' \in [Server -> Spots] /\ at'[p] \in {"scan", "exited"}
           /\ out' \in [Server -> Seq(Response)]
           /\ \A q \in Server \ {p} : at'[q] = at[q] /\ out'[q] = out[q]
           /\ \/ /\ at'[p] = "scan"
                 /\ out'[p] = Append(out[p], [line |-> line, outcome |-> outcome,
                                              saw |-> saw[p]])
              \/ at'[p] = "exited" /\ out'[p] = out[p]
<1>1. [line |-> line, outcome |-> outcome, saw |-> saw[p]] \in Response
  BY DEF Types, Response
<1>2. out[p] \in Seq(Response)
  BY DEF Types
<1>3. Append(out[p], [line |-> line, outcome |-> outcome, saw |-> saw[p]]) \in Seq(Response)
  BY <1>1, <1>2
<1> QED
  BY <1>3 DEF Types, Write, MoveTo, Spots

\* A step of p, its client or its signals.
Acts(p) ==
    \/ ClientSends(p) \/ ClientClosesInput(p) \/ ClientDies(p) \/ Signal(p)
    \/ Killed(p) \/ ServerStep(p)

\* The types are kept, and nobody but its client, its signals and itself changes
\* anything of a server.
LEMMA LoopTypes ==
    ASSUME TInv, NEW p \in Server,
           Acts(p)
    PROVE  /\ Types'
           /\ \A q \in Server \ {p} :
                 /\ at'[q] = at[q] /\ sent'[q] = sent[q] /\ consumed'[q] = consumed[q]
                 /\ saw'[q] = saw[q] /\ out'[q] = out[q] /\ logged'[q] = logged[q]
                 /\ cancelled'[q] = cancelled[q]
<1> USE DEF TInv, Types, Spots, clientVars, serverVars, MoveTo
<1>1. CASE ClientSends(p)
  <2>1. PICK k \in Kinds : sent' = [sent EXCEPT ![p] = Append(@, k)]
    BY <1>1 DEF ClientSends
  <2>2. Append(sent[p], k) \in Seq(Kinds)
    OBVIOUS
  <2> QED
    BY <1>1, <2>1, <2>2 DEF ClientSends
<1>2. CASE ClientClosesInput(p)
  BY <1>2 DEF ClientClosesInput
<1>3. CASE ClientDies(p)
  BY <1>3 DEF ClientDies
<1>4. CASE Signal(p)
  BY <1>4 DEF Signal
<1>5. CASE Killed(p)
  BY <1>5 DEF Killed
<1>6. CASE StopReading(p)
  BY <1>6 DEF StopReading, Takes
<1>7. CASE AnswerAtOnce(p)
  <2>1. consumed' = [consumed EXCEPT ![p] = @ + 1] /\ consumed'[p] \in Nat
    BY <1>7 DEF AnswerAtOnce, Takes
  <2>2. PICK o \in Outcomes : Write(p, consumed'[p], o)
    BY <1>7 DEF AnswerAtOnce, Outcomes
  <2>3. /\ at' \in [Server -> Spots] /\ out' \in [Server -> Seq(Response)]
        /\ \A q \in Server \ {p} : at'[q] = at[q] /\ out'[q] = out[q]
    BY <2>1, <2>2, WriteTypes
  <2> QED
    BY <1>7, <2>1, <2>3 DEF AnswerAtOnce, Takes
<1>8. CASE SkipNotification(p)
  BY <1>8 DEF SkipNotification, Takes
<1>9. CASE CallTool(p)
  BY <1>9 DEF CallTool, Takes
<1>10. CASE EndOfInput(p)
  BY <1>10 DEF EndOfInput
<1>11. CASE QueryStore(p)
  <2>1. FSP!IDsOf(target.traces) \in SUBSET TraceID
    BY QueryAll
  <2>2. saw' = [saw EXCEPT ![p] = FSP!IDsOf(target.traces)]
    BY <1>11, QueryAll DEF QueryStore
  <2> QED
    BY <1>11, <2>1, <2>2 DEF QueryStore
<1>12. CASE QueryFails(p)
  BY <1>12 DEF QueryFails
<1>13. CASE RecordBegin(p)
  BY <1>13 DEF RecordBegin
<1>14. CASE RecordStep(p)
  BY <1>14 DEF RecordStep
<1>15. CASE RecordEnds(p)
  <2>1. consumed[p] \in Request
    BY <1>15, InRange DEF RecordEnds
  <2> QED
    BY <1>15, <2>1 DEF RecordEnds
<1>16. CASE Answer(p)
  <2>1. PICK o \in Outcomes : Write(p, consumed[p], o)
    BY <1>16 DEF Answer, Outcomes
  <2>2. /\ at' \in [Server -> Spots] /\ out' \in [Server -> Seq(Response)]
        /\ \A q \in Server \ {p} : at'[q] = at[q] /\ out'[q] = out[q]
    BY <2>1, WriteTypes
  <2> QED
    BY <1>16, <2>2 DEF Answer
<1> QED
  BY <1>1, <1>2, <1>3, <1>4, <1>5, <1>6, <1>7, <1>8, <1>9, <1>10, <1>11, <1>12, <1>13,
     <1>14, <1>15, <1>16 DEF Acts, ServerStep

\* What a client has sent stays sent.
LEMMA SentGrows ==
    ASSUME TInv, NEW p \in Server, ClientSends(p)
    PROVE  /\ sent'[p] \in Seq(Kinds) /\ Len(sent'[p]) = Len(sent[p]) + 1
           /\ Len(sent'[p]) =< MaxRequests
           /\ \A n \in 1..Len(sent[p]) : sent'[p][n] = sent[p][n]
<1>1. PICK k \in Kinds : sent' = [sent EXCEPT ![p] = Append(@, k)]
  BY DEF ClientSends
<1>2. sent'[p] = Append(sent[p], k) /\ sent[p] \in Seq(Kinds)
  BY <1>1 DEF TInv, Types
<1>3. Len(sent[p]) < MaxRequests /\ MaxRequests \in Nat
  BY ServerAssumption DEF ClientSends
<1> QED
  BY <1>2, <1>3

\* A response written for the line n, no earlier than the last one.
LEMMA WriteLine ==
    ASSUME TInv, NEW p \in Server, NEW n \in Nat, n >= 1, n >= consumed[p],
           NEW outcome \in Outcomes, Write(p, n, outcome)
    PROVE  \A k \in DOMAIN out'[p] : out'[p][k].line \in 1..n
<1> DEFINE r == [line |-> n, outcome |-> outcome, saw |-> saw[p]]
<1>1. out'[p] = out[p] \/ out'[p] = Append(out[p], r)
  BY WriteTypes DEF TInv
<1>2. out[p] \in Seq(Response) /\ consumed[p] \in Nat
  BY DEF TInv, Types
<1>3. \A k \in DOMAIN out[p] : out[p][k].line \in 1..n
  BY <1>2 DEF TInv, Line
<1>4. r.line \in 1..n
  OBVIOUS
<1>5. ASSUME out'[p] = Append(out[p], r)
      PROVE  \A k \in DOMAIN out'[p] : out'[p][k] = r \/ (k \in DOMAIN out[p] /\ out'[p][k] = out[p][k])
  <2> HIDE DEF r
  <2> QED
    BY <1>2, <1>5
<1> HIDE DEF r
<1> QED
  BY <1>1, <1>3, <1>4, <1>5

\* A server's step keeps the line it has read and what it owes for it.
LEMMA LineKept ==
    ASSUME TInv, NEW p \in Server, Types',
           Acts(p)
    PROVE  Line(p)'
<1>a. Len(sent[p]) \in Nat /\ consumed[p] \in Nat /\ MaxRequests \in Nat
  BY ServerAssumption DEF TInv, Types
<1>4. ASSUME NEW kinds, Takes(p, kinds)
      PROVE  /\ consumed'[p] = consumed[p] + 1 /\ consumed'[p] =< Len(sent'[p])
             /\ sent' = sent /\ sent[p][consumed'[p]] \in kinds /\ at[p] = "scan"
             /\ \A k \in DOMAIN out[p] : out[p][k].line \in 1..consumed'[p]
  <2>1. /\ consumed'[p] = consumed[p] + 1 /\ sent' = sent /\ at[p] = "scan"
        /\ consumed[p] < Len(sent[p]) /\ sent[p][consumed'[p]] \in kinds
    BY <1>4 DEF Takes, clientVars, TInv, Types
  <2> QED
    BY <1>a, <2>1 DEF TInv, Line
<1>6. CASE AnswerAtOnce(p)
  <2>1. PICK o \in Outcomes : Write(p, consumed'[p], o)
    BY <1>6 DEF AnswerAtOnce, Outcomes
  <2>2. /\ consumed'[p] = consumed[p] + 1 /\ consumed'[p] =< Len(sent'[p])
        /\ sent' = sent /\ consumed'[p] \in Nat /\ Types
    BY <1>4, <1>6, <1>a DEF AnswerAtOnce, TInv
  <2>3. at'[p] \in {"scan", "exited"}
    BY <2>1, <2>2, WriteTypes
  <2>4. \A k \in DOMAIN out'[p] : out'[p][k].line \in 1..consumed'[p]
    BY <1>a, <2>1, <2>2, WriteLine
  <2> QED
    BY <2>2, <2>3, <2>4 DEF Line, TInv, Spots
<1>15. CASE Answer(p)
  <2>1. PICK o \in Outcomes : Write(p, consumed[p], o)
    BY <1>15 DEF Answer, Outcomes
  <2>2. consumed' = consumed /\ sent' = sent /\ consumed[p] >= 1 /\ Types
    BY <1>15 DEF Answer, TInv, Line, Spots, clientVars
  <2>3. at'[p] \in {"scan", "exited"}
    BY <1>a, <2>1, <2>2, WriteTypes
  <2>4. \A k \in DOMAIN out'[p] : out'[p][k].line \in 1..consumed[p]
    BY <1>a, <2>1, <2>2, WriteLine
  <2> QED
    BY <2>2, <2>3, <2>4 DEF Line, TInv, Spots
<1>1. CASE ClientSends(p)
  <2>1. UNCHANGED <<at, consumed, out>>
    BY <1>1 DEF ClientSends, serverVars
  <2>2. at[p] \in Spots \ {"scan", "exited"} => consumed[p] \in 1..Len(sent[p])
    BY InRange
  <2>3. /\ sent'[p] \in Seq(Kinds) /\ Len(sent'[p]) = Len(sent[p]) + 1
        /\ Len(sent'[p]) =< MaxRequests
        /\ \A n \in 1..Len(sent[p]) : sent'[p][n] = sent[p][n]
    BY <1>1, SentGrows
  <2>4. /\ consumed[p] =< Len(sent[p])
        /\ at[p] \in Spots \ {"scan", "exited"} =>
              consumed[p] >= 1 /\ sent[p][consumed[p]] \in {"validate", "cut"}
        /\ at[p] \in {"record", "recording"} => sent[p][consumed[p]] = "cut"
        /\ \A k \in DOMAIN out[p] : out[p][k].line \in 1..consumed[p]
    BY DEF TInv, Line
  <2>5. {"record", "recording"} \subseteq Spots \ {"scan", "exited"}
    BY DEF Spots
  <2> QED
    BY <1>a, <2>1, <2>2, <2>3, <2>4, <2>5 DEF Line
<1> USE DEF TInv, Types, Spots, clientVars, serverVars, MoveTo, Line
<1>2. CASE ClientClosesInput(p) \/ ClientDies(p) \/ Signal(p)
  BY <1>2 DEF ClientClosesInput, ClientDies, Signal
<1>3. CASE Killed(p)
  BY <1>3 DEF Killed
<1>5. CASE StopReading(p)
  <2>1. at'[p] = "exited" /\ out' = out
    BY <1>5 DEF StopReading
  <2> QED
    BY <1>4, <1>5, <1>a, <2>1 DEF StopReading
<1>7. CASE SkipNotification(p)
  <2>1. at' = at /\ out' = out
    BY <1>7 DEF SkipNotification
  <2> QED
    BY <1>4, <1>7, <1>a, <2>1 DEF SkipNotification
<1>8. CASE CallTool(p)
  <2>1. at'[p] = "query" /\ out' = out
    BY <1>8 DEF CallTool
  <2> QED
    BY <1>4, <1>8, <1>a, <2>1 DEF CallTool
<1>9. CASE EndOfInput(p)
  BY <1>9 DEF EndOfInput
<1>10. CASE QueryStore(p)
  BY <1>10 DEF QueryStore
<1>11. CASE QueryFails(p)
  BY <1>11 DEF QueryFails
<1>12. CASE RecordBegin(p)
  BY <1>12 DEF RecordBegin
<1>13. CASE RecordStep(p)
  BY <1>13 DEF RecordStep
<1>14. CASE RecordEnds(p)
  BY <1>14 DEF RecordEnds
<1> QED
  BY <1>1, <1>2, <1>3, <1>5, <1>6, <1>7, <1>8, <1>9, <1>10, <1>11, <1>12, <1>13,
     <1>14, <1>15 DEF Acts, ServerStep

\* Every step is one of one server or its client's.
LEMMA OneServer ==
    ASSUME Next
    PROVE  \E p \in Server : Acts(p)
  BY DEF Next, Acts

\* The types of the loops and of the file hold in every reachable state.
THEOREM LoopInvariant == Spec => []TInv
<1>1. Init => TInv
  <2> SUFFICES ASSUME Init PROVE TInv
    OBVIOUS
  <2>1. FSP!TypeOK
    <3>1. FSP!Init
      BY SameStore DEF Init
    <3>2. target \in FSP!File /\ survivors \subseteq FSP!File /\ found \in InitialFile
      BY <3>1, FileAssumed DEF FSP!Init
    <3>3. FSP!Absent \in FSP!File
      BY DEF FSP!Absent, FSP!File
    <3> QED
      BY <3>1, <3>2, <3>3 DEF FSP!Init, FSP!TypeOK, FSP!Stages
  <2>2. Types /\ \A p \in Server : Line(p)
    BY ServerAssumption DEF Init, Types, Spots, Line
  <2> QED
    BY <2>1, <2>2 DEF TInv
<1>2. TInv /\ [Next]_vars => TInv'
  <2> SUFFICES ASSUME TInv, [Next]_vars PROVE TInv'
    OBVIOUS
  <2>1. FSP!TypeOK'
    <3>1. FSP!TypeOK /\ [FSP!Next]_(FSP!storeVars)
      BY StoreSteps DEF TInv
    <3> QED
      BY <3>1, FileAssumed, FSP!TypeStep
  <2>2. CASE UNCHANGED vars
    <3>1. UNCHANGED <<at, sent, consumed, open, listening, cancelled, saw, out, logged>>
      BY <2>2 DEF vars, clientVars, serverVars
    <3> QED
      BY <2>1, <3>1 DEF TInv, Types, Line
  <2>3. CASE Next
    <3>1. PICK p \in Server : Acts(p)
      BY <2>3, OneServer
    <3>2. Types' /\ Line(p)'
      BY <3>1, LoopTypes, LineKept
    <3>3. \A q \in Server \ {p} : Line(q)'
      BY <3>1, LoopTypes DEF Line, TInv
    <3> QED
      BY <2>1, <3>2, <3>3 DEF TInv
  <2> QED
    BY <2>2, <2>3
<1> QED
  BY <1>1, <1>2, PTL DEF Spec

\* A server's file is the file of callers of JSONFileStore that do not
\* coordinate, so what is proved of that holds here.
THEOREM FileIsAStore == Spec => FSP!Spec
<1>1. Init => FSP!Init
  BY SameStore DEF Init
<1>2. TInv /\ [Next]_vars => [FSP!Next]_(FSP!storeVars)
  BY StoreSteps
<1> QED
  BY <1>1, <1>2, LoopInvariant, PTL DEF Spec, FSP!Spec

\* The file under the servers keeps the invariants of JSONFileStoreProofs:
\* what the servers do to it are steps of its own specification.
THEOREM FileInvariant == Spec => [](FSP!TypeOK /\ FSP!IInv /\ FSP!WInv)
<1>1. FSP!Spec => []FSP!IInv
  BY FileAssumed, FSP!Inductive
<1>2. FSP!Spec => []FSP!WInv
  BY FileAssumed, FSP!WholenessInvariant
<1>3. FSP!Spec => []FSP!TypeOK
  BY FileAssumed, FSP!TypeCorrect
<1> QED
  BY <1>1, <1>2, <1>3, FileIsAStore, PTL

\* The state of the servers and their file keeps its type.
THEOREM TypeCorrect == Spec => []TypeOK
<1>1. TInv => TypeOK
  <2> SUFFICES ASSUME TInv PROVE TypeOK
    OBVIOUS
  <2>1. FS!TypeOK
    BY SameStore DEF TInv
  <2>2. \A p \in Server : sent[p] \in Seq(Kinds) /\ Len(sent[p]) =< MaxRequests
    BY DEF TInv, Types, Line
  <2>3. \A p \in Server : consumed[p] \in 0..Len(sent[p])
    BY DEF TInv, Types, Line
  <2>4. ASSUME NEW p \in Server, NEW k \in DOMAIN out[p]
        PROVE  out[p][k].line \in 1..consumed[p] /\ out[p][k].outcome \in Outcomes
    <3>1. out[p] \in Seq(Response)
      BY DEF TInv, Types
    <3>2. out[p][k] \in Response
      BY <3>1
    <3> QED
      BY <3>2 DEF TInv, Line, Response
  <2> QED
    BY <2>1, <2>2, <2>3, <2>4 DEF TInv, TypeOK, Types, Spots
<1> QED
  BY <1>1, LoopInvariant, PTL

(***************************************************************************)
(* Every line is answered, in order.                                        *)
(***************************************************************************)

\* The lines of p up to n that are not notifications.
Lines(p, n) == { k \in 1..n : sent[p][k] # "notification" }

\* One more line taken is one more response owed, or none for a notification.
LEMMA OwedNext ==
    ASSUME NEW p, NEW n \in Nat
    PROVE  /\ sent[p][n + 1] = "notification" => Owed(p, n + 1) = Owed(p, n)
           /\ sent[p][n + 1] # "notification" =>
                 /\ Cardinality(Lines(p, n)) \in Nat
                 /\ DOMAIN Owed(p, n) = 1..Cardinality(Lines(p, n))
                 /\ DOMAIN Owed(p, n + 1) = 1..(Cardinality(Lines(p, n)) + 1)
                 /\ Owed(p, n + 1)[Cardinality(Lines(p, n)) + 1] = n + 1
                 /\ \A i \in DOMAIN Owed(p, n) : Owed(p, n + 1)[i] = Owed(p, n)[i]
<1> DEFINE K == Lines(p, n)
           C == Cardinality(K)
<1>1. K \in SUBSET Int /\ IsFiniteSet(K) /\ \A k \in K : k < n + 1
  <2>1. K \subseteq 1..n /\ IsFiniteSet(1..n)
    BY FS_Interval DEF Lines
  <2> QED
    BY <2>1, FS_Subset
<1>2. \A m : Owed(p, m) = [i \in 1..Cardinality(Lines(p, m)) |-> Nth(Lines(p, m), i)]
  BY DEF Owed, Lines
<1>3. CASE sent[p][n + 1] = "notification"
  <2>1. Lines(p, n + 1) = K
    BY <1>3 DEF Lines
  <2> QED
    BY <1>2, <1>3, <2>1
<1>4. CASE sent[p][n + 1] # "notification"
  <2>1. Lines(p, n + 1) = K \cup {n + 1}
    BY <1>4 DEF Lines
  <2>2. n + 1 \in Int
    OBVIOUS
  <2> HIDE DEF K
  <2>3. /\ C \in Nat /\ Cardinality(K \cup {n + 1}) = C + 1
        /\ Nth(K \cup {n + 1}, C + 1) = n + 1
        /\ \A i \in 1..C : Nth(K \cup {n + 1}, i) = Nth(K, i)
    BY <1>1, <2>2, NthExtended
  <2>4. Owed(p, n) = [i \in 1..C |-> Nth(K, i)]
    BY <1>2 DEF K
  <2>5. Owed(p, n + 1) = [i \in 1..(C + 1) |-> Nth(K \cup {n + 1}, i)]
    <3> DEFINE M == Lines(p, n + 1)
    <3>1. Owed(p, n + 1) = [i \in 1..Cardinality(M) |-> Nth(M, i)]
      BY <1>2
    <3> HIDE DEF C, M
    <3>2. M = K \cup {n + 1} /\ Cardinality(M) = C + 1
      BY <2>1, <2>3 DEF M
    <3> QED
      BY <3>1, <3>2
  <2>6. C + 1 \in 1..(C + 1) /\ \A i \in 1..C : i \in 1..(C + 1)
    BY <2>3
  <2> HIDE DEF C
  <2>7. DOMAIN Owed(p, n) = 1..C /\ DOMAIN Owed(p, n + 1) = 1..(C + 1)
    BY <2>4, <2>5
  <2>8. Owed(p, n + 1)[C + 1] = n + 1
    BY <2>3, <2>5, <2>6 DEF C
  <2>9. ASSUME NEW i \in 1..C PROVE Owed(p, n + 1)[i] = Owed(p, n)[i]
    <3>1. i \in 1..(C + 1)
      BY <2>6
    <3>2. Owed(p, n + 1)[i] = Nth(K \cup {n + 1}, i) /\ Owed(p, n)[i] = Nth(K, i)
      BY <2>4, <2>5, <3>1
    <3>3. Nth(K \cup {n + 1}, i) = Nth(K, i)
      BY <2>3 DEF C
    <3> QED
      BY <3>2, <3>3
  <2> QED
    BY <1>4, <2>3, <2>7, <2>8, <2>9 DEF C, K
<1> QED
  BY <1>3, <1>4

\* What is owed for the lines sent so far does not change when more are sent.
LEMMA OwedKept ==
    ASSUME NEW p, NEW n \in Nat, \A k \in 1..n : sent'[p][k] = sent[p][k]
    PROVE  Owed(p, n)' = Owed(p, n)
<1>1. { k \in 1..n : sent'[p][k] # "notification" }
         = { k \in 1..n : sent[p][k] # "notification" }
  OBVIOUS
<1> QED
  BY <1>1 DEF Owed

Answered(p) == [k \in DOMAIN out[p] |-> out[p][k].line]

\* What is answered is what is owed up to the line n.
UpTo(p, n) == n >= 0 /\ Answered(p) = Owed(p, n)

\* A line that is no notification answered next keeps the order.
LEMMA AnswerNext ==
    ASSUME TInv, NEW p \in Server, NEW n \in Nat, UpTo(p, n), sent[p][n + 1] # "notification",
           NEW r, r.line = n + 1, out'[p] = Append(out[p], r), sent'[p] = sent[p]
    PROVE  UpTo(p, n + 1)'
<1> DEFINE C == Cardinality(Lines(p, n))
<1>1. /\ C \in Nat /\ DOMAIN Owed(p, n) = 1..C /\ DOMAIN Owed(p, n + 1) = 1..(C + 1)
      /\ Owed(p, n + 1)[C + 1] = n + 1
      /\ \A i \in DOMAIN Owed(p, n) : Owed(p, n + 1)[i] = Owed(p, n)[i]
  BY OwedNext
<1>2. Owed(p, n + 1)' = Owed(p, n + 1)
  BY OwedKept
<1>3. out[p] \in Seq(Response) /\ DOMAIN out[p] = 1..Len(out[p]) /\ Len(out[p]) \in Nat
  BY DEF TInv, Types
<1>4. Answered(p) = Owed(p, n)
  BY DEF UpTo
<1> HIDE DEF C
<1>5. Len(out[p]) = C
  <2>1. 1..Len(out[p]) = 1..C
    BY <1>1, <1>3, <1>4 DEF Answered
  <2> QED
    BY <1>1, <1>3, <2>1
<1>6. /\ DOMAIN out'[p] = 1..(C + 1) /\ out'[p][C + 1] = r
      /\ \A k \in 1..C : out'[p][k] = out[p][k]
  BY <1>1, <1>3, <1>5
<1>7. Owed(p, n + 1) = [i \in 1..(C + 1) |-> Owed(p, n + 1)[i]]
  BY <1>1 DEF Owed
<1>8. \A k \in 1..(C + 1) : out'[p][k].line = Owed(p, n + 1)[k]
  <2> TAKE k \in 1..(C + 1)
  <2>1. CASE k = C + 1
    BY <1>1, <1>6, <2>1
  <2>2. CASE k \in 1..C
    <3>1. Answered(p)[k] = out[p][k].line
      BY <1>3, <1>5, <2>2 DEF Answered
    <3> QED
      BY <1>1, <1>4, <1>6, <2>2, <3>1
  <2>3. C \in Nat
    BY <1>1
  <2>4. k = C + 1 \/ k \in 1..C
    BY <2>3
  <2> QED
    BY <2>1, <2>2, <2>4
<1>9. Answered(p)' = Owed(p, n + 1)
  BY <1>6, <1>7, <1>8 DEF Answered
<1> QED
  BY <1>2, <1>9 DEF UpTo

\* Where the loop of p may be with its responses.
InOrder(p) ==
    \E n \in IF at[p] = "exited" THEN {consumed[p], consumed[p] - 1}
             ELSE IF at[p] = "scan" THEN {consumed[p]}
             ELSE {consumed[p] - 1} :
        UpTo(p, n)

\* Each step of a server or its client keeps the order.
LEMMA OrderKept ==
    ASSUME TInv, NEW p \in Server, Types', InOrder(p),
           Acts(p)
    PROVE  InOrder(p)'
<1>a. /\ Len(sent[p]) \in Nat /\ consumed[p] \in Nat /\ consumed[p] =< Len(sent[p])
      /\ at[p] \in Spots /\ at' \in [Server -> Spots] /\ Types
      /\ consumed \in [Server -> Nat]
  BY DEF TInv, Types, Line
<1>b. PICK n \in IF at[p] = "exited" THEN {consumed[p], consumed[p] - 1}
             ELSE IF at[p] = "scan" THEN {consumed[p]}
             ELSE {consumed[p] - 1} :
        UpTo(p, n)
  BY DEF InOrder
<1>c. n \in Nat /\ n =< consumed[p]
  BY <1>a, <1>b DEF UpTo
<1>d. ASSUME \A k \in 1..n : sent'[p][k] = sent[p][k], out'[p] = out[p]
      PROVE  UpTo(p, n)'
  BY <1>b, <1>c, <1>d, OwedKept DEF UpTo, Answered
<1>1. CASE ClientSends(p)
  <2>1. \A k \in 1..n : sent'[p][k] = sent[p][k]
    BY <1>1, <1>a, <1>c, SentGrows
  <2>2. UNCHANGED <<at, consumed, out>>
    BY <1>1 DEF ClientSends, serverVars
  <2> QED
    BY <1>b, <1>d, <2>1, <2>2 DEF InOrder
<1>2. CASE ClientClosesInput(p) \/ ClientDies(p) \/ Signal(p)
  BY <1>2, <1>b, <1>d DEF ClientClosesInput, ClientDies, Signal, InOrder, serverVars, clientVars
<1>3. CASE Killed(p)
  <2>1. at'[p] = "exited" /\ UNCHANGED <<consumed, out, sent>>
    BY <1>3, <1>a DEF Killed, clientVars
  <2> QED
    BY <1>b, <1>d, <2>1 DEF InOrder
<1>4. ASSUME NEW kinds, Takes(p, kinds)
      PROVE  /\ n = consumed[p] /\ UpTo(p, consumed[p]) /\ consumed'[p] = consumed[p] + 1
             /\ UNCHANGED sent /\ sent[p][consumed[p] + 1] \in kinds
  BY <1>4, <1>a, <1>b DEF Takes, clientVars
<1>5. CASE StopReading(p)
  <2>1. at'[p] = "exited" /\ UNCHANGED <<sent, out>> /\ consumed'[p] - 1 = n
    BY <1>4, <1>5, <1>a DEF StopReading, MoveTo
  <2> QED
    BY <1>d, <2>1 DEF InOrder
<1>6. CASE AnswerAtOnce(p)
  <2>1. PICK o \in Outcomes : Write(p, consumed'[p], o)
    BY <1>6 DEF AnswerAtOnce, Outcomes
  <2>2. /\ n = consumed[p] /\ UpTo(p, consumed[p]) /\ consumed'[p] = consumed[p] + 1
        /\ UNCHANGED sent /\ sent[p][consumed[p] + 1] # "notification"
    BY <1>4, <1>6 DEF AnswerAtOnce
  <2> DEFINE r == [line |-> consumed'[p], outcome |-> o, saw |-> saw[p]]
  <2>3. \/ at'[p] = "scan" /\ out'[p] = Append(out[p], r)
        \/ at'[p] = "exited" /\ out'[p] = out[p]
    BY <1>a, <2>1, <2>2, WriteTypes
  <2>4. CASE at'[p] = "scan" /\ out'[p] = Append(out[p], r)
    <3>1. r.line = n + 1
      BY <2>2
    <3> HIDE DEF r
    <3>2. UpTo(p, n + 1)'
      BY <1>b, <1>c, <2>2, <2>4, <3>1, AnswerNext
    <3>3. UpTo(p, consumed[p])'
      BY <2>2, <3>2 DEF UpTo, Owed
    <3> QED
      BY <2>4, <3>3 DEF InOrder
  <2>5. CASE at'[p] = "exited" /\ out'[p] = out[p]
    <3>1. UpTo(p, n)' /\ consumed'[p] - 1 = n
      BY <1>a, <1>d, <2>2, <2>5
    <3> QED
      BY <2>5, <3>1 DEF InOrder
  <2> QED
    BY <2>3, <2>4, <2>5
<1>7. CASE SkipNotification(p)
  <2>1. /\ n = consumed[p] /\ consumed'[p] = consumed[p] + 1 /\ UNCHANGED <<sent, at, out>>
        /\ sent[p][n + 1] = "notification" /\ at[p] = "scan"
    BY <1>4, <1>7 DEF SkipNotification, Takes
  <2>2. UpTo(p, n + 1)
    BY <1>b, <1>c, <2>1, OwedNext DEF UpTo
  <2>3. UpTo(p, consumed[p])'
    BY <2>1, <2>2 DEF UpTo, Answered, Owed
  <2> QED
    BY <2>1, <2>3 DEF InOrder
<1>8. CASE CallTool(p)
  <2>1. at'[p] = "query" /\ UNCHANGED <<sent, out>> /\ consumed'[p] - 1 = n
    BY <1>4, <1>8, <1>a DEF CallTool, MoveTo
  <2> QED
    BY <1>d, <2>1 DEF InOrder
<1>9. CASE EndOfInput(p)
  <2>1. at[p] = "scan" /\ at'[p] = "exited" /\ UNCHANGED <<consumed, sent, out>>
    BY <1>9, <1>a DEF EndOfInput, MoveTo, clientVars
  <2> QED
    BY <1>b, <1>d, <2>1 DEF InOrder
<1>10. CASE QueryStore(p) \/ QueryFails(p) \/ RecordBegin(p) \/ RecordStep(p) \/ RecordEnds(p)
  <2>1. /\ at[p] \notin {"scan", "exited"} /\ at'[p] \notin {"scan", "exited"}
        /\ UNCHANGED <<consumed, sent, out>>
    BY <1>10, <1>a DEF QueryStore, QueryFails, RecordBegin, RecordStep, RecordEnds, MoveTo,
       clientVars, serverVars
  <2> QED
    BY <1>b, <1>d, <2>1 DEF InOrder
<1>11. CASE Answer(p)
  <2>1. PICK o \in Outcomes : Write(p, consumed[p], o)
    BY <1>11 DEF Answer, Outcomes
  <2>2. /\ at[p] \in Spots \ {"scan", "exited"} /\ n = consumed[p] - 1
        /\ UNCHANGED <<consumed, sent>>
    BY <1>11, <1>a, <1>b DEF Answer, Spots, clientVars
  <2>3. consumed[p] = n + 1 /\ sent[p][n + 1] # "notification"
    BY <1>a, <2>2 DEF TInv, Line
  <2> DEFINE r == [line |-> consumed[p], outcome |-> o, saw |-> saw[p]]
  <2>4. \/ at'[p] = "scan" /\ out'[p] = Append(out[p], r)
        \/ at'[p] = "exited" /\ out'[p] = out[p]
    BY <1>a, <2>1, WriteTypes
  <2>5. CASE at'[p] = "scan" /\ out'[p] = Append(out[p], r)
    <3>1. r.line = n + 1
      BY <2>3
    <3> HIDE DEF r
    <3>2. UpTo(p, n + 1)'
      BY <1>b, <1>c, <2>2, <2>3, <2>5, <3>1, AnswerNext
    <3>3. UpTo(p, consumed[p])'
      BY <2>2, <2>3, <3>2 DEF UpTo, Owed
    <3> QED
      BY <2>5, <3>3 DEF InOrder
  <2>6. CASE at'[p] = "exited" /\ out'[p] = out[p]
    BY <1>d, <2>2, <2>6 DEF InOrder
  <2> QED
    BY <2>4, <2>5, <2>6
<1> QED
  BY <1>1, <1>2, <1>3, <1>5, <1>6, <1>7, <1>8, <1>9, <1>10, <1>11 DEF Acts, ServerStep

\* Every line taken is answered once, in the order sent, notifications excepted,
\* whatever the number of servers and of lines (Run).
THEOREM LinesAnsweredInOrder == Spec => []AnsweredInOrder
<1> DEFINE OInv == \A p \in Server : InOrder(p)
<1>1. Init => OInv
  <2> SUFFICES ASSUME Init, NEW p \in Server PROVE InOrder(p)
    OBVIOUS
  <2>1. { k \in 1..0 : sent[p][k] # "notification" } = {}
    OBVIOUS
  <2>2. Cardinality({ k \in 1..0 : sent[p][k] # "notification" }) = 0
    BY <2>1, FS_EmptySet
  <2>3. DOMAIN Owed(p, 0) = {} /\ Owed(p, 0) = [i \in DOMAIN Owed(p, 0) |-> Owed(p, 0)[i]]
    BY <2>2 DEF Owed
  <2>4. out[p] = <<>>
    BY DEF Init
  <2>5. DOMAIN Answered(p) = {} /\ Answered(p) = [i \in DOMAIN Answered(p) |-> Answered(p)[i]]
    BY <2>4 DEF Answered
  <2>6. Answered(p) = Owed(p, 0)
    BY <2>3, <2>5
  <2>7. at[p] = "scan" /\ consumed[p] = 0
    BY DEF Init
  <2> QED
    BY <2>6, <2>7 DEF InOrder, UpTo
<1>2. TInv /\ TInv' /\ OInv /\ [Next]_vars => OInv'
  <2> SUFFICES ASSUME TInv, TInv', OInv, [Next]_vars PROVE OInv'
    OBVIOUS
  <2>1. CASE UNCHANGED vars
    <3>1. sent' = sent /\ out' = out /\ at' = at /\ consumed' = consumed
      BY <2>1 DEF vars, clientVars, serverVars
    <3>2. \A p, n : Owed(p, n)' = Owed(p, n)
      BY <3>1 DEF Owed
    <3>3. \A p : Answered(p)' = Answered(p)
      BY <3>1 DEF Answered
    <3>4. \A p, n : UpTo(p, n)' <=> UpTo(p, n)
      BY <3>2, <3>3 DEF UpTo
    <3>5. \A p \in Server : InOrder(p) => InOrder(p)'
      BY <3>1, <3>4 DEF InOrder
    <3> QED
      BY <3>5
  <2>2. CASE Next
    <3>1. PICK p \in Server : Acts(p)
      BY <2>2, OneServer
    <3>2. InOrder(p)'
      BY <3>1, OrderKept DEF TInv
    <3>3. ASSUME NEW q \in Server \ {p} PROVE InOrder(q)'
      <4>1. /\ at'[q] = at[q] /\ consumed'[q] = consumed[q] /\ sent'[q] = sent[q]
            /\ out'[q] = out[q]
        BY <3>1, LoopTypes
      <4>2. \A n : UpTo(q, n)' = UpTo(q, n)
        BY <4>1 DEF UpTo, Answered, Owed
      <4> QED
        BY <4>1, <4>2 DEF InOrder
    <3> QED
      BY <3>2, <3>3
  <2> QED
    BY <2>1, <2>2
<1>3. OInv => AnsweredInOrder
  BY DEF AnsweredInOrder, InOrder, UpTo, Answered, InHand
<1> QED
  BY <1>1, <1>2, <1>3, LoopInvariant, PTL DEF Spec

(***************************************************************************)
(* What leaves a trace.                                                     *)
(***************************************************************************)

InStore == FSP!Stages \ {"idle"}

\* What a step of p does to the calls of the others: nothing.
OthersKept(p) ==
    \A q \in Server \ {p} : /\ pc'[q] = pc[q] /\ batch'[q] = batch[q]
                            /\ merged'[q] = merged[q] /\ reply'[q] = reply[q]

\* A step of Store merges the batch into what the file holds, goes on with the
\* array, gives up, or puts the array at the path and returns nil.
LEMMA StoreEffect ==
    ASSUME FSP!TypeOK, FSP!IInv, NEW p \in Server, FSP!StoreStep(p)
    PROVE  /\ OthersKept(p) /\ pc[p] \in InStore
           /\ \/ /\ pc[p] = "load" /\ pc'[p] = "create"
                 /\ UNCHANGED <<target, batch, reply>>
                 /\ FSP!IDsOf(merged'[p])
                       = FSP!IDsOf(target.traces) \cup FSP!IDsOf(batch[p])
              \/ /\ pc[p] # "load" /\ pc'[p] \in InStore \ {"load"}
                 /\ UNCHANGED <<target, batch, reply, merged>>
              \/ /\ pc'[p] = "idle" /\ reply'[p] = "error" /\ target' = target
              \/ /\ pc[p] = "rename" /\ pc'[p] = "idle" /\ reply'[p] = "ok"
                 /\ target'.traces = merged[p]
<1> USE DEF FSP!TypeOK, FSP!Stages, FSP!Goto, FSP!disk, InStore, OthersKept
<1>1. CASE FSP!LoadFails(p)
  BY <1>1 DEF FSP!LoadFails, FSP!Return
<1>2. CASE FSP!LoadAndMerge(p)
  <2>1. PICK s \in FSP!Layouts(FSP!Upsert(FSP!Upsert(FSP!EmptyMap, target.traces), batch[p])) :
           merged' = [merged EXCEPT ![p] = s]
    BY <1>2 DEF FSP!LoadAndMerge
  <2>2. target \in FSP!File /\ batch[p] \in Seq(Trace)
    OBVIOUS
  <2>3. FSP!IDsOf(s) = FSP!IDsOf(target.traces) \cup FSP!IDsOf(batch[p])
    BY <2>2, FileAssumed, FSP!MergeIDs
  <2> QED
    BY <1>2, <2>1, <2>3 DEF FSP!LoadAndMerge
<1>3. CASE FSP!CreateTemp(p)
  BY <1>3 DEF FSP!CreateTemp
<1>4. CASE FSP!WriteTemp(p)
  BY <1>4 DEF FSP!WriteTemp
<1>5. CASE FSP!SyncTemp(p)
  BY <1>5 DEF FSP!SyncTemp
<1>6. CASE FSP!CloseTemp(p)
  BY <1>6 DEF FSP!CloseTemp
<1>7. CASE FSP!RenameTemp(p)
  <2>1. tmp[p] = FSP!Json(merged[p])
    BY <1>7 DEF FSP!RenameTemp, FSP!IInv
  <2>2. target'.traces = merged[p]
    BY <1>7, <2>1 DEF FSP!RenameTemp, FSP!Json
  <2> QED
    BY <1>7, <2>2 DEF FSP!RenameTemp, FSP!Return
<1>8. CASE FSP!WriteFails(p)
  BY <1>8 DEF FSP!WriteFails, FSP!Return
<1> QED
  BY <1>1, <1>2, <1>3, <1>4, <1>5, <1>6, <1>7, <1>8 DEF FSP!StoreStep

\* The other steps touch the file's variables only to enter Store with the trace
\* of the call in hand, to be refused, or to die.
LEMMA FileEffect ==
    ASSUME TInv, NEW p \in Server, Acts(p), ~RecordStep(p)
    PROVE  /\ OthersKept(p) /\ target' = target
           /\ \/ UNCHANGED fileVars
              \/ Killed(p) /\ pc'[p] = "idle"
              \/ RecordBegin(p) /\ pc'[p] = "idle" /\ reply'[p] = "error"
              \/ /\ RecordBegin(p) /\ pc'[p] = "load"
                 /\ batch'[p] = <<InvocationTrace(p, consumed[p])>>
<1> USE DEF TInv, OthersKept
<1>1. CASE UNCHANGED fileVars
  BY <1>1 DEF fileVars
<1>2. CASE Killed(p)
  <2>1. CASE FSP!ProcessDies(p)
    BY <1>2, <2>1 DEF FSP!ProcessDies, FSP!Return, FSP!Goto, FSP!disk, FSP!TypeOK
  <2> QED
    BY <1>1, <1>2, <2>1, SameStore DEF Killed
<1>3. CASE RecordBegin(p)
  <2>1. CASE FSP!StoreCancelled(p)
    BY <1>3, <2>1 DEF FSP!StoreCancelled, FSP!Return, FSP!Goto, FSP!disk, FSP!TypeOK
  <2>2. CASE FSP!StoreBegin(p, <<InvocationTrace(p, consumed[p])>>)
    BY <1>3, <2>2 DEF FSP!StoreBegin, FSP!Goto, FSP!disk, FSP!TypeOK
  <2> QED
    BY <1>3, <2>1, <2>2, SameStore DEF RecordBegin
<1> QED
  BY <1>1, <1>2, <1>3 DEF Acts, ServerStep, ClientSends, ClientClosesInput,
     ClientDies, Signal, Takes, StopReading, AnswerAtOnce, SkipNotification, CallTool,
     EndOfInput, QueryStore, QueryFails, RecordEnds, Answer

\* What a step writes: nothing, an answer to the line just taken that is no cut, or
\* the answer to the line in hand, with what its query saw.
LEMMA OutEffect ==
    ASSUME TInv, NEW p \in Server, Acts(p)
    PROVE  \/ out'[p] = out[p]
           \/ \E r :
                 /\ DOMAIN out'[p] = DOMAIN out[p] \cup {Len(out[p]) + 1}
                 /\ out'[p][Len(out[p]) + 1] = r
                 /\ \A k \in DOMAIN out[p] : out'[p][k] = out[p][k]
                 /\ r.saw = saw[p] /\ at'[p] = "scan"
                 /\ \/ /\ at[p] = "scan" /\ consumed'[p] = consumed[p] + 1
                       /\ r.line = consumed[p] + 1 /\ r.outcome # "cut"
                    \/ /\ Answer(p) /\ r.line = consumed[p]
                       /\ r.outcome = "cut"
                            <=> at[p] = "answer" /\ sent[p][consumed[p]] = "cut"
<1>a. out[p] \in Seq(Response) /\ consumed[p] \in Nat /\ Types
  BY DEF TInv, Types
<1>b. ASSUME NEW line \in Nat, NEW o \in Outcomes, Write(p, line, o)
      PROVE  \/ out'[p] = out[p]
             \/ \E r :
                   /\ DOMAIN out'[p] = DOMAIN out[p] \cup {Len(out[p]) + 1}
                   /\ out'[p][Len(out[p]) + 1] = r
                   /\ \A k \in DOMAIN out[p] : out'[p][k] = out[p][k]
                   /\ r.line = line /\ r.outcome = o /\ r.saw = saw[p] /\ at'[p] = "scan"
  <2> DEFINE r == [line |-> line, outcome |-> o, saw |-> saw[p]]
  <2>1. r.line = line /\ r.outcome = o /\ r.saw = saw[p]
    OBVIOUS
  <2>2. (at'[p] = "scan" /\ out'[p] = Append(out[p], r)) \/ out'[p] = out[p]
    BY <1>a, <1>b, WriteTypes
  <2> HIDE DEF r
  <2>3. ASSUME out'[p] = Append(out[p], r)
        PROVE  /\ DOMAIN out'[p] = DOMAIN out[p] \cup {Len(out[p]) + 1}
               /\ out'[p][Len(out[p]) + 1] = r
               /\ \A k \in DOMAIN out[p] : out'[p][k] = out[p][k]
    BY <1>a, <2>3
  <2> QED
    BY <2>1, <2>2, <2>3
<1>1. CASE AnswerAtOnce(p)
  <2>1. PICK o \in Outcomes : Write(p, consumed'[p], o) /\ o # "cut"
    BY <1>1 DEF AnswerAtOnce, Outcomes
  <2>2. at[p] = "scan" /\ consumed'[p] = consumed[p] + 1 /\ consumed'[p] \in Nat
    BY <1>1, <1>a DEF AnswerAtOnce, Takes, Types
  <2> QED
    BY <1>b, <2>1, <2>2
<1>2. CASE Answer(p)
  <2> DEFINE o == IF at[p] = "failed" THEN "tool-error"
                  ELSE IF sent[p][consumed[p]] = "cut" THEN "cut" ELSE "validated"
  <2>1. Write(p, consumed[p], o) /\ o \in Outcomes
    BY <1>2 DEF Answer, Outcomes
  <2>2. o = "cut" <=> at[p] = "answer" /\ sent[p][consumed[p]] = "cut"
    BY <1>2 DEF Answer
  <2> HIDE DEF o
  <2> QED
    BY <1>2, <1>a, <1>b, <2>1, <2>2
<1>3. CASE ~AnswerAtOnce(p) /\ ~Answer(p)
  BY <1>3 DEF Acts, ServerStep, ClientSends, ClientClosesInput, serverVars,
     ClientDies, Signal, Killed, Takes, StopReading, SkipNotification, CallTool,
     EndOfInput, QueryStore, QueryFails, RecordBegin, RecordStep, RecordEnds
<1> QED
  BY <1>1, <1>2, <1>3

\* Where a step takes the loop of p.
LEMMA LoopEffect ==
    ASSUME TInv, NEW p \in Server, Acts(p)
    PROVE  /\ Len(sent'[p]) >= Len(sent[p])
           /\ \A n \in 1..Len(sent[p]) : sent'[p][n] = sent[p][n]
           /\ \/ /\ \/ at'[p] = at[p]
                    \/ at'[p] = "exited" /\ ~RecordStep(p) /\ (at[p] = "scan" \/ pc'[p] = "idle")
                 /\ UNCHANGED <<consumed, logged, out>>
                 /\ saw'[p] = saw[p] \/ at'[p] = "exited"
                 /\ ~RecordBegin(p)
              \/ /\ at[p] = "scan" /\ at'[p] \in {"scan", "query", "exited"}
                 /\ consumed'[p] = consumed[p] + 1 /\ UNCHANGED <<fileVars, logged>>
              \/ /\ at[p] = "query" /\ UNCHANGED <<fileVars, consumed, logged, out, sent>>
                 /\ \/ /\ saw'[p] = FSP!IDsOf(target.traces)
                       /\ at'[p] = IF sent[p][consumed[p]] = "cut" THEN "record" ELSE "answer"
                    \/ at'[p] = "failed"
              \/ /\ at[p] = "record" /\ at'[p] = "recording" /\ RecordBegin(p)
                 /\ UNCHANGED <<consumed, saw, logged, out, sent>>
              \/ /\ at[p] = "recording" /\ at'[p] = "answer" /\ pc[p] = "idle"
                 /\ UNCHANGED <<fileVars, consumed, saw, out, sent>>
                 /\ reply[p] = "error" => logged'[p] = logged[p] \cup {consumed[p]}
                 /\ reply[p] # "error" => logged'[p] = logged[p]
              \/ /\ at[p] \in {"answer", "failed"} /\ at'[p] \in {"scan", "exited"}
                 /\ UNCHANGED <<fileVars, consumed, logged, sent>>
<1>a. /\ Types /\ consumed[p] \in Nat /\ Len(sent[p]) \in Nat
      /\ at \in [Server -> Spots] /\ saw \in [Server -> SUBSET TraceID]
      /\ logged \in [Server -> SUBSET Request] /\ consumed \in [Server -> Nat]
  BY DEF TInv, Types
<1>b. ASSUME UNCHANGED sent
      PROVE  /\ Len(sent'[p]) >= Len(sent[p])
             /\ \A n \in 1..Len(sent[p]) : sent'[p][n] = sent[p][n]
  BY <1>a, <1>b
<1> USE DEF MoveTo, clientVars, serverVars
<1>1. CASE ClientSends(p)
  <2>1. UNCHANGED <<at, consumed, saw, out, logged>>
    BY <1>1 DEF ClientSends
  <2>2. /\ Len(sent'[p]) = Len(sent[p]) + 1
        /\ \A n \in 1..Len(sent[p]) : sent'[p][n] = sent[p][n]
    BY <1>1, SentGrows
  <2>3. ~RecordBegin(p) /\ at'[p] = at[p] /\ saw'[p] = saw[p]
    BY <1>a, <2>1 DEF RecordBegin
  <2>4. Len(sent'[p]) >= Len(sent[p])
    BY <1>a, <2>2
  <2>5. UNCHANGED <<consumed, logged, out>>
    BY <2>1
  <2> QED
    BY <2>2, <2>3, <2>4, <2>5
<1>2. CASE ClientClosesInput(p) \/ ClientDies(p) \/ Signal(p)
  <2>1. UNCHANGED <<sent, at, consumed, saw, out, logged>>
    BY <1>2 DEF ClientClosesInput, ClientDies, Signal
  <2>2. ~RecordBegin(p)
    BY <1>a, <2>1 DEF RecordBegin
  <2> QED
    BY <1>b, <2>1, <2>2
<1>3. CASE Killed(p)
  <2>1. at'[p] = "exited" /\ UNCHANGED <<sent, consumed, logged, out>>
    BY <1>3, <1>a DEF Killed
  <2>2. ~RecordBegin(p) /\ ~RecordStep(p)
    BY <1>3, <1>a DEF Killed, RecordBegin, RecordStep
  <2>3. pc'[p] = "idle"
    <3>1. CASE FSP!ProcessDies(p)
      BY <3>1 DEF FSP!ProcessDies, FSP!Return, FSP!Goto, TInv, FSP!TypeOK
    <3> QED
      BY <1>3, <3>1, SameStore DEF Killed, fileVars
  <2> QED
    BY <1>b, <2>1, <2>2, <2>3
<1>4. CASE StopReading(p) \/ AnswerAtOnce(p) \/ SkipNotification(p) \/ CallTool(p)
  <2>1. /\ at[p] = "scan" /\ consumed'[p] = consumed[p] + 1
        /\ UNCHANGED <<sent, fileVars, logged>>
    BY <1>4, <1>a DEF StopReading, AnswerAtOnce, SkipNotification, CallTool, Takes
  <2>2. at'[p] \in {"scan", "query", "exited"}
    <3>1. CASE AnswerAtOnce(p)
      BY <1>a, <3>1 DEF AnswerAtOnce, Write
    <3>2. CASE ~AnswerAtOnce(p)
      BY <1>4, <1>a, <2>1, <3>2 DEF StopReading, SkipNotification, CallTool
    <3> QED
      BY <3>1, <3>2
  <2> QED
    BY <1>b, <2>1, <2>2
<1>5. CASE EndOfInput(p)
  <2>1. /\ at'[p] = "exited" /\ at[p] = "scan"
        /\ UNCHANGED <<sent, consumed, saw, logged, out>>
    BY <1>5, <1>a DEF EndOfInput
  <2>2. ~RecordBegin(p) /\ ~RecordStep(p)
    BY <2>1 DEF RecordBegin, RecordStep
  <2> QED
    BY <1>b, <2>1, <2>2
<1>6. CASE QueryStore(p)
  <2>1. saw'[p] = FSP!IDsOf(target.traces)
    BY <1>6, <1>a, QueryAll DEF QueryStore, TInv
  <2>2. /\ at[p] = "query" /\ UNCHANGED <<fileVars, consumed, logged, out, sent>>
        /\ at'[p] = IF sent[p][consumed[p]] = "cut" THEN "record" ELSE "answer"
    BY <1>6, <1>a DEF QueryStore
  <2> QED
    BY <1>b, <2>1, <2>2
<1>7. CASE QueryFails(p)
  BY <1>7, <1>a, <1>b DEF QueryFails
<1>8. CASE RecordBegin(p)
  <2>1. /\ at[p] = "record" /\ at'[p] = "recording"
        /\ UNCHANGED <<consumed, saw, logged, out, sent>>
    BY <1>8, <1>a DEF RecordBegin
  <2> QED
    BY <1>8, <1>b, <2>1
<1>9. CASE RecordStep(p)
  <2>1. UNCHANGED <<at, consumed, saw, logged, out, sent>> /\ at[p] = "recording"
    BY <1>9 DEF RecordStep
  <2>2. ~RecordBegin(p)
    BY <2>1 DEF RecordBegin
  <2> QED
    BY <1>b, <2>1, <2>2
<1>10. CASE RecordEnds(p)
  <2>1. /\ at[p] = "recording" /\ at'[p] = "answer" /\ pc[p] = "idle"
        /\ UNCHANGED <<fileVars, consumed, saw, out, sent>>
        /\ reply[p] = "error" => logged'[p] = logged[p] \cup {consumed[p]}
        /\ reply[p] # "error" => logged'[p] = logged[p]
    BY <1>10, <1>a DEF RecordEnds
  <2> QED
    BY <1>b, <2>1
<1>11. CASE Answer(p)
  <2>1. /\ at[p] \in {"answer", "failed"}
        /\ UNCHANGED <<fileVars, consumed, logged, sent>>
    BY <1>11 DEF Answer
  <2>2. at'[p] \in {"scan", "exited"}
    BY <1>11, <1>a DEF Answer, Write
  <2> QED
    BY <1>b, <2>1, <2>2
<1> QED
  BY <1>1, <1>2, <1>3, <1>4, <1>5, <1>6, <1>7, <1>8, <1>9, <1>10, <1>11 DEF Acts, ServerStep

\* Nobody meddles with another's call of Store.
LEMMA Apart ==
    ASSUME TInv, FSP!IInv, NEW p \in Server, Acts(p)
    PROVE  OthersKept(p)
<1>1. CASE RecordStep(p)
  BY <1>1, SameStep, StoreEffect DEF TInv, RecordStep
<1> QED
  BY <1>1, FileEffect

\* The array holds the trace of line n of p.
Holds(s, p, n) == InvocationID(p, n) \in FSP!IDsOf(s)

\* Until its response is written, the line in hand has none, and until Store has
\* ended, no failure to record it is logged.
Fresh(p) ==
    /\ at[p] \in Spots \ {"scan", "exited"} => \A k \in DOMAIN out[p] : out[p][k].line < consumed[p]
    /\ \A n \in logged[p] : n =< consumed[p]
    /\ at[p] \in {"query", "record", "recording"} => consumed[p] \notin logged[p]

\* A server's step leaves the IDs that no call has used yet unused.
LEMMA FreshKept ==
    ASSUME TInv, TInv', NEW p \in Server, Acts(p), Fresh(p)
    PROVE  Fresh(p)'
<1>a. /\ consumed[p] \in Nat /\ out[p] \in Seq(Response) /\ logged[p] \in SUBSET Request
      /\ at[p] \in Spots /\ MaxRequests \in Nat
  BY ServerAssumption DEF TInv, Types
<1>b. \A n \in logged[p] : n \in Nat
  BY <1>a DEF Request
<1>c. \A k \in DOMAIN out[p] : out[p][k].line \in 1..consumed[p]
  BY DEF TInv, Line
<1> USE LoopEffect
<1>1. CASE UNCHANGED <<consumed, logged, out>> /\ (at'[p] = at[p] \/ at'[p] = "exited")
  BY <1>1 DEF Fresh
<1>2. CASE /\ at[p] = "scan" /\ at'[p] \in {"scan", "query", "exited"}
           /\ consumed'[p] = consumed[p] + 1 /\ UNCHANGED <<fileVars, logged>>
  <2>1. at'[p] = "query" => out'[p] = out[p]
    BY OutEffect
  <2>2. ASSUME at'[p] = "query" PROVE \A k \in DOMAIN out'[p] : out'[p][k].line < consumed'[p]
    BY <1>2, <1>a, <1>c, <2>1, <2>2
  <2>3. \A n \in logged'[p] : n =< consumed'[p] /\ n # consumed'[p]
    BY <1>2, <1>a, <1>b DEF Fresh
  <2> QED
    BY <1>2, <2>2, <2>3 DEF Fresh
<1>3. CASE at[p] = "query" /\ UNCHANGED <<fileVars, consumed, logged, out, sent>>
           /\ at'[p] \in {"record", "answer", "failed"}
  BY <1>3 DEF Fresh, Spots
<1>4. CASE at[p] = "record" /\ at'[p] = "recording" /\ UNCHANGED <<consumed, saw, logged, out, sent>>
  BY <1>4 DEF Fresh, Spots
<1>5. CASE /\ at[p] = "recording" /\ at'[p] = "answer"
           /\ UNCHANGED <<fileVars, consumed, saw, out, sent>>
           /\ \/ logged'[p] = logged[p] \cup {consumed[p]}
              \/ logged'[p] = logged[p]
  BY <1>5, <1>a DEF Fresh, Spots
<1>6. CASE /\ at[p] \in {"answer", "failed"} /\ at'[p] \in {"scan", "exited"}
           /\ UNCHANGED <<fileVars, consumed, logged, sent>>
  BY <1>6 DEF Fresh
<1> QED
  BY <1>1, <1>2, <1>3, <1>4, <1>5, <1>6

\* A line whose trace the file may hold: a cut taken off the pipe, answered with
\* its cut or not yet, and, while it is in hand, recorded.
Earned(p, n) ==
    /\ n =< consumed[p] /\ sent[p][n] = "cut" /\ n \notin logged[p]
    /\ \A k \in DOMAIN out[p] : out[p][k].line = n => out[p][k].outcome = "cut"
    /\ n = consumed[p] =>
          /\ at[p] \notin {"query", "record", "failed"}
          /\ at[p] = "recording" => pc[p] = "idle" /\ reply[p] = "ok"

\* No step takes that back.
LEMMA EarnedKept ==
    ASSUME TInv, TInv', FSP!IInv, NEW q \in Server, Acts(q), NEW p \in Server,
           NEW n \in Request, Earned(p, n)
    PROVE  Earned(p, n)'
<1>1. CASE p # q
  <2>1. /\ at'[p] = at[p] /\ sent'[p] = sent[p] /\ consumed'[p] = consumed[p]
        /\ out'[p] = out[p] /\ logged'[p] = logged[p]
    BY <1>1, LoopTypes
  <2>2. pc'[p] = pc[p] /\ reply'[p] = reply[p]
    BY <1>1, Apart DEF OthersKept
  <2> QED
    BY <2>1, <2>2 DEF Earned
<1>2. CASE p = q
  <2>a. /\ consumed[p] \in Nat /\ n \in Nat /\ n >= 1 /\ Len(sent[p]) \in Nat
        /\ consumed[p] =< Len(sent[p]) /\ out[p] \in Seq(Response)
    BY ServerAssumption DEF TInv, Types, Line, Request
  <2>b. n =< consumed[p] /\ sent'[p][n] = "cut"
    <3>1. n \in 1..Len(sent[p]) /\ n =< consumed[p] /\ sent[p][n] = "cut"
      BY <2>a DEF Earned
    <3> QED
      BY <1>2, <3>1, LoopEffect
  <2>1. CASE UNCHANGED <<consumed, logged, out>> /\ at'[p] = at[p] /\ ~RecordBegin(p)
    <3>1. CASE RecordStep(p)
      <4>1. pc[p] # "idle" /\ at[p] = "recording"
        BY <3>1, SameStep, StoreEffect DEF RecordStep, TInv, InStore
      <4>2. n # consumed[p]
        BY <4>1 DEF Earned
      <4> QED
        BY <2>1, <2>b, <4>2 DEF Earned
    <3>2. CASE ~RecordStep(p) /\ UNCHANGED fileVars
      BY <2>1, <2>b, <3>2 DEF Earned, fileVars
    <3>3. CASE Killed(p)
      <4>1. at'[p] = "exited"
        BY <3>3 DEF Killed, TInv, Types
      <4> QED
        BY <2>1, <2>b, <4>1 DEF Earned
    <3> QED
      BY <1>2, <2>1, <3>1, <3>2, <3>3, FileEffect
  <2>2. CASE UNCHANGED <<consumed, logged, out>> /\ at'[p] = "exited"
    BY <2>2, <2>b DEF Earned
  <2>3. CASE /\ at[p] = "scan" /\ consumed'[p] = consumed[p] + 1
             /\ UNCHANGED <<fileVars, logged>>
    <3>1. n # consumed'[p] /\ n =< consumed'[p]
      BY <2>3, <2>a, <2>b
    <3>2. ~Answer(p)
      BY <2>3 DEF Answer
    <3>3. \A k \in DOMAIN out'[p] : out'[p][k].line = n => out'[p][k].outcome = "cut"
      BY <1>2, <2>3, <3>1, <3>2, OutEffect DEF Earned
    <3> QED
      BY <2>3, <2>b, <3>1, <3>3 DEF Earned
  <2>4. CASE /\ at[p] \in {"query", "record"}
             /\ UNCHANGED <<consumed, logged, out, sent>>
    <3>1. n # consumed[p]
      BY <2>4 DEF Earned
    <3> QED
      BY <2>4, <3>1 DEF Earned
  <2>5. CASE /\ at[p] = "recording" /\ at'[p] = "answer" /\ pc[p] = "idle"
             /\ UNCHANGED <<fileVars, consumed, saw, out, sent>>
             /\ reply[p] = "error" => logged'[p] = logged[p] \cup {consumed[p]}
             /\ reply[p] # "error" => logged'[p] = logged[p]
    <3>1. n = consumed[p] => reply[p] = "ok"
      BY <2>5 DEF Earned
    <3>2. n \notin logged'[p]
      BY <2>5, <3>1 DEF Earned
    <3> QED
      BY <2>5, <3>2 DEF Earned
  <2>6. CASE /\ at[p] \in {"answer", "failed"} /\ at'[p] \in {"scan", "exited"}
             /\ UNCHANGED <<fileVars, consumed, logged, sent>>
    <3>1. n = consumed[p] => at[p] = "answer" /\ sent[p][consumed[p]] = "cut"
      BY <2>6 DEF Earned
    <3>2. \A k \in DOMAIN out'[p] : out'[p][k].line = n => out'[p][k].outcome = "cut"
      BY <1>2, <2>6, <3>1, OutEffect DEF Earned
    <3> QED
      BY <2>6, <3>2 DEF Earned
  <2> QED
    BY <1>2, <2>1, <2>2, <2>3, <2>4, <2>5, <2>6, LoopEffect
<1> QED
  BY <1>1, <1>2

\* Inside Store a server has the trace of the call in hand.
Call(p) ==
    /\ pc[p] # "idle" => at[p] = "recording" /\ batch[p] = <<InvocationTrace(p, consumed[p])>>
    /\ at[p] = "recording" /\ pc[p] = "idle" => reply[p] \in {"ok", "error"}

\* Why only cuts leave traces: what the file holds is earned, and so is what the
\* array about to replace it holds, the trace of the call in hand excepted.
RInv ==
    /\ \A p \in Server : Call(p) /\ Fresh(p)
    /\ \A p \in Server, n \in Request : Holds(target.traces, p, n) => Earned(p, n)
    /\ \A q \in Server : pc[q] \notin {"idle", "load"} =>
          \A p \in Server, n \in Request :
             Holds(merged[q], p, n) => Earned(p, n) \/ (p = q /\ n = consumed[q])

\* A server's step keeps what is known of every call in progress, its own
\* and another server's.
LEMMA CallKept ==
    ASSUME TInv, FSP!IInv, NEW q \in Server, Acts(q), NEW p \in Server, Call(p)
    PROVE  Call(p)'
<1>1. CASE p # q
  <2>1. at'[p] = at[p] /\ consumed'[p] = consumed[p]
    BY <1>1, LoopTypes
  <2>2. pc'[p] = pc[p] /\ reply'[p] = reply[p] /\ batch'[p] = batch[p]
    BY <1>1, Apart DEF OthersKept
  <2> QED
    BY <2>1, <2>2 DEF Call
<1>2. CASE p = q /\ RecordStep(q)
  <2>1. UNCHANGED <<at, consumed>> /\ at[q] = "recording" /\ FSP!StoreStep(q)
    BY <1>2, SameStep DEF RecordStep, serverVars
  <2>2. /\ pc[q] \in InStore
        /\ \/ pc'[q] \in InStore /\ batch' = batch
           \/ pc'[q] = "idle" /\ reply'[q] \in {"ok", "error"}
    BY <2>1, StoreEffect DEF TInv, InStore, FSP!Stages
  <2> QED
    BY <1>2, <2>1, <2>2 DEF Call, InStore
<1>3. CASE p = q /\ ~RecordStep(q)
  <2>1. CASE RecordBegin(q)
    <3>1. at'[q] = "recording" /\ consumed' = consumed
      BY <2>1 DEF RecordBegin, MoveTo, TInv, Types
    <3>2. \/ pc'[q] = "idle" /\ reply'[q] = "error"
          \/ pc'[q] = "load" /\ batch'[q] = <<InvocationTrace(q, consumed[q])>>
      <4>1. CASE FSP!StoreCancelled(q)
        BY <4>1 DEF FSP!StoreCancelled, FSP!Return, FSP!Goto, TInv, FSP!TypeOK
      <4>2. CASE FSP!StoreBegin(q, <<InvocationTrace(q, consumed[q])>>)
        BY <4>2 DEF FSP!StoreBegin, FSP!Goto, TInv, FSP!TypeOK
      <4> QED
        BY <2>1, <4>1, <4>2, SameStore DEF RecordBegin
    <3> QED
      BY <1>3, <3>1, <3>2 DEF Call
  <2>2. CASE ~RecordBegin(q) /\ UNCHANGED fileVars
    <3>1. CASE pc[q] # "idle"
      <4>1. at[q] = "recording"
        BY <1>3, <3>1 DEF Call
      <4>2. at'[q] = at[q] /\ consumed' = consumed
        BY <2>2, <3>1, <4>1, LoopEffect DEF fileVars
      <4> QED
        BY <1>3, <2>2, <4>2 DEF Call, fileVars
    <3>2. CASE pc[q] = "idle"
      <4>1. at'[q] = "recording" => at[q] = "recording"
        BY <2>2, LoopEffect
      <4> QED
        BY <1>3, <2>2, <3>2, <4>1 DEF Call, fileVars
    <3> QED
      BY <3>1, <3>2
  <2>3. CASE Killed(q) /\ pc'[q] = "idle"
    <3>1. at'[q] = "exited"
      BY <2>3 DEF Killed, TInv, Types
    <3> QED
      BY <1>3, <2>3, <3>1 DEF Call
  <2> QED
    BY <1>3, <2>1, <2>2, <2>3, FileEffect
<1> QED
  BY <1>1, <1>2, <1>3

\* The trace of a batch of one invocation is that invocation's and no other's.
LEMMA OwnTrace ==
    ASSUME NEW p \in Server, NEW q \in Server, NEW m \in Request, NEW n \in Request,
           InvocationID(p, n) \in FSP!IDsOf(<<InvocationTrace(q, m)>>)
    PROVE  p = q /\ n = m
<1>1. FSP!IDsOf(<<InvocationTrace(q, m)>>) = {InvocationTrace(q, m).id}
  BY DEF FSP!IDsOf
<1>2. InvocationTrace(q, m).id = InvocationID(q, m)
  BY DEF InvocationTrace
<1> QED
  BY <1>1, <1>2, ServerAssumption

\* A server's step keeps the invariant on recorded calls.
LEMMA RInvKept ==
    ASSUME TInv, TInv', FSP!IInv, RInv, NEW q \in Server, Acts(q)
    PROVE  RInv'
<1>1. ASSUME NEW p \in Server PROVE Call(p)' /\ Fresh(p)'
  <2>1. CASE p = q
    BY <2>1, CallKept, FreshKept DEF RInv
  <2>2. CASE p # q
    <3>1. at'[p] = at[p] /\ consumed'[p] = consumed[p] /\ out'[p] = out[p] /\ logged'[p] = logged[p]
      BY <2>2, LoopTypes
    <3>2. Fresh(p)'
      BY <3>1 DEF Fresh, RInv
    <3> QED
      BY <3>2, CallKept DEF RInv
  <2> QED
    BY <2>1, <2>2
<1>2. ASSUME NEW p \in Server, NEW n \in Request, Earned(p, n) PROVE Earned(p, n)'
  BY <1>2, EarnedKept
<1>3. CASE RecordStep(q)
  <2>1. /\ UNCHANGED <<at, consumed, saw, logged, out, sent>> /\ at[q] = "recording"
        /\ FSP!StoreStep(q)
    BY <1>3, SameStep DEF RecordStep, serverVars, clientVars
  <2>2. /\ batch[q] = <<InvocationTrace(q, consumed[q])>> /\ consumed[q] \in Request
        /\ pc[q] \in InStore
    BY <2>1, StoreEffect, InRange DEF RInv, Call, TInv, InStore, Spots
  <2>3. ASSUME NEW p \in Server, NEW n \in Request, Holds(target'.traces, p, n)
        PROVE  Earned(p, n)'
    <3>1. CASE target' = target
      BY <1>2, <2>3, <3>1 DEF RInv
    <3>2. CASE pc[q] = "rename" /\ pc'[q] = "idle" /\ reply'[q] = "ok" /\ target'.traces = merged[q]
      <4>1. Earned(p, n) \/ (p = q /\ n = consumed[q])
        BY <2>3, <3>2 DEF RInv
      <4>2. CASE p = q /\ n = consumed[q]
        <5>1. /\ n =< consumed'[p] /\ sent'[p][n] = "cut" /\ n \notin logged'[p]
          BY <2>1, <2>2, <4>2 DEF RInv, Fresh, TInv, Line, Types
        <5>2. \A k \in DOMAIN out'[p] : out'[p][k].line # n
          <6>1. /\ \A k \in DOMAIN out[p] : out[p][k].line < consumed[p]
                /\ \A k \in DOMAIN out[p] : out[p][k].line \in Nat
                /\ consumed[p] \in Nat
            <7>1. out[p] \in Seq(Response) /\ consumed[p] \in Nat
              BY DEF TInv, Types
            <7>2. \A k \in DOMAIN out[p] : out[p][k].line \in 1..consumed[p]
              BY DEF TInv, Line
            <7>3. \A k \in DOMAIN out[p] : out[p][k].line < consumed[p]
              BY <2>1, <4>2 DEF RInv, Fresh, Spots
            <7> QED
              BY <7>1, <7>2, <7>3
          <6> QED
            BY <2>1, <4>2, <6>1
        <5> QED
          BY <2>1, <3>2, <4>2, <5>1, <5>2 DEF Earned
      <4> QED
        BY <1>2, <4>1, <4>2
    <3> QED
      BY <2>1, <3>1, <3>2, StoreEffect DEF TInv
  <2>4. ASSUME pc'[q] \notin {"idle", "load"}, NEW p \in Server, NEW n \in Request,
               Holds(merged'[q], p, n)
        PROVE  Earned(p, n)' \/ (p = q /\ n = consumed'[q])
    <3>1. CASE /\ pc[q] = "load"
               /\ FSP!IDsOf(merged'[q]) = FSP!IDsOf(target.traces) \cup FSP!IDsOf(batch[q])
      <4>1. CASE Holds(target.traces, p, n)
        BY <1>2, <4>1 DEF RInv
      <4>2. CASE InvocationID(p, n) \in FSP!IDsOf(batch[q])
        BY <2>1, <2>2, <4>2, OwnTrace
      <4> QED
        BY <2>4, <3>1, <4>1, <4>2 DEF Holds
    <3>2. CASE pc[q] # "load" /\ merged' = merged
      BY <1>2, <2>1, <2>2, <2>4, <3>2 DEF RInv, InStore
    <3> QED
      BY <2>1, <2>4, <3>1, <3>2, StoreEffect DEF TInv
  <2>5. ASSUME NEW r \in Server \ {q}, pc'[r] \notin {"idle", "load"}, NEW p \in Server,
               NEW n \in Request, Holds(merged'[r], p, n)
        PROVE  Earned(p, n)' \/ (p = r /\ n = consumed'[r])
    <3>1. pc'[r] = pc[r] /\ merged'[r] = merged[r]
      BY Apart DEF OthersKept
    <3> QED
      BY <1>2, <2>1, <2>5, <3>1 DEF RInv
  <2> QED
    BY <1>1, <2>3, <2>4, <2>5 DEF RInv, Holds
<1>4. CASE ~RecordStep(q)
  <2>1. OthersKept(q) /\ target' = target
    BY <1>4, FileEffect
  <2>2. pc'[q] \notin {"idle", "load"} => UNCHANGED fileVars
    BY <1>4, FileEffect
  <2>3. ASSUME NEW r \in Server, pc'[r] \notin {"idle", "load"}
        PROVE  pc'[r] = pc[r] /\ merged'[r] = merged[r] /\ consumed'[r] = consumed[r]
    <3>1. CASE r = q
      <4>1. UNCHANGED fileVars
        BY <2>2, <2>3, <3>1
      <4>2. at[q] = "recording" /\ pc[q] # "idle"
        BY <2>3, <3>1, <4>1 DEF RInv, Call, fileVars
      <4>3. consumed' = consumed
        BY <4>2, LoopEffect
      <4> QED
        BY <4>1, <4>3 DEF fileVars
    <3>2. CASE r # q
      BY <2>1, <3>2, LoopTypes DEF OthersKept
    <3> QED
      BY <3>1, <3>2
  <2>4. ASSUME NEW r \in Server, pc'[r] \notin {"idle", "load"}, NEW p \in Server,
               NEW n \in Request, Holds(merged'[r], p, n)
        PROVE  Earned(p, n)' \/ (p = r /\ n = consumed'[r])
    BY <1>2, <2>3, <2>4 DEF RInv
  <2>5. ASSUME NEW p \in Server, NEW n \in Request, Holds(target'.traces, p, n)
        PROVE  Earned(p, n)'
    BY <1>2, <2>1, <2>5 DEF RInv
  <2> QED
    BY <1>1, <2>4, <2>5 DEF RInv, Holds
<1> QED
  BY <1>3, <1>4

\* What has been recorded, and what is about to be, is a call that was
\* read from the input.
THEOREM RecordInvariant == Spec => []RInv
<1>1. Init => RInv
  <2> SUFFICES ASSUME Init PROVE RInv
    OBVIOUS
  <2>1. FSP!Init
    BY SameStore DEF Init
  <2>2. ASSUME NEW p \in Server PROVE Call(p) /\ Fresh(p)
    BY <2>1 DEF Init, FSP!Init, Call, Fresh, Spots
  <2>3. ASSUME NEW p \in Server, NEW n \in Request PROVE ~Holds(target.traces, p, n)
    BY <2>1, ServerAssumption DEF FSP!Init, Holds, FSP!IDsOf
  <2> QED
    BY <2>1, <2>2, <2>3 DEF RInv, FSP!Init
<1>2. TInv /\ TInv' /\ FSP!IInv /\ RInv /\ [Next]_vars => RInv'
  <2> SUFFICES ASSUME TInv, TInv', FSP!IInv, RInv, [Next]_vars PROVE RInv'
    OBVIOUS
  <2>1. CASE UNCHANGED vars
    BY <2>1 DEF vars, fileVars, clientVars, serverVars, RInv, Call, Fresh, Holds, Earned
  <2> QED
    BY <2>1, OneServer, RInvKept
<1> QED
  BY <1>1, <1>2, LoopInvariant, FileInvariant, PTL DEF Spec

\* Whatever the servers, only calls of a cut-producing tool leave a trace in the
\* store, and none whose failure was answered or logged (recordInvocation).
THEOREM OnlyCutsRecorded == Spec => []OnlyCutsAreRecorded
<1>1. TInv /\ RInv => OnlyCutsAreRecorded
  <2> SUFFICES ASSUME TInv, RInv, NEW p \in Server, NEW n \in 1..Len(sent[p]),
                      RecordedIn(target, p, n)
               PROVE  Earned(p, n)
    BY DEF OnlyCutsAreRecorded, Earned
  <2>1. n \in Request
    BY ServerAssumption DEF TInv, Types, Line, Request
  <2> QED
    BY <2>1, SameStore DEF RInv, Holds, RecordedIn
<1> QED
  BY <1>1, LoopInvariant, RecordInvariant, PTL

(***************************************************************************)
(* What an answered call saw, and what it left behind.                      *)
(***************************************************************************)

\* Neither the answer in preparation nor one given was computed from a store that
\* held the trace of its own call.
Own(p) ==
    /\ at[p] \in {"record", "recording", "answer"} /\ sent[p][consumed[p]] = "cut" =>
          InvocationID(p, consumed[p]) \notin saw[p]
    /\ \A k \in DOMAIN out[p] : out[p][k].outcome = "cut" =>
          InvocationID(p, out[p][k].line) \notin out[p][k].saw

\* A server's step keeps what one server alone knows of its file.
LEMMA OwnKept ==
    ASSUME TInv, RInv, NEW p \in Server, Acts(p), Own(p)
    PROVE  Own(p)'
<1>a. consumed[p] \in Nat /\ consumed[p] =< Len(sent[p])
  BY DEF TInv, Types, Line
<1>b. at[p] \notin {"scan", "exited"} => sent'[p][consumed[p]] = sent[p][consumed[p]]
  <2>1. at[p] \notin {"scan", "exited"} => consumed[p] \in 1..Len(sent[p])
    BY InRange DEF TInv, Types
  <2> QED
    BY <2>1, LoopEffect
<1>c. at[p] = "scan" => ~Answer(p)
  BY DEF Answer
<1> USE LoopEffect
<1>1. CASE /\ UNCHANGED <<consumed, logged, out>>
           /\ at'[p] = at[p] \/ at'[p] = "exited"
           /\ saw'[p] = saw[p] \/ at'[p] = "exited"
  BY <1>1, <1>b DEF Own
<1>2. CASE /\ at[p] = "scan" /\ at'[p] \in {"scan", "query", "exited"}
           /\ consumed'[p] = consumed[p] + 1
  <2>1. \A k \in DOMAIN out'[p] : out'[p][k].outcome = "cut" =>
           InvocationID(p, out'[p][k].line) \notin out'[p][k].saw
    BY <1>2, <1>c, OutEffect DEF Own
  <2> QED
    BY <1>2, <2>1 DEF Own
<1>3. CASE at[p] = "query" /\ UNCHANGED <<fileVars, consumed, logged, out, sent>>
           /\ \/ saw'[p] = FSP!IDsOf(target.traces)
              \/ at'[p] = "failed"
  <2>1. ~Earned(p, consumed[p]) /\ consumed[p] \in Request
    BY <1>3, InRange DEF Earned, Spots
  <2>2. InvocationID(p, consumed[p]) \notin FSP!IDsOf(target.traces)
    BY <2>1 DEF RInv, Holds
  <2> QED
    BY <1>3, <2>2 DEF Own
<1>4. CASE at[p] \in {"record", "recording"} /\ UNCHANGED <<consumed, saw, out, sent>>
  BY <1>4, <1>b DEF Own
<1>5. CASE /\ at[p] \in {"answer", "failed"} /\ at'[p] \in {"scan", "exited"}
           /\ UNCHANGED <<fileVars, consumed, logged, sent>>
  <2>1. \A k \in DOMAIN out'[p] : out'[p][k].outcome = "cut" =>
           InvocationID(p, out'[p][k].line) \notin out'[p][k].saw
    BY <1>5, OutEffect DEF Own
  <2> QED
    BY <1>5, <2>1 DEF Own
<1> QED
  BY <1>1, <1>2, <1>3, <1>4, <1>5

\* How a call of Store begins.
LEMMA BeginEffect ==
    ASSUME TInv, NEW p \in Server, RecordBegin(p)
    PROVE  /\ target' = target /\ at'[p] = "recording"
           /\ \/ pc'[p] = "idle" /\ reply'[p] = "error"
              \/ pc'[p] = "load"
<1>1. CASE FSP!StoreCancelled(p)
  BY <1>1 DEF FSP!StoreCancelled, FSP!Return, FSP!Goto, FSP!disk, TInv, FSP!TypeOK,
              RecordBegin, MoveTo, Types
<1>2. CASE FSP!StoreBegin(p, <<InvocationTrace(p, consumed[p])>>)
  BY <1>2 DEF FSP!StoreBegin, FSP!Goto, FSP!disk, TInv, FSP!TypeOK, RecordBegin, MoveTo, Types
<1> QED
  BY <1>1, <1>2, SameStore DEF RecordBegin

\* The client was told, or the server has been, that line n was recorded.
Acked(p, n) ==
    \/ \E k \in DOMAIN out[p] : out[p][k].line = n /\ out[p][k].outcome = "cut"
    \/ n = consumed[p] /\ at[p] = "answer" /\ sent[p][n] = "cut"
    \/ n = consumed[p] /\ at[p] = "recording" /\ pc[p] = "idle" /\ reply[p] = "ok"

\* With one server no call is lost: the array about to be written holds what the
\* file holds, and the call in hand.
AInv ==
    \A p \in Server :
        /\ \A n \in Request : Acked(p, n) => Holds(target.traces, p, n) \/ n \in logged[p]
        /\ pc[p] \notin {"idle", "load"} =>
              /\ FSP!IDsOf(target.traces) \subseteq FSP!IDsOf(merged[p])
              /\ Holds(merged[p], p, consumed[p])

OneServerOnly == \A p, q \in Server : p = q

\* With one server on the file, a step keeps every acknowledged recording
\* in the file.
LEMMA AInvKept ==
    ASSUME OneServerOnly, TInv, FSP!IInv, RInv, AInv, NEW p \in Server, Acts(p)
    PROVE  AInv'
<1>a. consumed[p] \in Nat /\ consumed[p] =< Len(sent[p]) /\ logged[p] \subseteq logged'[p]
  <2>1. consumed[p] \in Nat /\ consumed[p] =< Len(sent[p])
    BY DEF TInv, Types, Line
  <2>2. logged'[p] = logged[p] \/ logged'[p] = logged[p] \cup {consumed[p]}
    BY LoopEffect
  <2> QED
    BY <2>1, <2>2
<1>1. CASE RecordStep(p)
  <2>1. /\ UNCHANGED <<at, consumed, logged, out, sent>> /\ at[p] = "recording"
        /\ FSP!StoreStep(p)
    BY <1>1, SameStep DEF RecordStep, serverVars, clientVars
  <2>2. /\ batch[p] = <<InvocationTrace(p, consumed[p])>> /\ pc[p] \in InStore
    BY <2>1, StoreEffect DEF RInv, Call, TInv, InStore
  <2>3. InvocationID(p, consumed[p]) \in FSP!IDsOf(batch[p])
    BY <2>2 DEF FSP!IDsOf, InvocationTrace
  <2>4. CASE pc[p] = "load" /\ pc'[p] = "create" /\ target' = target
             /\ FSP!IDsOf(merged'[p]) = FSP!IDsOf(target.traces) \cup FSP!IDsOf(batch[p])
    <3>1. \A n : Acked(p, n)' => Acked(p, n)
      BY <2>1, <2>4 DEF Acked
    <3>2. /\ FSP!IDsOf(target.traces) \subseteq FSP!IDsOf(merged'[p])
          /\ Holds(merged'[p], p, consumed[p])
      BY <2>3, <2>4 DEF Holds
    <3> QED
      BY <2>1, <2>4, <3>1, <3>2 DEF AInv, OneServerOnly, Holds
  <2>5. CASE pc[p] # "load" /\ pc'[p] \in InStore \ {"load"} /\ UNCHANGED <<target, merged>>
    <3>1. \A n : Acked(p, n)' => Acked(p, n)
      BY <2>1, <2>5 DEF Acked, InStore
    <3> QED
      BY <2>1, <2>2, <2>5, <3>1 DEF AInv, OneServerOnly, Holds, InStore
  <2>6. CASE pc'[p] = "idle" /\ reply'[p] = "error" /\ target' = target
    <3>1. \A n : Acked(p, n)' => Acked(p, n)
      BY <2>1, <2>6 DEF Acked
    <3> QED
      BY <2>1, <2>6, <3>1 DEF AInv, OneServerOnly, Holds
  <2>7. CASE pc[p] = "rename" /\ pc'[p] = "idle" /\ target'.traces = merged[p]
    <3>1. \A n : Acked(p, n)' => Acked(p, n) \/ n = consumed[p]
      BY <2>1 DEF Acked
    <3>2. /\ FSP!IDsOf(target.traces) \subseteq FSP!IDsOf(target'.traces)
          /\ Holds(target'.traces, p, consumed[p])
      BY <2>7 DEF AInv
    <3> QED
      BY <2>1, <2>7, <3>1, <3>2 DEF AInv, OneServerOnly, Holds
  <2> QED
    BY <2>1, <2>4, <2>5, <2>6, <2>7, StoreEffect DEF TInv
<1>2. CASE ~RecordStep(p)
  <2>1. target' = target /\ (UNCHANGED fileVars \/ pc'[p] \in {"idle", "load"})
    BY <1>2, FileEffect
  <2>2. ASSUME pc'[p] \notin {"idle", "load"}
        PROVE  UNCHANGED fileVars /\ consumed'[p] = consumed[p]
    <3>1. UNCHANGED fileVars
      BY <2>1, <2>2
    <3>2. at[p] = "recording" /\ pc[p] # "idle"
      BY <2>2, <3>1 DEF RInv, Call, fileVars
    <3> QED
      BY <3>1, <3>2, LoopEffect
  <2>3. ASSUME NEW n \in Request, Acked(p, n)'
        PROVE  Acked(p, n) \/ n \in logged'[p]
    <3>b. at[p] \notin {"scan", "exited"} => sent'[p][consumed[p]] = sent[p][consumed[p]]
      <4>1. at[p] \notin {"scan", "exited"} => consumed[p] \in 1..Len(sent[p])
        BY InRange DEF TInv, Types
      <4> QED
        BY <4>1, LoopEffect
    <3>c. at[p] = "scan" => ~Answer(p)
      BY DEF Answer
    <3>1. CASE UNCHANGED <<consumed, logged, out>> /\ at'[p] = at[p] /\ ~RecordBegin(p)
      <4>1. UNCHANGED fileVars \/ at'[p] = "exited"
        BY <1>2, <3>1, FileEffect DEF Killed, TInv, Types
      <4> QED
        BY <2>3, <3>1, <3>b, <4>1 DEF Acked, fileVars
    <3>2. CASE UNCHANGED <<consumed, logged, out>> /\ at'[p] = "exited"
      BY <2>3, <3>2 DEF Acked
    <3>3. CASE /\ at[p] = "scan" /\ at'[p] \in {"scan", "query", "exited"}
               /\ consumed'[p] = consumed[p] + 1
      BY <2>3, <3>3, <3>c, OutEffect DEF Acked
    <3>4. CASE at[p] = "query" /\ UNCHANGED <<fileVars, consumed, logged, out, sent>>
               /\ \/ at'[p] = IF sent[p][consumed[p]] = "cut" THEN "record" ELSE "answer"
                  \/ at'[p] = "failed"
      BY <2>3, <3>4 DEF Acked
    <3>5. CASE RecordBegin(p) /\ UNCHANGED <<consumed, saw, logged, out, sent>>
      BY <2>3, <3>5, BeginEffect DEF Acked
    <3>6. CASE /\ at[p] = "recording" /\ at'[p] = "answer" /\ pc[p] = "idle"
               /\ UNCHANGED <<fileVars, consumed, saw, out, sent>>
               /\ reply[p] = "error" => logged'[p] = logged[p] \cup {consumed[p]}
      BY <2>3, <3>6 DEF Acked, RInv, Call
    <3>7. CASE /\ at[p] \in {"answer", "failed"} /\ at'[p] \in {"scan", "exited"}
               /\ UNCHANGED <<fileVars, consumed, logged, sent>>
      BY <2>3, <3>7, OutEffect DEF Acked
    <3> QED
      BY <3>1, <3>2, <3>3, <3>4, <3>5, <3>6, <3>7, LoopEffect
  <2> QED
    BY <1>a, <2>1, <2>2, <2>3 DEF AInv, OneServerOnly, Holds, fileVars
<1> QED
  BY <1>1, <1>2

\* What a query of p saw has every cut p answered before, but those logged.
Earlier(p, given, lost, ids, m) ==
    \A j \in 1..m :
        (given[j].outcome = "cut" /\ given[j].line \notin lost) =>
            InvocationID(p, given[j].line) \in ids

EInv ==
    \A p \in Server :
        /\ at[p] \in {"record", "recording", "answer"} => Earlier(p, out[p], logged[p], saw[p], Len(out[p]))
        /\ \A k \in DOMAIN out[p] :
              out[p][k].outcome = "cut" => Earlier(p, out[p], logged[p], out[p][k].saw, k - 1)

\* With one server on the file, a step keeps every answer's view of the
\* calls before it.
LEMMA EInvKept ==
    ASSUME OneServerOnly, TInv, AInv, EInv, NEW p \in Server, Acts(p)
    PROVE  EInv'
<1>a. out[p] \in Seq(Response) /\ Len(out[p]) \in Nat /\ DOMAIN out[p] = 1..Len(out[p])
  BY DEF TInv, Types
<1>b. logged[p] \subseteq logged'[p]
  <2>1. logged'[p] = logged[p] \/ logged'[p] = logged[p] \cup {consumed[p]}
    BY LoopEffect
  <2> QED
    BY <2>1
<1>d. SUFFICES /\ at'[p] \in {"record", "recording", "answer"} =>
                     Earlier(p, out'[p], logged'[p], saw'[p], Len(out'[p]))
               /\ \A k \in DOMAIN out'[p] :
                     out'[p][k].outcome = "cut" => Earlier(p, out'[p], logged'[p], out'[p][k].saw, k - 1)
  BY DEF OneServerOnly, EInv
<1>1. CASE out'[p] = out[p]
  <2>1. ASSUME NEW k \in DOMAIN out'[p], out'[p][k].outcome = "cut"
        PROVE  Earlier(p, out'[p], logged'[p], out'[p][k].saw, k - 1)
    <3>1. k - 1 \in Nat /\ k - 1 =< Len(out[p])
      BY <1>1, <1>a, <2>1
    <3>2. Earlier(p, out[p], logged[p], out[p][k].saw, k - 1)
      BY <1>1, <2>1 DEF EInv
    <3> QED
      BY <1>1, <3>1, <3>2, <1>b DEF Earlier
  <2>2. ASSUME at'[p] \in {"record", "recording", "answer"}
        PROVE  Earlier(p, out'[p], logged'[p], saw'[p], Len(out'[p]))
    <3>1. CASE at[p] \in {"record", "recording", "answer"} /\ saw'[p] = saw[p]
      <4>1. Earlier(p, out[p], logged[p], saw[p], Len(out[p]))
        BY <3>1 DEF EInv
      <4> QED
        BY <1>1, <1>b, <3>1, <4>1 DEF Earlier
    <3>2. CASE at[p] = "query" /\ saw'[p] = FSP!IDsOf(target.traces) /\ logged' = logged
      <4>1. ASSUME NEW j \in 1..Len(out[p]), out[p][j].outcome = "cut",
                   out[p][j].line \notin logged[p]
            PROVE  InvocationID(p, out[p][j].line) \in FSP!IDsOf(target.traces)
        <5>1. out[p][j].line \in Request
          <6>1. /\ out[p][j].line \in 1..consumed[p] /\ consumed[p] \in Nat
                /\ consumed[p] =< Len(sent[p]) /\ Len(sent[p]) =< MaxRequests
                /\ Len(sent[p]) \in Nat /\ MaxRequests \in Nat
            BY <1>a, ServerAssumption DEF TInv, Line, Types
          <6> QED
            BY <6>1 DEF Request
        <5>2. Acked(p, out[p][j].line)
          BY <1>a, <4>1 DEF Acked
        <5> QED
          BY <4>1, <5>1, <5>2 DEF AInv, Holds
      <4> QED
        BY <1>1, <3>2, <4>1 DEF Earlier
    <3> QED
      BY <2>2, <3>1, <3>2, LoopEffect
  <2> QED
    BY <2>1, <2>2
<1>2. CASE out'[p] # out[p]
  <2>1. PICK r :
          /\ DOMAIN out'[p] = DOMAIN out[p] \cup {Len(out[p]) + 1}
          /\ out'[p][Len(out[p]) + 1] = r
          /\ \A k \in DOMAIN out[p] : out'[p][k] = out[p][k]
          /\ r.saw = saw[p] /\ at'[p] = "scan"
          /\ r.outcome = "cut" => at[p] = "answer"
    BY <1>2, OutEffect
  <2>2. ASSUME NEW k \in DOMAIN out[p], out'[p][k].outcome = "cut"
        PROVE  Earlier(p, out'[p], logged'[p], out'[p][k].saw, k - 1)
    <3>1. k - 1 \in Nat /\ k - 1 =< Len(out[p])
      BY <1>a
    <3>2. Earlier(p, out[p], logged[p], out[p][k].saw, k - 1)
      BY <2>1, <2>2 DEF EInv
    <3>3. \A j \in 1..(k - 1) : j \in DOMAIN out[p]
      BY <1>a, <3>1
    <3> QED
      BY <2>1, <3>2, <3>3, <1>b DEF Earlier
  <2>3. ASSUME r.outcome = "cut"
        PROVE  Earlier(p, out'[p], logged'[p], r.saw, Len(out[p]))
    <3>1. Earlier(p, out[p], logged[p], saw[p], Len(out[p]))
      BY <2>1, <2>3 DEF EInv
    <3>2. \A j \in 1..Len(out[p]) : j \in DOMAIN out[p]
      BY <1>a
    <3> QED
      BY <2>1, <3>1, <3>2, <1>b DEF Earlier
  <2>4. Len(out[p]) + 1 - 1 = Len(out[p])
    BY <1>a
  <2> QED
    BY <2>1, <2>2, <2>3, <2>4
<1> QED
  BY <1>1, <1>2

\* However many servers share the file, no cut is computed from a store that
\* holds the trace of its own call.
THEOREM OwnInvariant == Spec => [](\A p \in Server : Own(p))
<1>1. Init => \A p \in Server : Own(p)
  BY DEF Init, Own
<1>2. TInv /\ RInv /\ (\A p \in Server : Own(p)) /\ [Next]_vars => (\A p \in Server : Own(p))'
  <2> SUFFICES ASSUME TInv, RInv, \A p \in Server : Own(p), [Next]_vars, NEW p \in Server
               PROVE  Own(p)'
    OBVIOUS
  <2>1. CASE UNCHANGED vars
    BY <2>1 DEF vars, clientVars, serverVars, Own
  <2>2. ASSUME NEW q \in Server, Acts(q) PROVE Own(p)'
    <3>1. CASE p = q
      BY <2>2, <3>1, OwnKept
    <3>2. CASE p # q
      <4>1. /\ at'[p] = at[p] /\ sent'[p] = sent[p] /\ consumed'[p] = consumed[p]
            /\ saw'[p] = saw[p] /\ out'[p] = out[p]
        BY <2>2, <3>2, LoopTypes
      <4> QED
        BY <4>1 DEF Own
    <3> QED
      BY <3>1, <3>2
  <2> QED
    BY <2>1, <2>2, OneServer
<1> QED
  BY <1>1, <1>2, LoopInvariant, RecordInvariant, PTL DEF Spec

\* With one server, the invariant of the calls it acknowledged.
LEMMA AckInvariant ==
    ASSUME OneServerOnly
    PROVE  Spec => []AInv
<1>1. Init => AInv
  <2> SUFFICES ASSUME Init PROVE AInv
    OBVIOUS
  <2>1. FSP!Init
    BY SameStore DEF Init
  <2> QED
    BY <2>1 DEF Init, FSP!Init, AInv, Acked
<1>2. TInv /\ FSP!IInv /\ RInv /\ AInv /\ [Next]_vars => AInv'
  <2> SUFFICES ASSUME TInv, FSP!IInv, RInv, AInv, [Next]_vars PROVE AInv'
    OBVIOUS
  <2>1. CASE UNCHANGED vars
    BY <2>1 DEF vars, fileVars, clientVars, serverVars, AInv, Acked, Holds
  <2> QED
    BY <2>1, OneServer, AInvKept
<1> QED
  BY <1>1, <1>2, LoopInvariant, FileInvariant, RecordInvariant, PTL DEF Spec

\* A server that has the file to itself loses no call: each cut it answered is in
\* the store or was logged (recordInvocation, cutHandler).
THEOREM CutsRecordedOrLogged ==
    ASSUME OneServerOnly
    PROVE  Spec => []EveryCutIsRecordedOrLogged
<1>1. TInv /\ AInv => EveryCutIsRecordedOrLogged
  <2> SUFFICES ASSUME TInv, AInv, NEW p \in Server, NEW k \in DOMAIN out[p],
                      out[p][k].outcome = "cut"
               PROVE  \/ RecordedIn(target, p, out[p][k].line)
                      \/ out[p][k].line \in logged[p]
    BY DEF EveryCutIsRecordedOrLogged
  <2>1. out[p][k].line \in Request
    <3>1. /\ out[p][k].line \in 1..consumed[p] /\ consumed[p] \in Nat
          /\ consumed[p] =< Len(sent[p]) /\ Len(sent[p]) =< MaxRequests
          /\ Len(sent[p]) \in Nat /\ MaxRequests \in Nat
      BY ServerAssumption DEF TInv, Line, Types
    <3> QED
      BY <3>1 DEF Request
  <2>2. Acked(p, out[p][k].line)
    BY DEF Acked
  <2> QED
    BY <2>1, <2>2, SameStore DEF AInv, Holds, RecordedIn
<1> QED
  BY <1>1, LoopInvariant, AckInvariant, PTL

\* A server that has the file to itself shows in each cut the calls recorded
\* before it and not the call itself.
THEOREM CutSeesEarlierCalls ==
    ASSUME OneServerOnly
    PROVE  Spec => []CutSeesEarlierCallsOnly
<1>1. Init => EInv
  BY DEF Init, EInv
<1>2. TInv /\ AInv /\ EInv /\ [Next]_vars => EInv'
  <2> SUFFICES ASSUME TInv, AInv, EInv, [Next]_vars PROVE EInv'
    OBVIOUS
  <2>1. CASE UNCHANGED vars
    BY <2>1 DEF vars, clientVars, serverVars, EInv
  <2> QED
    BY <2>1, OneServer, EInvKept
<1>3. (\A p \in Server : Own(p)) /\ EInv => CutSeesEarlierCallsOnly
  BY DEF Own, EInv, Earlier, CutSeesEarlierCallsOnly
<1> QED
  BY <1>1, <1>2, <1>3, OwnInvariant, AckInvariant, LoopInvariant, PTL DEF Spec
=============================================================================
