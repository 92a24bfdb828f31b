----------------------------- MODULE MCPServer -----------------------------
(***************************************************************************)
(* The MCP server (meshant/mcp): one process per client, a loop that reads  *)
(* one JSON-RPC line, handles it to the end, writes its response and reads  *)
(* the next.  A cut-producing tool reads the whole store, computes its      *)
(* answer, then stores a trace of its own invocation before it answers.     *)
(*                                                                          *)
(* All servers work on one JSON file: the Store steps are JSONFileStore's,  *)
(* and interleave with the other servers' because nothing locks the file.   *)
(***************************************************************************)
EXTENDS Integers, Sequences, FiniteSets, Subsequences

CONSTANTS
    Server,            \* server processes, each with the client that spawned it
    MaxRequests,       \* bound: lines one client sends
    InvocationID(_,_), \* the UUID drawn for a server's n-th request
    InvocationTime(_,_),
    TraceID, Trace, ValidTrace, NoTrace, InitialFile, \* JSONFileStore
    MaxFileTraces, MaxSurvivors

\* The trace recordInvocation builds for the n-th request of p: always valid,
\* since the handler has refused an empty observer.
InvocationTrace(p, n) ==
    [id |-> InvocationID(p, n), timestamp |-> InvocationTime(p, n),
     observer |-> "o", tags |-> {"mcp-invocation"}, rev |-> 1]

Request == 1..MaxRequests

\* newUUID4 never draws a UUID twice, nor one the file holds.
ASSUME ServerAssumption ==
    /\ MaxRequests \in Nat
    /\ \A p, q \in Server, m, n \in Request :
          InvocationID(p, m) = InvocationID(q, n) => p = q /\ m = n
    /\ \A p \in Server, n \in Request :
          /\ InvocationTrace(p, n) \in ValidTrace
          /\ \A f \in InitialFile : \A k \in DOMAIN f.traces :
                f.traces[k].id # InvocationID(p, n)

VARIABLES
    target, survivors, found, pc, batch, merged, tmp, synced, reply, \* JSONFileStore
    at,        \* where each server's Run loop is
    sent,      \* the lines its client has sent, in order
    consumed,  \* how many of them Scan has returned
    open,      \* whether the client still has the server's stdin open
    listening, \* whether the client still reads the server's stdout
    cancelled, \* whether SIGINT or SIGTERM has cancelled the context
    saw,       \* what Query returned to the call being handled: IDs
    out,       \* the responses written to the client, in order
    logged     \* requests whose invocation the server logged as not recorded

FS == INSTANCE JSONFileStore WITH
    Caller <- Server,
    Coordinated <- FALSE,
    Batch <- { <<InvocationTrace(p, n)>> : p \in Server, n \in Request }

\* What JSONFileStore assumes of its constants, of these.
ASSUME FileAssumption ==
    /\ \A t \in Trace : t.id \in TraceID /\ t.timestamp \in Nat
    /\ ValidTrace \subseteq Trace
    /\ \A t \in ValidTrace : t.timestamp > 0
    /\ NoTrace \notin Trace
    /\ IsFiniteSet(TraceID)
    /\ InitialFile \subseteq FS!File
    /\ MaxFileTraces \in Nat
    /\ MaxSurvivors \in Nat

fileVars == <<target, survivors, found, pc, batch, merged, tmp, synced, reply>>
clientVars == <<sent, open, listening>>
serverVars == <<at, consumed, saw, out, logged>>
vars == <<fileVars, clientVars, serverVars, cancelled>>

\* What a line can be: not JSON, longer than the 4 MiB buffer, a message without
\* an id, a message answered at once (initialize, initialized, tools/list, an
\* unknown method or tool, bad params, arguments a handler refuses), a validate
\* call, or a call of a cut-producing tool.
Kinds == {"garbage", "toolong", "notification", "plain", "validate", "cut"}

Outcomes == {"parse-error", "plain", "tool-error", "validated", "cut"}

TypeOK ==
    /\ FS!TypeOK
    /\ at \in [Server -> {"scan", "query", "record", "recording", "answer",
                          "failed", "exited"}]
    /\ \A p \in Server : sent[p] \in Seq(Kinds) /\ Len(sent[p]) =< MaxRequests
    /\ \A p \in Server : consumed[p] \in 0..Len(sent[p])
    /\ open \in [Server -> BOOLEAN]
    /\ listening \in [Server -> BOOLEAN]
    /\ cancelled \in [Server -> BOOLEAN]
    /\ saw \in [Server -> SUBSET TraceID]
    /\ \A p \in Server : \A k \in DOMAIN out[p] :
          out[p][k].line \in 1..consumed[p] /\ out[p][k].outcome \in Outcomes
    /\ logged \in [Server -> SUBSET Request]

Init ==
    /\ FS!Init
    /\ at = [p \in Server |-> "scan"]
    /\ sent = [p \in Server |-> <<>>]
    /\ consumed = [p \in Server |-> 0]
    /\ open = [p \in Server |-> TRUE]
    /\ listening = [p \in Server |-> TRUE]
    /\ cancelled = [p \in Server |-> FALSE]
    /\ saw = [p \in Server |-> {}]
    /\ out = [p \in Server |-> <<>>]
    /\ logged = [p \in Server |-> {}]

----------------------------------------------------------------------------
(* The client and the operating system.                                     *)

ClientSends(p) ==
    /\ open[p]
    /\ Len(sent[p]) < MaxRequests
    /\ \E k \in Kinds : sent' = [sent EXCEPT ![p] = Append(@, k)]
    /\ UNCHANGED <<fileVars, serverVars, open, listening, cancelled>>

ClientClosesInput(p) ==
    /\ open[p]
    /\ open' = [open EXCEPT ![p] = FALSE]
    /\ UNCHANGED <<fileVars, serverVars, sent, listening, cancelled>>

ClientDies(p) ==
    /\ listening[p]
    /\ open' = [open EXCEPT ![p] = FALSE]
    /\ listening' = [listening EXCEPT ![p] = FALSE]
    /\ UNCHANGED <<fileVars, serverVars, sent, cancelled>>

\* SIGINT or SIGTERM: the context is cancelled, nothing else happens.
Signal(p) ==
    /\ at[p] # "exited"
    /\ ~cancelled[p]
    /\ cancelled' = [cancelled EXCEPT ![p] = TRUE]
    /\ UNCHANGED <<fileVars, serverVars, clientVars>>

\* The process is killed, in the middle of a Store or outside.
Killed(p) ==
    /\ at[p] # "exited"
    /\ at' = [at EXCEPT ![p] = "exited"]
    /\ saw' = [saw EXCEPT ![p] = {}]
    /\ IF pc[p] = "idle" THEN UNCHANGED fileVars ELSE FS!ProcessDies(p)
    /\ UNCHANGED <<consumed, out, logged, clientVars, cancelled>>

----------------------------------------------------------------------------
(* Run.                                                                     *)

MoveTo(p, place) == at' = [at EXCEPT ![p] = place]

\* The response carries the ID of the next request.
Write_Mutant(p, line, outcome) ==
    IF listening[p]
    THEN /\ out' = [out EXCEPT ![p] =
                Append(@, [line |-> line + 1, outcome |-> outcome, saw |-> saw[p]])]
         /\ MoveTo(p, "scan")
    ELSE MoveTo(p, "exited") /\ UNCHANGED out

\* enc.Encode: the response reaches the client, or the loop ends because
\* nobody reads it.
Write(p, line, outcome) ==
    IF listening[p]
    THEN /\ out' = [out EXCEPT ![p] =
                Append(@, [line |-> line, outcome |-> outcome, saw |-> saw[p]])]
         /\ MoveTo(p, "scan")
    ELSE MoveTo(p, "exited") /\ UNCHANGED out

\* Scan returns the next line, of one of these kinds.
Takes(p, kinds) ==
    /\ at[p] = "scan"
    /\ consumed[p] < Len(sent[p])
    /\ sent[p][consumed[p] + 1] \in kinds
    /\ consumed' = [consumed EXCEPT ![p] = @ + 1]
    /\ UNCHANGED <<fileVars, clientVars, cancelled, saw, logged>>

\* Scan meets a line longer than its buffer; or the context, looked at only
\* once Scan has returned a line, is cancelled: the loop ends, the line is
\* dropped.
StopReading(p) ==
    /\ Takes(p, IF cancelled[p] THEN Kinds ELSE {"toolong"})
    /\ MoveTo(p, "exited")
    /\ UNCHANGED out

\* The line is not JSON, or its answer needs no store.
AnswerAtOnce(p) ==
    /\ ~cancelled[p]
    /\ \/ Takes(p, {"garbage"}) /\ Write(p, consumed'[p], "parse-error")
       \/ Takes(p, {"plain"}) /\ Write(p, consumed'[p], "plain")

\* A message without an id answered like one with an id.
SkipNotification_Mutant(p) ==
    /\ ~cancelled[p]
    /\ Takes(p, {"notification"})
    /\ Write(p, consumed'[p], "plain")

SkipNotification(p) ==
    /\ ~cancelled[p]
    /\ Takes(p, {"notification"})
    /\ UNCHANGED <<at, out>>

\* A tools/call whose arguments its handler accepts.
CallTool(p) ==
    /\ ~cancelled[p]
    /\ Takes(p, {"validate", "cut"})
    /\ MoveTo(p, "query")
    /\ UNCHANGED out

\* Scan returns false: the client has closed the pipe and all is read.
EndOfInput(p) ==
    /\ at[p] = "scan"
    /\ consumed[p] = Len(sent[p])
    /\ ~open[p]
    /\ MoveTo(p, "exited")
    /\ UNCHANGED <<fileVars, clientVars, cancelled, consumed, saw, out, logged>>

\* The reader of the whole store records itself, validate included.
QueryStore_Mutant(p) ==
    /\ at[p] = "query"
    /\ ~cancelled[p]
    /\ FS!Readable(target)
    /\ saw' = [saw EXCEPT ![p] = FS!IDsOf(FS!Query(target, FS!AnyTrace).traces)]
    /\ MoveTo(p, "record")
    /\ UNCHANGED <<fileVars, clientVars, cancelled, consumed, out, logged>>

\* The handler queries the store, without a filter, and computes its result
\* from what it got; nothing else of the store is read for the answer.
QueryStore(p) ==
    /\ at[p] = "query"
    /\ ~cancelled[p]
    /\ FS!Readable(target)
    /\ saw' = [saw EXCEPT ![p] = FS!IDsOf(FS!Query(target, FS!AnyTrace).traces)]
    /\ MoveTo(p, IF sent[p][consumed[p]] = "cut" THEN "record" ELSE "answer")
    /\ UNCHANGED <<fileVars, clientVars, cancelled, consumed, out, logged>>

\* Query returns an error: cancelled, an unreadable file, or an I/O error.
QueryFails(p) ==
    /\ at[p] = "query"
    /\ cancelled[p] \/ target.kind # "absent"
    /\ MoveTo(p, "failed")
    /\ UNCHANGED <<fileVars, clientVars, cancelled, consumed, saw, out, logged>>

\* recordInvocation calls Store with the one new trace ...
RecordBegin(p) ==
    /\ at[p] = "record"
    /\ IF cancelled[p]
       THEN FS!StoreCancelled(p)
       ELSE FS!StoreBegin(p, <<InvocationTrace(p, consumed[p])>>)
    /\ MoveTo(p, "recording")
    /\ UNCHANGED <<clientVars, cancelled, consumed, saw, out, logged>>

\* ... which runs its course ...
RecordStep(p) ==
    /\ at[p] = "recording"
    /\ FS!StoreStep(p)
    /\ UNCHANGED <<serverVars, clientVars, cancelled>>

\* The error of Store silenced.
RecordEnds_MutantSilent(p) ==
    /\ at[p] = "recording"
    /\ pc[p] = "idle"
    /\ MoveTo(p, "answer")
    /\ UNCHANGED <<fileVars, clientVars, cancelled, consumed, saw, out, logged>>

\* The answer computed from the store as it is after the call was recorded.
RecordEnds_MutantRequery(p) ==
    /\ at[p] = "recording"
    /\ pc[p] = "idle"
    /\ saw' = [saw EXCEPT ![p] = FS!IDsOf(FS!Query(target, FS!AnyTrace).traces)]
    /\ logged' = IF reply[p] = "error"
                 THEN [logged EXCEPT ![p] = @ \cup {consumed[p]}]
                 ELSE logged
    /\ MoveTo(p, "answer")
    /\ UNCHANGED <<fileVars, clientVars, cancelled, consumed, out>>

\* No answer until the call is recorded.
RecordEnds_MutantWaits(p) ==
    /\ at[p] = "recording"
    /\ pc[p] = "idle"
    /\ reply[p] = "ok"
    /\ MoveTo(p, "answer")
    /\ UNCHANGED <<fileVars, clientVars, cancelled, consumed, saw, out, logged>>

\* ... and, if it failed, is logged; the answer is given all the same.
RecordEnds(p) ==
    /\ at[p] = "recording"
    /\ pc[p] = "idle"
    /\ logged' = IF reply[p] = "error"
                 THEN [logged EXCEPT ![p] = @ \cup {consumed[p]}]
                 ELSE logged
    /\ MoveTo(p, "answer")
    /\ UNCHANGED <<fileVars, clientVars, cancelled, consumed, saw, out>>

\* handleToolsCall returns the handler's result or its error as content.
Answer(p) ==
    /\ at[p] \in {"answer", "failed"}
    /\ Write(p, consumed[p],
             IF at[p] = "failed" THEN "tool-error"
             ELSE IF sent[p][consumed[p]] = "cut" THEN "cut" ELSE "validated")
    /\ saw' = [saw EXCEPT ![p] = {}]
    /\ UNCHANGED <<fileVars, clientVars, cancelled, consumed, logged>>

ServerStep(p) ==
    \/ StopReading(p)
    \/ AnswerAtOnce(p)
    \/ SkipNotification(p)
    \/ CallTool(p)
    \/ EndOfInput(p)
    \/ QueryStore(p)
    \/ QueryFails(p)
    \/ RecordBegin(p)
    \/ RecordStep(p)
    \/ RecordEnds(p)
    \/ Answer(p)

Next ==
    \E p \in Server :
        \/ ClientSends(p)
        \/ ClientClosesInput(p)
        \/ ClientDies(p)
        \/ Signal(p)
        \/ Killed(p)
        \/ ServerStep(p)

Spec == Init /\ [][Next]_vars

\* The operating system keeps a server that can run running; clients, signals
\* and deaths happen or not.
Fairness == \A p \in Server : WF_vars(ServerStep(p))

FairSpec == Spec /\ Fairness

----------------------------------------------------------------------------
(* Properties.                                                              *)

\* The line of p being handled, if any.
InHand(p) == IF at[p] \in {"scan", "exited"} THEN {} ELSE {consumed[p]}

\* The lines of p that Run owes a response, up to line n.
Owed(p, n) == LET K == { k \in 1..n : sent[p][k] # "notification" } IN
              [i \in 1..Cardinality(K) |-> Nth(K, i)]

\* Run answers every line it has taken, once and in the order the client sent
\* them, except notifications; only the line in hand, or the one in hand when
\* the server went down, is still unanswered (Run, server.go).
AnsweredInOrder ==
    \A p \in Server :
        LET answered == [k \in DOMAIN out[p] |-> out[p][k].line]
            last == IF at[p] = "exited" THEN {consumed[p], consumed[p] - 1}
                    ELSE IF InHand(p) = {} THEN {consumed[p]}
                    ELSE {consumed[p] - 1}
        IN  \E n \in last : n >= 0 /\ answered = Owed(p, n)

RecordedIn(f, p, n) == InvocationID(p, n) \in FS!IDsOf(f.traces)

\* Every answered cut is in the store or was logged as not recorded, and, while
\* the machine runs, stays there ("Every cut-producing tool call writes a
\* reflexive trace to the TraceStore"; the failure to record "is logged, not
\* silenced", mcp-v1.md D5).
EveryCutIsRecordedOrLogged ==
    \A p \in Server : \A k \in DOMAIN out[p] :
        out[p][k].outcome = "cut" =>
            \/ RecordedIn(target, p, out[p][k].line)
            \/ out[p][k].line \in logged[p]

\* Only cuts leave traces: an invocation in the store belongs to a line that
\* called a cut-producing tool and that was answered with its cut, is in hand,
\* or was in hand when the server went down; never to a validate call, to a
\* call that failed, or to one whose failure to record was logged.
OnlyCutsAreRecorded ==
    \A p \in Server : \A n \in 1..Len(sent[p]) :
        RecordedIn(target, p, n) =>
            /\ sent[p][n] = "cut"
            /\ n =< consumed[p]
            /\ n \notin logged[p]
            /\ \A k \in DOMAIN out[p] : out[p][k].line = n => out[p][k].outcome = "cut"

\* A cut shows the mesh as it was before the call: with every earlier
\* invocation that was recorded, without its own ("structurally identical to
\* the result from the direct Go API", D6, and D5 for the earlier calls).
CutSeesEarlierCallsOnly ==
    \A p \in Server : \A k \in DOMAIN out[p] :
        out[p][k].outcome = "cut" =>
            LET n == out[p][k].line IN
            /\ InvocationID(p, n) \notin out[p][k].saw
            /\ \A j \in 1..(k - 1) :
                 (out[p][j].outcome = "cut" /\ out[p][j].line \notin logged[p]) =>
                    InvocationID(p, out[p][j].line) \in out[p][k].saw

\* Every line a client sends is taken off the pipe, and the call it makes
\* handled to the end, unless the server has gone down.
EveryLineIsHandled ==
    \A p \in Server : \A n \in Request :
        (n =< Len(sent[p])) ~> (at[p] = "exited"
                                \/ (consumed[p] >= n /\ n \notin InHand(p)))

\* SIGINT or SIGTERM ends the server ("It returns when in reaches EOF or the
\* context is cancelled", server.go).
SignalEndsServer ==
    \A p \in Server : cancelled[p] ~> (at[p] = "exited")
============================================================================
