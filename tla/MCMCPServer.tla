---------------------------- MODULE MCMCPServer ----------------------------
(* Instances of MCPServer small enough for TLC. *)
EXTENDS MCPServer, TLC

CONSTANTS p1, p2

MCInvocationID(p, n) == <<p, n>>
\* A server's invocations happen one after the other; two servers' may
\* coincide.
MCInvocationTime(p, n) == n

Base == [id |-> <<NoTrace, 1>>, timestamp |-> 1, observer |-> "o", tags |-> {},
         rev |-> 1]
Bad == [Base EXCEPT !.timestamp = 0]

MCTraceID == {<<NoTrace, 1>>} \cup (Server \X (1..MaxRequests))
MCValid == {Base} \cup { InvocationTrace(p, n) : p \in Server, n \in 1..MaxRequests }
MCTrace == MCValid \cup {Bad}

Holding(traces) == [kind |-> "json", traces |-> traces]

\* A substrate, none, and a file with an invalid trace.
MCInitial ==
    {[kind |-> "absent", traces |-> <<>>], Holding(<<Base>>), Holding(<<Bad>>)}
MCOneFile == {Holding(<<Base>>)}
============================================================================
