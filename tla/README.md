# MeshAnt, specified and verified

TLA+ modules for the parts of MeshAnt (Go, `meshant/`) that keep state, race,
crash or compute something a test can only sample, TLC configurations that check
them on small instances, and TLAPS proofs of what must hold for every instance.
`PROJECT.json` ties each definition to the lines it models and lists the runs,
the hazards of the code, and for every property a slip in the code that would
break it.

## 1. The system

MeshAnt reads *traces* (who observed what change, when, from which elements to
which, by what mediator) and *articulates* a graph from the position of some
observers, within a time window and tags. What the cut leaves out is kept as the
graph's *shadow*. Everything else compares, follows, exports or collects traces.

| Component | Source | State | Operations | Interacts with | Hard behaviours | What makes it correct |
|---|---|---|---|---|---|---|
| JSON file store | `store/`, `loader/loader.go` | one JSON file; a temporary file per Store call | Store, Query, Get, Close | called by the CLI, MCP and HTTP servers, all on the same path | several processes without a lock; death or power failure between write, sync and rename; one bad trace in a batch; duplicate IDs | whole batches only; never a corrupt file; last write under an ID wins; Get and Query agree |
| Neo4j store | `store/neo4j_*.go` | external graph database | the same interface in Cypher | the same callers | overlapping transactions that make one ID; retries of the driver and lost answers; relations of an amended trace; string order of timestamps | whole batches only; complete nodes; implements the same interface while no ID is on two nodes |
| MCP server | `mcp/`, `cmd/meshant/cmd_mcp.go` | loop position, cancelled context; the store | initialize, tools/list, eight tools | client over stdin and stdout; any TraceStore | signals during a blocked read; client gone; failure to record; several servers on one file | each request answered once and in order; every cut recorded or its failure logged |
| Articulation and readings | `graph/graph.go`, `diff.go`, `gaps.go`, `suggest.go`, `shadow.go`, `bottleneck.go` | none of its own: values computed from one load of the substrate | Articulate, Diff, AnalyseGaps, SuggestRearticulations, SummariseShadow, IdentifyBottlenecks | every command, tool and request | many combinations of filters, elements seen and unseen, two graphs with two shadows | nothing lost, reasons true, diff and gap consistent |
| Translation chains | `graph/chain.go`, `classify.go` | position, visited set, steps, breaks | FollowTranslation, ClassifyChain | CLI, MCP, HTTP | cycles, self-loops, elements named twice, depth limit | one real path, every alternative named, always ends |
| HTTP server and web UI | `serve/`, `serve/web/app.js` | screen, banner, detail panel, export, requests on their way; the store | articulate, diff, shadow, traces, element, observers, tags; submit, click, export; shutdown | browser, store | concurrent loads, answers out of order, graph and shadow from two requests, filters written twice, a signal with requests open | what is shown belongs together; endpoints agree; everything settles |
| LLM sessions | `llm/` | drafts, dispositions, session record | RunExtraction, RunAssistSession, RunCritique, PromoteSession | LLM over HTTP, analyst on a terminal | failure of one document of many; quit and end of input at each prompt | record, drafts and dispositions agree |
| Review sessions | `review/` | drafts, answers | RunReviewSession, DeriveAccepted, DeriveEdited | analyst | accept, edit, skip, quit | every outcome derives from the draft shown |
| Draft chains, lineage, promotion | `loader/draftchain.go`, `draftloader.go`, `cmd_lineage.go`, `cmd_promote.go` | files | load, follow, classify, promote | CLI | cyclic or dangling links, repeated or missing IDs, a second promotion | the search ends and is right; chains and gaps hold; promoting again adds nothing |
| Identity and serialisation | `graph/actor.go`, `reflexive.go`, `serial.go`, `persist/` | files | identify, record as trace, read, write | CLI | round trips | a graph read is the graph written |
| Exports and narrative | `graph/export.go`, `*_print.go`, `narrative.go` | none | format | CLI, MCP | none | layout |
| Adapters | `adapter/` | none | PDF, HTML, JSON log to text | extract | none of its own | external libraries |
| Command line | `cmd/meshant`, `cmd/demo` | none | flags, files | all of the above | none of its own | calls the right component |

## 2. The modules

```
Subsequences                         what a loop that appends what it keeps leaves

TraceData ---- TraceStore            the promise: ID -> trace, whole batches
     |             ^ implements
     +------- JSONFileStore
     |             ^ instance, one Caller per server
     |        MCPServer
     |
     +------- Neo4jStore             implements TraceStore, too

MeshGraph ---- TranslationChain
     +-------- Endpoints ---- WebUI  server, page and requests
                   +--------- Tools ---- Cuts
                                     readings of a growing substrate

Drafts ------- DraftReadings         lineage, comparisons, promotion

DraftSessions                        LLM and review sessions, and their files
```

The proofs about a module are in the module of its name with `Proofs` at the end:
`JSONFileStoreProofs`, `MCPServerProofs` (which is an instance of the former, as
`MCPServer` is of the store), `Neo4jStoreProofs`, `TranslationChainProofs`,
`CutsProofs`, `WebUIProofs`, and `SubsequencesProofs` with the lemmas about parts of
sequences and about loops that most of them share. `DraftsProofs` is about both
`DraftSessions` and `DraftReadings`, whose specification is called `ReadingsSpec` so
that one module can extend both.

`MC*` modules only give constants their values for TLC. A definition whose name
ends in `_Mutant...` is a plausible slip in the code it stands beside; no
specification uses it.

**Subsequences** (no variables). The elements of a sequence at a set of positions,
in order, which is what `for ... { if ... { out = append(out, x) } }` leaves. It is
written with the rank of a position and not by recursion, so that the prover can
reason about it.

**TraceData** (no variables). Traces as records, the map a loop
`m[t.ID] = t` builds (`Upsert`), and the filter of a query. Instants are
integers; 0 is Go's zero time.

**TraceStore**. What `store.go` promises, nothing else: a map from IDs to traces
changed by whole batches, and after a power failure equal to a map it once held
since it was last flushed.

**JSONFileStore**. `Store` of `json_file_store.go`, one action per system call:

| Variable | Code |
|---|---|
| `target` | the file at `path` as `os.Open` finds it: absent, torn (not JSON) or an array |
| `survivors` | what a power failure now may leave there; the directory is never synced |
| `pc`, `batch`, `merged`, `tmp`, `synced` | a call's position and locals in `Store` and `writeAtomic` |
| `reply` | the error it returned |
| `found` | history, not in the code: the file that was there first |

`StoreCancelled`, `StoreRejected` and `StoreNothing` are the early returns;
`LoadAndMerge` or `LoadFails` is `loadOrEmpty`, both merge loops and the sort;
`CreateTemp`, `WriteTemp`, `SyncTemp`, `CloseTemp`, `RenameTemp` are
`writeAtomic`, and `WriteFails` its deferred removal at each of those points.
`ProcessDies`, `PowerFails` and `Writeback` are the operating system. `Layouts`
gives every order an unstable sort of a map's values can produce. `Query` and
`Get` open the path once and read one file that no writer touches (writers
replace it), so they are operators on `target`, which return an error for a file
that `loader.Load` refuses and otherwise what `Limited` and `Find` leave of it.

**MCPServer**. `Run` of `mcp/server.go` for any number of server processes, each
with a client that sends lines, closes its pipe or dies. A line is one of six
kinds (garbage, too long, notification, answered without the store, validate, a
cut-producing tool); that is all the loop tells apart. A cut goes through
`QueryStore`, `RecordBegin`, `RecordStep` (the steps of `JSONFileStore`),
`RecordEnds`, `Answer`, which is the order of every handler in `tools.go`. The
context is looked at where the code looks: after `Scan`, in `Query`, in `Store`.

**MeshGraph** (no variables). `Articulate`, `buildShadowData`, `Diff`,
`AnalyseGaps`, `SuggestRearticulations`, `SummariseShadow`,
`IdentifyBottlenecks` as functions of traces and cuts. Lists the code sorts for
output are sets here.

**Tools** (no variables). What each MCP tool answers, on the same terms:
an envelope around a graph, shadow summary, bottlenecks, narrative, diff or gap.
A narrative is what its paragraphs are made of.

**Cuts**. A substrate that grows and is amended (`Store`);
`Compare`, which loads it once and articulates it twice as `cmd_diff.go`,
`cmd_gaps.go`, the diff and gaps tools and `handleDiff` do; and `CallTool`, which
answers and then puts a trace of the call into the substrate, as
`recordInvocation` does. Cuts without an
observer and inverted windows are refused by every caller before it loads, so
they are not among the inputs (`CutsAssumption`). `report` holds one reading at a
time, since readings share nothing but the substrate.

**TranslationChain**. `FollowTranslation`, one turn of the loop a step. The
adjacency lists are `Entries`; `First` is the entry the code takes.

**Neo4jStore**. `neo4j_store.go` and the statements of `neo4j_cypher.go` over
an external database. `nodes` is what is committed, each trace node with the
relations it has, `tx` the open transaction of each caller: its batch, which of
its traces were merged and onto which nodes, and the driver's attempt. `Run` is
one turn of Store's loop and waits for a node another transaction has changed;
`Commit` makes all turns visible at once, and its answer may get lost;
`Rollback` undoes them, after which the driver tries again or gives up.
`storeCypher` says what the `MERGE` and `SET` clauses of all turns do together: a
node that some turns found has the properties of the last of them, an ID that no
node had gets one node, where its first turn comes, and relations are only added,
so those of earlier versions stay. Callers do not coordinate: two turns that find
no node of an ID make one each (`OneNodeEach` may fail). `AsString` is the order of
the strings in which instants are stored; `Query` gives the rows a query may
return, `Get` the records of an ID.

**Endpoints** (no variables). Each handler as a function of the traces loaded
and the query, down to the envelope's cut with its bounds as printed (whole
seconds). `filterTraces` and `filterByElement` are the second filter, which the
trace endpoints use instead of `Articulate`.

**WebUI**. One page, the server and a substrate others change:

| Variable | Code |
|---|---|
| `log` | the versions of the stored traces; an answer is the version it was computed from |
| `server` | `cmd_serve.go`: serving, draining after a signal, gone |
| `observer`, `exported` | `currentObserver`, `_lastEnvelope` |
| `loads`, `clicks` | the calls of `loadGraph` and `handleNodeClick` with the requests they wait for; `alone` and `on` are history |
| `screen`, `banner`, `detail` | `#cut-header` and `#main`, the error banner, the detail panel |

`Submit` starts both fetches, `Show` is all that follows the `await` when both
came, `LoadFails` the `catch`; a server step answers one request or the request
fails. `Shutdown` waits for open requests (`Exit`).

**Drafts** (no variables). What loader and commands compute from a list of
drafts: links, anchors and members of a chain, `FollowDraftChain`, the kinds of
its steps, `CompareExtractions`, loading and promotion. Maps from IDs hold the
last draft of an ID, as the code's do. The chain's steps are told by
`draftContentChanged`, which compares lists in order and leaves `doc`, `note` and
`blank` out; the gap's `Disagreements` has those three as well and compares lists
as bags.

**DraftReadings**. The commands over one file. The search for cycles is taken
call by call: `scan.stack` is the Go stack of `detectCycleDFS`, `visited` and
`inPath` its maps. `ChainDiff` and `ExtractionGap` leave what they print in
`report`; `PromoteAndStore` is `promote` and then `store`, which may be done
again.

**DraftSessions**. The commands `extract`, `assist`, `critique` and `review`,
from flags to exit code, run one after another by one analyst over a few output
files:

| Variable | Code |
|---|---|
| `files`, `records` | what `--output` names and the `.session.json` beside it: none, torn, or whole |
| `run` | the locals of the `cmd...` function and of `RunExtraction`, `RunAssistSession`, `RunCritique` or `RunReviewSession`: what is left to do (`queue`), the draft at the prompt (`shown`), results, dispositions, whether there is an ErrorNote (`note`) or an error (`failed`), how the process ended (`end`) |
| `issued`, `archive` | history, not in the code: every draft made, every record that was whole on disk |

Each reply of the LLM, each answer of the analyst and each system call of the
two writes is an action. `LoadTemplate` also stands for the other reasons a
session fails before it asks the LLM. A hand-written file (the `draft` command)
may be there first. A draft is its ID, session, stage, parent and span; an ID is
its position in `issued`, since `NewUUID` repeats none. The reply decides the
span and, for `extract`, the parent, because the code leaves them to it.

## 3. What the runs check

| Run | States | Shows |
|---|---|---|
| `JSONFileStore` | 661800 | Two uncoordinated callers on good, absent, torn, duplicate-ridden and over-long files, with every failure, death and power failure: `StoreNeverCorrupts` (complete, valid, in order of time), `GetAgreesWithQuery`, `BatchAllOrNothing`, `AcknowledgedIsVisible` (Get succeeds and finds the batch, unless the file has just outgrown the loader). |
| `JSONFileStoreImplements` | 30522 | Coordinated callers: the file implements `TraceStore` (`ImplementsTraceStore`, a refinement with `db` and `survivors` read off the files). |
| `Neo4jStore` | 34770 | Two callers who do not coordinate, with rollbacks, retries and lost answers: `StoresAreWhole` (batches take effect as a whole, also on IDs both create), `ReadsAreRight` (`NoElementIsMissing` for Get; `AnswersAsPromised` for queries, where they have not to tell instants of one second apart), `ImplementsTraceStore` (as long as no ID is on two nodes). |
| `MCPServer` | 95576 | One server, three lines, everything that can happen to it: `AnsweredInOrder`, `EveryCutIsRecordedOrLogged`, `OnlyCutsAreRecorded`, `CutSeesEarlierCallsOnly`, and under fairness `EveryLineIsHandled`. |
| `MCPServerTwo` | violation | With two servers on one file `EveryCutIsRecordedOrLogged` fails: see Findings. |
| `MCPServerSignal` | violation | `SignalEndsServer` fails: see Findings. |
| `Cuts` | 12260 | All substrates of up to three of five traces and one recorded tool call, and all pairs of eight cuts: `ShadowAccountsForAll` (no element lost, reasons exact), `DiffLeadsFromAToB`, `ReadingsAreTrue` (suggestions, bottlenecks, shadow summary, validate), `RecordingOnlyReveals` (growth hides nothing, a recorded call changes no reading of elements). |
| `TranslationChain` | 6933 | Chains through every graph of a family of three edges, from three starts, both ways, unlimited and to depth 1 and 2: `ChainIsASimplePath`, `BreaksTellAll`, and `EveryChainEnds`. |
| `WebUI` | 150044 | Two loads and a click, answers in any order, failing requests, a changing substrate, signal and death of the server: `ScreenTellsOneCut`, `QuietScreenIsCurrent`, `ClickedNodeHasTraces`, `EndpointsAgree`, and under fairness `EverythingSettles`. |
| `WebUIStale` | violation | `StaleGraphIsHidden` fails: see Findings. |
| `DraftReadings` | 125328 | All links among four drafts and among three that share or lack IDs, and pairs of drafts that differ in any of their fields: `LineageFindsCycles` (exact where IDs are unique), `ComparisonsHold`, `PromotingAgainAddsNothing`, and under fairness `LineageEnds`. |
| `DraftSessions` | 945777 | Two commands: `EveryDraftIsAccountedFor` (by the record beside it, unless a later session wrote over that), `DispositionsMatchDrafts`, `DerivationIsGrounded`, `CleanExitCoversEveryItem`, `RecordsComeFirst`, and under fairness `UnattendedSessionsEnd`. |

`JSONFileStore`, `MCPServer`, `TranslationChain`, `DraftSessions` and `WebUI` each
have one type invariant, `TypeOK`, checked by the run of their name.

### Bounds

- *JSONFileStore*: `MaxFileTraces` is a real limit of the code (50 MB), made 3
  so that the Store of a fourth trace outgrows it, and `MaxSurvivors` bounds the renames
  the file system holds unflushed (2: the old and one new file, or 3 in the
  refinement run). Two callers are all a lost update or a mixed file needs;
  their batches repeat an ID, overwrite one, tie in time, and hold an invalid
  trace beside a valid one.
  Callers are interchangeable, so the run uses their symmetry; it has no
  liveness property, for which that would be unsound.
- *MCPServer*: `MaxRequests` lines per client (3: enough for a cut after a cut
  with anything before, between or after them). `MaxFileTraces` is 3, so a
  third record makes the file unreadable and the failure paths are taken.
  `MaxSurvivors` is 9, more than the renames three lines can make.
- *Cuts*: `MaxTraces` is 3: one trace that shows an element, two that hide it
  for different reasons; `MaxCalls` is 1, since calls name no elements and cannot
  add up to more than one does. The traces cover every observer, tag and side the
  filters distinguish.
- *TranslationChain*: three edges over three elements hold self-loops, cycles
  of length one to three, elements named twice, empty sides and alternatives.
- *Neo4jStore*: `MaxAttempts` is 2, a first try and one after a rollback. The
  batches share IDs in opposite orders, repeat one, amend one with other elements
  and hold an invalid trace; instants are half seconds, some of one second. Each
  filter of a query is used alone or with others, windows end within a trace's
  second and elsewhere, and limits cut answers short or do not. Two nodes of one ID do
  happen (section 5).
- *WebUI*: `MaxLoads` is 2, enough for an answer to overtake another and for a
  failure between them; `MaxClicks` 1; `MaxVersions` 2, so that graph, panel and
  detail may stem from different substrates. Two observers who share an element;
  `Second` is 2 instants. The stale screen of the violation run needs no change of
  the substrate and no click.
- *DraftReadings*: four drafts hold a chain, a fork, a cycle with a tail, a cycle
  no anchor leads to and two chains; one link may point out of the file. Three more
  files' worth have IDs that repeat or are missing. In further files two analysts have
  one draft each of one span, alike or different in any of the fields, in the order
  of a list or in how often it names an element, so that the gap compares them field by field. `MaxPromotions` is 2: the
  second time is the question.
- *DraftSessions*: `MaxSessions` is 2 (extract then critique or review, a rerun
  onto the same output, critique then review of a hand-written file), over two
  paths; a text of two items, then one of one; `MaxReply` is 1, so extract makes
  no draft or one per document. The LLM quotes one text honestly and for the other
  forges a parent. A critique of a critique is beyond the run.

### Fairness

`MCPServer`: weak fairness of each server's own steps, because the operating
system runs a process that can run and its system calls return; none for
clients, signals or deaths. `TranslationChain`: weak fairness of the loop, which
nothing can interrupt. `DraftSessions`: weak fairness of the program, whose HTTP
client times out after 180 seconds (`llm/client.go:27`) and whose file operations
return; none for the analyst, so only commands that ask nobody end
(`UnattendedSessionsEnd`), and none for `Kill`. `WebUI`: weak fairness of
what happens by itself, because `net/http` serves each connection it accepted and
ends when `Shutdown` returns, and the promises of the page settle; none for users,
signals, lost requests or stores. `DraftReadings`: weak fairness of the search,
which is one process that nothing waits for. The stores' runs are safety only, so
they assume none.
`JSONFileStore` and `Neo4jStore` check deadlock (a caller can always call again,
and a transaction that waits for another can be rolled back); a
server, a chain, a page, a file that was promoted and an analyst may stop for good,
so their runs do not.

## 4. What is proved

Every safety property that a passing run checks is a theorem. `PROJECT.json` pairs the
theorems with the properties.

### Assumptions

The theorems hold for every value of the constants that meets the named
assumptions, which TLC evaluates in every run:

| Assumption | Says | Because |
|---|---|---|
| `TraceAssumption`, `StoreAssumption`, `FileAssumption` | traces have IDs and instants, valid ones a timestamp, UUIDs are finitely many, batches and files are lists of traces | Go's types and `Trace.Validate` |
| `ServerAssumption` | calls of a server get trace IDs of their own, which no file had before | `recordInvocation` takes the ID from `newUUID4`, which is random |
| `Neo4jAssumption` | batches are lists of traces, options numbers | Go's types |
| `GraphAssumption` | a graph has a node for each element its edges name | `Articulate` makes them |
| `CutsAssumption`, `WebUIAssumption`, `SecondAssumption` | cuts and queries are ones the callers let pass; nobody forges a recorded call | each caller's checks before it loads |
| `SessionAssumption` | inputs and replies are made of spans | types |
| `DraftReadingsAssumption` | a file is a list of drafts with a span | `TraceDraft` and its `Validate`, which `LoadDrafts` calls |

Some theorems have a hypothesis besides. `FileImplementsPromise` needs
`CleanStart`: callers are coordinated, as `json_file_store.go:22` asks of them, and
the file that was there at first holds no ID twice. The theorems about the database
need `WholeStart`: what was there at first came from stores, in that nodes are
complete; it may hold an ID twice, and nothing is assumed of callers.
`CutsRecordedOrLogged` and `CutSeesEarlierCalls` need `OneServerOnly`; the run
`MCPServerTwo` shows what two servers do.

### The argument for each component

**JSONFileStoreProofs**, for any number of callers, any batches and initial files.
What a rename puts at the path is good because of what happened at the merge, the
write and the sync. `IInv` carries that from stage to stage: the batch is valid, from the
merge on the array is good (valid, each ID once, ordered by time), from the write on
the temporary file holds it, from the close on it is synced. That gives
`StoreNeverCorrupts` and `GetAgreesWithQuery`. `WInv` says of the merged array and of
every file there may be, also after a power failure, that it holds each batch whose
IDs nobody else uses as a whole or not at all, and of the merged array that it has
the last trace of the batch under each ID: `BatchAllOrNothing` and
`AcknowledgedIsVisible`, for callers who race; `Get` reads the renamed file without an
error since `IInv` makes it valid, unless it is too long. `RInv` says of coordinated callers that at most one is
in Store, and that what it is about to write, read by `Get`, is what is stored now with
its batch applied: a rename then is `StoreBatch`, a flush `Persist`, a power failure
`Outage`, any other step a stutter (`ImplementsTraceStore`).

**MCPServerProofs**, for any number of servers and lines unless said otherwise.
`FileIsAStore`: whatever servers and clients do, the file sees a behaviour of
`JSONFileStore`, so `IInv` and `WInv` hold under the servers without being proved
again. `TInv` ties a server's place in the loop to its call of Store. `InOrder` counts the
lines taken against the answers, `AnsweredInOrder`. `RInv`: an invocation trace is in the file, or
in an array about to be written, only if its line was a cut that was taken, or is the one in hand
(`OnlyCutsAreRecorded`). `Own`: no answer was computed from a store that held its own
call. With one server `AInv` says that the array about to be written holds all that the
file holds and the call in hand, so no acknowledged call is lost
(`EveryCutIsRecordedOrLogged`), and `EInv` that each answer saw every earlier recorded call
(`CutSeesEarlierCallsOnly`).

**Neo4jStoreProofs**, for any number of callers, who need not coordinate, batches, retries
and query options. `TInv`: a node names the elements of its trace and no others but those
of other versions (`Complete`), what a transaction found are nodes of the ID it merges, and
an ID that an earlier turn found committed a later turn finds, too (`Fits`). So
`ElementsKept` (`NoElementIsMissing`). `CypherFacts` and `CommitNames` say what a commit
makes of the nodes of an ID: those its turns found and the one it made hold the last trace of
the batch under it, others are left alone (`CommitTakes`); nothing but a commit changes the
nodes (`OnlyCommits`): `StoresWhole` (`StoresAreWhole`). Where each ID is on one node
afterwards it was before, and the commit is `Upsert` of the batch (`CommitStores`), which is
`StoreBatch`: `DatabaseImplementsPromise` (`ImplementsTraceStore`). `StringsSort` says that
instants of different seconds compare as the strings they are printed as; `HitsMatch` and
`RowsAreOrdered` carry that to the rows of a query, and as a limit keeps a first part of
them, what is left out comes later: `QueriesAnswered` (`AnswersAsPromised`); with `ElementsKept`,
`ReadsRight`.

**TranslationChainProofs**, for every graph, start and depth. `IInv`: the steps are a path,
all exited elements are visited, are not the current one, and differ pairwise; with finitely
many nodes that bounds the steps (`ChainIsASimplePath`, and
`EarliestEdgeIsTaken`, which no run checks any more). `BInv`: what has been visited is what was
exited and where the chain is, so an element entered again closes a cycle; every entry not
taken is named, and a chain that ended says once why (`BreaksTellAll`).

**CutsProofs**, for every substrate and pair of cuts. `CInv` says that a report holds what the
functions of `MeshGraph` and `Tools` return for one substrate and two cuts; the rest are
lemmas about these functions. Each element is in the graph or in its shadow
(`NothingIsLost`), and the reasons given for one are the filters whose removal shows it
(`ReasonsExplainShadow`), together `ShadowAccountsForAll`; a diff applied to the first graph gives the second
(`DiffLeadsFromAToB`); suggestions, bottlenecks, summary and gap say what is so
(`ReadingsAreTrue`). For `RecordingOnlyReveals` the substrate is compared with itself one trace
longer, and a recorded call is shown to name no element.

**WebUIProofs**, for any number of loads, clicks and versions. `EndpointsAgree` is about the
handlers alone. `SInv` says that what is on the screen came from one load (`ScreenTellsOneCut`). `QInv`:
a load that started alone stays alone until the next submission, and earlier loads are
settled and touch nothing any more (`QuietScreenIsCurrent`). `DInv` ties the
detail panel to the answers of its click (`ClickedNodeHasTraces`).

**SubsequencesProofs**. Besides `Subsequence`, it is about loops that run as many rounds as
there are elements, which the models write as recursive functions (`Walk[n]`, `Down[d]`,
`Up[n]`). To the prover such a function is a `CHOOSE`, and the library's induction theorems
are out of its reach, so `Rounds` goes from one round to the next by the least
counterexample (a finite set of numbers has a first element), and `LoopExists` and
`GrowthExists` show that the function is there to be chosen. `GrowthFacts`: a loop that
adds what a relation leads to reaches, within that many rounds, the smallest set closed
under it.

**DraftsProofs**, first part: for any number of sessions, paths, texts and replies. `KInv`: drafts
never change, so files and commands hold what was issued and a parent is found under its ID
(`DerivationIsGrounded`). `AInv`: review handles only drafts of which some record that was whole tells, the other commands
only their own, whose record is on disk when they come to publish (`RecordsComeFirst` is
the action property). `DInv` follows the records on disk: a draft at a path is of no later
session than the one that runs, and its record lies there or has been written over (`Placed`);
a draft that review carries elsewhere keeps a record at some path or had it written over
(`Carried`, `Traced`). Together: `EveryDraftIsAccountedFor`. `CInv` counts: unless a failure is noted, the analyst quits or the
process fails, every item is in the queue or has been dealt with (`CleanExitCoversEveryItem`). `MInv` matches
the drafts kept so far with their dispositions (`DispositionsMatchDrafts`).

**DraftsProofs**, second part: for every file of drafts. `PInv` says
what the mesh holds once a file whose drafts have IDs is promoted, and a further promotion
finds just that (`PromotingAgainAddsNothing`, for any number of promotions).

`ComparisonsHold`: by `RInv` a report is what `chain-diff` or `extraction-gap` compute from the
file. A gap that compares two drafts and the chain's `draftContentChanged` differ by the order
of lists and by `doc`, `note` and `blank` only. `FollowFacts` describes the chain: it starts at the root, goes from draft to first
child, repeats none, and ends where there is no child or the child is in it. That it leaves
nothing of its span out (`WholeChain`) rests on `NoDescent`: what the chain missed would go
up from draft to draft for ever, while a draft that is not its own ancestor has fewer
ancestors than what is derived from it (`FewerAncestors`).

`LineageFindsCycles`: `SearchInv` holds between any two calls of the search, with unique IDs. The
drafts met fall into those on the stack, which are the path and differ pairwise, and those
finished. What is derived from a finished draft is finished, and no finished drafts are on a
loop (`NoLoop`: no set of them in which each has a child in the set). What is derived from a
draft on the stack is finished, still to be called, or next on the stack (`FramesFit`).
Whatever is not met is still to be met (`RestFits`). So when nothing is left no draft is on
a loop, which `CircleHasLoop` turns into no draft being its own ancestor. The error needs
the other direction: where each draft is in the chain of an anchor (`AllChained`), the stack goes
straight down from an anchor (`Straight`), the search never climbs and never meets its own
path; and where nothing is circular each draft is in such a chain (`InAChain`, by `NoDescent`
again). `OneChain` needs no unique IDs: a draft has at most one prior, so what two chains
share goes up to both anchors. Each action has a lemma of its own (`AnchorFits`,
`UnvisitedFits`, `DescendFits`, `ClimbFits`, `LeaveFits`, `FinishFits`, `StartFits`),
resting on what a call does (`CallFits`) and on a change of the top frame (`TopChanged`).

`SearchGetsNearer`, also for files with repeated IDs: each step of the search is its last or
lowers the lexicographic quadruple `Ahead` of IDs not marked, drafts to start from, calls on
the stack, and what the last of these has left to do.

### Only model-checked

- Everything that says *eventually*: `EveryLineIsHandled`, `EveryChainEnds`,
  `UnattendedSessionsEnd`, `EverythingSettles`, `LineageEnds`. Liveness under fairness is
  out of the prover's reach. `Bounded` proves the step count that `EveryChainEnds` rests on,
  `SearchGetsNearer` the descent that `LineageEnds` rests on.
- The findings: that something happens is shown by the behaviour TLC prints.

## 5. Findings

1. *Two MCP servers on one file* (`MCPServerTwo`). Both record, both are told
   so, one record is gone and nothing is logged, against D5 of
   `docs/decisions/mcp-v1.md`.
2. *A signal at a waiting server* (`MCPServerSignal`). `Run` notices a cancelled
   context only after the next line, which it drops; `server.go:141` and
   `cmd_mcp.go:91` say that it ends.
3. *A stale cut under a newer error* (`WebUIStale`). `loadGraph` shows what arrives
   without asking whether a newer load was started: when that one has failed
   already, the older observer's cut appears under its error, which the comment at
   `app.js:135` calls a mislabelled cut.

Where text and code disagree and no run shows it:

- The array written by `Store` comes from a map and `sort.Slice` is unstable, so
  traces of one instant change places from one Store to the next; the comment at
  `json_file_store.go:81` says deterministic. `Layouts` has every such order.
- `SeenFrom` of the shadow summary lists observers of all excluded traces, also
  of those a tag or the window excluded, from whose position, with the same
  filters, nothing lifts; `shadow.go:22` and `shadow.go:37` say that it does.
- `extract` keeps the `derived_from` the LLM wrote (`extract.go:171`), which
  `assist.go:267` clears because it "would create a false derivation link" and
  which `data/prompts/extraction_pass.md:63` says the framework assigns. The
  model's replies forge it.
- `neo4j_cypher.go` says that its timestamps sort chronologically. Within one
  second they do not: RFC3339Nano drops trailing zeros. `AnswersAsPromised`
  holds of instants of different seconds (`Clash`, `Clear`), and fails without that.
- No statement constrains trace IDs to be unique, so two overlapping stores of a
  new ID can create two nodes, of which `Get` returns either until the ID is stored again;
  `neo4j_store.go:51` calls the store safe for several goroutines, `cmd_store.go:17`
  says that duplicates do not arise. In the run `Neo4jStore` that happens
  (`OneNodeEach` is not an invariant of it); `StoresAreWhole` says what holds even then.
- `tracedraft.go:97` says that the conditions of an extraction are recoverable from
  the draft. They are as long as nobody writes to the same `--output`: `assist`
  publishes, a second `assist` with that output fails before its first call, and its
  empty record replaces the only one that told of the drafts still in the file. With a
  third session clean exits suffice: `extract` to one file, `review` of it to another,
  `extract` to the first again. `EveryDraftIsAccountedFor` allows no other way
  (`Overwritten`).
- `extractiongap.go:140` calls nine fields content, among them `uncertainty_note` and
  `intentionally_blank`, which `draftchain.go:213` calls provenance; and what is the same
  list to the one is a changed one to the other if its order changed. So a gap may name
  fields of a pair of drafts between which a chain relays without transformation, and the
  other way round (`ComparisonsHold`).
- `cmd_lineage.go:61` says that a draft met again in the current path means a cycle, and
  `:72` that any unvisited draft is part of one. It may hang below one, and the error
  then names a draft that is not on it. Where an ID repeats there may be no cycle at all:
  `detectCycleDFS` marks IDs, so the first draft with an ID is searched, while `byID` gave
  the children to the last; they stay unvisited, the second pass starts at a leaf among
  them, climbs and descends onto itself. Drafts with the IDs 1 (from 2), 2 (from 3), 3 and
  3 are refused as circular. The proof attempt showed it, since that a draft whose ID was
  met was searched itself takes unique IDs; hence the condition in `LineageFindsCycles`.

Seen while reading: a Store that takes the
file over 50 MB succeeds and every later call fails, Get of the acknowledged traces
included (`AcknowledgedIsVisible` names the case, and the run reaches it); `meshant_validate` reads
through a store that refuses invalid traces, so it never reports one; Neo4j
keeps the relations of earlier versions of a trace, and a commit whose answer is
lost is reported as an error; the rename is not flushed to disk; a process that
dies leaves its
temporary file behind; `RunExtraction` names drafts in its record that it does
not return, while `extract.go:31` says the count is 0 on error; quitting `assist`
at a prompt drops the draft that is shown, while `assist.go:3` says every draft is
preserved; only `review` reports an error of closing its output; `review`
of a file without IDs derives from IDs that are nowhere on disk; a repeated ID can
hide a cycle from `lineage`; `chain-diff` silently follows the first of several
children, and says nothing of a cycle beside its root; drafts without an ID become
new traces at every promotion; each recorded call counts as a trace, so the
narrative's caveat that a large portion is in shadow goes away when one asks often
enough, and a cut without traces of its own has a narrative after the first
question; a narrative of one observer's cut with an empty shadow calls it a full cut;
an envelope prints a bound with a fraction of
a second truncated, so it names a slightly different cut; the page draws no arc for a
trace without source or target, and keeps the detail panel of the old cut when a new
one is shown.

## 6. What is not modelled

- In `MCPServer`: power failures. A record may be lost to one like any Store
  (`JSONFileStore` shows how); its properties are about a machine that runs. The
  tools' arguments and results are the kinds of line they make.
- In `Tools`: `meshant_follow`, which is `TranslationChain` on an articulated graph,
  and the refusal of arguments, after which nothing is loaded or recorded
  (`MCPServer` has it among the lines answered at once).
- In `MeshGraph`: names, wording, `CutName` and the print functions.
- In `DraftSessions`: output to the terminal, an explicit `--session-output`,
  drafts without an ID, `split` (no drafts) and `PromoteSession` (a conversion).
  What a draft says besides its span is data no property looks at.
- In `WebUI`: the layout of the graph, observer chips and tags, the files the export
  buttons write, more than one page. Requests are answered from one version of the
  substrate, because a handler loads it once.
- In `Neo4jStore`: the driver's timeouts and sessions (a rollback, whatever its
  reason), the order of rows within one instant.
- In `Drafts`: summaries and printing, the criterion file of `lineage`. One string
  stands for `what_changed` and `mediation` and one list for `source`, `target` and
  `tags`, since both comparisons treat these alike; `observer`, `source_doc_ref`,
  `uncertainty_note` and `intentionally_blank` are fields of their own.
- `ClassifyChain` labels each step of a chain from its own edge; no step can spoil
  another, so a property would restate it.
- Identity and serialisation besides the envelope's cut: field copying and JSON.
- Exports, the wording of narratives, adapters, CLI flags: formatting and I/O.

## 7. Plan

The models are complete as far as section 6 goes, and every safety property the passing
runs check is proved. What could still be proved:

- Such a descent for an unattended session, on which `UnattendedSessionsEnd` rests, for the
  page and its requests (`EverythingSettles`), and for a server whose client is gone
  (`EveryLineIsHandled`).
