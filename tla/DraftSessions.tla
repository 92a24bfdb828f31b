--------------------------- MODULE DraftSessions ---------------------------
(***************************************************************************)
(* The ingestion commands of meshant: extract, assist and critique ask an   *)
(* LLM for drafts (meshant/llm), assist and review ask an analyst about     *)
(* them (meshant/review), and meshant/cmd/meshant puts a session record and *)
(* the drafts on disk, in that order.                                       *)
(*                                                                          *)
(* One analyst runs one command after another.  An LLM call may fail or     *)
(* answer with anything, any write may fail, and the process may be killed  *)
(* at any point.  What a draft says is left out, except the span it quotes  *)
(* and the draft it says it derives from.                                   *)
(***************************************************************************)
EXTENDS Integers, Sequences, FiniteSets, Functions, Subsequences

CONSTANTS
    Path,          \* where --output points; the record goes beside it
    Span,          \* texts a draft may quote
    Inputs,        \* Inputs[n]: the documents or spans the n-th command may be given
    Found,         \* what drafts a path may hold before the first command
    Replies,       \* what the LLM may say of a draft: its span and derived_from
    MaxReply,      \* bound: drafts in one reply to extract
    MaxSessions    \* bound: commands run

NoId   == 0        \* derived_from is empty
Forged == -1       \* an ID that no draft was ever given

Stages   == {"", "weak-draft", "critiqued", "reviewed"}
Commands == {"extract", "assist", "critique", "review"}

\* TraceDraft: its IDs are numbers in the order NewUUID gives them out.
Draft == [id : Nat, session : Nat, stage : Stages,
          parent : Nat \cup {Forged}, span : Span]

Actions == {"accepted", "edited", "skipped", "abandoned"}
Disposition == [id : Nat, action : Actions]

\* A file of drafts or of one session record: whole, or not valid JSON.
Output(is, drafts) == [is |-> is, drafts |-> drafts]
Record == [session : Nat, cmd : Commands, ids : Seq(Nat),
           dispositions : Seq(Disposition), note : BOOLEAN]
Saved(is, recs) == [is |-> is, record |-> recs]

ASSUME SessionAssumption ==
    /\ Inputs \in [1..MaxSessions -> SUBSET Seq(Span)]
    /\ Found \subseteq Seq(Span)
    /\ Replies \subseteq [parent : {NoId, Forged}, span : Span]
    /\ MaxReply \in Nat
    /\ MaxSessions \in Nat

VARIABLES
    files,      \* the drafts at each path
    records,    \* the session record beside each path
    run,        \* the command that runs, or the last one
    issued,     \* history: every draft that was given an ID, in order
    archive     \* history: every session record that was ever whole on disk

vars == <<files, records, run, issued, archive>>
------------------------------------------------------------------------------
Idle == [pc |-> "idle", end |-> "none", session |-> 0, cmd |-> "review",
         dest |-> "none", queue |-> <<>>, size |-> 0, shown |-> <<>>,
         drafts |-> <<>>, dispositions |-> <<>>, note |-> FALSE,
         failed |-> FALSE, quit |-> FALSE]

\* A hand-written file, as the draft command leaves it: IDs, but no session.
Handwritten(spans) ==
    [i \in DOMAIN spans |-> [id |-> i, session |-> 0, stage |-> "",
                             parent |-> NoId, span |-> spans[i]]]

Init ==
    /\ run = Idle
    /\ archive = {}
    /\ records = [p \in Path |-> Saved("none", {})]
    /\ \E spans \in Found, p \in Path :
         /\ issued = Handwritten(spans)
         /\ files = [[q \in Path |-> Output("none", <<>>)]
                       EXCEPT ![p] = IF spans = <<>> THEN @
                                     ELSE Output("whole", Handwritten(spans))]
------------------------------------------------------------------------------
At(pc, cmds) == run.pc = pc /\ run.cmd \in cmds

IdsOf(drafts) == [i \in DOMAIN drafts |-> drafts[i].id]

\* stampProvenance: whatever the LLM said of them, the framework sets these.
Stamped(nth, stage, parent, span) ==
    [id |-> Len(issued) + nth, session |-> run.session, stage |-> stage,
     parent |-> parent, span |-> span]

\* A derived draft that claims the session that reviews it.
Derived_Mutant(parent) ==
    [parent EXCEPT !.id = Len(issued) + 1, !.parent = parent.id,
                   !.stage = "reviewed", !.session = run.session]

\* DeriveAccepted and DeriveEdited keep the span and the session of the parent.
Derived(parent) ==
    [parent EXCEPT !.id = Len(issued) + 1, !.parent = parent.id,
                   !.stage = "reviewed"]

\* filterReviewable
Reviewable(drafts) ==
    IF \A i \in DOMAIN drafts : drafts[i].stage = "" THEN drafts
    ELSE Subsequence(drafts, { i \in DOMAIN drafts : drafts[i].stage \in {"weak-draft", "critiqued"} })

\* The session is over.  Review keeps no record of its sessions.
Over(r) ==
    [r EXCEPT !.pc = IF r.cmd = "review" THEN "publish" ELSE "record",
              !.queue = <<>>, !.shown = <<>>]

\* The process is over.
Ended(how) == [run EXCEPT !.pc = "idle", !.end = how, !.queue = <<>>, !.shown = <<>>]

\* The draft that was shown is left over.
Proceed_Mutant(r) == [r EXCEPT !.pc = "next", !.queue = Tail(r.queue)]

\* The item at the head of the queue is done with.
Proceed(r) == [r EXCEPT !.pc = "next", !.queue = Tail(r.queue), !.shown = <<>>]

Started(cmd, dest, queue) ==
    [Idle EXCEPT !.pc = IF cmd = "review" THEN "next" ELSE "load",
                 !.session = run.session + 1, !.cmd = cmd, !.dest = dest,
                 !.queue = queue, !.size = Len(queue)]
------------------------------------------------------------------------------
\* extract --source-doc ... and assist --spans-file ...
BeginFromText(cmd, dest) ==
    /\ run.pc = "idle" /\ run.session < MaxSessions
    /\ \E texts \in Inputs[run.session + 1] : run' = Started(cmd, dest, texts)
    /\ UNCHANGED <<files, records, issued, archive>>

\* critique --input src, of every draft or of the one that --id names.
BeginCritique(src, dest) ==
    /\ run.pc = "idle" /\ run.session < MaxSessions
    /\ files[src].is = "whole"
    /\ \E queue \in {files[src].drafts}
                      \cup {<<files[src].drafts[i]>> : i \in DOMAIN files[src].drafts} :
         run' = Started("critique", dest, queue)
    /\ UNCHANGED <<files, records, issued, archive>>

\* review src
BeginReview(src, dest) ==
    /\ run.pc = "idle" /\ run.session < MaxSessions
    /\ files[src].is = "whole"
    /\ run' = Started("review", dest, Reviewable(files[src].drafts))
    /\ UNCHANGED <<files, records, issued, archive>>

\* The prompt template is loaded and hashed, or cannot be; --id may also name
\* no draft.  The session fails before the LLM is asked.
LoadTemplate ==
    /\ run.pc = "load"
    /\ run' \in {[run EXCEPT !.pc = "next"],
                 Over([run EXCEPT !.note = TRUE, !.failed = TRUE])}
    /\ UNCHANGED <<files, records, issued, archive>>

\* Nothing is left to do.
QueueEmpty ==
    /\ run.pc = "next" /\ run.queue = <<>>
    /\ run' = Over(run)
    /\ UNCHANGED <<files, records, issued, archive>>
------------------------------------------------------------------------------
(* extract: one call for each document, any number of drafts in a reply. *)

ExtractReply ==
    /\ At("next", {"extract"}) /\ run.queue # <<>>
    /\ \E n \in 0..MaxReply : \E reply \in [1..n -> Replies] :
         LET new == [i \in 1..n |->
                       Stamped(i, "weak-draft", reply[i].parent, reply[i].span)]
         IN /\ run' = Proceed([run EXCEPT !.drafts = @ \o new])
            /\ issued' = issued \o new
    /\ UNCHANGED <<files, records, archive>>

\* A document cannot be read, the call fails, the LLM refuses, or its reply is
\* not a list of valid drafts.  The record keeps the IDs of the drafts so far;
\* RunExtraction returns none of them.
ExtractFails ==
    /\ At("next", {"extract"}) /\ run.queue # <<>>
    /\ run' = Over([run EXCEPT !.note = TRUE, !.failed = TRUE])
    /\ UNCHANGED <<files, records, issued, archive>>
------------------------------------------------------------------------------
(* critique: one call for each draft; a failed one is noted and passed over. *)

\* The span the LLM quotes is not compared.
CritiqueReply_Mutant ==
    /\ At("next", {"critique"}) /\ run.queue # <<>>
    /\ \E reply \in Replies :
         LET new == Stamped(1, "critiqued", Head(run.queue).id, reply.span)
         IN /\ run' = Proceed([run EXCEPT !.drafts = Append(@, new)])
            /\ issued' = Append(issued, new)
    /\ UNCHANGED <<files, records, archive>>

CritiqueReply ==
    /\ At("next", {"critique"}) /\ run.queue # <<>>
    /\ \E reply \in Replies :
         LET orig == Head(run.queue)
             new  == Stamped(1, "critiqued", orig.id, reply.span)
         IN /\ reply.span = orig.span
            /\ run' = Proceed([run EXCEPT !.drafts = Append(@, new)])
            /\ issued' = Append(issued, new)
    /\ UNCHANGED <<files, records, archive>>

\* After a failed call the session starts over.
CritiqueFails_Mutant ==
    /\ At("next", {"critique"}) /\ run.queue # <<>>
    /\ run' = [run EXCEPT !.pc = "load", !.note = TRUE]
    /\ UNCHANGED <<files, records, issued, archive>>

CritiqueFails ==
    /\ At("next", {"critique"}) /\ run.queue # <<>>
    /\ run' = Proceed([run EXCEPT !.note = TRUE])
    /\ UNCHANGED <<files, records, issued, archive>>
------------------------------------------------------------------------------
(* assist: one call for each span, and the analyst is asked about each draft. *)

AssistReply ==
    /\ At("next", {"assist"}) /\ run.queue # <<>>
    /\ \E reply \in Replies :
         LET new == Stamped(1, "weak-draft", NoId, reply.span)
         IN /\ run' = [run EXCEPT !.pc = "prompt", !.shown = <<new>>]
            /\ issued' = Append(issued, new)
    /\ UNCHANGED <<files, records, archive>>

\* The failure is shown but not noted.
AssistFails_Mutant ==
    /\ At("next", {"assist"}) /\ run.queue # <<>>
    /\ run' = [run EXCEPT !.pc = "retry"]
    /\ UNCHANGED <<files, records, issued, archive>>

AssistFails ==
    /\ At("next", {"assist"}) /\ run.queue # <<>>
    /\ run' = [run EXCEPT !.pc = "retry", !.note = TRUE]
    /\ UNCHANGED <<files, records, issued, archive>>

\* At the prompt that follows a failure: s, or q and end of input.
SkipFailed ==
    /\ At("retry", {"assist"})
    /\ run' = Proceed(run)
    /\ UNCHANGED <<files, records, issued, archive>>

\* The draft goes to the results with a disposition.
Disposed(action, new) ==
    [run EXCEPT !.drafts = @ \o run.shown \o new,
                !.dispositions = Append(@, [id |-> run.shown[1].id, action |-> action])]

AssistAccept ==
    /\ At("prompt", {"assist"})
    /\ \E action \in {"accepted", "skipped"} : run' = Proceed(Disposed(action, <<>>))
    /\ UNCHANGED <<files, records, issued, archive>>

AssistEdit ==
    /\ At("prompt", {"assist"})
    /\ run' = Proceed(Disposed("edited", <<Derived(run.shown[1])>>))
    /\ issued' = Append(issued, Derived(run.shown[1]))
    /\ UNCHANGED <<files, records, archive>>

\* The abandoned draft has a disposition and is dropped.
AssistAbandon_Mutant ==
    /\ At("prompt", {"assist"})
    /\ run' = Over([Disposed("abandoned", <<>>) EXCEPT !.quit = TRUE, !.drafts = run.drafts])
    /\ UNCHANGED <<files, records, issued, archive>>

\* Input ends among the eight fields of RunEditFlow: the session ends.
AssistAbandon ==
    /\ At("prompt", {"assist"})
    /\ run' = Over([Disposed("abandoned", <<>>) EXCEPT !.quit = TRUE])
    /\ UNCHANGED <<files, records, issued, archive>>
------------------------------------------------------------------------------
(* review: the analyst is asked about each reviewable draft of the file. *)

Reviewing == At("next", {"review"}) /\ run.queue # <<>>

\* Accepting and editing both add a derived draft.
ReviewKeep ==
    /\ Reviewing
    /\ run' = Proceed([run EXCEPT !.drafts = Append(@, Derived(Head(run.queue)))])
    /\ issued' = Append(issued, Derived(Head(run.queue)))
    /\ UNCHANGED <<files, records, archive>>

ReviewSkip ==
    /\ Reviewing
    /\ run' = Proceed(run)
    /\ UNCHANGED <<files, records, issued, archive>>

\* q or end of input, at any prompt: the draft that is shown is dropped.
Quit ==
    /\ run.pc \in {"prompt", "retry"} \/ Reviewing
    /\ run' = Over([run EXCEPT !.quit = TRUE])
    /\ UNCHANGED <<files, records, issued, archive>>
------------------------------------------------------------------------------
(* The command puts the record on disk, then the drafts. *)

ThisRecord ==
    [session |-> run.session, cmd |-> run.cmd, ids |-> IdsOf(run.drafts),
     dispositions |-> run.dispositions, note |-> run.note]

\* os.WriteFile empties the file first.
OpenRecord ==
    /\ run.pc = "record"
    /\ records' = [records EXCEPT ![run.dest] = Saved("torn", {})]
    /\ run' = [run EXCEPT !.pc = "recording"]
    /\ UNCHANGED <<files, issued, archive>>

\* A session that failed ends here, and so does a critique of a file that had
\* drafts if it made none.
AfterRecord ==
    IF run.failed \/ (run.cmd = "critique" /\ run.size > 0 /\ run.drafts = <<>>)
    THEN Ended("error")
    ELSE [run EXCEPT !.pc = "publish"]

WriteRecord ==
    /\ run.pc = "recording"
    /\ records' = [records EXCEPT ![run.dest] = Saved("whole", {ThisRecord})]
    /\ archive' = archive \cup {ThisRecord}
    /\ run' = AfterRecord
    /\ UNCHANGED <<files, issued>>

\* A record that cannot be written is only warned about.
RecordFails_Mutant ==
    /\ run.pc \in {"record", "recording"}
    /\ run' = AfterRecord
    /\ UNCHANGED <<files, records, issued, archive>>

\* The command fails whether or not the session did.
RecordFails ==
    /\ run.pc \in {"record", "recording"}
    /\ run' = Ended("error")
    /\ UNCHANGED <<files, records, issued, archive>>

\* outputWriter empties the output file.
OpenOutput ==
    /\ run.pc = "publish"
    /\ files' = [files EXCEPT ![run.dest] = Output("torn", <<>>)]
    /\ run' = [run EXCEPT !.pc = "publishing"]
    /\ UNCHANGED <<records, issued, archive>>

\* The exit code.  An assist session that noted failed spans exits with an error
\* after everything is written.
Exit == IF run.cmd = "assist" /\ run.note THEN "error" ELSE "ok"

WriteOutput ==
    /\ run.pc = "publishing"
    /\ files' = [files EXCEPT ![run.dest] = Output("whole", run.drafts)]
    /\ run' = Ended(Exit)
    /\ UNCHANGED <<records, issued, archive>>

OutputFails ==
    /\ run.pc \in {"publish", "publishing"}
    /\ run' = Ended("error")
    /\ UNCHANGED <<files, records, issued, archive>>

\* The write is only refused on Close.  Review reports that, the others do not.
CloseFails ==
    /\ run.pc = "publishing"
    /\ run' = Ended(IF run.cmd = "review" THEN "error" ELSE Exit)
    /\ UNCHANGED <<files, records, issued, archive>>

Kill ==
    /\ run.pc # "idle"
    /\ run' = Ended("killed")
    /\ UNCHANGED <<files, records, issued, archive>>
------------------------------------------------------------------------------
Begin ==
    \E dest \in Path :
        \/ \E cmd \in {"extract", "assist"} : BeginFromText(cmd, dest)
        \/ \E src \in Path : BeginCritique(src, dest) \/ BeginReview(src, dest)

Ask     == ExtractReply \/ ExtractFails \/ CritiqueReply \/ CritiqueFails
             \/ AssistReply \/ AssistFails
Analyst == SkipFailed \/ AssistAccept \/ AssistEdit \/ AssistAbandon
             \/ ReviewKeep \/ ReviewSkip \/ Quit
Commit  == OpenRecord \/ WriteRecord \/ RecordFails
             \/ OpenOutput \/ WriteOutput \/ OutputFails \/ CloseFails

Program == LoadTemplate \/ QueueEmpty \/ Ask \/ Commit

Next == Begin \/ Program \/ Analyst \/ Kill

Spec == Init /\ [][Next]_vars

\* The HTTP client gives up after 180 seconds and a file operation returns.  An
\* analyst may leave a prompt alone for ever, so nothing is assumed of them.
FairSpec == Spec /\ WF_vars(Program)
------------------------------------------------------------------------------
\* Every variable holds what its declaration in the Go source allows.
TypeOK ==
    /\ issued \in Seq(Draft)
    /\ archive \subseteq Record
    /\ files \in [Path -> [is : {"none", "torn", "whole"}, drafts : Seq(Draft)]]
    /\ records \in [Path -> [is : {"none", "torn", "whole"}, record : SUBSET Record]]
    /\ run.pc \in {"idle", "load", "next", "prompt", "retry", "record", "recording",
                   "publish", "publishing"}
    /\ run.end \in {"none", "ok", "error", "killed"}
    /\ run.session \in 0..MaxSessions /\ run.cmd \in Commands /\ run.size \in Nat
    /\ run.pc # "idle" => run.dest \in Path
    /\ run.pc \in {"record", "recording"} => ThisRecord \in Record
    /\ run.drafts \in Seq(Draft)
    /\ run.pc = "prompt" <=> run.shown # <<>>

\* Record r tells how draft d was extracted: it is of d's session and names d, or
\* the draft that d was derived from in review.
TellsOf(r, d) ==
    /\ r.session = d.session
    /\ \/ d.id \in Range(r.ids)
       \/ d.stage = "reviewed" /\ d.parent \in Range(r.ids)

\* The record that lies beside path q now tells of d.
RecordBeside(q, d) == \E r \in records[q].record : TellsOf(r, d)

\* Or a session later than d's has emptied or replaced it.
Overwritten(q, d) ==
    records[q].is = "torn" \/ \E r \in records[q].record : r.session > d.session

\* The last command has written path p, kept a record, and exited with 0.
CleanExit(p) == run.pc = "idle" /\ run.end = "ok" /\ run.dest = p /\ run.cmd # "review"

\* For every draft on disk that an LLM session made, the record of that session
\* has been whole on disk and tells of it, and it still lies beside the draft
\* (or, for what review derived, beside some path), unless a later session with
\* that --output has written over it.  That a later session does is what the code
\* allows: one that then fails leaves the older drafts without a record, and so
\* does one that succeeds, if review has taken drafts elsewhere.  But a command
\* that exits with 0 leaves its output with its record.
EveryDraftIsAccountedFor ==
    \A p \in Path : \A i \in DOMAIN files[p].drafts :
        LET d == files[p].drafts[i] IN
        d.session # 0 =>
            /\ \E r \in archive : TellsOf(r, d)
            /\ d.stage # "reviewed" => RecordBeside(p, d) \/ Overwritten(p, d)
            /\ \E q \in Path : RecordBeside(q, d) \/ Overwritten(q, d)
            /\ CleanExit(p) => RecordBeside(p, d)

\* The record of an assist session tells what became of each draft it names: the
\* LLM's drafts and the dispositions correspond one to one, in order, and a draft
\* has a reviewed version in the session exactly if it was edited.
DispositionsMatchDrafts ==
    \A r \in archive : r.cmd = "assist" =>
        LET Staged(stage) == Subsequence(r.ids, { k \in DOMAIN r.ids : issued[r.ids[k]].stage = stage })
            FromLLM == Staged("weak-draft")
            Revised == Staged("reviewed")
            Edited  == Subsequence(r.dispositions,
                                   { k \in DOMAIN r.dispositions : r.dispositions[k].action = "edited" })
        IN /\ FromLLM = IdsOf(r.dispositions)
           /\ [i \in DOMAIN Revised |-> issued[Revised[i]].parent] = IdsOf(Edited)

\* A critiqued or reviewed draft derives from a draft that was given its ID
\* earlier, so that derivations never form a cycle, and quotes the same span;
\* nothing is reviewed twice without a critique in between.
DerivationIsGrounded ==
    \A i \in DOMAIN issued : issued[i].stage \in {"critiqued", "reviewed"} =>
        /\ issued[i].parent \in 1..(i - 1)
        /\ issued[issued[i].parent].span = issued[i].span
        /\ issued[i].stage = "reviewed" => issued[issued[i].parent].stage # "reviewed"

\* Exit code 0 means that nothing was passed over in silence: assist disposed of
\* a draft for every span unless the analyst quit, and critique has a critique of
\* every draft or a note in the record.
CleanExitCoversEveryItem ==
    run.pc = "idle" /\ run.end = "ok" =>
        /\ run.cmd = "assist" /\ ~run.quit => Len(run.dispositions) = run.size
        /\ run.cmd = "critique" /\ ~run.note => Len(run.drafts) = run.size

\* An output file is not even emptied before the record of the session that
\* replaces it is whole beside it, and never by a session that failed, so neither
\* costs older drafts or lets out what a failed extract had so far.  Only review,
\* which keeps no record, is exempt.
RecordsComeFirst ==
    [][ \A p \in Path : files'[p] # files[p] =>
           \/ run.cmd = "review"
           \/ /\ ~run.failed
              /\ records[p].is = "whole"
              /\ \E r \in records[p].record :
                    r.session = run.session /\ r.ids = IdsOf(run.drafts) ]_vars

\* A command that asks no analyst ends, whatever the LLM and the disk do.
UnattendedSessionsEnd ==
    At("load", {"extract", "critique"}) ~> run.pc = "idle"
============================================================================
