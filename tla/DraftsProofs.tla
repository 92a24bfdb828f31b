---------------------------- MODULE DraftsProofs ----------------------------
(***************************************************************************)
(* Proofs about DraftSessions, for every set of paths and texts, whatever   *)
(* the LLM replies, and any number of commands; and about DraftReadings,    *)
(* for every file of drafts.                                                *)
(***************************************************************************)
EXTENDS DraftSessions, DraftReadings, SubsequencesProofs, FiniteSetTheorems

(***************************************************************************)
(* Types.                                                                   *)
(***************************************************************************)

Pcs == {"idle", "load", "next", "prompt", "retry", "record", "recording",
        "publish", "publishing"}


Fields == {"pc", "end", "session", "cmd", "dest", "queue", "size", "shown", "drafts",
           "dispositions", "note", "failed", "quit"}

\* What a command keeps.  Its queue holds texts or drafts.
RunTyped(r) ==
    /\ DOMAIN r = Fields
    /\ r.pc \in Pcs /\ r.end \in {"none", "ok", "error", "killed"}
    /\ r.session \in 0..MaxSessions /\ r.cmd \in Commands /\ r.size \in Nat
    /\ r.shown \in Seq(Draft) /\ r.drafts \in Seq(Draft)
    /\ r.dispositions \in Seq(Disposition)
    /\ r.note \in BOOLEAN /\ r.failed \in BOOLEAN /\ r.quit \in BOOLEAN

\* At a prompt there is one draft, or one failure, and the item it is about.
RunFits(r) ==
    /\ r.pc # "idle" => r.dest \in Path
    /\ r.cmd \in {"extract", "assist"} => r.queue \in Seq(Span)
    /\ r.cmd \in {"critique", "review"} => r.queue \in Seq(Draft)
    /\ r.pc = "prompt" => Len(r.shown) = 1
    /\ r.pc # "prompt" => r.shown = <<>>
    /\ r.pc \in {"prompt", "retry"} => r.cmd = "assist" /\ r.queue # <<>>
    /\ r.pc \in {"load", "record", "recording"} => r.cmd # "review"

TInv ==
    /\ issued \in Seq(Draft)
    /\ archive \subseteq Record
    /\ files \in [Path -> [is : {"none", "torn", "whole"}, drafts : Seq(Draft)]]
    /\ records \in [Path -> [is : {"none", "torn", "whole"}, record : SUBSET Record]]
    /\ RunTyped(run)
    /\ RunFits(run)

\* What the steps that end an item, a session and a process do to a command.
LEMMA RunSteps ==
    ASSUME NEW r, DOMAIN r = Fields
    PROVE  /\ DOMAIN Proceed(r) = Fields /\ Proceed(r).pc = "next"
           /\ Proceed(r).end = r.end /\ Proceed(r).session = r.session
           /\ Proceed(r).cmd = r.cmd /\ Proceed(r).dest = r.dest
           /\ Proceed(r).queue = Tail(r.queue) /\ Proceed(r).size = r.size
           /\ Proceed(r).shown = <<>> /\ Proceed(r).drafts = r.drafts
           /\ Proceed(r).dispositions = r.dispositions /\ Proceed(r).note = r.note
           /\ Proceed(r).failed = r.failed /\ Proceed(r).quit = r.quit
           /\ DOMAIN Over(r) = Fields
           /\ Over(r).pc = IF r.cmd = "review" THEN "publish" ELSE "record"
           /\ Over(r).end = r.end /\ Over(r).session = r.session
           /\ Over(r).cmd = r.cmd /\ Over(r).dest = r.dest
           /\ Over(r).queue = <<>> /\ Over(r).size = r.size
           /\ Over(r).shown = <<>> /\ Over(r).drafts = r.drafts
           /\ Over(r).dispositions = r.dispositions /\ Over(r).note = r.note
           /\ Over(r).failed = r.failed /\ Over(r).quit = r.quit
  BY DEF Proceed, Over, Fields

\* A process that ends keeps everything its command produced, and drops
\* its queue and its prompt.
LEMMA EndedSteps ==
    ASSUME DOMAIN run = Fields, NEW how
    PROVE  /\ DOMAIN Ended(how) = Fields /\ Ended(how).pc = "idle"
           /\ Ended(how).end = how /\ Ended(how).session = run.session
           /\ Ended(how).cmd = run.cmd /\ Ended(how).dest = run.dest
           /\ Ended(how).queue = <<>> /\ Ended(how).size = run.size
           /\ Ended(how).shown = <<>> /\ Ended(how).drafts = run.drafts
           /\ Ended(how).dispositions = run.dispositions /\ Ended(how).note = run.note
           /\ Ended(how).failed = run.failed /\ Ended(how).quit = run.quit
  BY DEF Ended, Fields


\* A queue without its head.
LEMMA TailFacts ==
    ASSUME NEW S, NEW s \in Seq(S), s # <<>>
    PROVE  /\ Tail(s) \in Seq(S) /\ Len(Tail(s)) = Len(s) - 1 /\ Len(s) \in Nat
           /\ 1 \in DOMAIN s /\ Head(s) = s[1] /\ Head(s) \in S
           /\ \A i \in DOMAIN Tail(s) : i + 1 \in DOMAIN s /\ Tail(s)[i] = s[i + 1]
  OBVIOUS

\* One sequence after another.
LEMMA ConcatFacts ==
    ASSUME NEW S, NEW u \in Seq(S), NEW v \in Seq(S)
    PROVE  /\ u \o v \in Seq(S) /\ Len(u \o v) = Len(u) + Len(v)
           /\ Len(u) \in Nat /\ Len(v) \in Nat
           /\ \A i \in DOMAIN u : i \in DOMAIN (u \o v) /\ (u \o v)[i] = u[i]
           /\ \A i \in DOMAIN v : Len(u) + i \in DOMAIN (u \o v) /\ (u \o v)[Len(u) + i] = v[i]
           /\ \A i \in DOMAIN (u \o v) :
                 \/ i \in DOMAIN u /\ (u \o v)[i] = u[i]
                 \/ i - Len(u) \in DOMAIN v /\ i = Len(u) + (i - Len(u))
                      /\ (u \o v)[i] = v[i - Len(u)]
  OBVIOUS

\* One more element is a sequence of one after another.
LEMMA AppendFacts ==
    ASSUME NEW S, NEW u \in Seq(S), NEW x \in S
    PROVE  /\ Append(u, x) \in Seq(S) /\ Len(Append(u, x)) = Len(u) + 1
           /\ <<x>> \in Seq(S) /\ Append(u, x) = u \o <<x>>
           /\ DOMAIN <<x>> = {1} /\ <<x>>[1] = x /\ Len(<<x>>) = 1
  OBVIOUS

\* What review may show are drafts of the file that nobody has reviewed.
LEMMA ReviewableFacts ==
    ASSUME NEW ds \in Seq(Draft)
    PROVE  /\ Reviewable(ds) \in Seq(Draft)
           /\ \A i \in DOMAIN Reviewable(ds) :
                 /\ \E k \in DOMAIN ds : Reviewable(ds)[i] = ds[k]
                 /\ Reviewable(ds)[i].stage # "reviewed"
<1> DEFINE K == { i \in DOMAIN ds : ds[i].stage \in {"weak-draft", "critiqued"} }
<1>1. K \in SUBSET DOMAIN ds
  OBVIOUS
<1>2. K \in SUBSET Int /\ IsFiniteSet(K)
  BY <1>1, Places
<1>3. \A k \in K : ds[k] \in Draft /\ ds[k].stage # "reviewed" /\ k \in DOMAIN ds
  OBVIOUS
<1>4. \/ Reviewable(ds) = ds /\ \A i \in DOMAIN ds : ds[i].stage = ""
      \/ Reviewable(ds) = Subsequence(ds, K)
  BY DEF Reviewable
<1> HIDE DEF K
<1>5. Subsequence(ds, K) \in Seq(Draft)
  BY <1>2, <1>3, SubsequenceType
<1>6. \A n \in DOMAIN Subsequence(ds, K) : Nth(K, n) \in K /\ Subsequence(ds, K)[n] = ds[Nth(K, n)]
  BY <1>2, SubsequenceFacts
<1> QED
  BY <1>3, <1>4, <1>5, <1>6

\* What the first step of a command leaves.
LEMMA StartedSteps ==
    ASSUME NEW cmd, NEW dest, NEW queue, NEW r, r = Started(cmd, dest, queue)
    PROVE  /\ DOMAIN r = Fields /\ r.pc = IF cmd = "review" THEN "next" ELSE "load"
           /\ r.end = "none" /\ r.session = run.session + 1 /\ r.cmd = cmd
           /\ r.dest = dest /\ r.queue = queue /\ r.size = Len(queue)
           /\ r.shown = <<>> /\ r.drafts = <<>> /\ r.dispositions = <<>>
           /\ r.note = FALSE /\ r.failed = FALSE /\ r.quit = FALSE
  BY DEF Started, Idle, Fields

(***************************************************************************)
(* What the actions do to the command.                                      *)
(***************************************************************************)

\* The command goes on, or its session is over.
Becomes(pc, queue, shown, drafts, dispositions, note, failed, quit) ==
    /\ DOMAIN run' = Fields /\ run'.pc = pc /\ run'.queue = queue
    /\ run'.shown = shown /\ run'.drafts = drafts /\ run'.dispositions = dispositions
    /\ run'.note = note /\ run'.failed = failed /\ run'.quit = quit
    /\ run'.end = run.end /\ run'.session = run.session /\ run'.cmd = run.cmd
    /\ run'.dest = run.dest /\ run'.size = run.size

\* The process ends.
Stops(how) ==
    /\ DOMAIN run' = Fields /\ run'.pc = "idle" /\ run'.queue = <<>>
    /\ run'.shown = <<>> /\ run'.drafts = run.drafts
    /\ run'.dispositions = run.dispositions /\ run'.note = run.note
    /\ run'.failed = run.failed /\ run'.quit = run.quit
    /\ run'.end = how /\ run'.session = run.session /\ run'.cmd = run.cmd
    /\ run'.dest = run.dest /\ run'.size = run.size

OverPc == IF run.cmd = "review" THEN "publish" ELSE "record"

Quiet == UNCHANGED <<files, records, issued, archive>>

\* New drafts of an LLM: stamped with the next IDs and the session.
FromLLM(new, stage) ==
    /\ new \in Seq(Draft)
    /\ \A i \in DOMAIN new :
          new[i].id = Len(issued) + i /\ new[i].session = run.session /\ new[i].stage = stage

\* A command starts on texts, or on drafts that are on disk.
Starts ==
    /\ run.pc = "idle" /\ Quiet
    /\ \E cmd \in Commands, dest \in Path, queue \in Seq(Span) \cup Seq(Draft) :
          /\ run' = Started(cmd, dest, queue) /\ run.session < MaxSessions
          /\ cmd \in {"extract", "assist"} => queue \in Seq(Span)
          /\ cmd \in {"critique", "review"} =>
                /\ queue \in Seq(Draft)
                /\ \E src \in Path : \A i \in DOMAIN queue :
                      /\ \E k \in DOMAIN files[src].drafts : queue[i] = files[src].drafts[k]
                      /\ cmd = "review" => queue[i].stage # "reviewed"

\* Every way a command begins: an idle process, a fresh session, a queue
\* cut from a text or read from a file.
LEMMA BeginRow ==
    ASSUME TInv, Begin
    PROVE  Starts
<1>1. PICK dest \in Path :
        \/ \E cmd \in {"extract", "assist"} : BeginFromText(cmd, dest)
        \/ \E src \in Path : BeginCritique(src, dest) \/ BeginReview(src, dest)
  BY DEF Begin
<1>2. CASE \E cmd \in {"extract", "assist"} : BeginFromText(cmd, dest)
  <2>1. PICK cmd \in {"extract", "assist"} : BeginFromText(cmd, dest)
    BY <1>2
  <2>2. /\ run.pc = "idle" /\ Quiet /\ run.session < MaxSessions
        /\ \E texts \in Inputs[run.session + 1] : run' = Started(cmd, dest, texts)
    BY <2>1 DEF BeginFromText, Quiet
  <2>3. run.session + 1 \in 1..MaxSessions
    <3>1. MaxSessions \in Nat
      BY SessionAssumption
    <3>2. run.session \in 0..MaxSessions
      BY DEF TInv, RunTyped
    <3> QED
      BY <2>2, <3>1, <3>2
  <2>4. Inputs[run.session + 1] \in SUBSET Seq(Span)
    <3>1. Inputs \in [1..MaxSessions -> SUBSET Seq(Span)]
      BY SessionAssumption
    <3> QED
      BY <2>3, <3>1
  <2>5. PICK texts \in Seq(Span) : run' = Started(cmd, dest, texts)
    BY <2>2, <2>4
  <2>6. cmd \in Commands /\ cmd \in {"extract", "assist"} /\ texts \in Seq(Span) \cup Seq(Draft)
    BY DEF Commands
  <2>7. ~(cmd \in {"critique", "review"})
    BY <2>6
  <2> QED
    BY <2>2, <2>5, <2>6, <2>7 DEF Starts
<1>3. CASE \E src \in Path : BeginCritique(src, dest) \/ BeginReview(src, dest)
  <2>1. PICK src \in Path : BeginCritique(src, dest) \/ BeginReview(src, dest)
    BY <1>3
  <2> DEFINE ds == files[src].drafts
  <2>2. ds \in Seq(Draft)
    BY DEF TInv
  <2> HIDE DEF ds
  <2>3. CASE BeginCritique(src, dest)
    <3>1. /\ run.pc = "idle" /\ Quiet /\ run.session < MaxSessions
          /\ \E queue \in {ds} \cup {<<ds[i]>> : i \in DOMAIN ds} :
                run' = Started("critique", dest, queue)
      BY <2>3 DEF BeginCritique, Quiet, ds
    <3>2. PICK queue \in {ds} \cup {<<ds[i]>> : i \in DOMAIN ds} :
            run' = Started("critique", dest, queue)
      BY <3>1
    <3>3. queue \in Seq(Draft) /\ \A i \in DOMAIN queue : \E k \in DOMAIN ds : queue[i] = ds[k]
      <4>1. CASE queue = ds
        BY <2>2, <4>1
      <4>2. CASE \E i \in DOMAIN ds : queue = <<ds[i]>>
        <5>1. PICK j \in DOMAIN ds : queue = <<ds[j]>>
          BY <4>2
        <5>2. ds[j] \in Draft
          BY <2>2
        <5>3. queue \in Seq(Draft) /\ DOMAIN queue = {1} /\ queue[1] = ds[j]
          BY <2>2, <5>1, <5>2, AppendFacts
        <5> QED
          BY <5>3
      <4> QED
        BY <4>1, <4>2
    <3>4. "critique" \in Commands /\ queue \in Seq(Span) \cup Seq(Draft)
      BY <3>3 DEF Commands
    <3> QED
      BY <3>1, <3>2, <3>3, <3>4 DEF Starts, ds
  <2>4. CASE BeginReview(src, dest)
    <3>1. /\ run.pc = "idle" /\ Quiet /\ run.session < MaxSessions
          /\ run' = Started("review", dest, Reviewable(ds))
      BY <2>4 DEF BeginReview, Quiet, ds
    <3>2. /\ Reviewable(ds) \in Seq(Draft)
          /\ \A i \in DOMAIN Reviewable(ds) :
                 /\ \E k \in DOMAIN ds : Reviewable(ds)[i] = ds[k]
                 /\ Reviewable(ds)[i].stage # "reviewed"
      BY <2>2, ReviewableFacts
    <3>3. "review" \in Commands
      BY DEF Commands
    <3> QED
      BY <3>1, <3>2, <3>3 DEF Starts, ds
  <2> QED
    BY <2>1, <2>3, <2>4
<1> QED
  BY <1>1, <1>2, <1>3


\* A step that keeps what a command was given.
SameCommand(e) ==
    /\ DOMAIN e = Fields /\ e.end = run.end /\ e.session = run.session
    /\ e.cmd = run.cmd /\ e.dest = run.dest /\ e.size = run.size

\* The rows of a step that ends a session and of one that ends an item.
LEMMA OverRow ==
    ASSUME NEW e, SameCommand(e), run' = Over(e)
    PROVE  Becomes(OverPc, <<>>, <<>>, e.drafts, e.dispositions, e.note, e.failed, e.quit)
<1>1. DOMAIN e = Fields
  BY DEF SameCommand
<1> QED
  BY <1>1, RunSteps DEF SameCommand, Becomes, OverPc

\* Going to the next item, field by field.
LEMMA ProceedRow ==
    ASSUME NEW e, SameCommand(e), run' = Proceed(e)
    PROVE  Becomes("next", Tail(e.queue), <<>>, e.drafts, e.dispositions,
                   e.note, e.failed, e.quit)
<1>1. DOMAIN e = Fields
  BY DEF SameCommand
<1> QED
  BY <1>1, RunSteps DEF SameCommand, Becomes

\* The steps before the LLM is asked, and after the last item.
LEMMA SessionRows ==
    ASSUME TInv
    PROVE  /\ LoadTemplate =>
                /\ run.pc = "load" /\ Quiet
                /\ \/ Becomes("next", run.queue, run.shown, run.drafts, run.dispositions,
                              run.note, run.failed, run.quit)
                   \/ Becomes("record", <<>>, <<>>, run.drafts, run.dispositions,
                              TRUE, TRUE, run.quit)
           /\ QueueEmpty =>
                /\ run.pc = "next" /\ run.queue = <<>> /\ Quiet
                /\ Becomes(OverPc, <<>>, <<>>, run.drafts, run.dispositions,
                           run.note, run.failed, run.quit)
           /\ ExtractFails =>
                /\ run.pc = "next" /\ run.cmd = "extract" /\ Quiet
                /\ Becomes("record", <<>>, <<>>, run.drafts, run.dispositions,
                           TRUE, TRUE, run.quit)
           /\ CritiqueFails =>
                /\ run.pc = "next" /\ run.cmd = "critique" /\ run.queue # <<>> /\ Quiet
                /\ Becomes("next", Tail(run.queue), <<>>, run.drafts, run.dispositions,
                           TRUE, run.failed, run.quit)
           /\ AssistFails =>
                /\ run.pc = "next" /\ run.cmd = "assist" /\ run.queue # <<>> /\ Quiet
                /\ Becomes("retry", run.queue, <<>>, run.drafts, run.dispositions,
                           TRUE, run.failed, run.quit)
           /\ SkipFailed =>
                /\ run.pc = "retry" /\ run.cmd = "assist" /\ run.queue # <<>> /\ Quiet
                /\ Becomes("next", Tail(run.queue), <<>>, run.drafts, run.dispositions,
                           run.note, run.failed, run.quit)
           /\ ReviewSkip =>
                /\ run.pc = "next" /\ run.cmd = "review" /\ run.queue # <<>> /\ Quiet
                /\ Becomes("next", Tail(run.queue), <<>>, run.drafts, run.dispositions,
                           run.note, run.failed, run.quit)
           /\ Quit =>
                /\ run.pc \in {"prompt", "retry", "next"} /\ Quiet
                /\ run.cmd \in {"assist", "review"}
                /\ Becomes(OverPc, <<>>, <<>>, run.drafts, run.dispositions,
                           run.note, run.failed, TRUE)
<1>1. DOMAIN run = Fields /\ RunFits(run)
  BY DEF TInv, RunTyped
<1>2. LoadTemplate =>
                /\ run.pc = "load" /\ Quiet
                /\ \/ Becomes("next", run.queue, run.shown, run.drafts, run.dispositions,
                              run.note, run.failed, run.quit)
                   \/ Becomes("record", <<>>, <<>>, run.drafts, run.dispositions,
                              TRUE, TRUE, run.quit)
  <2> SUFFICES ASSUME LoadTemplate
               PROVE  /\ run.pc = "load" /\ Quiet
                      /\ \/ Becomes("next", run.queue, run.shown, run.drafts,
                                    run.dispositions, run.note, run.failed, run.quit)
                         \/ Becomes("record", <<>>, <<>>, run.drafts, run.dispositions,
                                    TRUE, TRUE, run.quit)
    OBVIOUS
  <2> DEFINE e == [run EXCEPT !.note = TRUE, !.failed = TRUE]
  <2>1. /\ DOMAIN e = Fields /\ e.note = TRUE /\ e.failed = TRUE /\ e.end = run.end
        /\ e.session = run.session /\ e.cmd = run.cmd /\ e.dest = run.dest
        /\ e.size = run.size /\ e.drafts = run.drafts
        /\ e.dispositions = run.dispositions /\ e.quit = run.quit
    BY <1>1 DEF Fields
  <2>2. run.pc = "load" /\ Quiet /\ run' \in {[run EXCEPT !.pc = "next"], Over(e)}
    BY DEF LoadTemplate, Quiet
  <2> HIDE DEF e
  <2>3. CASE run' = [run EXCEPT !.pc = "next"]
    BY <1>1, <2>2, <2>3 DEF Becomes, Fields
  <2>4. CASE run' = Over(e)
    <3>1. run.cmd # "review"
      BY <1>1, <2>2 DEF RunFits
    <3> QED
      BY <2>1, <2>2, <2>4, <3>1, RunSteps DEF Becomes
  <2> QED
    BY <2>2, <2>3, <2>4
<1>3. QueueEmpty =>
                /\ run.pc = "next" /\ run.queue = <<>> /\ Quiet
                /\ Becomes(OverPc, <<>>, <<>>, run.drafts, run.dispositions,
                           run.note, run.failed, run.quit)
  <2>1. QueueEmpty => run.pc = "next" /\ run.queue = <<>> /\ Quiet /\ run' = Over(run)
    BY DEF QueueEmpty, Quiet
  <2>2. SameCommand(run)
    BY <1>1 DEF SameCommand
  <2> QED
    BY <2>1, <2>2, OverRow
<1>4. ExtractFails =>
                /\ run.pc = "next" /\ run.cmd = "extract" /\ Quiet
                /\ Becomes("record", <<>>, <<>>, run.drafts, run.dispositions,
                           TRUE, TRUE, run.quit)
  <2> SUFFICES ASSUME ExtractFails
               PROVE  run.pc = "next" /\ run.cmd = "extract" /\ Quiet
                      /\ Becomes("record", <<>>, <<>>, run.drafts, run.dispositions,
              TRUE, TRUE, run.quit)
    OBVIOUS
  <2> DEFINE e == [run EXCEPT !.note = TRUE, !.failed = TRUE]
  <2>1. /\ SameCommand(e) /\ e.note = TRUE /\ e.failed = TRUE
        /\ e.quit = run.quit /\ e.drafts = run.drafts
        /\ e.dispositions = run.dispositions /\ e.queue = run.queue
    BY <1>1 DEF Fields, SameCommand
  <2>2. run.pc = "next" /\ run.cmd = "extract" /\ Quiet /\ run' = Over(e)
    BY <1>1 DEF ExtractFails, Quiet, At
  <2> HIDE DEF e
  <2>3. Becomes(OverPc, <<>>, <<>>, e.drafts, run.dispositions,
              TRUE, TRUE, run.quit)
    BY <2>1, <2>2, OverRow
  <2> QED
    BY <2>1, <2>2, <2>3 DEF OverPc
<1>5. CritiqueFails =>
                /\ run.pc = "next" /\ run.cmd = "critique" /\ run.queue # <<>> /\ Quiet
                /\ Becomes("next", Tail(run.queue), <<>>, run.drafts, run.dispositions,
                           TRUE, run.failed, run.quit)
  <2> SUFFICES ASSUME CritiqueFails
               PROVE  run.pc = "next" /\ run.cmd = "critique" /\ run.queue # <<>> /\ Quiet
                      /\ Becomes("next", Tail(run.queue), <<>>, run.drafts, run.dispositions,
              TRUE, run.failed, run.quit)
    OBVIOUS
  <2> DEFINE e == [run EXCEPT !.note = TRUE]
  <2>1. /\ SameCommand(e) /\ e.note = TRUE /\ e.failed = run.failed
        /\ e.quit = run.quit /\ e.drafts = run.drafts
        /\ e.dispositions = run.dispositions /\ e.queue = run.queue
    BY <1>1 DEF Fields, SameCommand
  <2>2. run.pc = "next" /\ run.cmd = "critique" /\ run.queue # <<>> /\ Quiet /\ run' = Proceed(e)
    BY <1>1 DEF CritiqueFails, Quiet, At
  <2> HIDE DEF e
  <2>3. Becomes("next", Tail(run.queue), <<>>, e.drafts, run.dispositions,
              TRUE, run.failed, run.quit)
    BY <2>1, <2>2, ProceedRow
  <2> QED
    BY <2>1, <2>2, <2>3 DEF OverPc
<1>6. AssistFails =>
                /\ run.pc = "next" /\ run.cmd = "assist" /\ run.queue # <<>> /\ Quiet
                /\ Becomes("retry", run.queue, <<>>, run.drafts, run.dispositions,
                           TRUE, run.failed, run.quit)
  BY <1>1 DEF AssistFails, Quiet, At, Becomes, Fields, RunFits
<1>7. SkipFailed =>
                /\ run.pc = "retry" /\ run.cmd = "assist" /\ run.queue # <<>> /\ Quiet
                /\ Becomes("next", Tail(run.queue), <<>>, run.drafts, run.dispositions,
                           run.note, run.failed, run.quit)
  <2>1. SkipFailed => /\ run.pc = "retry" /\ run.cmd = "assist" /\ run.queue # <<>>
                      /\ Quiet /\ run' = Proceed(run)
    BY <1>1 DEF SkipFailed, Quiet, At, RunFits
  <2>2. SameCommand(run)
    BY <1>1 DEF SameCommand
  <2> QED
    BY <2>1, <2>2, ProceedRow
<1>8. ReviewSkip =>
                /\ run.pc = "next" /\ run.cmd = "review" /\ run.queue # <<>> /\ Quiet
                /\ Becomes("next", Tail(run.queue), <<>>, run.drafts, run.dispositions,
                           run.note, run.failed, run.quit)
  <2>1. ReviewSkip => /\ run.pc = "next" /\ run.cmd = "review" /\ run.queue # <<>>
                      /\ Quiet /\ run' = Proceed(run)
    BY DEF ReviewSkip, Reviewing, Quiet, At
  <2>2. SameCommand(run)
    BY <1>1 DEF SameCommand
  <2> QED
    BY <2>1, <2>2, ProceedRow
<1>9. Quit =>
                /\ run.pc \in {"prompt", "retry", "next"} /\ Quiet
                /\ run.cmd \in {"assist", "review"}
                /\ Becomes(OverPc, <<>>, <<>>, run.drafts, run.dispositions,
                           run.note, run.failed, TRUE)
  <2> SUFFICES ASSUME Quit
               PROVE  run.pc \in {"prompt", "retry", "next"} /\ run.cmd \in {"assist", "review"} /\ Quiet
                      /\ Becomes(OverPc, <<>>, <<>>, run.drafts, run.dispositions,
              run.note, run.failed, TRUE)
    OBVIOUS
  <2> DEFINE e == [run EXCEPT !.quit = TRUE]
  <2>1. /\ SameCommand(e) /\ e.note = run.note /\ e.failed = run.failed
        /\ e.quit = TRUE /\ e.drafts = run.drafts
        /\ e.dispositions = run.dispositions /\ e.queue = run.queue
    BY <1>1 DEF Fields, SameCommand
  <2>2. run.pc \in {"prompt", "retry", "next"} /\ run.cmd \in {"assist", "review"} /\ Quiet /\ run' = Over(e)
    BY <1>1 DEF Quit, Reviewing, Quiet, At, RunFits
  <2> HIDE DEF e
  <2>3. Becomes(OverPc, <<>>, <<>>, e.drafts, run.dispositions,
              run.note, run.failed, TRUE)
    BY <2>1, <2>2, OverRow
  <2> QED
    BY <2>1, <2>2, <2>3 DEF OverPc
<1> QED
  BY <1>2, <1>3, <1>4, <1>5, <1>6, <1>7, <1>8, <1>9


(***************************************************************************)
(* New drafts.                                                              *)
(***************************************************************************)

Beside == UNCHANGED <<files, records, archive>>

\* The next draft to be given an ID.
NewDraft(d, session, stage, parent, span) ==
    /\ d \in Draft /\ d.id = Len(issued) + 1 /\ d.session = session
    /\ d.stage = stage /\ d.parent = parent /\ d.span = span

\* A stamped draft is a draft that carries this session's provenance
\* (stampProvenance).
LEMMA Stamping ==
    ASSUME TInv, NEW nth \in Nat, NEW stage \in Stages, NEW parent \in Nat \cup {Forged},
           NEW span \in Span
    PROVE  /\ Stamped(nth, stage, parent, span) \in Draft
           /\ Stamped(nth, stage, parent, span).id = Len(issued) + nth
           /\ Stamped(nth, stage, parent, span).session = run.session
           /\ Stamped(nth, stage, parent, span).stage = stage
           /\ Stamped(nth, stage, parent, span).parent = parent
           /\ Stamped(nth, stage, parent, span).span = span
<1>1. Len(issued) \in Nat
  BY DEF TInv
<1>2. MaxSessions \in Nat
  BY SessionAssumption
<1>3. run.session \in Nat
  BY <1>2 DEF TInv, RunTyped
<1> QED
  BY <1>1, <1>3 DEF Stamped, Draft

\* The first draft of a reply takes the next free ID.
LEMMA StampingNext ==
    ASSUME TInv, NEW stage \in Stages, NEW parent \in Nat \cup {Forged}, NEW span \in Span
    PROVE  NewDraft(Stamped(1, stage, parent, span), run.session, stage, parent, span)
<1>1. \A nth \in Nat :
         /\ Stamped(nth, stage, parent, span) \in Draft
         /\ Stamped(nth, stage, parent, span).id = Len(issued) + nth
         /\ Stamped(nth, stage, parent, span).session = run.session
         /\ Stamped(nth, stage, parent, span).stage = stage
         /\ Stamped(nth, stage, parent, span).parent = parent
         /\ Stamped(nth, stage, parent, span).span = span
  BY Stamping
<1> QED
  BY <1>1 DEF NewDraft

\* A record with the fields of a draft is one.
LEMMA DraftRecord ==
    ASSUME NEW d, d = [f \in DOMAIN d |-> d[f]],
           DOMAIN d = {"id", "session", "stage", "parent", "span"},
           d.id \in Nat, d.session \in Nat, d.stage \in Stages,
           d.parent \in Nat \cup {Forged}, d.span \in Span
    PROVE  d \in Draft
  BY DEF Draft

\* An edit is a new draft with the next free ID that names its parent
\* (DeriveEdited).
LEMMA Deriving ==
    ASSUME TInv, NEW p \in Draft
    PROVE  NewDraft(Derived(p), p.session, "reviewed", p.id, p.span)
<1> DEFINE d == Derived(p)
<1>1. Len(issued) + 1 \in Nat
  BY DEF TInv
<1>2. /\ DOMAIN p = {"id", "session", "stage", "parent", "span"}
      /\ p.id \in Nat /\ p.session \in Nat /\ p.span \in Span /\ "reviewed" \in Stages
  BY DEF Draft, Stages
<1>3. /\ d = [f \in DOMAIN d |-> d[f]] /\ DOMAIN d = DOMAIN p
      /\ d.id = Len(issued) + 1 /\ d.parent = p.id /\ d.stage = "reviewed"
      /\ d.session = p.session /\ d.span = p.span
  BY <1>2 DEF Derived
<1> HIDE DEF d
<1>4. d \in Draft
  BY <1>1, <1>2, <1>3, DraftRecord
<1> QED
  BY <1>3, <1>4 DEF NewDraft, d

\* A reply to extract.
LEMMA ExtractRow ==
    ASSUME TInv, ExtractReply
    PROVE  /\ run.pc = "next" /\ run.cmd = "extract" /\ run.queue # <<>> /\ Beside
           /\ \E new : /\ FromLLM(new, "weak-draft") /\ issued' = issued \o new
                       /\ Becomes("next", Tail(run.queue), <<>>, run.drafts \o new,
                                  run.dispositions, run.note, run.failed, run.quit)
<1>1. DOMAIN run = Fields
  BY DEF TInv, RunTyped
<1>2. /\ run.pc = "next" /\ run.cmd = "extract" /\ run.queue # <<>> /\ Beside
      /\ \E n \in 0..MaxReply : \E reply \in [1..n -> Replies] :
           LET new == [i \in 1..n |->
                         Stamped(i, "weak-draft", reply[i].parent, reply[i].span)]
           IN  /\ run' = Proceed([run EXCEPT !.drafts = @ \o new])
               /\ issued' = issued \o new
  BY DEF ExtractReply, At, Beside
<1>3. PICK n \in 0..MaxReply : \E reply \in [1..n -> Replies] :
           LET new == [i \in 1..n |->
                         Stamped(i, "weak-draft", reply[i].parent, reply[i].span)]
           IN  /\ run' = Proceed([run EXCEPT !.drafts = @ \o new])
               /\ issued' = issued \o new
  BY <1>2
<1>4. PICK reply \in [1..n -> Replies] :
           LET new == [i \in 1..n |->
                         Stamped(i, "weak-draft", reply[i].parent, reply[i].span)]
           IN  /\ run' = Proceed([run EXCEPT !.drafts = @ \o new])
               /\ issued' = issued \o new
  BY <1>3
<1> DEFINE new == [i \in 1..n |-> Stamped(i, "weak-draft", reply[i].parent, reply[i].span)]
           e == [run EXCEPT !.drafts = @ \o new]
<1>5. run' = Proceed(e) /\ issued' = issued \o new
  BY <1>4
<1>6. FromLLM(new, "weak-draft")
  <2>1. \A i \in 1..n : reply[i].parent \in Nat \cup {Forged} /\ reply[i].span \in Span
    <3>1. Replies \subseteq [parent : {NoId, Forged}, span : Span]
      BY SessionAssumption
    <3> QED
      BY <3>1 DEF NoId
  <2>2. n \in Nat /\ "weak-draft" \in Stages
    <3>1. MaxReply \in Nat
      BY SessionAssumption
    <3> QED
      BY <3>1 DEF Stages
  <2>3. ASSUME NEW i \in 1..n
        PROVE  /\ new[i] \in Draft /\ new[i].id = Len(issued) + i
               /\ new[i].session = run.session /\ new[i].stage = "weak-draft"
    <3>1. new[i] = Stamped(i, "weak-draft", reply[i].parent, reply[i].span)
      OBVIOUS
    <3>2. i \in Nat /\ reply[i].parent \in Nat \cup {Forged} /\ reply[i].span \in Span
      BY <2>1, <2>2
    <3> DEFINE parent == reply[i].parent
               span == reply[i].span
    <3> HIDE DEF new, parent, span
    <3>3. parent \in Nat \cup {Forged} /\ span \in Span /\ i \in Nat /\ "weak-draft" \in Stages
      BY <2>2, <3>2 DEF parent, span
    <3>4. new[i] = Stamped(i, "weak-draft", parent, span)
      BY <3>1 DEF parent, span
    <3> QED
      BY <3>3, <3>4, Stamping
  <2>4. new \in [1..n -> Draft]
    BY <2>3
  <2>5. new \in Seq(Draft) /\ DOMAIN new = 1..n
    BY <2>2, <2>4
  <2> QED
    BY <2>3, <2>5 DEF FromLLM
<1> HIDE DEF new
<1>7. /\ SameCommand(e) /\ e.note = run.note /\ e.failed = run.failed
      /\ e.quit = run.quit /\ e.drafts = run.drafts \o new
      /\ e.dispositions = run.dispositions /\ e.queue = run.queue
  BY <1>1 DEF Fields, SameCommand
<1> HIDE DEF e
<1>8. Becomes("next", Tail(e.queue), <<>>, e.drafts, e.dispositions, e.note, e.failed, e.quit)
  BY <1>5, <1>7, ProceedRow
<1> QED
  BY <1>2, <1>5, <1>6, <1>7, <1>8

\* A critique that is kept.
LEMMA CritiqueRow ==
    ASSUME TInv, CritiqueReply
    PROVE  /\ run.pc = "next" /\ run.cmd = "critique" /\ run.queue # <<>> /\ Beside
           /\ \E d : /\ NewDraft(d, run.session, "critiqued", Head(run.queue).id,
                                 Head(run.queue).span)
                     /\ issued' = issued \o <<d>>
                     /\ Becomes("next", Tail(run.queue), <<>>, run.drafts \o <<d>>,
                                run.dispositions, run.note, run.failed, run.quit)
<1>1. DOMAIN run = Fields
  BY DEF TInv, RunTyped
<1> DEFINE orig == Head(run.queue)
           d == Stamped(1, "critiqued", orig.id, orig.span)
           e == [run EXCEPT !.drafts = Append(@, d)]
<1>2. /\ run.pc = "next" /\ run.cmd = "critique" /\ run.queue # <<>> /\ Beside
      /\ \E reply \in Replies :
           /\ reply.span = orig.span
           /\ run' = Proceed([run EXCEPT
                        !.drafts = Append(@, Stamped(1, "critiqued", orig.id, reply.span))])
           /\ issued' = Append(issued, Stamped(1, "critiqued", orig.id, reply.span))
  BY DEF CritiqueReply, At, Beside
<1>3. run' = Proceed(e) /\ issued' = Append(issued, d)
  BY <1>2
<1>4. orig \in Draft
  BY <1>2, TailFacts DEF TInv, RunFits
<1>5. NewDraft(d, run.session, "critiqued", orig.id, orig.span)
  <2>1. orig.id \in Nat \cup {Forged} /\ orig.span \in Span /\ "critiqued" \in Stages /\ 1 \in Nat
    BY <1>4 DEF Draft, Stages
  <2> HIDE DEF orig
  <2> QED
    BY <2>1, StampingNext
<1> HIDE DEF d
<1>6. d \in Draft /\ issued \in Seq(Draft) /\ run.drafts \in Seq(Draft)
  BY <1>5 DEF NewDraft, TInv, RunTyped
<1>7. Append(issued, d) = issued \o <<d>>
  BY <1>6, AppendFacts
<1>8. Append(run.drafts, d) = run.drafts \o <<d>>
  BY <1>6, AppendFacts
<1>9. /\ SameCommand(e) /\ e.note = run.note /\ e.failed = run.failed
      /\ e.quit = run.quit /\ e.drafts = Append(run.drafts, d)
      /\ e.dispositions = run.dispositions /\ e.queue = run.queue
  BY <1>1 DEF Fields, SameCommand
<1> HIDE DEF e
<1>10. Becomes("next", Tail(e.queue), <<>>, e.drafts, e.dispositions, e.note, e.failed, e.quit)
  BY <1>3, <1>9, ProceedRow
<1> QED
  BY <1>2, <1>3, <1>5, <1>7, <1>8, <1>9, <1>10


\* A draft that the analyst is asked about.
LEMMA AssistRow ==
    ASSUME TInv, AssistReply
    PROVE  /\ run.pc = "next" /\ run.cmd = "assist" /\ run.queue # <<>> /\ Beside
           /\ \E d, span : /\ NewDraft(d, run.session, "weak-draft", NoId, span)
                           /\ issued' = issued \o <<d>>
                           /\ Becomes("prompt", run.queue, <<d>>, run.drafts,
                                      run.dispositions, run.note, run.failed, run.quit)
<1>1. DOMAIN run = Fields
  BY DEF TInv, RunTyped
<1>2. /\ run.pc = "next" /\ run.cmd = "assist" /\ run.queue # <<>> /\ Beside
      /\ \E reply \in Replies :
           /\ run' = [run EXCEPT !.pc = "prompt",
                         !.shown = <<Stamped(1, "weak-draft", NoId, reply.span)>>]
           /\ issued' = Append(issued, Stamped(1, "weak-draft", NoId, reply.span))
  BY DEF AssistReply, At, Beside
<1>3. PICK reply \in Replies :
           /\ run' = [run EXCEPT !.pc = "prompt",
                         !.shown = <<Stamped(1, "weak-draft", NoId, reply.span)>>]
           /\ issued' = Append(issued, Stamped(1, "weak-draft", NoId, reply.span))
  BY <1>2
<1> DEFINE d == Stamped(1, "weak-draft", NoId, reply.span)
<1>4. NewDraft(d, run.session, "weak-draft", NoId, reply.span)
  <2>1. reply.span \in Span
    <3>1. Replies \subseteq [parent : {NoId, Forged}, span : Span]
      BY SessionAssumption
    <3> QED
      BY <3>1
  <2>2. NoId \in Nat \cup {Forged} /\ "weak-draft" \in Stages
    BY DEF NoId, Stages
  <2> QED
    BY <2>1, <2>2, StampingNext
<1>5. run' = [run EXCEPT !.pc = "prompt", !.shown = <<d>>] /\ issued' = Append(issued, d)
  BY <1>3
<1> HIDE DEF d
<1>6. Append(issued, d) = issued \o <<d>>
  <2>1. d \in Draft /\ issued \in Seq(Draft)
    BY <1>4 DEF NewDraft, TInv
  <2> QED
    BY <2>1, AppendFacts
<1>7. Becomes("prompt", run.queue, <<d>>, run.drafts, run.dispositions,
              run.note, run.failed, run.quit)
  BY <1>1, <1>5 DEF Becomes, Fields
<1> QED
  BY <1>2, <1>4, <1>5, <1>6, <1>7

\* What a disposition adds: the draft, any revision, and the disposition.
LEMMA DisposedSteps ==
    ASSUME TInv, NEW action, NEW new
    PROVE  LET e == Disposed(action, new) IN
           /\ SameCommand(e) /\ e.note = run.note /\ e.failed = run.failed
           /\ e.quit = run.quit /\ e.queue = run.queue
           /\ e.drafts = run.drafts \o run.shown \o new
           /\ e.dispositions =
                Append(run.dispositions, [id |-> run.shown[1].id, action |-> action])
<1>1. DOMAIN run = Fields
  BY DEF TInv, RunTyped
<1> QED
  BY <1>1 DEF Disposed, SameCommand, Fields

\* At a prompt there is one draft.
LEMMA ShownFacts ==
    ASSUME TInv, At("prompt", {"assist"})
    PROVE  /\ run.pc = "prompt" /\ run.cmd = "assist" /\ run.queue # <<>>
           /\ run.shown[1] \in Draft /\ run.shown = <<run.shown[1]>>
           /\ DOMAIN run.shown = {1}
           /\ run.drafts \o run.shown \in Seq(Draft)
           /\ run.drafts \o run.shown \o <<>> = run.drafts \o run.shown
<1>1. /\ run.pc = "prompt" /\ run.cmd = "assist" /\ run.queue # <<>>
      /\ run.shown \in Seq(Draft) /\ Len(run.shown) = 1 /\ run.drafts \in Seq(Draft)
  BY DEF TInv, RunTyped, RunFits, At
<1>2. run.shown[1] \in Draft /\ run.shown = <<run.shown[1]>> /\ DOMAIN run.shown = {1}
  BY <1>1
<1>3. run.drafts \o run.shown \in Seq(Draft)
  BY <1>1
<1>4. run.drafts \o run.shown \o <<>> = run.drafts \o run.shown
  BY <1>3
<1> QED
  BY <1>1, <1>2, <1>3, <1>4

\* What the analyst says of the draft.
LEMMA AnalystRows ==
    ASSUME TInv
    PROVE  /\ AssistAccept =>
                /\ At("prompt", {"assist"}) /\ Quiet
                /\ \E action \in {"accepted", "skipped"} :
                      Becomes("next", Tail(run.queue), <<>>, run.drafts \o run.shown,
                              Append(run.dispositions,
                                     [id |-> run.shown[1].id, action |-> action]),
                              run.note, run.failed, run.quit)
           /\ AssistEdit =>
                /\ At("prompt", {"assist"}) /\ Beside
                /\ \E d : /\ NewDraft(d, run.shown[1].session, "reviewed", run.shown[1].id,
                                      run.shown[1].span)
                          /\ issued' = issued \o <<d>>
                          /\ Becomes("next", Tail(run.queue), <<>>,
                                     run.drafts \o run.shown \o <<d>>,
                                     Append(run.dispositions,
                                            [id |-> run.shown[1].id, action |-> "edited"]),
                                     run.note, run.failed, run.quit)
           /\ AssistAbandon =>
                /\ At("prompt", {"assist"}) /\ Quiet
                /\ Becomes("record", <<>>, <<>>, run.drafts \o run.shown,
                           Append(run.dispositions,
                                  [id |-> run.shown[1].id, action |-> "abandoned"]),
                           run.note, run.failed, TRUE)
<1>1. ASSUME AssistAccept
      PROVE  /\ At("prompt", {"assist"}) /\ Quiet
             /\ \E action \in {"accepted", "skipped"} :
                      Becomes("next", Tail(run.queue), <<>>, run.drafts \o run.shown,
                              Append(run.dispositions,
                                     [id |-> run.shown[1].id, action |-> action]),
                              run.note, run.failed, run.quit)
  <2>1. /\ At("prompt", {"assist"}) /\ Quiet
        /\ \E action \in {"accepted", "skipped"} : run' = Proceed(Disposed(action, <<>>))
    BY <1>1 DEF AssistAccept, Quiet
  <2>2. PICK action \in {"accepted", "skipped"} : run' = Proceed(Disposed(action, <<>>))
    BY <2>1
  <2> DEFINE e == Disposed(action, <<>>)
  <2>3. /\ SameCommand(e) /\ e.note = run.note /\ e.failed = run.failed
        /\ e.quit = run.quit /\ e.queue = run.queue
        /\ e.drafts = run.drafts \o run.shown \o <<>>
        /\ e.dispositions = Append(run.dispositions,
                                   [id |-> run.shown[1].id, action |-> action])
    BY DisposedSteps
  <2>4. run' = Proceed(e)
    BY <2>2
  <2> HIDE DEF e
  <2>5. Becomes("next", Tail(e.queue), <<>>, e.drafts, e.dispositions,
                e.note, e.failed, e.quit)
    BY <2>3, <2>4, ProceedRow
  <2>6. run.drafts \o run.shown \o <<>> = run.drafts \o run.shown
    BY <2>1, ShownFacts
  <2> QED
    BY <2>1, <2>3, <2>5, <2>6
<1>2. ASSUME AssistEdit
      PROVE  /\ At("prompt", {"assist"}) /\ Beside
             /\ \E d : /\ NewDraft(d, run.shown[1].session, "reviewed", run.shown[1].id,
                                   run.shown[1].span)
                       /\ issued' = issued \o <<d>>
                       /\ Becomes("next", Tail(run.queue), <<>>,
                                  run.drafts \o run.shown \o <<d>>,
                                  Append(run.dispositions,
                                         [id |-> run.shown[1].id, action |-> "edited"]),
                                  run.note, run.failed, run.quit)
  <2> DEFINE d == Derived(run.shown[1])
             e == Disposed("edited", <<d>>)
  <2>1. /\ At("prompt", {"assist"}) /\ Beside /\ run' = Proceed(e)
        /\ issued' = Append(issued, d)
    BY <1>2 DEF AssistEdit, Beside
  <2>2. run.shown[1] \in Draft
    BY <2>1, ShownFacts
  <2>3. NewDraft(d, run.shown[1].session, "reviewed", run.shown[1].id, run.shown[1].span)
    BY <2>2, Deriving
  <2> HIDE DEF d
  <2>4. /\ SameCommand(e) /\ e.note = run.note /\ e.failed = run.failed
        /\ e.quit = run.quit /\ e.queue = run.queue
        /\ e.drafts = run.drafts \o run.shown \o <<d>>
        /\ e.dispositions = Append(run.dispositions,
                                   [id |-> run.shown[1].id, action |-> "edited"])
    BY DisposedSteps
  <2> HIDE DEF e
  <2>5. Becomes("next", Tail(e.queue), <<>>, e.drafts, e.dispositions,
                e.note, e.failed, e.quit)
    BY <2>1, <2>4, ProceedRow
  <2>6. Append(issued, d) = issued \o <<d>>
    <3>1. d \in Draft /\ issued \in Seq(Draft)
      BY <2>3 DEF NewDraft, TInv
    <3> QED
      BY <3>1, AppendFacts
  <2> QED
    BY <2>1, <2>3, <2>4, <2>5, <2>6
<1>3. ASSUME AssistAbandon
      PROVE  /\ At("prompt", {"assist"}) /\ Quiet
             /\ Becomes("record", <<>>, <<>>, run.drafts \o run.shown,
                        Append(run.dispositions,
                               [id |-> run.shown[1].id, action |-> "abandoned"]),
                        run.note, run.failed, TRUE)
  <2> DEFINE g == Disposed("abandoned", <<>>)
             e == [g EXCEPT !.quit = TRUE]
  <2>1. At("prompt", {"assist"}) /\ Quiet /\ run' = Over(e)
    BY <1>3 DEF AssistAbandon, Quiet
  <2>2. /\ SameCommand(g) /\ g.note = run.note /\ g.failed = run.failed
        /\ g.quit = run.quit /\ g.queue = run.queue
        /\ g.drafts = run.drafts \o run.shown \o <<>>
        /\ g.dispositions = Append(run.dispositions,
                                   [id |-> run.shown[1].id, action |-> "abandoned"])
    BY DisposedSteps
  <2> HIDE DEF g
  <2>3. DOMAIN g = Fields
    BY <2>2 DEF SameCommand
  <2>4. /\ SameCommand(e) /\ e.note = g.note /\ e.failed = g.failed /\ e.quit = TRUE
        /\ e.drafts = g.drafts /\ e.dispositions = g.dispositions
    BY <2>2, <2>3 DEF SameCommand, Fields
  <2> HIDE DEF e
  <2>5. Becomes(OverPc, <<>>, <<>>, e.drafts, e.dispositions, e.note, e.failed, e.quit)
    BY <2>1, <2>4, OverRow
  <2>6. OverPc = "record"
    BY <2>1 DEF OverPc, At
  <2>7. run.drafts \o run.shown \o <<>> = run.drafts \o run.shown
    BY <2>1, ShownFacts
  <2> QED
    BY <2>1, <2>2, <2>4, <2>5, <2>6, <2>7
<1> QED
  BY <1>1, <1>2, <1>3

\* A draft that review keeps.
LEMMA ReviewRow ==
    ASSUME TInv, ReviewKeep
    PROVE  /\ run.pc = "next" /\ run.cmd = "review" /\ run.queue # <<>> /\ Beside
           /\ \E d : /\ NewDraft(d, Head(run.queue).session, "reviewed",
                                 Head(run.queue).id, Head(run.queue).span)
                     /\ issued' = issued \o <<d>>
                     /\ Becomes("next", Tail(run.queue), <<>>, run.drafts \o <<d>>,
                                run.dispositions, run.note, run.failed, run.quit)
<1>1. DOMAIN run = Fields
  BY DEF TInv, RunTyped
<1> DEFINE d == Derived(Head(run.queue))
           e == [run EXCEPT !.drafts = Append(@, d)]
<1>2. /\ run.pc = "next" /\ run.cmd = "review" /\ run.queue # <<>> /\ Beside
      /\ run' = Proceed(e) /\ issued' = Append(issued, d)
  BY DEF ReviewKeep, Reviewing, At, Beside
<1>3. Head(run.queue) \in Draft
  BY <1>2, TailFacts DEF TInv, RunFits
<1>4. NewDraft(d, Head(run.queue).session, "reviewed", Head(run.queue).id,
               Head(run.queue).span)
  BY <1>3, Deriving
<1> HIDE DEF d
<1>5. d \in Draft /\ issued \in Seq(Draft) /\ run.drafts \in Seq(Draft)
  BY <1>4 DEF NewDraft, TInv, RunTyped
<1>6. Append(issued, d) = issued \o <<d>>
  BY <1>5, AppendFacts
<1>7. Append(run.drafts, d) = run.drafts \o <<d>>
  BY <1>5, AppendFacts
<1>8. /\ SameCommand(e) /\ e.note = run.note /\ e.failed = run.failed
      /\ e.quit = run.quit /\ e.drafts = Append(run.drafts, d)
      /\ e.dispositions = run.dispositions /\ e.queue = run.queue
  BY <1>1 DEF Fields, SameCommand
<1> HIDE DEF e
<1>9. Becomes("next", Tail(e.queue), <<>>, e.drafts, e.dispositions, e.note, e.failed, e.quit)
  BY <1>2, <1>8, ProceedRow
<1> QED
  BY <1>2, <1>4, <1>6, <1>7, <1>8, <1>9

(***************************************************************************)
(* The writes.                                                              *)
(***************************************************************************)

\* The command is as it was, except for its pc.
Turns(pc) == Becomes(pc, run.queue, run.shown, run.drafts, run.dispositions,
                     run.note, run.failed, run.quit)

\* The steps that write the session record and the output file, in the
\* order the commands write them.
LEMMA CommitRows ==
    ASSUME TInv
    PROVE  /\ OpenRecord =>
                /\ run.pc = "record" /\ UNCHANGED <<files, issued, archive>>
                /\ records' = [records EXCEPT ![run.dest] = Saved("torn", {})]
                /\ Turns("recording")
           /\ WriteRecord =>
                /\ run.pc = "recording" /\ UNCHANGED <<files, issued>>
                /\ records' = [records EXCEPT ![run.dest] = Saved("whole", {ThisRecord})]
                /\ archive' = archive \cup {ThisRecord}
                /\ Stops("error") \/ (~run.failed /\ Turns("publish"))
           /\ RecordFails => run.pc \in {"record", "recording"} /\ Quiet /\ Stops("error")
           /\ OpenOutput =>
                /\ run.pc = "publish" /\ UNCHANGED <<records, issued, archive>>
                /\ files' = [files EXCEPT ![run.dest] = Output("torn", <<>>)]
                /\ Turns("publishing")
           /\ WriteOutput =>
                /\ run.pc = "publishing" /\ UNCHANGED <<records, issued, archive>>
                /\ files' = [files EXCEPT ![run.dest] = Output("whole", run.drafts)]
                /\ Stops(Exit)
           /\ OutputFails => run.pc \in {"publish", "publishing"} /\ Quiet /\ Stops("error")
           /\ CloseFails =>
                /\ run.pc = "publishing" /\ Quiet
                /\ Stops("error") \/ Stops(Exit)
           /\ Kill => run.pc # "idle" /\ Quiet /\ Stops("killed")
<1>1. DOMAIN run = Fields
  BY DEF TInv, RunTyped
<1>2. \A how : run' = Ended(how) => Stops(how)
  BY <1>1, EndedSteps DEF Stops
<1>3. \A pc : run' = [run EXCEPT !.pc = pc] => Turns(pc)
  BY <1>1 DEF Turns, Becomes, Fields
<1>4. ASSUME WriteRecord
      PROVE  /\ run.pc = "recording" /\ UNCHANGED <<files, issued>>
             /\ records' = [records EXCEPT ![run.dest] = Saved("whole", {ThisRecord})]
             /\ archive' = archive \cup {ThisRecord}
             /\ Stops("error") \/ (~run.failed /\ Turns("publish"))
  <2>1. /\ run.pc = "recording" /\ UNCHANGED <<files, issued>>
        /\ records' = [records EXCEPT ![run.dest] = Saved("whole", {ThisRecord})]
        /\ archive' = archive \cup {ThisRecord} /\ run' = AfterRecord
    BY <1>4 DEF WriteRecord
  <2>2. \/ run' = Ended("error")
        \/ ~run.failed /\ run' = [run EXCEPT !.pc = "publish"]
    BY <2>1 DEF AfterRecord
  <2> QED
    BY <1>2, <1>3, <2>1, <2>2
<1>5. OpenRecord =>
                /\ run.pc = "record" /\ UNCHANGED <<files, issued, archive>>
                /\ records' = [records EXCEPT ![run.dest] = Saved("torn", {})]
                /\ Turns("recording")
  BY <1>3 DEF OpenRecord
<1>6. RecordFails => run.pc \in {"record", "recording"} /\ Quiet /\ Stops("error")
  BY <1>2 DEF RecordFails, Quiet
<1>7. OpenOutput =>
                /\ run.pc = "publish" /\ UNCHANGED <<records, issued, archive>>
                /\ files' = [files EXCEPT ![run.dest] = Output("torn", <<>>)]
                /\ Turns("publishing")
  BY <1>3 DEF OpenOutput
<1>8. WriteOutput =>
                /\ run.pc = "publishing" /\ UNCHANGED <<records, issued, archive>>
                /\ files' = [files EXCEPT ![run.dest] = Output("whole", run.drafts)]
                /\ Stops(Exit)
  BY <1>2 DEF WriteOutput
<1>9. OutputFails => run.pc \in {"publish", "publishing"} /\ Quiet /\ Stops("error")
  BY <1>2 DEF OutputFails, Quiet
<1>10. CloseFails => run.pc = "publishing" /\ Quiet /\ (Stops("error") \/ Stops(Exit))
  BY <1>2 DEF CloseFails, Quiet
<1>11. Kill => run.pc # "idle" /\ Quiet /\ Stops("killed")
  BY <1>2 DEF Kill, Quiet
<1> QED
  BY <1>4, <1>5, <1>6, <1>7, <1>8, <1>9, <1>10, <1>11


(***************************************************************************)
(* The steps, by what they leave alone.                                     *)
(***************************************************************************)

\* The command goes on without a new draft: the same queue, or less of it.
Goes ==
    /\ Quiet /\ run.pc \in {"load", "next", "prompt", "retry"}
    /\ \E pc \in {"next", "retry", "record", "publish"},
          note \in BOOLEAN, failed \in BOOLEAN, quit \in BOOLEAN :
          \E queue :
             /\ \/ queue = run.queue \/ queue = <<>>
                \/ run.queue # <<>> /\ queue = Tail(run.queue)
             /\ Becomes(pc, queue, <<>>, run.drafts, run.dispositions, note, failed, quit)
             /\ pc = "retry" => run.cmd = "assist" /\ queue # <<>>
             /\ pc = "record" => run.cmd # "review"
             /\ pc = "publish" => run.cmd = "review"

\* The process ends and the disk is as it was.
Halts == Quiet /\ \E how \in {"ok", "error", "killed"} : Stops(how)

\* The steps that add no draft: they move the command on, or leave it
\* where a failure leaves it.
LEMMA GoesRow ==
    ASSUME TInv, \/ LoadTemplate \/ QueueEmpty \/ ExtractFails \/ CritiqueFails
                 \/ AssistFails \/ SkipFailed \/ ReviewSkip \/ Quit
    PROVE  Goes
<1>1. /\ run.note \in BOOLEAN /\ run.failed \in BOOLEAN /\ run.quit \in BOOLEAN
      /\ run.pc # "prompt" => run.shown = <<>>
      /\ run.pc = "load" => run.cmd # "review"
  BY DEF TInv, RunTyped, RunFits
<1>2. CASE LoadTemplate
  BY <1>1, <1>2, SessionRows DEF Goes
<1>3. CASE QueueEmpty
  BY <1>1, <1>3, SessionRows DEF Goes, OverPc
<1>4. CASE ExtractFails
  BY <1>1, <1>4, SessionRows DEF Goes
<1>5. CASE CritiqueFails
  BY <1>1, <1>5, SessionRows DEF Goes
<1>6. CASE AssistFails
  BY <1>1, <1>6, SessionRows DEF Goes
<1>7. CASE SkipFailed
  <2>1. /\ Quiet /\ run.pc = "retry" /\ run.queue # <<>>
        /\ Becomes("next", Tail(run.queue), <<>>, run.drafts, run.dispositions,
                   run.note, run.failed, run.quit)
    BY <1>7, SessionRows
  <2> QED
    BY <1>1, <2>1 DEF Goes
<1>8. CASE ReviewSkip
  <2>1. /\ Quiet /\ run.pc = "next" /\ run.queue # <<>>
        /\ Becomes("next", Tail(run.queue), <<>>, run.drafts, run.dispositions,
                   run.note, run.failed, run.quit)
    BY <1>8, SessionRows
  <2> QED
    BY <1>1, <2>1 DEF Goes
<1>9. CASE Quit
  BY <1>1, <1>9, SessionRows DEF Goes, OverPc
<1> QED
  BY <1>2, <1>3, <1>4, <1>5, <1>6, <1>7, <1>8, <1>9

\* The steps that end a command before its output is complete.
LEMMA HaltsRow ==
    ASSUME TInv, RecordFails \/ OutputFails \/ CloseFails \/ Kill
    PROVE  /\ Halts /\ run.pc # "idle"
           /\ run'.end = "ok" => run.pc = "publishing"
<1>1. Halts /\ run.pc # "idle"
  BY CommitRows DEF Halts, Exit
<1>2. CASE CloseFails
  BY <1>1, <1>2, CommitRows
<1>3. CASE RecordFails \/ OutputFails \/ Kill
  <2>1. Stops("error") \/ Stops("killed")
    BY <1>3, CommitRows
  <2>2. run'.end \in {"error", "killed"}
    BY <2>1 DEF Stops
  <2> QED
    BY <1>1, <2>2
<1> QED
  BY <1>2, <1>3

\* Every step is one of these.
LEMMA NextRows ==
    ASSUME TInv, Next
    PROVE  \/ Starts \/ Goes
           \/ Halts /\ run.pc # "idle" /\ (run'.end = "ok" => run.pc = "publishing")
           \/ ExtractReply \/ CritiqueReply \/ AssistReply
           \/ AssistAccept \/ AssistEdit \/ AssistAbandon \/ ReviewKeep
           \/ OpenRecord \/ WriteRecord \/ OpenOutput \/ WriteOutput
<1>1. \/ Begin
      \/ LoadTemplate \/ QueueEmpty \/ ExtractFails \/ CritiqueFails
           \/ AssistFails \/ SkipFailed \/ ReviewSkip \/ Quit
      \/ RecordFails \/ OutputFails \/ CloseFails \/ Kill
      \/ ExtractReply \/ CritiqueReply \/ AssistReply
      \/ AssistAccept \/ AssistEdit \/ AssistAbandon \/ ReviewKeep
      \/ OpenRecord \/ WriteRecord \/ OpenOutput \/ WriteOutput
  BY DEF Next, Program, Ask, Analyst, Commit
<1> QED
  BY <1>1, BeginRow, GoesRow, HaltsRow


\* A command that stops is still well typed.
LEMMA TypedStops ==
    ASSUME TInv, NEW how \in {"ok", "error", "killed"}, Stops(how)
    PROVE  RunTyped(run') /\ RunFits(run')
  BY DEF TInv, RunTyped, RunFits, Stops, Pcs

\* What a record holds.
LEMMA RecordTyped ==
    ASSUME TInv
    PROVE  /\ ThisRecord \in Record
           /\ ThisRecord.session = run.session /\ ThisRecord.cmd = run.cmd
           /\ ThisRecord.ids = IdsOf(run.drafts) /\ ThisRecord.dispositions = run.dispositions
           /\ IdsOf(run.drafts) \in Seq(Nat) /\ DOMAIN IdsOf(run.drafts) = DOMAIN run.drafts
           /\ \A i \in DOMAIN run.drafts : IdsOf(run.drafts)[i] = run.drafts[i].id
<1>1. /\ run.drafts \in Seq(Draft) /\ run.cmd \in Commands /\ run.note \in BOOLEAN
      /\ run.dispositions \in Seq(Disposition) /\ run.session \in 0..MaxSessions
  BY DEF TInv, RunTyped
<1>2. run.session \in Nat
  <2>1. MaxSessions \in Nat
    BY SessionAssumption
  <2> QED
    BY <1>1, <2>1
<1>3. /\ DOMAIN run.drafts = 1..Len(run.drafts) /\ Len(run.drafts) \in Nat
      /\ \A i \in DOMAIN run.drafts : run.drafts[i] \in Draft
  BY <1>1
<1>4. IdsOf(run.drafts) \in [1..Len(run.drafts) -> Nat]
  BY <1>3 DEF IdsOf, Draft
<1>5. /\ IdsOf(run.drafts) \in Seq(Nat) /\ DOMAIN IdsOf(run.drafts) = DOMAIN run.drafts
      /\ \A i \in DOMAIN run.drafts : IdsOf(run.drafts)[i] = run.drafts[i].id
  BY <1>3, <1>4 DEF IdsOf
<1>6. /\ ThisRecord.session = run.session /\ ThisRecord.cmd = run.cmd
      /\ ThisRecord.ids = IdsOf(run.drafts) /\ ThisRecord.dispositions = run.dispositions
  BY DEF ThisRecord
<1>7. ThisRecord \in Record
  BY <1>1, <1>2, <1>5 DEF ThisRecord, Record
<1> QED
  BY <1>5, <1>6, <1>7

\* No command has begun.
LEMMA TypesStart ==
    ASSUME Init
    PROVE  TInv
<1>1. PICK spans \in Found, p \in Path :
         /\ issued = Handwritten(spans)
         /\ files = [[q \in Path |-> Output("none", <<>>)]
                       EXCEPT ![p] = IF spans = <<>> THEN @
                                     ELSE Output("whole", Handwritten(spans))]
  BY DEF Init
<1>2. spans \in Seq(Span)
  <2>1. Found \subseteq Seq(Span)
    BY SessionAssumption
  <2> QED
    BY <1>1, <2>1
<1>3. Handwritten(spans) \in Seq(Draft)
  <2>1. DOMAIN spans = 1..Len(spans) /\ Len(spans) \in Nat /\ \A i \in DOMAIN spans : spans[i] \in Span
    BY <1>2
  <2>2. Handwritten(spans) \in [1..Len(spans) -> Draft]
    BY <2>1 DEF Handwritten, Draft, Stages, NoId
  <2> QED
    BY <2>1, <2>2
<1>4. /\ Output("none", <<>>) \in [is : {"none", "torn", "whole"}, drafts : Seq(Draft)]
      /\ Output("whole", Handwritten(spans)) \in [is : {"none", "torn", "whole"}, drafts : Seq(Draft)]
  BY <1>3 DEF Output
<1>5. files \in [Path -> [is : {"none", "torn", "whole"}, drafts : Seq(Draft)]]
  BY <1>1, <1>4
<1>6. archive = {} /\ records = [p1 \in Path |-> Saved("none", {})]
  BY DEF Init
<1>7. records \in [Path -> [is : {"none", "torn", "whole"}, record : SUBSET Record]]
  BY <1>6 DEF Saved
<1>8. RunTyped(run) /\ RunFits(run)
  <2>1. run = Idle /\ MaxSessions \in Nat
    BY SessionAssumption DEF Init
  <2> DEFINE r == Idle
  <2>2. /\ DOMAIN r = Fields /\ r.pc = "idle" /\ r.end = "none" /\ r.session = 0
        /\ r.cmd = "review" /\ r.queue = <<>> /\ r.size = 0 /\ r.shown = <<>>
        /\ r.drafts = <<>> /\ r.dispositions = <<>> /\ r.note = FALSE /\ r.failed = FALSE
        /\ r.quit = FALSE
    BY DEF Idle, Fields
  <2> HIDE DEF r
  <2>3. run = r
    BY <2>1 DEF r
  <2>4. <<>> \in Seq(Draft) /\ <<>> \in Seq(Disposition) /\ 0 \in Nat /\ 0 \in 0..MaxSessions
    BY <2>1
  <2>5. "idle" \in Pcs /\ "review" \in Commands
    BY DEF Pcs, Commands
  <2>6. RunTyped(r)
    BY <2>2, <2>4, <2>5 DEF RunTyped
  <2>7. RunFits(r)
    BY <2>2, <2>4 DEF RunFits
  <2> QED
    BY <2>3, <2>6, <2>7
<1> QED
  BY <1>1, <1>3, <1>5, <1>6, <1>7, <1>8 DEF TInv

\* Every step keeps the types: one case for each row of the table above.
LEMMA TypesKept ==
    ASSUME TInv, [Next]_vars
    PROVE  TInv'
<1> USE DEF Quiet, Beside
<1>1. /\ issued \in Seq(Draft) /\ archive \subseteq Record
      /\ files \in [Path -> [is : {"none", "torn", "whole"}, drafts : Seq(Draft)]]
      /\ records \in [Path -> [is : {"none", "torn", "whole"}, record : SUBSET Record]]
      /\ RunTyped(run) /\ RunFits(run)
  BY DEF TInv
<1>2. /\ run.shown \in Seq(Draft) /\ run.drafts \in Seq(Draft)
      /\ run.dispositions \in Seq(Disposition) /\ run.note \in BOOLEAN
      /\ run.failed \in BOOLEAN /\ run.quit \in BOOLEAN
      /\ <<>> \in Seq(Draft) /\ <<>> \in Seq(Disposition)
  BY <1>1 DEF RunTyped
<1>3. /\ run.queue # <<>> /\ run.queue \in Seq(Span) => Tail(run.queue) \in Seq(Span)
      /\ run.queue # <<>> /\ run.queue \in Seq(Draft) => Tail(run.queue) \in Seq(Draft)
  OBVIOUS
<1>4. CASE Starts
  <2>1. PICK cmd \in Commands, dest \in Path, queue \in Seq(Span) \cup Seq(Draft) :
          /\ run' = Started(cmd, dest, queue) /\ run.session < MaxSessions
          /\ cmd \in {"extract", "assist"} => queue \in Seq(Span)
          /\ cmd \in {"critique", "review"} => queue \in Seq(Draft)
    BY <1>4 DEF Starts
  <2> DEFINE r == run'
  <2>2. /\ DOMAIN r = Fields /\ r.pc = IF cmd = "review" THEN "next" ELSE "load"
        /\ r.end = "none" /\ r.session = run.session + 1 /\ r.cmd = cmd
        /\ r.dest = dest /\ r.queue = queue /\ r.size = Len(queue)
        /\ r.shown = <<>> /\ r.drafts = <<>> /\ r.dispositions = <<>>
        /\ r.note = FALSE /\ r.failed = FALSE /\ r.quit = FALSE
    BY <2>1 DEF Started, Idle, Fields
  <2> HIDE DEF r
  <2>3. run' = r
    BY DEF r
  <2>4. run.session + 1 \in 0..MaxSessions
    <3>1. MaxSessions \in Nat
      BY SessionAssumption
    <3> QED
      BY <1>1, <2>1, <3>1 DEF RunTyped
  <2>5. Len(queue) \in Nat
    OBVIOUS
  <2>6. RunTyped(r)
    <3>1. r.pc \in Pcs
      BY <2>2 DEF Pcs
    <3> QED
      BY <1>2, <2>2, <2>4, <2>5, <3>1 DEF RunTyped
  <2>7. RunFits(r)
    BY <2>1, <2>2 DEF RunFits
  <2> QED
    BY <1>1, <1>4, <2>3, <2>6, <2>7 DEF Starts, TInv
<1>5. CASE Goes
  <2>1. PICK pc \in {"next", "retry", "record", "publish"}, note \in BOOLEAN,
             failed \in BOOLEAN, quit \in BOOLEAN :
          \E queue :
             /\ \/ queue = run.queue \/ queue = <<>>
                \/ run.queue # <<>> /\ queue = Tail(run.queue)
             /\ Becomes(pc, queue, <<>>, run.drafts, run.dispositions, note, failed, quit)
             /\ pc = "retry" => run.cmd = "assist" /\ queue # <<>>
             /\ pc = "record" => run.cmd # "review"
             /\ pc = "publish" => run.cmd = "review"
    BY <1>5 DEF Goes
  <2>2. PICK queue :
             /\ \/ queue = run.queue \/ queue = <<>>
                \/ run.queue # <<>> /\ queue = Tail(run.queue)
             /\ Becomes(pc, queue, <<>>, run.drafts, run.dispositions, note, failed, quit)
             /\ pc = "retry" => run.cmd = "assist" /\ queue # <<>>
             /\ pc = "record" => run.cmd # "review"
             /\ pc = "publish" => run.cmd = "review"
    BY <2>1
  <2>3. RunTyped(run')
    BY <1>2, <2>2, <1>1 DEF Becomes, RunTyped, Pcs
  <2>4. /\ run.cmd \in {"extract", "assist"} => queue \in Seq(Span)
        /\ run.cmd \in {"critique", "review"} => queue \in Seq(Draft)
    <3>1. <<>> \in Seq(Span) /\ <<>> \in Seq(Draft)
      OBVIOUS
    <3> QED
      BY <1>1, <1>3, <2>2, <3>1 DEF RunFits
  <2>5. run.pc # "idle"
    BY <1>5 DEF Goes
  <2>6. RunFits(run')
    BY <1>1, <2>2, <2>4, <2>5 DEF RunFits, Becomes
  <2> QED
    BY <1>1, <1>5, <2>3, <2>6 DEF Goes, TInv
<1>6. CASE Halts
  BY <1>1, <1>6, TypedStops DEF Halts, TInv
<1>7. CASE ExtractReply
  <2>1. /\ run.pc = "next" /\ run.cmd = "extract" /\ run.queue # <<>> /\ Beside
    BY <1>7, ExtractRow
  <2>2. PICK new : /\ FromLLM(new, "weak-draft") /\ issued' = issued \o new
                   /\ Becomes("next", Tail(run.queue), <<>>, run.drafts \o new,
                              run.dispositions, run.note, run.failed, run.quit)
    BY <1>7, ExtractRow
  <2>3. new \in Seq(Draft)
    BY <2>2 DEF FromLLM
  <2>4. issued \o new \in Seq(Draft) /\ run.drafts \o new \in Seq(Draft)
    BY <1>1, <1>2, <2>3
  <2>5. RunTyped(run')
    BY <1>2, <2>2, <2>4, <1>1 DEF Becomes, RunTyped, Pcs
  <2>6. RunFits(run')
    BY <1>1, <1>3, <2>1, <2>2 DEF RunFits, Becomes
  <2> QED
    BY <1>1, <2>1, <2>2, <2>4, <2>5, <2>6 DEF TInv
<1>8. CASE CritiqueReply \/ ReviewKeep
  <2>1. /\ run.pc = "next" /\ run.cmd \in {"critique", "review"} /\ run.queue # <<>> /\ Beside
    BY <1>8, CritiqueRow, ReviewRow
  <2>2. PICK d : /\ d \in Draft /\ issued' = issued \o <<d>>
                 /\ Becomes("next", Tail(run.queue), <<>>, run.drafts \o <<d>>,
                            run.dispositions, run.note, run.failed, run.quit)
    BY <1>8, CritiqueRow, ReviewRow DEF NewDraft
  <2>3. issued \o <<d>> \in Seq(Draft) /\ run.drafts \o <<d>> \in Seq(Draft)
    BY <1>1, <1>2, <2>2
  <2>4. RunTyped(run')
    BY <1>2, <2>2, <2>3, <1>1 DEF Becomes, RunTyped, Pcs
  <2>5. RunFits(run')
    BY <1>1, <1>3, <2>1, <2>2 DEF RunFits, Becomes
  <2> QED
    BY <1>1, <2>1, <2>2, <2>3, <2>4, <2>5 DEF TInv
<1>9. CASE AssistReply
  <2>1. /\ run.pc = "next" /\ run.cmd = "assist" /\ run.queue # <<>> /\ Beside
    BY <1>9, AssistRow
  <2>2. PICK d : /\ d \in Draft /\ issued' = issued \o <<d>>
                 /\ Becomes("prompt", run.queue, <<d>>, run.drafts,
                            run.dispositions, run.note, run.failed, run.quit)
    BY <1>9, AssistRow DEF NewDraft
  <2>3. issued \o <<d>> \in Seq(Draft) /\ <<d>> \in Seq(Draft) /\ Len(<<d>>) = 1
    BY <1>1, <2>2
  <2>4. RunTyped(run')
    BY <1>2, <2>2, <2>3, <1>1 DEF Becomes, RunTyped, Pcs
  <2>5. RunFits(run')
    BY <1>1, <2>1, <2>2, <2>3 DEF RunFits, Becomes
  <2> QED
    BY <1>1, <2>1, <2>2, <2>3, <2>4, <2>5 DEF TInv
<1>10. ASSUME At("prompt", {"assist"}), NEW action \in Actions
       PROVE  Append(run.dispositions, [id |-> run.shown[1].id, action |-> action])
                \in Seq(Disposition)
  <2>1. run.shown[1].id \in Nat
    BY <1>10, ShownFacts DEF Draft
  <2>2. [id |-> run.shown[1].id, action |-> action] \in Disposition
    BY <1>10, <2>1 DEF Disposition
  <2> QED
    BY <1>2, <2>2
<1>11. CASE AssistAccept
  <2>1. At("prompt", {"assist"}) /\ Quiet
    BY <1>11, AnalystRows
  <2>2. PICK action \in {"accepted", "skipped"} :
           Becomes("next", Tail(run.queue), <<>>, run.drafts \o run.shown,
                   Append(run.dispositions, [id |-> run.shown[1].id, action |-> action]),
                   run.note, run.failed, run.quit)
    BY <1>11, AnalystRows
  <2>3. /\ run.drafts \o run.shown \in Seq(Draft) /\ run.queue # <<>>
        /\ run.pc = "prompt" /\ run.cmd = "assist"
    BY <2>1, ShownFacts
  <2>4. Append(run.dispositions, [id |-> run.shown[1].id, action |-> action])
          \in Seq(Disposition)
    BY <1>10, <2>1 DEF Actions
  <2>5. RunTyped(run')
    BY <1>2, <2>2, <2>3, <2>4, <1>1 DEF Becomes, RunTyped, Pcs
  <2>6. RunFits(run')
    BY <1>1, <1>3, <2>2, <2>3 DEF RunFits, Becomes
  <2> QED
    BY <1>1, <2>1, <2>5, <2>6 DEF TInv
<1>12. CASE AssistEdit
  <2>1. At("prompt", {"assist"}) /\ Beside
    BY <1>12, AnalystRows
  <2>2. PICK d : /\ d \in Draft /\ issued' = issued \o <<d>>
                 /\ Becomes("next", Tail(run.queue), <<>>,
                            run.drafts \o run.shown \o <<d>>,
                            Append(run.dispositions,
                                   [id |-> run.shown[1].id, action |-> "edited"]),
                            run.note, run.failed, run.quit)
    BY <1>12, AnalystRows DEF NewDraft
  <2>3. /\ run.drafts \o run.shown \in Seq(Draft) /\ run.queue # <<>>
        /\ run.pc = "prompt" /\ run.cmd = "assist"
    BY <2>1, ShownFacts
  <2>4. Append(run.dispositions, [id |-> run.shown[1].id, action |-> "edited"])
          \in Seq(Disposition)
    BY <1>10, <2>1 DEF Actions
  <2>5. run.drafts \o run.shown \o <<d>> \in Seq(Draft) /\ issued \o <<d>> \in Seq(Draft)
    BY <1>1, <2>2, <2>3
  <2>6. RunTyped(run')
    BY <1>2, <2>2, <2>4, <2>5, <1>1 DEF Becomes, RunTyped, Pcs
  <2>7. RunFits(run')
    BY <1>1, <1>3, <2>2, <2>3 DEF RunFits, Becomes
  <2> QED
    BY <1>1, <2>1, <2>2, <2>5, <2>6, <2>7 DEF TInv
<1>13. CASE AssistAbandon
  <2>1. /\ At("prompt", {"assist"}) /\ Quiet
        /\ Becomes("record", <<>>, <<>>, run.drafts \o run.shown,
                   Append(run.dispositions,
                          [id |-> run.shown[1].id, action |-> "abandoned"]),
                   run.note, run.failed, TRUE)
    BY <1>13, AnalystRows
  <2>2. /\ run.drafts \o run.shown \in Seq(Draft) /\ run.queue # <<>>
        /\ run.pc = "prompt" /\ run.cmd = "assist"
    BY <2>1, ShownFacts
  <2>3. Append(run.dispositions, [id |-> run.shown[1].id, action |-> "abandoned"])
          \in Seq(Disposition)
    BY <1>10, <2>1 DEF Actions
  <2>4. RunTyped(run')
    BY <1>2, <2>1, <2>2, <2>3, <1>1 DEF Becomes, RunTyped, Pcs
  <2>5. RunFits(run')
    BY <1>1, <2>1, <2>2 DEF RunFits, Becomes
  <2> QED
    BY <1>1, <2>1, <2>4, <2>5 DEF TInv
<1>14. ASSUME NEW pc \in {"recording", "publish", "publishing"}, Turns(pc),
              run.pc \in {"record", "recording", "publish"},
              pc = "recording" => run.pc = "record"
       PROVE  RunTyped(run') /\ RunFits(run')
  <2>1. RunTyped(run')
    BY <1>2, <1>14, <1>1 DEF Turns, Becomes, RunTyped, Pcs
  <2>2. RunFits(run')
    BY <1>1, <1>14 DEF RunFits, Turns, Becomes
  <2> QED
    BY <2>1, <2>2
<1>15. CASE OpenRecord
  <2>1. /\ run.pc = "record" /\ UNCHANGED <<files, issued, archive>>
        /\ records' = [records EXCEPT ![run.dest] = Saved("torn", {})] /\ Turns("recording")
    BY <1>15, CommitRows
  <2>2. records' \in [Path -> [is : {"none", "torn", "whole"}, record : SUBSET Record]]
    BY <1>1, <2>1 DEF Saved
  <2> QED
    BY <1>1, <1>14, <2>1, <2>2 DEF TInv
<1>16. CASE WriteRecord
  <2>1. /\ run.pc = "recording" /\ UNCHANGED <<files, issued>>
        /\ records' = [records EXCEPT ![run.dest] = Saved("whole", {ThisRecord})]
        /\ archive' = archive \cup {ThisRecord}
        /\ Stops("error") \/ Turns("publish")
    BY <1>16, CommitRows
  <2>2. ThisRecord \in Record
    BY RecordTyped
  <2>3. records' \in [Path -> [is : {"none", "torn", "whole"}, record : SUBSET Record]]
    BY <1>1, <2>1, <2>2 DEF Saved
  <2>4. RunTyped(run') /\ RunFits(run')
    BY <1>14, <2>1, TypedStops
  <2> QED
    BY <1>1, <2>1, <2>2, <2>3, <2>4 DEF TInv
<1>17. CASE OpenOutput
  <2>1. /\ run.pc = "publish" /\ UNCHANGED <<records, issued, archive>>
        /\ files' = [files EXCEPT ![run.dest] = Output("torn", <<>>)] /\ Turns("publishing")
    BY <1>17, CommitRows
  <2>2. files' \in [Path -> [is : {"none", "torn", "whole"}, drafts : Seq(Draft)]]
    BY <1>1, <1>2, <2>1 DEF Output
  <2> QED
    BY <1>1, <1>14, <2>1, <2>2 DEF TInv
<1>18. CASE WriteOutput
  <2>1. /\ run.pc = "publishing" /\ UNCHANGED <<records, issued, archive>>
        /\ files' = [files EXCEPT ![run.dest] = Output("whole", run.drafts)] /\ Stops(Exit)
    BY <1>18, CommitRows
  <2>2. files' \in [Path -> [is : {"none", "torn", "whole"}, drafts : Seq(Draft)]]
    BY <1>1, <1>2, <2>1 DEF Output
  <2>3. RunTyped(run') /\ RunFits(run')
    BY <2>1, TypedStops DEF Exit
  <2> QED
    BY <1>1, <2>1, <2>2, <2>3 DEF TInv
<1>19. CASE UNCHANGED vars
  BY <1>1, <1>19 DEF TInv, vars
<1> QED
  BY <1>4, <1>5, <1>6, <1>7, <1>8, <1>9, <1>11, <1>12, <1>13, <1>15, <1>16, <1>17, <1>18,
     <1>19, NextRows

\* Types are kept.
LEMMA TypesInvariant == Spec => []TInv
<1>1. Init => TInv
  BY TypesStart
<1>2. TInv /\ [Next]_vars => TInv'
  BY TypesKept
<1> QED
  BY <1>1, <1>2, PTL DEF Spec

\* Every variable holds what its declaration in the Go source allows (types.go,
\* session.go), whatever the LLM, the analyst and the disk do.
THEOREM TypeCorrect == Spec => []TypeOK
<1>1. TInv => TypeOK
  <2> SUFFICES ASSUME TInv
               PROVE  TypeOK
    OBVIOUS
  <2>1. ThisRecord \in Record
    BY RecordTyped
  <2>2. run.pc = "prompt" <=> run.shown # <<>>
    <3>1. /\ run.pc = "prompt" => Len(run.shown) = 1
          /\ run.pc # "prompt" => run.shown = <<>>
      BY DEF TInv, RunFits
    <3>2. Len(<<>>) # 1
      OBVIOUS
    <3> QED
      BY <3>1, <3>2
  <2> QED
    BY <2>1, <2>2 DEF TInv, RunTyped, RunFits, TypeOK, Pcs
<1> QED
  BY <1>1, TypesInvariant, PTL


(***************************************************************************)
(* Derivation.                                                              *)
(***************************************************************************)

\* A draft that was given its ID and is as it was then, for a list of those issued.
Known(log, d) == d.id \in DOMAIN log /\ log[d.id] = d
AllKnown(log, s) == \A i \in DOMAIN s : Known(log, s[i])

Numbered == \A i \in DOMAIN issued : issued[i].id = i

\* Drafts are never changed: what the files and the command hold is what was
\* issued, so a parent is found under its ID.
KInv ==
    /\ Numbered
    /\ DerivationIsGrounded
    /\ \A p \in Path : AllKnown(issued, files[p].drafts)
    /\ AllKnown(issued, run.drafts) /\ AllKnown(issued, run.shown)
    /\ run.cmd = "assist" => \A i \in DOMAIN run.shown : run.shown[i].stage = "weak-draft"
    /\ run.cmd \in {"critique", "review"} => AllKnown(issued, run.queue)
    /\ run.cmd = "review" => \A i \in DOMAIN run.queue : run.queue[i].stage # "reviewed"

\* A draft that may be added: it derives from one that is known, if at all.
MayAdd(d) ==
    d.stage \in {"critiqued", "reviewed"} =>
        \E p \in Draft : /\ Known(issued, p) /\ d.parent = p.id /\ d.span = p.span
                         /\ d.stage = "reviewed" => p.stage # "reviewed"

\* New drafts leave the old ones known and are known themselves.
LEMMA Growth ==
    ASSUME TInv, KInv, NEW new \in Seq(Draft), issued' = issued \o new,
           \A i \in DOMAIN new : new[i].id = Len(issued) + i /\ MayAdd(new[i])
    PROVE  /\ Numbered' /\ DerivationIsGrounded'
           /\ \A d : Known(issued, d) => Known(issued', d)
           /\ \A s : AllKnown(issued, s) => AllKnown(issued', s)
           /\ AllKnown(issued', new)
<1>1. issued \in Seq(Draft) /\ Numbered /\ DerivationIsGrounded
  BY DEF TInv, KInv
<1>2. /\ \A i \in DOMAIN issued : i \in DOMAIN issued' /\ issued'[i] = issued[i]
      /\ \A i \in DOMAIN new : Len(issued) + i \in DOMAIN issued' /\ issued'[Len(issued) + i] = new[i]
      /\ \A i \in DOMAIN issued' :
            \/ i \in DOMAIN issued /\ issued'[i] = issued[i]
            \/ i - Len(issued) \in DOMAIN new /\ i = Len(issued) + (i - Len(issued))
                 /\ issued'[i] = new[i - Len(issued)]
  BY <1>1, ConcatFacts
<1>3. \A d : Known(issued, d) => Known(issued', d)
  BY <1>2 DEF Known
<1>4. \A s : AllKnown(issued, s) => AllKnown(issued', s)
  BY <1>3 DEF AllKnown
<1>5. Numbered'
  BY <1>1, <1>2 DEF Numbered
<1>6. AllKnown(issued', new)
  BY <1>2 DEF AllKnown, Known
<1>7. /\ Len(issued) \in Nat /\ DOMAIN issued = 1..Len(issued)
      /\ DOMAIN new = 1..Len(new) /\ Len(new) \in Nat
  BY <1>1
<1>8. ASSUME NEW i \in DOMAIN issued', issued'[i].stage \in {"critiqued", "reviewed"}
      PROVE  /\ issued'[i].parent \in 1..(i - 1)
             /\ issued'[issued'[i].parent].span = issued'[i].span
             /\ issued'[i].stage = "reviewed" => issued'[issued'[i].parent].stage # "reviewed"
  <2>1. CASE i \in DOMAIN issued /\ issued'[i] = issued[i]
    <3>1. /\ issued[i].parent \in 1..(i - 1)
          /\ issued[issued[i].parent].span = issued[i].span
          /\ issued[i].stage = "reviewed" => issued[issued[i].parent].stage # "reviewed"
      BY <1>1, <1>8, <2>1 DEF DerivationIsGrounded
    <3>2. issued[i].parent \in DOMAIN issued
      BY <1>7, <2>1, <3>1
    <3> QED
      BY <1>2, <2>1, <3>1, <3>2
  <2>2. CASE i - Len(issued) \in DOMAIN new /\ i = Len(issued) + (i - Len(issued))
                 /\ issued'[i] = new[i - Len(issued)]
    <3>1. MayAdd(issued'[i])
      BY <2>2
    <3>2. PICK p \in Draft : /\ Known(issued, p) /\ issued'[i].parent = p.id /\ issued'[i].span = p.span
                             /\ issued'[i].stage = "reviewed" => p.stage # "reviewed"
      BY <1>8, <3>1 DEF MayAdd
    <3>3. p.id \in DOMAIN issued /\ issued[p.id] = p
      BY <3>2 DEF Known
    <3>4. i \in Int /\ Len(issued) < i
      BY <1>7, <2>2
    <3>5. p.id \in 1..(i - 1)
      BY <1>7, <3>3, <3>4
    <3> QED
      BY <1>2, <3>2, <3>3, <3>5
  <2> QED
    BY <1>2, <2>1, <2>2
<1>9. DerivationIsGrounded'
  BY <1>8 DEF DerivationIsGrounded
<1> QED
  BY <1>3, <1>4, <1>5, <1>6, <1>9

\* One new draft.
LEMMA GrowthByOne ==
    ASSUME TInv, KInv, NEW d, NEW session, NEW stage, NEW parent, NEW span,
           NewDraft(d, session, stage, parent, span), issued' = issued \o <<d>>, MayAdd(d)
    PROVE  /\ Numbered' /\ DerivationIsGrounded'
           /\ \A e : Known(issued, e) => Known(issued', e)
           /\ \A s : AllKnown(issued, s) => AllKnown(issued', s)
           /\ Known(issued', d)
<1>1. d \in Draft /\ d.id = Len(issued) + 1
  BY DEF NewDraft
<1> DEFINE new == <<d>>
<1>2. new \in Seq(Draft) /\ DOMAIN new = {1} /\ new[1] = d
  BY <1>1
<1> HIDE DEF new
<1>3. \A i \in DOMAIN new : new[i].id = Len(issued) + i /\ MayAdd(new[i])
  BY <1>1, <1>2
<1>4. issued' = issued \o new
  BY DEF new
<1>5. /\ Numbered' /\ DerivationIsGrounded'
      /\ \A e : Known(issued, e) => Known(issued', e)
      /\ \A s : AllKnown(issued, s) => AllKnown(issued', s)
      /\ AllKnown(issued', new)
  BY <1>2, <1>3, <1>4, Growth
<1>6. Known(issued', d)
  BY <1>2, <1>5 DEF AllKnown
<1> QED
  BY <1>5, <1>6

\* What sequences of known drafts are made of.
LEMMA KnownSequences ==
    ASSUME NEW log
    PROVE  /\ AllKnown(log, <<>>)
           /\ \A u, v \in Seq(Draft) : AllKnown(log, u) /\ AllKnown(log, v) => AllKnown(log, u \o v)
           /\ \A u \in Seq(Draft) : AllKnown(log, u) /\ u # <<>> =>
                 AllKnown(log, Tail(u)) /\ Known(log, Head(u))
           /\ \A d : Known(log, d) => AllKnown(log, <<d>>)
<1>1. AllKnown(log, <<>>)
  BY DEF AllKnown
<1>2. ASSUME NEW u \in Seq(Draft), NEW v \in Seq(Draft), AllKnown(log, u), AllKnown(log, v)
      PROVE  AllKnown(log, u \o v)
  <2>1. \A i \in DOMAIN (u \o v) :
                 \/ i \in DOMAIN u /\ (u \o v)[i] = u[i]
                 \/ i - Len(u) \in DOMAIN v /\ i = Len(u) + (i - Len(u))
                      /\ (u \o v)[i] = v[i - Len(u)]
    BY ConcatFacts
  <2> QED
    BY <1>2, <2>1 DEF AllKnown
<1>3. ASSUME NEW u \in Seq(Draft), AllKnown(log, u), u # <<>>
      PROVE  AllKnown(log, Tail(u)) /\ Known(log, Head(u))
  <2>1. /\ 1 \in DOMAIN u /\ Head(u) = u[1]
        /\ \A i \in DOMAIN Tail(u) : i + 1 \in DOMAIN u /\ Tail(u)[i] = u[i + 1]
    BY <1>3, TailFacts
  <2> QED
    BY <1>3, <2>1 DEF AllKnown
<1>4. ASSUME NEW d, Known(log, d)
      PROVE  AllKnown(log, <<d>>)
  <2>1. DOMAIN <<d>> = {1} /\ <<d>>[1] = d
    OBVIOUS
  <2> QED
    BY <1>4, <2>1 DEF AllKnown
<1> QED
  BY <1>1, <1>2, <1>3, <1>4


\* No draft has been issued.
LEMMA KnownStart ==
    ASSUME Init
    PROVE  KInv
<1>1. PICK spans \in Found, p \in Path :
         /\ issued = Handwritten(spans)
         /\ files = [[q \in Path |-> Output("none", <<>>)]
                       EXCEPT ![p] = IF spans = <<>> THEN @
                                     ELSE Output("whole", Handwritten(spans))]
  BY DEF Init
<1>2. \A i \in DOMAIN issued : issued[i].id = i /\ issued[i].stage = ""
  BY <1>1 DEF Handwritten
<1>3. AllKnown(issued, issued) /\ AllKnown(issued, <<>>)
  <2>1. AllKnown(issued, issued)
    BY <1>2 DEF AllKnown, Known
  <2>2. AllKnown(issued, <<>>)
    BY KnownSequences
  <2> QED
    BY <2>1, <2>2
<1>4. \A q \in Path : files[q].drafts \in {issued, <<>>}
  BY <1>1 DEF Output
<1>5. run.drafts = <<>> /\ run.shown = <<>> /\ run.queue = <<>>
  BY DEF Init, Idle
<1>6. Numbered /\ DerivationIsGrounded
  BY <1>2 DEF Numbered, DerivationIsGrounded
<1> QED
  BY <1>3, <1>4, <1>5, <1>6 DEF KInv

\* Every step keeps every draft in hand, in a file and in a queue one that
\* was issued.
LEMMA KnownKept ==
    ASSUME TInv, KInv, [Next]_vars
    PROVE  KInv'
<1> USE DEF Quiet, Beside
<1>1. /\ issued \in Seq(Draft) /\ run.shown \in Seq(Draft) /\ run.drafts \in Seq(Draft)
      /\ files \in [Path -> [is : {"none", "torn", "whole"}, drafts : Seq(Draft)]]
      /\ run.cmd \in {"critique", "review"} => run.queue \in Seq(Draft)
      /\ run.pc # "idle" => run.dest \in Path
  BY DEF TInv, RunTyped, RunFits
<1>2. /\ Numbered /\ DerivationIsGrounded
      /\ \A p \in Path : AllKnown(issued, files[p].drafts)
      /\ AllKnown(issued, run.drafts) /\ AllKnown(issued, run.shown)
      /\ run.cmd = "assist" => \A i \in DOMAIN run.shown : run.shown[i].stage = "weak-draft"
      /\ run.cmd \in {"critique", "review"} => AllKnown(issued, run.queue)
      /\ run.cmd = "review" => \A i \in DOMAIN run.queue : run.queue[i].stage # "reviewed"
  BY DEF KInv
<1>3. /\ AllKnown(issued, <<>>) /\ DOMAIN <<>> = {}
      /\ AllKnown(issued', <<>>)
  <2>1. AllKnown(issued, <<>>)
    BY KnownSequences
  <2>2. AllKnown(issued', <<>>)
    BY KnownSequences
  <2> QED
    BY <2>1, <2>2
\* The queue of critique or review without its head.
<1>4. ASSUME run.queue # <<>>, run.cmd \in {"critique", "review"}
      PROVE  /\ AllKnown(issued, Tail(run.queue))
             /\ Known(issued, Head(run.queue)) /\ Head(run.queue) \in Draft
             /\ run.cmd = "review" =>
                  /\ \A i \in DOMAIN Tail(run.queue) : Tail(run.queue)[i].stage # "reviewed"
                  /\ Head(run.queue).stage # "reviewed"
  <2>1. run.queue \in Seq(Draft)
    BY <1>1, <1>4
  <2>2. AllKnown(issued, Tail(run.queue)) /\ Known(issued, Head(run.queue))
    BY <1>2, <1>4, <2>1, KnownSequences
  <2>3. /\ 1 \in DOMAIN run.queue /\ Head(run.queue) = run.queue[1] /\ Head(run.queue) \in Draft
        /\ \A i \in DOMAIN Tail(run.queue) :
              i + 1 \in DOMAIN run.queue /\ Tail(run.queue)[i] = run.queue[i + 1]
    BY <1>4, <2>1, TailFacts
  <2> QED
    BY <1>2, <2>2, <2>3
\* Nothing but the queue and the draft that is shown changes.
<1>5. ASSUME UNCHANGED <<files, issued>>, run'.drafts = run.drafts, run'.shown = <<>>,
             run'.cmd = run.cmd,
             \/ run'.queue = run.queue \/ run'.queue = <<>>
             \/ run.queue # <<>> /\ run'.queue = Tail(run.queue)
      PROVE  KInv'
  <2>1. run.cmd \in {"critique", "review"} => AllKnown(issued', run'.queue)
    BY <1>2, <1>3, <1>4, <1>5
  <2>2. run.cmd = "review" => \A i \in DOMAIN run'.queue : run'.queue[i].stage # "reviewed"
    BY <1>2, <1>3, <1>4, <1>5
  <2>3. Numbered' /\ DerivationIsGrounded'
    BY <1>2, <1>5 DEF Numbered, DerivationIsGrounded
  <2> QED
    BY <1>2, <1>3, <1>5, <2>1, <2>2, <2>3 DEF KInv
\* New drafts, and what is done with them.
<1>6. ASSUME files' = files, run'.cmd = run.cmd,
             Numbered', DerivationIsGrounded',
             \A s : AllKnown(issued, s) => AllKnown(issued', s),
             AllKnown(issued', run'.drafts), AllKnown(issued', run'.shown),
             run.cmd = "assist" => \A i \in DOMAIN run'.shown : run'.shown[i].stage = "weak-draft",
             run.cmd \in {"critique", "review"} =>
                run.queue # <<>> /\ run'.queue = Tail(run.queue)
      PROVE  KInv'
  <2>1. \A p \in Path : AllKnown(issued', files'[p].drafts)
    BY <1>2, <1>6
  <2>2. run'.cmd \in {"critique", "review"} => AllKnown(issued', run'.queue)
    BY <1>4, <1>6
  <2>3. run'.cmd = "review" => \A i \in DOMAIN run'.queue : run'.queue[i].stage # "reviewed"
    BY <1>4, <1>6
  <2> QED
    BY <1>6, <2>1, <2>2, <2>3 DEF KInv
<1>7. CASE Starts
  <2>1. PICK cmd \in Commands, dest \in Path, queue \in Seq(Span) \cup Seq(Draft) :
          /\ run' = Started(cmd, dest, queue)
          /\ cmd \in {"critique", "review"} =>
                /\ queue \in Seq(Draft)
                /\ \E src \in Path : \A i \in DOMAIN queue :
                      /\ \E k \in DOMAIN files[src].drafts : queue[i] = files[src].drafts[k]
                      /\ cmd = "review" => queue[i].stage # "reviewed"
    BY <1>7 DEF Starts
  <2>2. /\ run'.cmd = cmd /\ run'.queue = queue /\ run'.shown = <<>> /\ run'.drafts = <<>>
    BY <2>1 DEF Started, Idle
  <2>3. UNCHANGED <<files, issued>>
    BY <1>7 DEF Starts
  <2>4. cmd \in {"critique", "review"} => AllKnown(issued, queue)
    BY <1>2, <2>1 DEF AllKnown
  <2>5. Numbered' /\ DerivationIsGrounded'
    BY <1>2, <2>3 DEF Numbered, DerivationIsGrounded
  <2>6. cmd = "review" => \A i \in DOMAIN queue : queue[i].stage # "reviewed"
    BY <2>1
  <2> QED
    BY <1>2, <1>3, <2>2, <2>3, <2>4, <2>5, <2>6 DEF KInv
<1>8. CASE Goes
  BY <1>5, <1>8 DEF Goes, Becomes
<1>9. CASE Halts
  BY <1>5, <1>9 DEF Halts, Stops
<1>10. CASE ExtractReply
  <2>1. run.cmd = "extract" /\ Beside
    BY <1>10, ExtractRow
  <2>2. PICK new : /\ FromLLM(new, "weak-draft") /\ issued' = issued \o new
                   /\ Becomes("next", Tail(run.queue), <<>>, run.drafts \o new,
                              run.dispositions, run.note, run.failed, run.quit)
    BY <1>10, ExtractRow
  <2>3. /\ new \in Seq(Draft)
        /\ \A i \in DOMAIN new : new[i].id = Len(issued) + i /\ MayAdd(new[i])
    BY <2>2 DEF FromLLM, MayAdd
  <2>4. /\ Numbered' /\ DerivationIsGrounded'
        /\ \A s : AllKnown(issued, s) => AllKnown(issued', s)
        /\ AllKnown(issued', new)
    BY <2>2, <2>3, Growth
  <2>5. AllKnown(issued', run.drafts)
    BY <1>2, <2>4
  <2>6. AllKnown(issued', run.drafts \o new)
    BY <1>1, <2>3, <2>4, <2>5, KnownSequences
  <2>7. run'.drafts = run.drafts \o new /\ run'.shown = <<>> /\ run'.cmd = run.cmd
    BY <2>2 DEF Becomes
  <2> QED
    BY <1>3, <1>6, <2>1, <2>4, <2>6, <2>7
\* One draft that derives from the head of the queue.
<1>11. ASSUME run.cmd \in {"critique", "review"}, run.queue # <<>>, Beside,
              NEW d, NEW session, NEW stage \in {"critiqued", "reviewed"},
              stage = "reviewed" => run.cmd = "review",
              NewDraft(d, session, stage, Head(run.queue).id, Head(run.queue).span),
              issued' = issued \o <<d>>,
              Becomes("next", Tail(run.queue), <<>>, run.drafts \o <<d>>,
                      run.dispositions, run.note, run.failed, run.quit)
       PROVE  KInv'
  <2>1. MayAdd(d)
    BY <1>4, <1>11 DEF MayAdd, NewDraft
  <2>2. d \in Draft
    BY <1>11 DEF NewDraft
  <2>3. /\ Numbered' /\ DerivationIsGrounded'
        /\ \A s : AllKnown(issued, s) => AllKnown(issued', s)
        /\ Known(issued', d)
    BY <1>11, <2>1, GrowthByOne
  <2>4. AllKnown(issued', run.drafts) /\ AllKnown(issued', <<d>>) /\ <<d>> \in Seq(Draft)
    <3>1. AllKnown(issued', <<d>>)
      BY <2>3, KnownSequences
    <3> QED
      BY <1>2, <2>2, <2>3, <3>1
  <2>5. AllKnown(issued', run.drafts \o <<d>>)
    BY <1>1, <2>4, KnownSequences
  <2>6. /\ run'.drafts = run.drafts \o <<d>> /\ run'.shown = <<>> /\ run'.cmd = run.cmd
        /\ run'.queue = Tail(run.queue) /\ files' = files
    BY <1>11 DEF Becomes
  <2> QED
    BY <1>3, <1>6, <1>11, <2>3, <2>5, <2>6
<1>12. CASE CritiqueReply
  <2>1. run.cmd = "critique" /\ run.queue # <<>> /\ Beside
    BY <1>12, CritiqueRow
  <2>2. PICK d : /\ NewDraft(d, run.session, "critiqued", Head(run.queue).id,
                             Head(run.queue).span)
                 /\ issued' = issued \o <<d>>
                 /\ Becomes("next", Tail(run.queue), <<>>, run.drafts \o <<d>>,
                            run.dispositions, run.note, run.failed, run.quit)
    BY <1>12, CritiqueRow
  <2> QED
    BY <1>11, <2>1, <2>2
<1>13. CASE ReviewKeep
  <2>1. run.cmd = "review" /\ run.queue # <<>> /\ Beside
    BY <1>13, ReviewRow
  <2>2. PICK d : /\ NewDraft(d, Head(run.queue).session, "reviewed", Head(run.queue).id,
                             Head(run.queue).span)
                 /\ issued' = issued \o <<d>>
                 /\ Becomes("next", Tail(run.queue), <<>>, run.drafts \o <<d>>,
                            run.dispositions, run.note, run.failed, run.quit)
    BY <1>13, ReviewRow
  <2> QED
    BY <1>11, <2>1, <2>2
<1>14. CASE AssistReply
  <2>1. run.cmd = "assist" /\ Beside
    BY <1>14, AssistRow
  <2>2. PICK d, span : /\ NewDraft(d, run.session, "weak-draft", NoId, span)
                       /\ issued' = issued \o <<d>>
                       /\ Becomes("prompt", run.queue, <<d>>, run.drafts,
                                  run.dispositions, run.note, run.failed, run.quit)
    BY <1>14, AssistRow
  <2>3. MayAdd(d) /\ d.stage = "weak-draft"
    BY <2>2 DEF MayAdd, NewDraft
  <2>4. /\ Numbered' /\ DerivationIsGrounded'
        /\ \A s : AllKnown(issued, s) => AllKnown(issued', s)
        /\ Known(issued', d)
    BY <2>2, <2>3, GrowthByOne
  <2>5. AllKnown(issued', run.drafts) /\ AllKnown(issued', <<d>>)
    BY <1>2, <2>4, KnownSequences
  <2>6. \A i \in DOMAIN <<d>> : <<d>>[i].stage = "weak-draft"
    BY <2>3
  <2>7. run'.drafts = run.drafts /\ run'.shown = <<d>> /\ run'.cmd = run.cmd /\ files' = files
    BY <2>1, <2>2 DEF Becomes
  <2> QED
    BY <1>6, <2>1, <2>4, <2>5, <2>6, <2>7
<1>15. CASE AssistAccept \/ AssistAbandon
  <2>1. At("prompt", {"assist"}) /\ Quiet
    BY <1>15, AnalystRows
  <2>2. /\ run'.drafts = run.drafts \o run.shown /\ run'.shown = <<>> /\ run'.cmd = run.cmd
    BY <1>15, AnalystRows DEF Becomes
  <2>3. AllKnown(issued, run.drafts \o run.shown)
    BY <1>1, <1>2, KnownSequences
  <2>4. Numbered' /\ DerivationIsGrounded' /\ issued' = issued
    BY <1>2, <2>1 DEF Numbered, DerivationIsGrounded
  <2>5. run.cmd = "assist"
    BY <2>1 DEF At
  <2> QED
    BY <1>3, <1>6, <2>1, <2>2, <2>3, <2>4, <2>5
<1>16. CASE AssistEdit
  <2>1. At("prompt", {"assist"}) /\ Beside
    BY <1>16, AnalystRows
  <2>2. PICK d : /\ NewDraft(d, run.shown[1].session, "reviewed", run.shown[1].id,
                             run.shown[1].span)
                 /\ issued' = issued \o <<d>>
                 /\ Becomes("next", Tail(run.queue), <<>>,
                            run.drafts \o run.shown \o <<d>>,
                            Append(run.dispositions,
                                   [id |-> run.shown[1].id, action |-> "edited"]),
                            run.note, run.failed, run.quit)
    BY <1>16, AnalystRows
  <2>3. /\ run.cmd = "assist" /\ run.shown[1] \in Draft /\ DOMAIN run.shown = {1}
        /\ run.drafts \o run.shown \in Seq(Draft)
    BY <2>1, ShownFacts
  <2>4. Known(issued, run.shown[1]) /\ run.shown[1].stage = "weak-draft"
    BY <1>2, <2>3 DEF AllKnown
  <2>5. MayAdd(d) /\ d \in Draft
    BY <2>2, <2>3, <2>4 DEF MayAdd, NewDraft
  <2>6. /\ Numbered' /\ DerivationIsGrounded'
        /\ \A s : AllKnown(issued, s) => AllKnown(issued', s)
        /\ Known(issued', d)
    BY <2>2, <2>5, GrowthByOne
  <2>7. AllKnown(issued, run.drafts \o run.shown)
    BY <1>1, <1>2, KnownSequences
  <2>8. /\ AllKnown(issued', run.drafts \o run.shown) /\ AllKnown(issued', <<d>>)
        /\ <<d>> \in Seq(Draft)
    <3>1. AllKnown(issued', <<d>>)
      BY <2>6, KnownSequences
    <3> QED
      BY <2>5, <2>6, <2>7, <3>1
  <2>9. AllKnown(issued', run.drafts \o run.shown \o <<d>>)
    BY <2>3, <2>8, KnownSequences
  <2>10. /\ run'.drafts = run.drafts \o run.shown \o <<d>> /\ run'.shown = <<>>
         /\ run'.cmd = run.cmd /\ files' = files
    BY <2>1, <2>2 DEF Becomes
  <2> QED
    BY <1>3, <1>6, <2>3, <2>6, <2>9, <2>10
<1>17. CASE OpenRecord \/ WriteRecord
  <2>1. /\ UNCHANGED <<files, issued>> /\ run.pc \in {"record", "recording"}
        /\ Stops("error") \/ Turns("recording") \/ Turns("publish")
    BY <1>17, CommitRows
  <2>2. run.shown = <<>>
    BY <2>1 DEF TInv, RunFits
  <2> QED
    BY <1>5, <2>1, <2>2 DEF Stops, Turns, Becomes
\* Only known drafts are written.
<1>18. CASE OpenOutput \/ WriteOutput
  <2>1. /\ UNCHANGED issued /\ run.pc \in {"publish", "publishing"}
        /\ files' \in {[files EXCEPT ![run.dest] = Output("torn", <<>>)],
                       [files EXCEPT ![run.dest] = Output("whole", run.drafts)]}
        /\ Turns("publishing") \/ Stops(Exit)
    BY <1>18, CommitRows
  <2>2. run.shown = <<>>
    BY <2>1 DEF TInv, RunFits
  <2>3. \A p \in Path : files'[p].drafts \in {files[p].drafts, <<>>, run.drafts}
    BY <1>1, <2>1 DEF Output
  <2>4. \A p \in Path : AllKnown(issued', files'[p].drafts)
    BY <1>2, <1>3, <2>1, <2>3
  <2>5. /\ run'.drafts = run.drafts /\ run'.shown = <<>> /\ run'.cmd = run.cmd
        /\ run'.queue \in {run.queue, <<>>}
    BY <2>1, <2>2 DEF Stops, Turns, Becomes
  <2>6. Numbered' /\ DerivationIsGrounded'
    BY <1>2, <2>1 DEF Numbered, DerivationIsGrounded
  <2> QED
    BY <1>2, <1>3, <2>1, <2>4, <2>5, <2>6 DEF KInv
<1>19. CASE UNCHANGED vars
  BY <1>19, <1>2 DEF KInv, vars, Numbered, DerivationIsGrounded
<1> QED
  BY <1>7, <1>8, <1>9, <1>10, <1>12, <1>13, <1>14, <1>15, <1>16, <1>17, <1>18, <1>19, NextRows

\* Every draft the program holds is one that a session issued.
LEMMA KnownInvariant == Spec => [](TInv /\ KInv)
<1>1. Init => TInv /\ KInv
  BY TypesStart, KnownStart
<1>2. TInv /\ KInv /\ [Next]_vars => (TInv /\ KInv)'
  BY TypesKept, KnownKept
<1> QED
  BY <1>1, <1>2, PTL DEF Spec

\* Derivations reach back to earlier drafts with the same span, and nothing is
\* reviewed twice without a critique in between (critique.go, DeriveAccepted and
\* DeriveEdited), however often files are reread, edited and overwritten.
THEOREM DerivationGrounded == Spec => []DerivationIsGrounded
<1>1. KInv => DerivationIsGrounded
  BY DEF KInv
<1> QED
  BY <1>1, KnownInvariant, PTL


(***************************************************************************)
(* The record before the drafts.                                            *)
(***************************************************************************)

\* Drafts that session records account for, and drafts of one session.
AccountedFor(recs) ==
    { d \in Draft : d.session = 0 \/ \E r \in recs : TellsOf(r, d) }

OfSession(session) == { d \in Draft : d.session = session }

\* The record of this session is whole on disk.
RecordedFirst ==
    /\ ~run.failed
    /\ records[run.dest] = Saved("whole", {ThisRecord})
    /\ ThisRecord \in archive

\* Review only handles drafts that are accounted for; the other commands only
\* their own, and they have their record on disk when they come to publish them.
AInv ==
    /\ \A p \in Path : files[p].drafts \in Seq(AccountedFor(archive))
    /\ run.cmd = "review" => /\ run.queue \in Seq(AccountedFor(archive))
                             /\ run.drafts \in Seq(AccountedFor(archive))
    /\ run.cmd # "review" => /\ run.drafts \in Seq(OfSession(run.session))
                             /\ run.shown \in Seq(OfSession(run.session))
    /\ run.pc \in {"publish", "publishing"} /\ run.cmd # "review" => RecordedFirst

\* A draft that some record accounts for stays accounted for when records
\* are added.
LEMMA MoreRecords ==
    ASSUME NEW recs, NEW more, recs \subseteq more
    PROVE  \A s : s \in Seq(AccountedFor(recs)) => s \in Seq(AccountedFor(more))
<1>1. AccountedFor(recs) \subseteq AccountedFor(more)
  BY DEF AccountedFor
<1> QED
  BY <1>1

\* What review derives from a draft is accounted for by the record of that draft.
LEMMA DerivedAccountedFor ==
    ASSUME NEW recs, NEW p \in AccountedFor(recs), p.stage # "reviewed", NEW d,
           NewDraft(d, p.session, "reviewed", p.id, p.span)
    PROVE  d \in AccountedFor(recs)
  BY DEF AccountedFor, TellsOf, NewDraft

\* A session's drafts are accounted for by its record.
LEMMA RecordAccountsFor ==
    ASSUME TInv, run.drafts \in Seq(OfSession(run.session)), NEW recs, ThisRecord \in recs
    PROVE  run.drafts \in Seq(AccountedFor(recs))
<1>1. /\ ThisRecord.session = run.session /\ ThisRecord.ids = IdsOf(run.drafts)
      /\ DOMAIN IdsOf(run.drafts) = DOMAIN run.drafts
      /\ \A i \in DOMAIN run.drafts : IdsOf(run.drafts)[i] = run.drafts[i].id
  BY RecordTyped
<1>2. ASSUME NEW i \in DOMAIN run.drafts
      PROVE  run.drafts[i] \in AccountedFor(recs)
  <2>1. run.drafts[i] \in OfSession(run.session)
    OBVIOUS
  <2>2. run.drafts[i].id \in Range(ThisRecord.ids)
    BY <1>1 DEF Range
  <2> QED
    BY <1>1, <2>1, <2>2 DEF AccountedFor, TellsOf, OfSession
<1>3. run.drafts = [i \in 1..Len(run.drafts) |-> run.drafts[i]] /\ Len(run.drafts) \in Nat
      /\ DOMAIN run.drafts = 1..Len(run.drafts)
  OBVIOUS
<1>4. run.drafts \in [1..Len(run.drafts) -> AccountedFor(recs)]
  BY <1>2, <1>3
<1> QED
  BY <1>3, <1>4

\* No file holds a draft.
LEMMA RecordsStart ==
    ASSUME Init
    PROVE  AInv
<1>1. TInv
  BY TypesStart
<1>2. PICK spans \in Found, p \in Path :
         /\ issued = Handwritten(spans)
         /\ files = [[q \in Path |-> Output("none", <<>>)]
                       EXCEPT ![p] = IF spans = <<>> THEN @
                                     ELSE Output("whole", Handwritten(spans))]
  BY DEF Init
<1>3. Handwritten(spans) \in Seq(AccountedFor(archive))
  <2>1. Handwritten(spans) \in Seq(Draft)
    BY <1>1, <1>2 DEF TInv
  <2> DEFINE h == Handwritten(spans)
  <2>2. \A i \in DOMAIN h : h[i].session = 0
    BY DEF Handwritten
  <2> HIDE DEF h
  <2>3. h \in Seq(Draft)
    BY <2>1 DEF h
  <2>4. \A i \in DOMAIN h : h[i] \in AccountedFor(archive)
    BY <2>2, <2>3 DEF AccountedFor
  <2>5. h \in [1..Len(h) -> AccountedFor(archive)] /\ Len(h) \in Nat
    BY <2>3, <2>4
  <2>6. h \in Seq(AccountedFor(archive))
    BY <2>5
  <2> QED
    BY <2>6 DEF h
<1>4. \A q \in Path : files[q].drafts \in {Handwritten(spans), <<>>}
  BY <1>2 DEF Output
<1>5. /\ run.drafts = <<>> /\ run.shown = <<>> /\ run.queue = <<>> /\ run.cmd = "review"
      /\ run.pc = "idle"
  BY DEF Init, Idle
<1>6. <<>> \in Seq(AccountedFor(archive))
  OBVIOUS
<1> QED
  BY <1>3, <1>4, <1>5, <1>6 DEF AInv


\* Every step keeps every published draft accounted for by a record.
LEMMA RecordsKept ==
    ASSUME TInv, KInv, AInv, [Next]_vars
    PROVE  AInv'
<1> USE DEF Quiet, Beside
<1> DEFINE Ours == OfSession(run.session)
<1>1. /\ issued \in Seq(Draft) /\ run.shown \in Seq(Draft) /\ run.drafts \in Seq(Draft)
      /\ files \in [Path -> [is : {"none", "torn", "whole"}, drafts : Seq(Draft)]]
      /\ records \in [Path -> [is : {"none", "torn", "whole"}, record : SUBSET Record]]
      /\ run.cmd \in Commands
      /\ run.cmd \in {"critique", "review"} => run.queue \in Seq(Draft)
      /\ run.pc # "idle" => run.dest \in Path
      /\ run.pc # "prompt" => run.shown = <<>>
  BY DEF TInv, RunTyped, RunFits
<1>2. /\ \A p \in Path : files[p].drafts \in Seq(AccountedFor(archive))
      /\ run.cmd = "review" => /\ run.queue \in Seq(AccountedFor(archive))
                               /\ run.drafts \in Seq(AccountedFor(archive))
      /\ run.cmd # "review" => /\ run.drafts \in Seq(Ours) /\ run.shown \in Seq(Ours)
      /\ run.pc \in {"publish", "publishing"} /\ run.cmd # "review" => RecordedFirst
  BY DEF AInv
<1> HIDE DEF Ours
<1>3. <<>> \in Seq(AccountedFor(archive)) /\ <<>> \in Seq(Ours)
  OBVIOUS
\* Nothing but the queue and the draft that is shown changes.
<1>4. ASSUME UNCHANGED <<files, archive>>, run'.drafts = run.drafts, run'.shown = <<>>,
             run'.cmd = run.cmd, run'.session = run.session,
             \/ run'.queue = run.queue \/ run'.queue = <<>>
             \/ run.queue # <<>> /\ run'.queue = Tail(run.queue),
             run'.pc \notin {"publish", "publishing"} \/ run.cmd = "review"
      PROVE  AInv'
  <2>1. run.cmd = "review" => run'.queue \in Seq(AccountedFor(archive))
    <3>1. run.cmd = "review" /\ run.queue # <<>> => Tail(run.queue) \in Seq(AccountedFor(archive))
      BY <1>2, TailFacts
    <3> QED
      BY <1>2, <1>3, <1>4, <3>1
  <2> QED
    BY <1>2, <1>3, <1>4, <2>1 DEF AInv, Ours
\* A session adds drafts of its own.
<1>5. ASSUME UNCHANGED <<files, archive>>, run.cmd # "review",
             run'.cmd = run.cmd, run'.session = run.session,
             run'.drafts \in Seq(Ours), run'.shown \in Seq(Ours),
             run'.pc \notin {"publish", "publishing"}
      PROVE  AInv'
  BY <1>2, <1>5 DEF AInv, Ours
<1>6. CASE Starts
  <2>1. PICK cmd \in Commands, dest \in Path, queue \in Seq(Span) \cup Seq(Draft) :
          /\ run' = Started(cmd, dest, queue)
          /\ cmd \in {"critique", "review"} =>
                /\ queue \in Seq(Draft)
                /\ \E src \in Path : \A i \in DOMAIN queue :
                      \E k \in DOMAIN files[src].drafts : queue[i] = files[src].drafts[k]
    BY <1>6 DEF Starts
  <2>2. /\ run'.cmd = cmd /\ run'.queue = queue /\ run'.shown = <<>> /\ run'.drafts = <<>>
        /\ run'.pc \in {"load", "next"}
    BY <2>1 DEF Started, Idle
  <2>3. UNCHANGED <<files, archive>>
    BY <1>6 DEF Starts
  <2>4. ASSUME cmd = "review"
        PROVE  queue \in Seq(AccountedFor(archive))
    <3>1. queue \in Seq(Draft)
      BY <2>1, <2>4
    <3>2. PICK src \in Path : \A i \in DOMAIN queue :
            \E k \in DOMAIN files[src].drafts : queue[i] = files[src].drafts[k]
      BY <2>1, <2>4
    <3>3. files[src].drafts \in Seq(AccountedFor(archive))
      BY <1>2
    <3>4. \A k \in DOMAIN files[src].drafts : files[src].drafts[k] \in AccountedFor(archive)
      BY <3>3
    <3>5. queue \in [1..Len(queue) -> AccountedFor(archive)] /\ Len(queue) \in Nat
      BY <3>1, <3>2, <3>4
    <3> QED
      BY <3>5
  <2>5. <<>> \in Seq(OfSession(run'.session))
    OBVIOUS
  <2> QED
    BY <1>2, <1>3, <2>2, <2>3, <2>4, <2>5 DEF AInv
<1>7. CASE Goes
  <2>1. /\ run'.drafts = run.drafts /\ run'.shown = <<>>
        /\ run'.cmd = run.cmd /\ run'.session = run.session
        /\ \/ run'.queue = run.queue \/ run'.queue = <<>>
           \/ run.queue # <<>> /\ run'.queue = Tail(run.queue)
        /\ run'.pc \notin {"publish", "publishing"} \/ run.cmd = "review"
    BY <1>7 DEF Goes, Becomes
  <2>2. UNCHANGED <<files, archive>>
    BY <1>7 DEF Goes
  <2> QED
    BY <1>4, <2>1, <2>2
<1>8. CASE Halts
  <2>1. /\ run'.drafts = run.drafts /\ run'.shown = <<>> /\ run'.queue = <<>>
        /\ run'.cmd = run.cmd /\ run'.session = run.session /\ run'.pc = "idle"
    BY <1>8 DEF Halts, Stops
  <2>2. UNCHANGED <<files, archive>>
    BY <1>8 DEF Halts
  <2> QED
    BY <1>4, <2>1, <2>2
<1>9. CASE ExtractReply
  <2>1. run.cmd = "extract" /\ Beside
    BY <1>9, ExtractRow
  <2>2. PICK new : /\ FromLLM(new, "weak-draft") /\ issued' = issued \o new
                   /\ Becomes("next", Tail(run.queue), <<>>, run.drafts \o new,
                              run.dispositions, run.note, run.failed, run.quit)
    BY <1>9, ExtractRow
  <2>3. new \in Seq(Ours)
    <3>1. new \in Seq(Draft) /\ \A i \in DOMAIN new : new[i] \in Ours
      BY <2>2 DEF FromLLM, Ours, OfSession
    <3>2. new \in [1..Len(new) -> Ours] /\ Len(new) \in Nat
      BY <3>1
    <3> QED
      BY <3>2
  <2>4. run.drafts \o new \in Seq(Ours)
    BY <1>2, <2>1, <2>3
  <2>5. /\ run'.drafts = run.drafts \o new /\ run'.shown = <<>> /\ run'.cmd = run.cmd
        /\ run'.session = run.session /\ run'.pc = "next"
    BY <2>2 DEF Becomes
  <2> QED
    BY <1>3, <1>5, <2>1, <2>4, <2>5
<1>10. CASE CritiqueReply
  <2>1. run.cmd = "critique" /\ Beside
    BY <1>10, CritiqueRow
  <2>2. PICK d : /\ NewDraft(d, run.session, "critiqued", Head(run.queue).id,
                             Head(run.queue).span)
                 /\ Becomes("next", Tail(run.queue), <<>>, run.drafts \o <<d>>,
                            run.dispositions, run.note, run.failed, run.quit)
    BY <1>10, CritiqueRow
  <2>3. d \in Ours
    BY <2>2 DEF NewDraft, Ours, OfSession
  <2>4. run.drafts \o <<d>> \in Seq(Ours)
    BY <1>2, <2>1, <2>3
  <2>5. /\ run'.drafts = run.drafts \o <<d>> /\ run'.shown = <<>> /\ run'.cmd = run.cmd
        /\ run'.session = run.session /\ run'.pc = "next"
    BY <2>2 DEF Becomes
  <2> QED
    BY <1>3, <1>5, <2>1, <2>4, <2>5
<1>11. CASE AssistReply
  <2>1. run.cmd = "assist" /\ Beside
    BY <1>11, AssistRow
  <2>2. PICK d, span : /\ NewDraft(d, run.session, "weak-draft", NoId, span)
                       /\ Becomes("prompt", run.queue, <<d>>, run.drafts,
                                  run.dispositions, run.note, run.failed, run.quit)
    BY <1>11, AssistRow
  <2>3. d \in Ours
    BY <2>2 DEF NewDraft, Ours, OfSession
  <2>4. <<d>> \in Seq(Ours) /\ run.drafts \in Seq(Ours)
    BY <1>2, <2>1, <2>3
  <2>5. /\ run'.drafts = run.drafts /\ run'.shown = <<d>> /\ run'.cmd = run.cmd
        /\ run'.session = run.session /\ run'.pc = "prompt"
    BY <2>2 DEF Becomes
  <2> QED
    BY <1>5, <2>1, <2>4, <2>5
<1>12. CASE AssistAccept \/ AssistAbandon
  <2>1. At("prompt", {"assist"}) /\ Quiet
    BY <1>12, AnalystRows
  <2>2. /\ run'.drafts = run.drafts \o run.shown /\ run'.shown = <<>> /\ run'.cmd = run.cmd
        /\ run'.session = run.session /\ run'.pc \in {"next", "record"}
    BY <1>12, AnalystRows DEF Becomes
  <2>3. run.cmd = "assist"
    BY <2>1 DEF At
  <2>4. run.drafts \o run.shown \in Seq(Ours)
    BY <1>2, <2>3
  <2> QED
    BY <1>3, <1>5, <2>1, <2>2, <2>3, <2>4
<1>13. CASE AssistEdit
  <2>1. At("prompt", {"assist"}) /\ Beside
    BY <1>13, AnalystRows
  <2>2. PICK d : /\ NewDraft(d, run.shown[1].session, "reviewed", run.shown[1].id,
                             run.shown[1].span)
                 /\ Becomes("next", Tail(run.queue), <<>>,
                            run.drafts \o run.shown \o <<d>>,
                            Append(run.dispositions,
                                   [id |-> run.shown[1].id, action |-> "edited"]),
                            run.note, run.failed, run.quit)
    BY <1>13, AnalystRows
  <2>3. run.cmd = "assist" /\ DOMAIN run.shown = {1}
    BY <2>1, ShownFacts
  <2>4. run.shown[1] \in Ours
    BY <1>2, <2>3
  <2>5. d \in Ours
    BY <2>2, <2>4 DEF NewDraft, Ours, OfSession
  <2>6. run.drafts \o run.shown \in Seq(Ours)
    BY <1>2, <2>3
  <2>7. run.drafts \o run.shown \o <<d>> \in Seq(Ours)
    BY <2>5, <2>6
  <2>8. /\ run'.drafts = run.drafts \o run.shown \o <<d>> /\ run'.shown = <<>>
        /\ run'.cmd = run.cmd /\ run'.session = run.session /\ run'.pc = "next"
    BY <2>2 DEF Becomes
  <2> QED
    BY <1>3, <1>5, <2>1, <2>3, <2>7, <2>8
<1>14. CASE ReviewKeep
  <2>1. run.cmd = "review" /\ run.queue # <<>> /\ Beside
    BY <1>14, ReviewRow
  <2>2. PICK d : /\ NewDraft(d, Head(run.queue).session, "reviewed", Head(run.queue).id,
                             Head(run.queue).span)
                 /\ Becomes("next", Tail(run.queue), <<>>, run.drafts \o <<d>>,
                            run.dispositions, run.note, run.failed, run.quit)
    BY <1>14, ReviewRow
  <2>3. /\ Head(run.queue) \in AccountedFor(archive) /\ Head(run.queue) = run.queue[1]
        /\ 1 \in DOMAIN run.queue /\ Tail(run.queue) \in Seq(AccountedFor(archive))
    BY <1>2, <2>1, TailFacts
  <2>4. Head(run.queue).stage # "reviewed"
    BY <2>1, <2>3 DEF KInv
  <2>5. d \in AccountedFor(archive)
    BY <2>2, <2>3, <2>4, DerivedAccountedFor
  <2>6. run.drafts \o <<d>> \in Seq(AccountedFor(archive))
    BY <1>2, <2>1, <2>5
  <2>7. /\ run'.drafts = run.drafts \o <<d>> /\ run'.queue = Tail(run.queue)
        /\ run'.cmd = run.cmd
    BY <2>2 DEF Becomes
  <2> QED
    BY <1>2, <2>1, <2>3, <2>6, <2>7 DEF AInv
<1>15. CASE OpenRecord
  <2>1. /\ run.pc = "record" /\ UNCHANGED <<files, archive>> /\ Turns("recording")
    BY <1>15, CommitRows
  <2>2. /\ run'.drafts = run.drafts /\ run'.shown = <<>> /\ run'.queue = run.queue
        /\ run'.cmd = run.cmd /\ run'.session = run.session /\ run'.pc = "recording"
    BY <1>1, <2>1 DEF Turns, Becomes
  <2> QED
    BY <1>4, <2>1, <2>2
<1>16. CASE WriteRecord
  <2>1. /\ run.pc = "recording" /\ UNCHANGED files
        /\ records' = [records EXCEPT ![run.dest] = Saved("whole", {ThisRecord})]
        /\ archive' = archive \cup {ThisRecord}
        /\ Stops("error") \/ (~run.failed /\ Turns("publish"))
    BY <1>16, CommitRows
  <2>2. \A s : s \in Seq(AccountedFor(archive)) => s \in Seq(AccountedFor(archive'))
    BY <2>1, MoreRecords
  <2>3. /\ run'.drafts = run.drafts /\ run'.shown = <<>> /\ run'.queue \in {run.queue, <<>>}
        /\ run'.cmd = run.cmd /\ run'.session = run.session /\ run'.dest = run.dest
        /\ run'.dispositions = run.dispositions /\ run'.note = run.note
        /\ run'.failed = run.failed
        /\ \/ run'.pc = "idle"
           \/ run'.pc = "publish" /\ ~run.failed
    BY <1>1, <2>1 DEF Turns, Becomes, Stops
  <2>4. ThisRecord' = ThisRecord
    BY <2>3 DEF ThisRecord
  <2>5. run.dest \in Path
    BY <1>1, <2>1
  <2>6. records'[run'.dest] = Saved("whole", {ThisRecord'}) /\ ThisRecord' \in archive'
    BY <1>1, <2>1, <2>3, <2>4, <2>5
  <2>7. run'.pc \in {"publish", "publishing"} => RecordedFirst'
    BY <2>3, <2>6 DEF RecordedFirst
  <2> QED
    BY <1>2, <1>3, <2>1, <2>2, <2>3, <2>7 DEF AInv, Ours
<1>17. CASE OpenOutput \/ WriteOutput
  <2>1. /\ run.pc \in {"publish", "publishing"} /\ UNCHANGED <<records, archive>>
        /\ files' \in {[files EXCEPT ![run.dest] = Output("torn", <<>>)],
                       [files EXCEPT ![run.dest] = Output("whole", run.drafts)]}
        /\ Turns("publishing") \/ Stops(Exit)
    BY <1>17, CommitRows
  <2>2. /\ run'.drafts = run.drafts /\ run'.shown = <<>> /\ run'.queue \in {run.queue, <<>>}
        /\ run'.cmd = run.cmd /\ run'.session = run.session /\ run'.dest = run.dest
        /\ run'.dispositions = run.dispositions /\ run'.note = run.note
        /\ run'.failed = run.failed /\ run'.pc \in {"idle", "publishing"}
    BY <1>1, <2>1 DEF Turns, Becomes, Stops
  <2>3. ThisRecord' = ThisRecord
    BY <2>2 DEF ThisRecord
  <2>4. run.drafts \in Seq(AccountedFor(archive))
    <3>1. CASE run.cmd = "review"
      BY <1>2, <3>1
    <3>2. CASE run.cmd # "review"
      <4>1. run.drafts \in Seq(OfSession(run.session)) /\ ThisRecord \in archive
        BY <1>2, <2>1, <3>2 DEF Ours, RecordedFirst
      <4> QED
        BY <4>1, RecordAccountsFor
    <3> QED
      BY <3>1, <3>2
  <2>5. \A p \in Path : files'[p].drafts \in Seq(AccountedFor(archive))
    <3>1. /\ Output("torn", <<>>).drafts = <<>>
          /\ Output("whole", run.drafts).drafts = run.drafts
      BY DEF Output
    <3>2. \A p \in Path : files'[p] \in {files[p], Output("torn", <<>>),
                                          Output("whole", run.drafts)}
      BY <1>1, <2>1
    <3> QED
      BY <1>2, <1>3, <2>4, <3>1, <3>2
  <2>6. run.cmd # "review" => RecordedFirst'
    BY <1>2, <2>1, <2>2, <2>3 DEF RecordedFirst
  <2> QED
    BY <1>2, <1>3, <2>1, <2>2, <2>5, <2>6 DEF AInv, Ours
<1>18. CASE UNCHANGED vars
  <2>1. ThisRecord' = ThisRecord
    BY <1>18 DEF vars, ThisRecord
  <2> QED
    BY <1>2, <1>18, <2>1 DEF AInv, vars, Ours, RecordedFirst
<1> QED
  BY <1>6, <1>7, <1>8, <1>9, <1>10, <1>11, <1>12, <1>13, <1>14, <1>15, <1>16, <1>17, <1>18,
     NextRows

\* A draft reaches an output file, or the next command, only after the
\* record of its session.
LEMMA RecordsInvariant == Spec => [](TInv /\ KInv /\ AInv)
<1>1. Init => TInv /\ KInv /\ AInv
  BY TypesStart, KnownStart, RecordsStart
<1>2. TInv /\ KInv /\ AInv /\ [Next]_vars => (TInv /\ KInv /\ AInv)'
  BY TypesKept, KnownKept, RecordsKept
<1> QED
  BY <1>1, <1>2, PTL DEF Spec

(***************************************************************************)
(* The record beside the drafts.                                            *)
(***************************************************************************)

\* With records recs on disk, the one beside q tells of d or has been written
\* over.
Traced(recs, q, d) ==
    \/ \E r \in recs[q].record : TellsOf(r, d)
    \/ recs[q].is = "torn" \/ \E r \in recs[q].record : r.session > d.session

\* It is so beside some path, for a draft of session n or an earlier one;
Carried(recs, n, d) ==
    d.session # 0 => d.session =< n /\ \E q \in Path : Traced(recs, q, d)

\* and, unless review derived the draft, beside the path where the draft is.
Placed(recs, n, p, d) ==
    /\ Carried(recs, n, d)
    /\ d.session # 0 /\ d.stage # "reviewed" => Traced(recs, p, d)

BeforeOutput == {"load", "next", "prompt", "retry", "record", "recording"}

\* Drafts at a path are placed so, and older than the session that runs until it
\* publishes; what review carries from path to path can be traced; a session
\* publishes into an empty file; and after a clean exit the record is there.
DInv ==
    /\ \A p \in Path : \A i \in DOMAIN files[p].drafts :
          Placed(records, run.session, p, files[p].drafts[i])
    /\ run.pc \in BeforeOutput =>
          \A p \in Path : \A i \in DOMAIN files[p].drafts :
             files[p].drafts[i].session < run.session
    /\ run.cmd = "review" =>
          /\ \A i \in DOMAIN run.queue : Carried(records, run.session, run.queue[i])
          /\ \A i \in DOMAIN run.drafts : /\ Carried(records, run.session, run.drafts[i])
                                          /\ run.drafts[i].stage = "reviewed"
    /\ run.pc = "publishing" => files[run.dest].drafts = <<>>
    /\ run.pc = "idle" /\ run.end = "ok" /\ run.cmd # "review" =>
          \A i \in DOMAIN files[run.dest].drafts :
             RecordBeside(run.dest, files[run.dest].drafts[i])

\* What review derives from a draft is traced where the draft is.
LEMMA DerivedCarried ==
    ASSUME NEW recs, NEW n, NEW p \in Draft, Carried(recs, n, p), p.stage # "reviewed",
           NEW d, NewDraft(d, p.session, "reviewed", p.id, p.span)
    PROVE  Carried(recs, n, d) /\ d.stage = "reviewed"
<1>1. /\ d.session = p.session /\ d.parent = p.id /\ d.stage = "reviewed"
  BY DEF NewDraft
<1>2. \A r : TellsOf(r, p) => TellsOf(r, d)
  BY <1>1 DEF TellsOf
<1>3. \A q : Traced(recs, q, p) => Traced(recs, q, d)
  BY <1>1, <1>2 DEF Traced
<1> QED
  BY <1>1, <1>3 DEF Carried

\* A record that is emptied, or replaced by that of a later session, leaves older
\* drafts traced.
LEMMA StillPlaced ==
    ASSUME NEW n \in Nat, NEW p \in Path, NEW d \in Draft, d.session < n,
           NEW dest \in Path, NEW recs, NEW x,
           recs = [records EXCEPT ![dest] = x],
           DOMAIN records = Path,
           x.is = "torn" \/ \E r \in x.record : r.session = n,
           Placed(records, n, p, d)
    PROVE  Placed(recs, n, p, d)
<1>1. recs[dest] = x /\ \A q \in Path \ {dest} : recs[q] = records[q]
  OBVIOUS
<1>2. d.session \in Nat
  BY DEF Draft
<1>3. Traced(recs, dest, d)
  BY <1>1, <1>2 DEF Traced
<1>4. \A q \in Path : Traced(records, q, d) => Traced(recs, q, d)
  <2> SUFFICES ASSUME NEW q \in Path, Traced(records, q, d), q # dest
               PROVE  Traced(recs, q, d)
    BY <1>3
  <2> QED
    BY <1>1 DEF Traced
<1> QED
  BY <1>3, <1>4 DEF Placed, Carried

\* Nothing but hand-written drafts is on disk.
LEMMA PlacesStart ==
    ASSUME Init
    PROVE  DInv
<1>1. PICK spans \in Found, p \in Path :
         files = [[q \in Path |-> Output("none", <<>>)]
                       EXCEPT ![p] = IF spans = <<>> THEN @
                                     ELSE Output("whole", Handwritten(spans))]
  BY DEF Init
<1>2. \A q \in Path : files[q].drafts \in {Handwritten(spans), <<>>}
  BY <1>1 DEF Output
<1>3. \A i \in DOMAIN Handwritten(spans) : Handwritten(spans)[i].session = 0
  BY DEF Handwritten
<1>4. \A q \in Path : \A i \in DOMAIN files[q].drafts : files[q].drafts[i].session = 0
  BY <1>2, <1>3
<1>5. /\ run.drafts = <<>> /\ run.queue = <<>> /\ run.cmd = "review" /\ run.pc = "idle"
  BY DEF Init, Idle
<1> QED
  BY <1>4, <1>5 DEF DInv, Placed, Carried, BeforeOutput

\* Every step keeps the drafts on disk traced to their records.
LEMMA PlacesKept ==
    ASSUME TInv, KInv, AInv, DInv, [Next]_vars
    PROVE  DInv'
<1> USE DEF Quiet, Beside
<1>1. /\ run.shown \in Seq(Draft) /\ run.drafts \in Seq(Draft)
      /\ files \in [Path -> [is : {"none", "torn", "whole"}, drafts : Seq(Draft)]]
      /\ DOMAIN records = Path
      /\ run.cmd \in Commands /\ run.session \in Nat
      /\ run.cmd \in {"critique", "review"} => run.queue \in Seq(Draft)
      /\ run.pc # "idle" => run.dest \in Path
  <2>1. run.session \in 0..MaxSessions /\ MaxSessions \in Nat
    BY SessionAssumption DEF TInv, RunTyped
  <2> QED
    BY <2>1 DEF TInv, RunTyped, RunFits
<1>2. /\ \A p \in Path : \A i \in DOMAIN files[p].drafts :
            Placed(records, run.session, p, files[p].drafts[i])
      /\ run.pc \in BeforeOutput =>
            \A p \in Path : \A i \in DOMAIN files[p].drafts :
               files[p].drafts[i].session < run.session
      /\ run.cmd = "review" =>
            /\ \A i \in DOMAIN run.queue : Carried(records, run.session, run.queue[i])
            /\ \A i \in DOMAIN run.drafts : /\ Carried(records, run.session, run.drafts[i])
                                            /\ run.drafts[i].stage = "reviewed"
      /\ run.pc = "publishing" => files[run.dest].drafts = <<>>
      /\ run.pc = "idle" /\ run.end = "ok" /\ run.cmd # "review" =>
            \A i \in DOMAIN files[run.dest].drafts :
               RecordBeside(run.dest, files[run.dest].drafts[i])
  BY DEF DInv
<1>3. \A p \in Path : \A i \in DOMAIN files[p].drafts : files[p].drafts[i] \in Draft
  BY <1>1
\* The disk stays as it is, and what review carries is traced.
<1>4. ASSUME UNCHANGED <<files, records>>, run'.session = run.session, run'.cmd = run.cmd,
             run'.dest = run.dest,
             run'.pc \in BeforeOutput => run.pc \in BeforeOutput,
             run'.pc # "publishing",
             run'.pc = "idle" /\ run'.end = "ok" => run.pc = "publishing",
             run.cmd = "review" =>
                /\ \A i \in DOMAIN run'.queue : Carried(records, run.session, run'.queue[i])
                /\ \A i \in DOMAIN run'.drafts : /\ Carried(records, run.session, run'.drafts[i])
                                                 /\ run'.drafts[i].stage = "reviewed"
      PROVE  DInv'
  <2>1. run'.pc = "idle" /\ run'.end = "ok" => files'[run'.dest].drafts = <<>>
    BY <1>2, <1>4
  <2>2. run'.pc = "idle" /\ run'.end = "ok" /\ run'.cmd # "review" =>
            \A i \in DOMAIN files'[run'.dest].drafts :
               RecordBeside(run.dest, files[run.dest].drafts[i])'
    BY <2>1
  <2> QED
    BY <1>2, <1>4, <2>2 DEF DInv
\* The queue gets shorter, no draft is added.
<1>5. ASSUME run.cmd = "review",
             \/ run'.queue = run.queue \/ run'.queue = <<>>
             \/ run.queue # <<>> /\ run'.queue = Tail(run.queue)
      PROVE  \A i \in DOMAIN run'.queue : Carried(records, run.session, run'.queue[i])
  <2>1. CASE run'.queue \in {run.queue, <<>>}
    BY <1>2, <1>5, <2>1
  <2>2. CASE run.queue # <<>> /\ run'.queue = Tail(run.queue)
    <3>1. run.queue \in Seq(Draft)
      BY <1>1, <1>5
    <3>2. \A i \in DOMAIN Tail(run.queue) :
             i + 1 \in DOMAIN run.queue /\ Tail(run.queue)[i] = run.queue[i + 1]
      BY <2>2, <3>1
    <3> QED
      BY <1>2, <1>5, <2>2, <3>2
  <2> QED
    BY <1>5, <2>1, <2>2
<1>6. CASE Starts
  <2>1. PICK cmd \in Commands, dest \in Path, queue \in Seq(Span) \cup Seq(Draft) :
          /\ run' = Started(cmd, dest, queue)
          /\ cmd \in {"critique", "review"} =>
                \E src \in Path : \A i \in DOMAIN queue :
                   \E k \in DOMAIN files[src].drafts : queue[i] = files[src].drafts[k]
    BY <1>6 DEF Starts
  <2>2. /\ run'.cmd = cmd /\ run'.queue = queue /\ run'.drafts = <<>>
        /\ run'.pc \in {"load", "next"} /\ run'.session = run.session + 1
    BY <2>1 DEF Started, Idle
  <2>3. UNCHANGED <<files, records>>
    BY <1>6 DEF Starts
  <2>4. \A d \in Draft : /\ Carried(records, run.session, d)
                            => Carried(records, run'.session, d) /\ d.session < run'.session
                         /\ \A p : Placed(records, run.session, p, d)
                                      => Placed(records, run'.session, p, d)
    <3> SUFFICES ASSUME NEW d \in Draft, Carried(records, run.session, d)
                 PROVE  Carried(records, run'.session, d) /\ d.session < run'.session
      BY DEF Placed
    <3>1. d.session \in Nat
      BY DEF Draft
    <3> QED
      BY <1>1, <2>2, <3>1 DEF Carried
  <2>5. \A p \in Path : \A i \in DOMAIN files[p].drafts :
           /\ Placed(records, run'.session, p, files[p].drafts[i])
           /\ files[p].drafts[i].session < run'.session
    BY <1>2, <1>3, <2>4 DEF Placed
  <2>6. ASSUME cmd = "review", NEW i \in DOMAIN queue
        PROVE  Carried(records, run'.session, queue[i])
    <3>1. PICK src \in Path : \A j \in DOMAIN queue :
            \E k \in DOMAIN files[src].drafts : queue[j] = files[src].drafts[k]
      BY <2>1, <2>6
    <3>2. PICK k \in DOMAIN files[src].drafts : queue[i] = files[src].drafts[k]
      BY <2>6, <3>1
    <3> QED
      BY <2>5, <3>2 DEF Placed
  <2> QED
    BY <2>2, <2>3, <2>5, <2>6 DEF DInv
<1>7. CASE Goes
  <2>1. /\ run'.drafts = run.drafts /\ run'.cmd = run.cmd /\ run'.session = run.session
        /\ run'.dest = run.dest
        /\ \/ run'.queue = run.queue \/ run'.queue = <<>>
           \/ run.queue # <<>> /\ run'.queue = Tail(run.queue)
        /\ run'.pc \in {"next", "retry", "record", "publish"}
        /\ run.pc \in {"load", "next", "prompt", "retry"}
    BY <1>7 DEF Goes, Becomes
  <2>2. UNCHANGED <<files, records>>
    BY <1>7 DEF Goes
  <2> QED
    BY <1>2, <1>4, <1>5, <2>1, <2>2 DEF BeforeOutput
<1>8. CASE Halts /\ run.pc # "idle" /\ (run'.end = "ok" => run.pc = "publishing")
  <2>1. /\ run'.drafts = run.drafts /\ run'.queue = <<>> /\ run'.cmd = run.cmd
        /\ run'.session = run.session /\ run'.dest = run.dest /\ run'.pc = "idle"
    BY <1>8 DEF Halts, Stops
  <2>2. UNCHANGED <<files, records>>
    BY <1>8 DEF Halts
  <2> QED
    BY <1>2, <1>4, <1>5, <1>8, <2>1, <2>2 DEF BeforeOutput
<1>9. CASE ExtractReply \/ CritiqueReply \/ AssistReply
  <2>1. /\ run.cmd \in {"extract", "critique", "assist"} /\ Beside
        /\ run.pc \in BeforeOutput
    BY <1>9, ExtractRow, CritiqueRow, AssistRow DEF At, BeforeOutput,
       ExtractReply, CritiqueReply, AssistReply
  <2>2. /\ run'.cmd = run.cmd /\ run'.session = run.session /\ run'.dest = run.dest
        /\ run'.pc \in {"next", "prompt"}
    BY <1>9, ExtractRow, CritiqueRow, AssistRow DEF Becomes
  <2> QED
    BY <1>4, <2>1, <2>2 DEF BeforeOutput
<1>10. CASE AssistAccept \/ AssistAbandon \/ AssistEdit
  <2>1. At("prompt", {"assist"}) /\ UNCHANGED <<files, records>>
    BY <1>10, AnalystRows
  <2>2. /\ run'.cmd = run.cmd /\ run'.session = run.session /\ run'.dest = run.dest
        /\ run'.pc \in {"next", "record"}
    BY <1>10, AnalystRows DEF Becomes
  <2> QED
    BY <1>4, <2>1, <2>2 DEF BeforeOutput, At
<1>11. CASE ReviewKeep
  <2>1. run.cmd = "review" /\ run.queue # <<>> /\ Beside /\ run.pc = "next"
    BY <1>11, ReviewRow DEF ReviewKeep, Reviewing, At
  <2>2. PICK d : /\ NewDraft(d, Head(run.queue).session, "reviewed", Head(run.queue).id,
                             Head(run.queue).span)
                 /\ Becomes("next", Tail(run.queue), <<>>, run.drafts \o <<d>>,
                            run.dispositions, run.note, run.failed, run.quit)
    BY <1>11, ReviewRow
  <2>3. Head(run.queue) = run.queue[1] /\ 1 \in DOMAIN run.queue /\ run.queue[1] \in Draft
    BY <1>1, <2>1
  <2>4. run.queue[1].stage # "reviewed"
    BY <2>1, <2>3 DEF KInv
  <2>5. Carried(records, run.session, d) /\ d.stage = "reviewed"
    BY <1>2, <2>1, <2>2, <2>3, <2>4, DerivedCarried
  <2>6. /\ run'.drafts = run.drafts \o <<d>> /\ run'.queue = Tail(run.queue)
        /\ run'.cmd = run.cmd /\ run'.session = run.session /\ run'.dest = run.dest
        /\ run'.pc = "next"
    BY <2>2 DEF Becomes
  <2>7. \A i \in DOMAIN run'.drafts : run'.drafts[i] = d \/
           (i \in DOMAIN run.drafts /\ run'.drafts[i] = run.drafts[i])
    BY <1>1, <2>6
  <2> QED
    BY <1>2, <1>4, <1>5, <2>1, <2>5, <2>6, <2>7 DEF BeforeOutput
<1>12. CASE OpenRecord \/ WriteRecord
  <2>1. PICK x : /\ run.pc \in {"record", "recording"} /\ UNCHANGED files
                 /\ records' = [records EXCEPT ![run.dest] = x]
                 /\ x.is = "torn" \/ \E r \in x.record : r.session = run.session
    <3>1. CASE OpenRecord
      <4>1. Saved("torn", {}).is = "torn"
        BY DEF Saved
      <4> QED
        BY <3>1, <4>1, CommitRows
    <3>2. CASE WriteRecord
      <4>1. \E r \in Saved("whole", {ThisRecord}).record : r.session = run.session
        BY RecordTyped DEF Saved
      <4> QED
        BY <3>2, <4>1, CommitRows
    <3> QED
      BY <1>12, <3>1, <3>2
  <2>2. /\ run'.cmd = run.cmd /\ run'.session = run.session /\ run'.dest = run.dest
        /\ \/ run'.pc \in {"recording", "publish"}
           \/ run'.pc = "idle" /\ run'.end = "error"
    BY <1>12, CommitRows DEF Turns, Becomes, Stops
  <2>3. run.cmd # "review" /\ run.dest \in Path
    BY <1>1, <2>1 DEF TInv, RunFits
  <2>4. ASSUME NEW p \in Path, NEW i \in DOMAIN files[p].drafts
        PROVE  /\ Placed(records', run.session, p, files[p].drafts[i])
               /\ files[p].drafts[i].session < run.session
    <3>1. files[p].drafts[i].session < run.session
      BY <1>2, <2>1 DEF BeforeOutput
    <3> QED
      BY <1>1, <1>2, <1>3, <2>1, <2>3, <3>1, StillPlaced
  <2> QED
    BY <2>1, <2>2, <2>3, <2>4 DEF DInv
<1>13. CASE OpenOutput \/ WriteOutput
  <2>1. /\ run.pc \in {"publish", "publishing"} /\ UNCHANGED records
        /\ run.dest \in Path
    BY <1>1, <1>13, CommitRows
  <2>2. /\ run'.drafts = run.drafts /\ run'.queue \in {run.queue, <<>>}
        /\ run'.cmd = run.cmd /\ run'.session = run.session /\ run'.dest = run.dest
    BY <1>13, CommitRows DEF Turns, Becomes, Stops
  <2>3. ASSUME run.cmd = "review"
        PROVE  /\ \A i \in DOMAIN run'.queue : Carried(records, run.session, run'.queue[i])
               /\ \A i \in DOMAIN run'.drafts : /\ Carried(records, run.session, run'.drafts[i])
                                                /\ run'.drafts[i].stage = "reviewed"
    BY <1>2, <1>5, <2>2, <2>3
  <2>4. CASE OpenOutput
    <3>1. files' = [files EXCEPT ![run.dest] = Output("torn", <<>>)] /\ run'.pc = "publishing"
      BY <2>4, CommitRows DEF Turns, Becomes
    <3>2. files'[run.dest].drafts = <<>> /\ \A p \in Path \ {run.dest} : files'[p] = files[p]
      BY <1>1, <2>1, <3>1 DEF Output
    <3>3. \A p \in Path : \A i \in DOMAIN files'[p].drafts :
             Placed(records, run.session, p, files'[p].drafts[i])
      BY <1>2, <3>2
    <3> QED
      BY <2>1, <2>2, <2>3, <3>1, <3>2, <3>3 DEF DInv, BeforeOutput
  <2>5. CASE WriteOutput
    <3>1. files' = [files EXCEPT ![run.dest] = Output("whole", run.drafts)] /\ run'.pc = "idle"
      BY <2>5, CommitRows DEF Stops
    <3>2. /\ files'[run.dest].drafts = run.drafts
          /\ \A p \in Path \ {run.dest} : files'[p] = files[p]
      BY <1>1, <2>1, <3>1 DEF Output
    <3>3. ASSUME run.cmd # "review", NEW i \in DOMAIN run.drafts
          PROVE  /\ RecordBeside(run.dest, run.drafts[i])
                 /\ Placed(records, run.session, run.dest, run.drafts[i])
      <4>1. /\ run.drafts \in Seq(OfSession(run.session))
            /\ records[run.dest] = Saved("whole", {ThisRecord})
        BY <2>1, <3>3 DEF AInv, RecordedFirst
      <4>2. run.drafts[i].session = run.session
        BY <4>1 DEF OfSession
      <4>3. run.drafts[i].id \in Range(ThisRecord.ids) /\ ThisRecord.session = run.session
        BY RecordTyped DEF Range
      <4>4. TellsOf(ThisRecord, run.drafts[i])
        BY <4>2, <4>3 DEF TellsOf
      <4>5. ThisRecord \in records[run.dest].record
        BY <4>1 DEF Saved
      <4>6. Traced(records, run.dest, run.drafts[i])
        BY <4>4, <4>5 DEF Traced
      <4> QED
        BY <1>1, <2>1, <4>2, <4>4, <4>5, <4>6 DEF RecordBeside, Placed, Carried
    <3>4. \A i \in DOMAIN run.drafts : Placed(records, run.session, run.dest, run.drafts[i])
      BY <1>2, <3>3 DEF Placed
    <3>5. \A p \in Path : \A i \in DOMAIN files'[p].drafts :
             Placed(records, run.session, p, files'[p].drafts[i])
      BY <1>2, <3>2, <3>4
    <3>6. ASSUME run'.cmd # "review", NEW i \in DOMAIN files'[run'.dest].drafts
          PROVE  RecordBeside(run.dest, files[run.dest].drafts[i])'
      <4>1. /\ run.cmd # "review" /\ run'.dest = run.dest /\ records' = records
            /\ files'[run.dest].drafts = run.drafts
        BY <2>1, <2>2, <3>2, <3>6
      <4>2. RecordBeside(run.dest, run.drafts[i])
        BY <3>3, <3>6, <4>1
      <4> QED
        BY <4>1, <4>2 DEF RecordBeside
    <3>7. /\ run'.pc \notin BeforeOutput /\ run'.pc # "publishing"
          /\ records' = records /\ run'.session = run.session
      BY <2>1, <2>2, <3>1 DEF BeforeOutput
    <3>8. \A p \in Path : \A i \in DOMAIN files'[p].drafts :
             Placed(records', run'.session, p, files'[p].drafts[i])
      BY <3>5, <3>7
    <3>9. run'.cmd = "review" =>
            /\ \A i \in DOMAIN run'.queue : Carried(records', run'.session, run'.queue[i])
            /\ \A i \in DOMAIN run'.drafts : /\ Carried(records', run'.session, run'.drafts[i])
                                              /\ run'.drafts[i].stage = "reviewed"
      BY <2>2, <2>3, <3>7
    <3> QED
      BY <3>6, <3>7, <3>8, <3>9 DEF DInv
  <2> QED
    BY <1>13, <2>4, <2>5
<1>14. CASE UNCHANGED vars
  BY <1>2, <1>14 DEF DInv, vars, RecordBeside
<1> QED
  BY <1>6, <1>7, <1>8, <1>9, <1>10, <1>11, <1>12, <1>13, <1>14, NextRows

\* Whatever command runs, drafts on disk are traced to their records.
LEMMA PlacesInvariant == Spec => [](TInv /\ KInv /\ AInv /\ DInv)
<1>1. Init => TInv /\ KInv /\ AInv /\ DInv
  BY TypesStart, KnownStart, RecordsStart, PlacesStart
<1>2. TInv /\ KInv /\ AInv /\ DInv /\ [Next]_vars => (TInv /\ KInv /\ AInv /\ DInv)'
  BY TypesKept, KnownKept, RecordsKept, PlacesKept
<1> QED
  BY <1>1, <1>2, PTL DEF Spec

\* A draft of an LLM session is only on disk after a record that tells of it, and
\* that record lies beside it unless a later session has written over it; after
\* a clean exit it does lie there (cmd_extract.go, cmd_assist.go and
\* cmd_critique.go write the record, then the drafts).
THEOREM DraftsAccountedFor == Spec => []EveryDraftIsAccountedFor
<1>1. AInv /\ DInv => EveryDraftIsAccountedFor
  <2> SUFFICES ASSUME AInv, DInv, NEW p \in Path, NEW d,
                      \E i \in DOMAIN files[p].drafts : d = files[p].drafts[i],
                      d.session # 0
               PROVE  /\ \E r \in archive : TellsOf(r, d)
                      /\ d.stage # "reviewed" => RecordBeside(p, d) \/ Overwritten(p, d)
                      /\ \E q \in Path : RecordBeside(q, d) \/ Overwritten(q, d)
                      /\ CleanExit(p) => RecordBeside(p, d)
    BY DEF EveryDraftIsAccountedFor
  <2>1. PICK i \in DOMAIN files[p].drafts : d = files[p].drafts[i]
    OBVIOUS
  <2>2. d \in AccountedFor(archive)
    BY <2>1 DEF AInv
  <2>3. Placed(records, run.session, p, d)
    BY <2>1 DEF DInv
  <2>4. \A q : Traced(records, q, d) <=> RecordBeside(q, d) \/ Overwritten(q, d)
    BY DEF Traced, RecordBeside, Overwritten
  <2>5. CleanExit(p) => RecordBeside(p, d)
    BY <2>1 DEF DInv, CleanExit
  <2> QED
    BY <2>2, <2>3, <2>4, <2>5 DEF AccountedFor, Placed, Carried
<1> QED
  BY <1>1, PlacesInvariant, PTL

\* An output file is not even emptied before the record that goes with what
\* replaces it is whole beside it, except by review, which keeps no record.
THEOREM RecordsFirst == Spec => RecordsComeFirst
<1> DEFINE First(p) == \/ run.cmd = "review"
                       \/ /\ ~run.failed
                          /\ records[p].is = "whole"
                          /\ \E r \in records[p].record :
                                r.session = run.session /\ r.ids = IdsOf(run.drafts)
<1>1. ASSUME TInv, AInv, Next, NEW p \in Path, files'[p] # files[p]
      PROVE  First(p)
  <2>1. OpenOutput \/ WriteOutput
    <3>1. Starts \/ Goes \/ Halts => UNCHANGED files
      BY DEF Starts, Goes, Halts, Quiet
    <3>2. ExtractReply => UNCHANGED files
      BY <1>1, ExtractRow DEF Beside
    <3>3. CritiqueReply => UNCHANGED files
      BY <1>1, CritiqueRow DEF Beside
    <3>4. AssistReply => UNCHANGED files
      BY <1>1, AssistRow DEF Beside
    <3>5. AssistAccept \/ AssistEdit \/ AssistAbandon => UNCHANGED files
      BY <1>1, AnalystRows DEF Beside, Quiet
    <3>6. ReviewKeep => UNCHANGED files
      BY <1>1, ReviewRow DEF Beside
    <3>7. OpenRecord \/ WriteRecord => UNCHANGED files
      BY <1>1, CommitRows
    <3> QED
      BY <1>1, <3>1, <3>2, <3>3, <3>4, <3>5, <3>6, <3>7, NextRows
  <2>2. /\ run.pc \in {"publish", "publishing"}
        /\ files' \in {[files EXCEPT ![run.dest] = Output("torn", <<>>)],
                       [files EXCEPT ![run.dest] = Output("whole", run.drafts)]}
    BY <1>1, <2>1, CommitRows
  <2>3. p = run.dest
    BY <1>1, <2>2 DEF TInv
  <2>4. run.cmd # "review" => RecordedFirst
    BY <1>1, <2>2 DEF AInv
  <2>5. ThisRecord.session = run.session /\ ThisRecord.ids = IdsOf(run.drafts)
    BY DEF ThisRecord
  <2>6. RecordedFirst => /\ ~run.failed /\ records[p].is = "whole"
                         /\ ThisRecord \in records[p].record
    BY <2>3 DEF RecordedFirst, Saved
  <2> QED
    BY <2>4, <2>5, <2>6
<1>2. TInv /\ AInv /\ [Next]_vars =>
        [ \A p \in Path : files'[p] # files[p] => First(p) ]_vars
  BY <1>1
<1>3. TInv /\ AInv /\ [Next]_vars =>
        [ \A p \in Path : files'[p] # files[p] =>
           \/ run.cmd = "review"
           \/ /\ ~run.failed
              /\ records[p].is = "whole"
              /\ \E r \in records[p].record :
                    r.session = run.session /\ r.ids = IdsOf(run.drafts) ]_vars
  BY <1>2
<1> QED
  BY <1>3, RecordsInvariant, PTL DEF Spec, RecordsComeFirst


(***************************************************************************)
(* Nothing is passed over in silence.                                       *)
(***************************************************************************)

\* Unless a failure is noted, the analyst quits or the process fails, every item
\* is in the queue or has been dealt with.
CInv ==
    /\ (run.pc = "idle" => run.end = "ok") /\ ~run.note =>
         /\ run.cmd = "assist" /\ ~run.quit =>
               Len(run.dispositions) + Len(run.queue) = run.size
         /\ run.cmd = "critique" => Len(run.drafts) + Len(run.queue) = run.size
    /\ run.pc = "idle" /\ run.end = "ok" /\ run.cmd = "assist" => ~run.note
    /\ run.pc \in {"idle", "record", "recording", "publish", "publishing"} => run.queue = <<>>
    /\ run.pc = "retry" => run.note

\* One item less in the queue and one more dealt with.
LEMMA OneMoved ==
    ASSUME NEW m \in Nat, NEW n \in Nat
    PROVE  (m + 1) + (n - 1) = m + n
  OBVIOUS

\* Every step keeps the count of items taken, left and skipped: an item
\* leaves the queue only into a draft, a disposition or a note of failure.
LEMMA CoverKept ==
    ASSUME TInv, CInv, [Next]_vars
    PROVE  CInv'
<1> USE DEF Quiet, Beside
<1>1. /\ run.drafts \in Seq(Draft) /\ run.dispositions \in Seq(Disposition)
      /\ run.cmd \in Commands /\ run.size \in Nat
      /\ run.note \in BOOLEAN /\ run.quit \in BOOLEAN
      /\ run.cmd \in {"extract", "assist"} => run.queue \in Seq(Span)
      /\ run.cmd \in {"critique", "review"} => run.queue \in Seq(Draft)
  BY DEF TInv, RunTyped, RunFits
<1>2. Len(run.queue) \in Nat /\ Len(run.drafts) \in Nat /\ Len(run.dispositions) \in Nat
  BY <1>1 DEF Commands
<1>3. run.queue # <<>> => Len(Tail(run.queue)) = Len(run.queue) - 1
  BY <1>1 DEF Commands
<1>4. Len(<<>>) = 0
  OBVIOUS
<1>5. CASE Starts
  <2>1. PICK cmd \in Commands, dest \in Path, queue \in Seq(Span) \cup Seq(Draft) :
          run' = Started(cmd, dest, queue)
    BY <1>5 DEF Starts
  <2>2. /\ run'.cmd = cmd /\ run'.queue = queue /\ run'.drafts = <<>>
        /\ run'.dispositions = <<>> /\ run'.size = Len(queue) /\ run'.pc \in {"load", "next"}
    BY <2>1 DEF Started, Idle
  <2>3. Len(queue) \in Nat
    OBVIOUS
  <2>4. Len(run'.drafts) + Len(run'.queue) = run'.size
    BY <1>4, <2>2, <2>3
  <2>5. Len(run'.dispositions) + Len(run'.queue) = run'.size
    BY <1>4, <2>2, <2>3
  <2> QED
    BY <2>2, <2>4, <2>5 DEF CInv
\* A failure is noted, or the analyst quits.
<1>6. ASSUME run'.cmd = run.cmd, run'.pc # "idle",
             run'.pc \in {"record", "recording", "publish", "publishing"} => run'.queue = <<>>,
             run'.note = TRUE
      PROVE  CInv'
  BY <1>6 DEF CInv
<1>7. CASE LoadTemplate
  <2>1. /\ run.pc = "load"
        /\ \/ Becomes("next", run.queue, run.shown, run.drafts, run.dispositions,
                      run.note, run.failed, run.quit)
           \/ Becomes("record", <<>>, <<>>, run.drafts, run.dispositions,
                      TRUE, TRUE, run.quit)
    BY <1>7, SessionRows
  <2>2. CASE Becomes("next", run.queue, run.shown, run.drafts, run.dispositions,
                     run.note, run.failed, run.quit)
    BY <2>1, <2>2 DEF CInv, Becomes
  <2>3. CASE Becomes("record", <<>>, <<>>, run.drafts, run.dispositions,
                     TRUE, TRUE, run.quit)
    BY <1>6, <2>3 DEF Becomes
  <2> QED
    BY <2>1, <2>2, <2>3
<1>8. CASE QueueEmpty
  <2>1. /\ run.pc = "next" /\ run.queue = <<>>
        /\ Becomes(OverPc, <<>>, <<>>, run.drafts, run.dispositions,
                   run.note, run.failed, run.quit)
    BY <1>8, SessionRows
  <2> QED
    BY <2>1 DEF CInv, Becomes, OverPc
<1>9. CASE ExtractFails
  BY <1>6, <1>9, SessionRows DEF Becomes
<1>10. CASE CritiqueFails
  BY <1>6, <1>10, SessionRows DEF Becomes
<1>11. CASE AssistFails
  BY <1>6, <1>11, SessionRows DEF Becomes
<1>12. CASE SkipFailed
  <2>1. run.pc = "retry" /\ Becomes("next", Tail(run.queue), <<>>, run.drafts,
             run.dispositions, run.note, run.failed, run.quit)
    BY <1>12, SessionRows
  <2>2. run.note = TRUE
    BY <1>1, <2>1 DEF CInv
  <2> QED
    BY <1>6, <2>1, <2>2 DEF Becomes
<1>13. CASE ReviewSkip
  <2>1. run.cmd = "review" /\ Becomes("next", Tail(run.queue), <<>>, run.drafts,
             run.dispositions, run.note, run.failed, run.quit)
    BY <1>13, SessionRows
  <2> QED
    BY <2>1 DEF CInv, Becomes
<1>14. CASE Quit
  <2>1. run.cmd \in {"assist", "review"} /\ Becomes(OverPc, <<>>, <<>>, run.drafts,
             run.dispositions, run.note, run.failed, TRUE)
    BY <1>14, SessionRows
  <2> QED
    BY <2>1 DEF CInv, Becomes, OverPc
<1>15. CASE ExtractReply
  <2>1. run.cmd = "extract" /\ run'.cmd = run.cmd /\ run'.pc = "next"
    BY <1>15, ExtractRow DEF Becomes
  <2> QED
    BY <2>1 DEF CInv
<1>16. CASE CritiqueReply
  <2>1. run.cmd = "critique" /\ run.queue # <<>> /\ run.pc = "next"
    BY <1>16, CritiqueRow
  <2>2. PICK d : /\ d \in Draft
                 /\ Becomes("next", Tail(run.queue), <<>>, run.drafts \o <<d>>,
                            run.dispositions, run.note, run.failed, run.quit)
    BY <1>16, CritiqueRow DEF NewDraft
  <2>3. Len(run.drafts \o <<d>>) = Len(run.drafts) + 1
    BY <1>1, <2>2
  <2>4. /\ run'.cmd = run.cmd /\ run'.queue = Tail(run.queue) /\ run'.note = run.note
        /\ run'.drafts = run.drafts \o <<d>> /\ run'.size = run.size /\ run'.pc = "next"
    BY <2>2 DEF Becomes
  <2>5. ~run.note => Len(run.drafts) + Len(run.queue) = run.size
    BY <2>1 DEF CInv
  <2>6. ~run'.note => Len(run'.drafts) + Len(run'.queue) = run'.size
    <3>1. Len(run'.drafts) = Len(run.drafts) + 1 /\ Len(run'.queue) = Len(run.queue) - 1
      BY <1>3, <2>1, <2>3, <2>4
    <3>2. Len(run'.drafts) + Len(run'.queue) = Len(run.drafts) + Len(run.queue)
      BY <1>2, <3>1, OneMoved
    <3> QED
      BY <2>4, <2>5, <3>2
  <2> QED
    BY <2>1, <2>4, <2>6 DEF CInv
<1>17. CASE AssistReply
  <2>1. run.cmd = "assist" /\ run.pc = "next"
    BY <1>17, AssistRow
  <2>2. PICK d : Becomes("prompt", run.queue, <<d>>, run.drafts, run.dispositions,
                         run.note, run.failed, run.quit)
    BY <1>17, AssistRow
  <2> QED
    BY <2>1, <2>2 DEF CInv, Becomes
<1>18. CASE AssistAccept \/ AssistEdit
  <2>1. /\ run'.cmd = run.cmd /\ run'.queue = Tail(run.queue) /\ run'.note = run.note
        /\ run'.size = run.size /\ run'.pc = "next" /\ run'.quit = run.quit
        /\ \E x : run'.dispositions = Append(run.dispositions, x)
    BY <1>18, AnalystRows DEF Becomes
  <2>2. run.cmd = "assist" /\ run.queue # <<>> /\ run.pc = "prompt"
    BY <1>18, AnalystRows, ShownFacts
  <2>3. Len(run'.dispositions) = Len(run.dispositions) + 1
    BY <1>1, <2>1
  <2>4. ~run.note /\ ~run.quit => Len(run.dispositions) + Len(run.queue) = run.size
    BY <2>2 DEF CInv
  <2>5. ~run'.note /\ ~run'.quit => Len(run'.dispositions) + Len(run'.queue) = run'.size
    <3>1. Len(run'.queue) = Len(run.queue) - 1
      BY <1>3, <2>1, <2>2
    <3>2. Len(run'.dispositions) + Len(run'.queue) = Len(run.dispositions) + Len(run.queue)
      BY <1>2, <2>3, <3>1, OneMoved
    <3> QED
      BY <2>1, <2>4, <3>2
  <2> QED
    BY <2>1, <2>2, <2>5 DEF CInv
<1>19. CASE AssistAbandon
  <2>1. /\ run'.cmd = run.cmd /\ run'.queue = <<>> /\ run'.pc = "record" /\ run'.quit = TRUE
    BY <1>19, AnalystRows DEF Becomes
  <2>2. run.cmd = "assist"
    BY <1>19, AnalystRows DEF At
  <2> QED
    BY <2>1, <2>2 DEF CInv
<1>20. CASE ReviewKeep
  <2>1. run.cmd = "review" /\ run'.cmd = run.cmd /\ run'.pc = "next"
    BY <1>20, ReviewRow DEF Becomes
  <2> QED
    BY <2>1 DEF CInv
\* A failure or a kill: not a clean exit.
<1>21. ASSUME Stops("error") \/ Stops("killed")
       PROVE  CInv'
  BY <1>21 DEF CInv, Stops
<1>22. ASSUME Stops(Exit), run.pc = "publishing"
       PROVE  CInv'
  BY <1>1, <1>22 DEF CInv, Stops, Exit
<1>23. ASSUME NEW pc \in {"recording", "publish", "publishing"}, Turns(pc),
              run.pc \in {"record", "recording", "publish"}
       PROVE  CInv'
  BY <1>23 DEF CInv, Turns, Becomes
<1>24. CASE OpenRecord \/ WriteRecord \/ OpenOutput
  BY <1>21, <1>23, <1>24, CommitRows
<1>25. CASE RecordFails \/ WriteOutput \/ OutputFails \/ CloseFails \/ Kill
  BY <1>21, <1>22, <1>25, CommitRows
<1>26. CASE UNCHANGED vars
  BY <1>26 DEF CInv, vars
<1>27. \/ Starts
       \/ LoadTemplate \/ QueueEmpty \/ ExtractFails \/ CritiqueFails
            \/ AssistFails \/ SkipFailed \/ ReviewSkip \/ Quit
       \/ RecordFails \/ OutputFails \/ CloseFails \/ Kill
       \/ ExtractReply \/ CritiqueReply \/ AssistReply
       \/ AssistAccept \/ AssistEdit \/ AssistAbandon \/ ReviewKeep
       \/ OpenRecord \/ WriteRecord \/ OpenOutput \/ WriteOutput
       \/ UNCHANGED vars
  BY BeginRow DEF Next, Program, Ask, Analyst, Commit
<1> QED
  BY <1>5, <1>7, <1>8, <1>9, <1>10, <1>11, <1>12, <1>13, <1>14, <1>15, <1>16, <1>17,
     <1>18, <1>19, <1>20, <1>24, <1>25, <1>26, <1>27

\* Exit code 0 means that assist disposed of a draft for every span unless the
\* analyst quit, and that critique has a critique of every draft or a note in
\* the record (cmd_assist.go, cmd_critique.go).
THEOREM CleanExitCovers == Spec => []CleanExitCoversEveryItem
<1>1. Init => TInv /\ CInv
  <2>1. Init => CInv
    BY DEF Init, Idle, CInv
  <2> QED
    BY <2>1, TypesStart
<1>2. TInv /\ CInv /\ [Next]_vars => (TInv /\ CInv)'
  BY TypesKept, CoverKept
<1>3. TInv /\ CInv => CleanExitCoversEveryItem
  <2> SUFFICES ASSUME TInv, CInv, run.pc = "idle", run.end = "ok"
               PROVE  /\ run.cmd = "assist" /\ ~run.quit => Len(run.dispositions) = run.size
                      /\ run.cmd = "critique" /\ ~run.note => Len(run.drafts) = run.size
    BY DEF CleanExitCoversEveryItem
  <2>1. Len(run.dispositions) \in Nat /\ Len(run.drafts) \in Nat
    BY DEF TInv, RunTyped
  <2>2. Len(run.queue) = 0
    BY DEF CInv
  <2> QED
    BY <2>1, <2>2 DEF CInv
<1> QED
  BY <1>1, <1>2, <1>3, PTL DEF Spec


(***************************************************************************)
(* Dispositions.                                                            *)
(***************************************************************************)

\* The IDs of a stage, the dispositions of edited drafts, and the parents of
\* drafts, for a list of drafts that were issued.
WithStage(log, ids, stage) ==
    Subsequence(ids, { k \in DOMAIN ids : log[ids[k]].stage = stage })

EditedOf(disps) ==
    Subsequence(disps, { k \in DOMAIN disps : disps[k].action = "edited" })

ParentsOf(log, ids) == [i \in DOMAIN ids |-> log[ids[i]].parent]

Match(log, ids, disps) ==
    /\ WithStage(log, ids, "weak-draft") = IdsOf(disps)
    /\ ParentsOf(log, WithStage(log, ids, "reviewed")) = IdsOf(EditedOf(disps))

\* The property, said with the operators of the proof.
LEMMA MatchSaysIt ==
    DispositionsMatchDrafts <=>
        \A r \in archive : r.cmd = "assist" => Match(issued, r.ids, r.dispositions)
  BY DEF DispositionsMatchDrafts, Match, WithStage, EditedOf, ParentsOf

\* The IDs of the drafts at a stage are IDs of the session.
LEMMA StageType ==
    ASSUME NEW log, NEW ids \in Seq(Nat), NEW stage
    PROVE  /\ WithStage(log, ids, stage) \in Seq(Nat)
           /\ \A i \in DOMAIN WithStage(log, ids, stage) :
                 \E k \in DOMAIN ids : WithStage(log, ids, stage)[i] = ids[k]
<1> DEFINE K == { k \in DOMAIN ids : log[ids[k]].stage = stage }
<1>1. K \in SUBSET DOMAIN ids
  OBVIOUS
<1>2. K \in SUBSET Int /\ IsFiniteSet(K)
  BY <1>1, Places
<1>3. \A k \in K : ids[k] \in Nat
  OBVIOUS
<1>4. WithStage(log, ids, stage) = Subsequence(ids, K)
  BY DEF WithStage
<1> HIDE DEF K
<1>5. Subsequence(ids, K) \in Seq(Nat)
  BY <1>2, <1>3, SubsequenceType
<1>6. \A i \in DOMAIN Subsequence(ids, K) :
         Nth(K, i) \in K /\ Subsequence(ids, K)[i] = ids[Nth(K, i)]
  BY <1>2, SubsequenceFacts
<1> QED
  BY <1>1, <1>4, <1>5, <1>6

\* More drafts do not change what was said of those there were.
LEMMA MatchStays ==
    ASSUME NEW log, NEW more, NEW ids \in Seq(Nat), NEW disps,
           \A k \in DOMAIN ids : more[ids[k]] = log[ids[k]],
           Match(log, ids, disps)
    PROVE  Match(more, ids, disps)
<1>1. \A stage : WithStage(more, ids, stage) = WithStage(log, ids, stage)
  BY DEF WithStage
<1> DEFINE rev == WithStage(log, ids, "reviewed")
<1>2. \A i \in DOMAIN rev : \E k \in DOMAIN ids : rev[i] = ids[k]
  BY StageType
<1> HIDE DEF rev
<1>3. ParentsOf(more, rev) = ParentsOf(log, rev)
  BY <1>2 DEF ParentsOf
<1> QED
  BY <1>1, <1>3 DEF Match, rev

\* One more ID is kept exactly when its draft is at the stage.
LEMMA StageAppended ==
    ASSUME NEW log, NEW ids \in Seq(Nat), NEW id \in Nat, NEW stage
    PROVE  WithStage(log, Append(ids, id), stage) =
             IF log[id].stage = stage THEN Append(WithStage(log, ids, stage), id)
             ELSE WithStage(log, ids, stage)
<1> DEFINE w == Append(ids, id)
           K == { k \in DOMAIN ids : log[ids[k]].stage = stage }
           L == { k \in DOMAIN w : log[w[k]].stage = stage }
<1>1. /\ DOMAIN w = DOMAIN ids \cup {Len(ids) + 1} /\ w[Len(ids) + 1] = id
      /\ \A k \in DOMAIN ids : w[k] = ids[k]
  OBVIOUS
<1> HIDE DEF w
<1>2. L = IF log[id].stage = stage THEN K \cup {Len(ids) + 1} ELSE K
  BY <1>1
<1>3. K \in SUBSET DOMAIN ids
  OBVIOUS
<1>4. WithStage(log, w, stage) = Subsequence(w, L) /\ WithStage(log, ids, stage) = Subsequence(ids, K)
  BY DEF WithStage
<1> HIDE DEF K, L
<1>5. Subsequence(w, K) = Subsequence(ids, K)
  BY <1>3, SubsequenceAppended DEF w
<1>6. Subsequence(w, K \cup {Len(ids) + 1}) = Append(Subsequence(ids, K), id)
  BY <1>3, SubsequenceAppended DEF w
<1> QED
  BY <1>2, <1>4, <1>5, <1>6 DEF w

\* One more disposition is kept exactly when it is an edit.
LEMMA EditedAppended ==
    ASSUME NEW disps \in Seq(Disposition), NEW x \in Disposition
    PROVE  /\ EditedOf(Append(disps, x)) =
                IF x.action = "edited" THEN Append(EditedOf(disps), x) ELSE EditedOf(disps)
           /\ EditedOf(disps) \in Seq(Disposition)
<1> DEFINE w == Append(disps, x)
           K == { k \in DOMAIN disps : disps[k].action = "edited" }
           L == { k \in DOMAIN w : w[k].action = "edited" }
<1>1. /\ DOMAIN w = DOMAIN disps \cup {Len(disps) + 1} /\ w[Len(disps) + 1] = x
      /\ \A k \in DOMAIN disps : w[k] = disps[k]
  OBVIOUS
<1> HIDE DEF w
<1>2. L = IF x.action = "edited" THEN K \cup {Len(disps) + 1} ELSE K
  BY <1>1
<1>3. K \in SUBSET DOMAIN disps /\ \A k \in K : disps[k] \in Disposition
  OBVIOUS
<1>4. EditedOf(w) = Subsequence(w, L) /\ EditedOf(disps) = Subsequence(disps, K)
  BY DEF EditedOf
<1> HIDE DEF K, L
<1>5. /\ Subsequence(Append(disps, x), K) = Subsequence(disps, K)
      /\ Subsequence(Append(disps, x), K \cup {Len(disps) + 1}) = Append(Subsequence(disps, K), x)
  <2>1. K \in SUBSET DOMAIN disps
    BY <1>3
  <2> QED
    BY <2>1, SubsequenceAppended
<1>6. /\ Subsequence(w, K) = Subsequence(disps, K)
      /\ Subsequence(w, K \cup {Len(disps) + 1}) = Append(Subsequence(disps, K), x)
  BY <1>5 DEF w
<1>7. K \in SUBSET Int /\ IsFiniteSet(K)
  BY <1>3, Places
<1>8. Subsequence(disps, K) \in Seq(Disposition)
  BY <1>3, <1>7, SubsequenceType
<1> QED
  BY <1>2, <1>4, <1>6, <1>8 DEF w

\* One more draft, one more ID.
LEMMA IdsAppended ==
    ASSUME NEW S, NEW q \in Seq(S), NEW x \in S, \A d \in S : d.id \in Nat
    PROVE  IdsOf(Append(q, x)) = Append(IdsOf(q), x.id) /\ IdsOf(q) \in Seq(Nat)
<1> DEFINE w == Append(q, x)
           v == IdsOf(q)
           N == Len(q)
<1>1. /\ DOMAIN q = 1..N /\ N \in Nat /\ \A n \in 1..N : q[n] \in S
      /\ DOMAIN w = 1..(N + 1) /\ w[N + 1] = x /\ \A n \in 1..N : w[n] = q[n]
  OBVIOUS
<1> HIDE DEF w, N
<1>2. v \in [1..N -> Nat] /\ \A n \in 1..N : v[n] = q[n].id
  BY <1>1 DEF IdsOf
<1>3. v \in Seq(Nat) /\ Len(v) = N
  BY <1>1, <1>2
<1>4. IdsOf(w) = [n \in 1..(N + 1) |-> w[n].id]
  BY <1>1 DEF IdsOf
<1> HIDE DEF v
<1>5. x.id \in Nat
  OBVIOUS
<1>6. Append(v, x.id) = [n \in 1..(N + 1) |-> IF n = N + 1 THEN x.id ELSE v[n]]
  BY <1>3, <1>5, AppendedList
<1>7. \A n \in 1..(N + 1) : w[n].id = IF n = N + 1 THEN x.id ELSE v[n]
  BY <1>1, <1>2
<1> QED
  BY <1>3, <1>4, <1>6, <1>7 DEF w, v

\* One more draft, one more parent.
LEMMA ParentsAppended ==
    ASSUME NEW log, NEW ids \in Seq(Nat), NEW id \in Nat
    PROVE  ParentsOf(log, Append(ids, id)) = Append(ParentsOf(log, ids), log[id].parent)
<1> DEFINE w == Append(ids, id)
           v == ParentsOf(log, ids)
           N == Len(ids)
           S == { log[ids[i]].parent : i \in DOMAIN ids } \cup {log[id].parent}
<1>1. /\ DOMAIN ids = 1..N /\ N \in Nat
      /\ DOMAIN w = 1..(N + 1) /\ w[N + 1] = id /\ \A n \in 1..N : w[n] = ids[n]
  OBVIOUS
<1> HIDE DEF w, N
<1>2. v \in [1..N -> S] /\ \A n \in 1..N : v[n] = log[ids[n]].parent
  BY <1>1 DEF ParentsOf
<1>3. v \in Seq(S) /\ Len(v) = N /\ log[id].parent \in S
  BY <1>1, <1>2
<1>4. ParentsOf(log, w) = [n \in 1..(N + 1) |-> log[w[n]].parent]
  BY <1>1 DEF ParentsOf
<1> HIDE DEF v, S
<1>5. Append(v, log[id].parent) = [n \in 1..(N + 1) |-> IF n = N + 1 THEN log[id].parent ELSE v[n]]
  BY <1>3, AppendedList
<1>6. \A n \in 1..(N + 1) : log[w[n]].parent = IF n = N + 1 THEN log[id].parent ELSE v[n]
  BY <1>1, <1>2
<1> QED
  BY <1>4, <1>5, <1>6 DEF w, v

\* A draft is disposed of, and not edited.
LEMMA MatchAccepted ==
    ASSUME NEW log, NEW ids \in Seq(Nat), NEW disps \in Seq(Disposition), NEW x \in Disposition,
           Match(log, ids, disps), log[x.id].stage = "weak-draft", x.action # "edited"
    PROVE  Match(log, Append(ids, x.id), Append(disps, x))
<1>1. x.id \in Nat /\ \A d \in Disposition : d.id \in Nat
  BY DEF Disposition
<1>2. WithStage(log, Append(ids, x.id), "weak-draft") = Append(WithStage(log, ids, "weak-draft"), x.id)
  BY <1>1, StageAppended
<1>3. WithStage(log, Append(ids, x.id), "reviewed") = WithStage(log, ids, "reviewed")
  <2>1. log[x.id].stage # "reviewed"
    OBVIOUS
  <2> QED
    BY <1>1, <2>1, StageAppended
<1>4. EditedOf(Append(disps, x)) = EditedOf(disps)
  BY EditedAppended
<1>5. IdsOf(Append(disps, x)) = Append(IdsOf(disps), x.id)
  BY <1>1, IdsAppended
<1> QED
  BY <1>2, <1>3, <1>4, <1>5 DEF Match

\* A draft is edited: it and its revision are kept.
LEMMA MatchEdited ==
    ASSUME NEW log, NEW ids \in Seq(Nat), NEW disps \in Seq(Disposition), NEW x \in Disposition,
           Match(log, ids, disps), log[x.id].stage = "weak-draft", x.action = "edited",
           NEW id \in Nat, log[id].stage = "reviewed", log[id].parent = x.id
    PROVE  Match(log, Append(Append(ids, x.id), id), Append(disps, x))
<1>1. x.id \in Nat /\ \A d \in Disposition : d.id \in Nat
  BY DEF Disposition
<1> DEFINE ids1 == Append(ids, x.id)
           rev == WithStage(log, ids, "reviewed")
<1>2. ids1 \in Seq(Nat)
  BY <1>1
<1>3. WithStage(log, ids1, "weak-draft") = Append(WithStage(log, ids, "weak-draft"), x.id)
  BY <1>1, StageAppended
<1>4. WithStage(log, ids1, "reviewed") = rev
  <2>1. log[x.id].stage # "reviewed"
    OBVIOUS
  <2> QED
    BY <1>1, <2>1, StageAppended
<1> HIDE DEF ids1
<1>5. WithStage(log, Append(ids1, id), "weak-draft") = WithStage(log, ids1, "weak-draft")
  <2>1. log[id].stage # "weak-draft"
    OBVIOUS
  <2> QED
    BY <1>2, <2>1, StageAppended
<1>6. WithStage(log, Append(ids1, id), "reviewed") = Append(WithStage(log, ids1, "reviewed"), id)
  BY <1>2, StageAppended
<1>7. rev \in Seq(Nat)
  BY StageType
<1> HIDE DEF rev
<1>8. ParentsOf(log, Append(rev, id)) = Append(ParentsOf(log, rev), x.id)
  BY <1>7, ParentsAppended
<1>9. EditedOf(Append(disps, x)) = Append(EditedOf(disps), x) /\ EditedOf(disps) \in Seq(Disposition)
  BY EditedAppended
<1>10. IdsOf(Append(disps, x)) = Append(IdsOf(disps), x.id)
  BY <1>1, IdsAppended
<1>11. IdsOf(Append(EditedOf(disps), x)) = Append(IdsOf(EditedOf(disps)), x.id)
  BY <1>1, <1>9, IdsAppended
<1>12. /\ WithStage(log, ids, "weak-draft") = IdsOf(disps)
       /\ ParentsOf(log, rev) = IdsOf(EditedOf(disps))
  BY DEF Match, rev
<1>13. WithStage(log, Append(ids1, id), "weak-draft") = IdsOf(Append(disps, x))
  BY <1>3, <1>5, <1>10, <1>12
<1>14. ParentsOf(log, WithStage(log, Append(ids1, id), "reviewed"))
         = IdsOf(EditedOf(Append(disps, x)))
  BY <1>4, <1>6, <1>8, <1>9, <1>11, <1>12
<1> QED
  BY <1>13, <1>14 DEF Match, ids1


\* What assist has kept so far, and every record, match their dispositions; the
\* IDs in a record were given out.
MInv ==
    /\ \A r \in archive : r.cmd = "assist" =>
          /\ Match(issued, r.ids, r.dispositions)
          /\ \A k \in DOMAIN r.ids : r.ids[k] \in DOMAIN issued
    /\ run.cmd = "assist" => Match(issued, IdsOf(run.drafts), run.dispositions)

\* No assist session has begun.
LEMMA MatchStart ==
    ASSUME Init
    PROVE  MInv
  BY DEF MInv, Init, Idle

\* A session without drafts has nothing to match.
LEMMA NothingMatches ==
    ASSUME NEW log
    PROVE  Match(log, IdsOf(<<>>), <<>>)
<1> DEFINE none == <<>>
<1>1. DOMAIN none = {} /\ none = [i \in {} |-> 0]
  OBVIOUS
<1>2. \A u : DOMAIN u = {} => Subsequence(u, {}) = none
  <2>1. Cardinality({}) = 0
    BY FS_EmptySet
  <2>2. 1..0 = {}
    OBVIOUS
  <2> QED
    BY <1>1, <2>1, <2>2 DEF Subsequence
<1> HIDE DEF none
<1>3. IdsOf(none) = none
  BY <1>1 DEF IdsOf
<1>4. \A stage : WithStage(log, none, stage) = none
  BY <1>1, <1>2 DEF WithStage
<1>5. EditedOf(none) = none
  BY <1>1, <1>2 DEF EditedOf
<1>6. ParentsOf(log, none) = none
  BY <1>1 DEF ParentsOf
<1>7. Match(log, IdsOf(none), none)
  BY <1>3, <1>4, <1>5, <1>6 DEF Match
<1> QED
  BY <1>7 DEF none

\* Every step keeps dispositions and drafts in step: a disposition is
\* added together with the draft it is about.
LEMMA MatchKept ==
    ASSUME TInv, KInv, MInv, [Next]_vars
    PROVE  MInv'
<1> USE DEF Quiet, Beside
<1>1. /\ issued \in Seq(Draft) /\ run.shown \in Seq(Draft) /\ run.drafts \in Seq(Draft)
      /\ archive \subseteq Record /\ run.dispositions \in Seq(Disposition)
      /\ AllKnown(issued, run.drafts) /\ AllKnown(issued, run.shown)
  BY DEF TInv, RunTyped, KInv
<1>2. /\ IdsOf(run.drafts) \in Seq(Nat) /\ DOMAIN IdsOf(run.drafts) = DOMAIN run.drafts
      /\ \A k \in DOMAIN run.drafts : IdsOf(run.drafts)[k] = run.drafts[k].id
  BY RecordTyped
<1>3. \A k \in DOMAIN IdsOf(run.drafts) : IdsOf(run.drafts)[k] \in DOMAIN issued
  BY <1>1, <1>2 DEF AllKnown, Known
\* What was issued stays.
<1>4. ASSUME NEW new \in Seq(Draft), issued' = issued \o new
      PROVE  \A i \in DOMAIN issued : i \in DOMAIN issued' /\ issued'[i] = issued[i]
  BY <1>1, <1>4, ConcatFacts
\* Records stay as true as they were, when more drafts are issued.
<1>5. ASSUME \A i \in DOMAIN issued : i \in DOMAIN issued' /\ issued'[i] = issued[i],
             NEW r \in archive, r.cmd = "assist"
      PROVE  /\ Match(issued', r.ids, r.dispositions)
             /\ \A k \in DOMAIN r.ids : r.ids[k] \in DOMAIN issued'
  <2>1. /\ Match(issued, r.ids, r.dispositions)
        /\ \A k \in DOMAIN r.ids : r.ids[k] \in DOMAIN issued
    BY <1>5 DEF MInv
  <2>2. r.ids \in Seq(Nat)
    BY <1>1 DEF Record
  <2>3. \A k \in DOMAIN r.ids : issued'[r.ids[k]] = issued[r.ids[k]]
    BY <1>5, <2>1
  <2> DEFINE more == issued'
             ids == r.ids
             disps == r.dispositions
  <2>4. Match(more, ids, disps)
    <3>1. /\ ids \in Seq(Nat) /\ \A k \in DOMAIN ids : more[ids[k]] = issued[ids[k]]
          /\ Match(issued, ids, disps)
      BY <2>1, <2>2, <2>3
    <3> HIDE DEF more, ids, disps
    <3> QED
      BY <3>1, MatchStays
  <2> QED
    BY <1>5, <2>1, <2>4
\* So does what assist has kept.
<1>6. ASSUME \A i \in DOMAIN issued : i \in DOMAIN issued' /\ issued'[i] = issued[i],
             run.cmd = "assist"
      PROVE  Match(issued', IdsOf(run.drafts), run.dispositions)
  <2>1. Match(issued, IdsOf(run.drafts), run.dispositions)
    BY <1>6 DEF MInv
  <2> DEFINE more == issued'
             ids == IdsOf(run.drafts)
             disps == run.dispositions
  <2>2. /\ ids \in Seq(Nat) /\ \A k \in DOMAIN ids : more[ids[k]] = issued[ids[k]]
        /\ Match(issued, ids, disps)
    BY <1>2, <1>3, <1>6, <2>1
  <2> HIDE DEF more, ids, disps
  <2>3. Match(more, ids, disps)
    BY <2>2, MatchStays
  <2> QED
    BY <2>3 DEF more, ids, disps
\* Another command, or the same drafts and dispositions.
<1>7. ASSUME archive' = archive,
             issued' = issued \/ \E new \in Seq(Draft) : issued' = issued \o new,
             run'.cmd = run.cmd,
             run.cmd = "assist" => /\ run'.drafts = run.drafts
                                   /\ run'.dispositions = run.dispositions
      PROVE  MInv'
  <2>1. \A i \in DOMAIN issued : i \in DOMAIN issued' /\ issued'[i] = issued[i]
    BY <1>4, <1>7
  <2>2. run'.cmd = "assist" => Match(issued', IdsOf(run'.drafts), run'.dispositions)
    BY <1>6, <1>7, <2>1
  <2> QED
    BY <1>5, <1>7, <2>1, <2>2 DEF MInv
<1>8. CASE Starts
  <2>1. PICK cmd, dest, queue : run' = Started(cmd, dest, queue)
    BY <1>8 DEF Starts
  <2>2. run'.drafts = <<>> /\ run'.dispositions = <<>>
    BY <2>1 DEF Started, Idle
  <2>3. Match(issued, IdsOf(<<>>), <<>>)
    BY NothingMatches
  <2>4. issued' = issued /\ archive' = archive
    BY <1>8 DEF Starts
  <2> QED
    BY <2>2, <2>3, <2>4 DEF MInv
<1>9. CASE Goes
  <2>1. /\ issued' = issued /\ archive' = archive /\ run'.cmd = run.cmd
        /\ run'.drafts = run.drafts /\ run'.dispositions = run.dispositions
    BY <1>9 DEF Goes, Becomes
  <2> QED
    BY <1>7, <2>1
<1>10. CASE Halts
  <2>1. /\ issued' = issued /\ archive' = archive /\ run'.cmd = run.cmd
        /\ run'.drafts = run.drafts /\ run'.dispositions = run.dispositions
    BY <1>10 DEF Halts, Stops
  <2> QED
    BY <1>7, <2>1
<1>11. CASE ExtractReply
  <2>1. /\ run.cmd = "extract" /\ archive' = archive /\ run'.cmd = run.cmd
        /\ \E new \in Seq(Draft) : issued' = issued \o new
    BY <1>11, ExtractRow DEF Becomes, FromLLM
  <2> QED
    BY <1>7, <2>1
<1>12. ASSUME archive' = archive, run'.cmd = run.cmd,
              NEW d, d \in Draft, issued' = issued \o <<d>>,
              run.cmd = "assist" => /\ run'.drafts = run.drafts
                                    /\ run'.dispositions = run.dispositions
       PROVE  MInv'
  <2>1. <<d>> \in Seq(Draft)
    BY <1>12
  <2> QED
    BY <1>7, <1>12, <2>1
<1>13. CASE CritiqueReply
  <2>1. /\ run.cmd = "critique" /\ archive' = archive /\ run'.cmd = run.cmd
        /\ \E d \in Draft : issued' = issued \o <<d>>
    BY <1>13, CritiqueRow DEF Becomes, NewDraft
  <2> QED
    BY <1>12, <2>1
<1>14. CASE ReviewKeep
  <2>1. /\ run.cmd = "review" /\ archive' = archive /\ run'.cmd = run.cmd
        /\ \E d \in Draft : issued' = issued \o <<d>>
    BY <1>14, ReviewRow DEF Becomes, NewDraft
  <2> QED
    BY <1>12, <2>1
<1>15. CASE AssistReply
  <2>1. /\ archive' = archive /\ run'.cmd = run.cmd
        /\ \E d \in Draft : issued' = issued \o <<d>>
        /\ run'.drafts = run.drafts /\ run'.dispositions = run.dispositions
    BY <1>15, AssistRow DEF Becomes, NewDraft
  <2> QED
    BY <1>12, <2>1
\* The draft at the prompt is the LLM's.
<1>16. ASSUME At("prompt", {"assist"})
       PROVE  /\ run.cmd = "assist" /\ run.shown[1] \in Draft
              /\ run.drafts \o run.shown = Append(run.drafts, run.shown[1])
              /\ issued[run.shown[1].id] = run.shown[1]
              /\ run.shown[1].id \in DOMAIN issued
              /\ run.shown[1].stage = "weak-draft" /\ run.shown[1].id \in Nat
              /\ \A action \in Actions :
                    [id |-> run.shown[1].id, action |-> action] \in Disposition
              /\ IdsOf(Append(run.drafts, run.shown[1]))
                    = Append(IdsOf(run.drafts), run.shown[1].id)
  <2>1. /\ run.cmd = "assist" /\ run.shown[1] \in Draft /\ run.shown = <<run.shown[1]>>
        /\ DOMAIN run.shown = {1}
    BY <1>16, ShownFacts
  <2>2. run.drafts \o run.shown = Append(run.drafts, run.shown[1])
    <3> DEFINE x == run.shown[1]
           q == run.drafts
    <3>1. x \in Draft /\ run.shown = <<x>> /\ q \in Seq(Draft)
      BY <1>1, <2>1
    <3> HIDE DEF x, q
    <3>2. Append(q, x) = q \o <<x>>
      BY <3>1, AppendFacts
    <3> QED
      BY <3>1, <3>2 DEF x, q
  <2>3. Known(issued, run.shown[1])
    BY <1>1, <2>1 DEF AllKnown
  <2>4. run.shown[1].stage = "weak-draft"
    BY <2>1 DEF KInv
  <2>5. \A d \in Draft : d.id \in Nat
    BY DEF Draft
  <2>6. IdsOf(Append(run.drafts, run.shown[1])) = Append(IdsOf(run.drafts), run.shown[1].id)
    BY <1>1, <2>1, <2>5, IdsAppended
  <2> QED
    BY <2>1, <2>2, <2>3, <2>4, <2>5, <2>6 DEF Known, Disposition
<1>17. ASSUME At("prompt", {"assist"}), Quiet, run'.cmd = run.cmd,
              NEW action \in Actions \ {"edited"},
              run'.drafts = run.drafts \o run.shown,
              run'.dispositions = Append(run.dispositions,
                                         [id |-> run.shown[1].id, action |-> action])
       PROVE  MInv'
  <2> DEFINE x == [id |-> run.shown[1].id, action |-> action]
             ids == IdsOf(run.drafts)
  <2>1. /\ x \in Disposition /\ x.action # "edited" /\ x.id = run.shown[1].id
        /\ issued[x.id].stage = "weak-draft" /\ ids \in Seq(Nat)
        /\ Match(issued, ids, run.dispositions)
    BY <1>2, <1>16, <1>17 DEF MInv
  <2> HIDE DEF x, ids
  <2>2. Match(issued, Append(ids, x.id), Append(run.dispositions, x))
    BY <1>1, <2>1, MatchAccepted
  <2>3. IdsOf(run'.drafts) = Append(ids, x.id) /\ run'.dispositions = Append(run.dispositions, x)
    BY <1>16, <1>17 DEF x, ids
  <2>4. issued' = issued /\ archive' = archive
    BY <1>17
  <2> QED
    BY <2>2, <2>3, <2>4 DEF MInv
<1>18. CASE AssistAccept \/ AssistAbandon
  <2>1. At("prompt", {"assist"}) /\ Quiet
    BY <1>18, AnalystRows
  <2>2. \E action \in Actions \ {"edited"} :
           /\ run'.cmd = run.cmd /\ run'.drafts = run.drafts \o run.shown
           /\ run'.dispositions = Append(run.dispositions,
                                         [id |-> run.shown[1].id, action |-> action])
    <3>1. CASE AssistAccept
      BY <3>1, AnalystRows DEF Becomes, Actions
    <3>2. CASE AssistAbandon
      BY <3>2, AnalystRows DEF Becomes, Actions
    <3> QED
      BY <1>18, <3>1, <3>2
  <2> QED
    BY <1>17, <2>1, <2>2
<1>19. CASE AssistEdit
  <2>1. At("prompt", {"assist"}) /\ Beside
    BY <1>19, AnalystRows
  <2>2. PICK d : /\ NewDraft(d, run.shown[1].session, "reviewed", run.shown[1].id,
                             run.shown[1].span)
                 /\ issued' = issued \o <<d>>
                 /\ Becomes("next", Tail(run.queue), <<>>,
                            run.drafts \o run.shown \o <<d>>,
                            Append(run.dispositions,
                                   [id |-> run.shown[1].id, action |-> "edited"]),
                            run.note, run.failed, run.quit)
    BY <1>19, AnalystRows
  <2> DEFINE x == [id |-> run.shown[1].id, action |-> "edited"]
             ids == IdsOf(run.drafts)
             log == issued'
  <2>3. d \in Draft /\ d.id = Len(issued) + 1 /\ d.stage = "reviewed" /\ d.parent = run.shown[1].id
    BY <2>2 DEF NewDraft
  <2>4. <<d>> \in Seq(Draft) /\ DOMAIN <<d>> = {1} /\ <<d>>[1] = d
    BY <2>3
  <2>5. \A i \in DOMAIN issued : i \in DOMAIN issued' /\ issued'[i] = issued[i]
    BY <1>4, <2>2, <2>4
  <2>6. log[d.id] = d
    <3>1. issued' = Append(issued, d)
      BY <1>1, <2>2, <2>3, AppendFacts
    <3> QED
      BY <1>1, <2>3, <3>1
  <2>7. /\ x \in Disposition /\ x.action = "edited" /\ x.id = run.shown[1].id
        /\ log[x.id].stage = "weak-draft" /\ ids \in Seq(Nat)
    BY <1>2, <1>16, <2>1, <2>5 DEF Actions
  <2>8. Match(log, ids, run.dispositions)
    BY <1>6, <1>16, <2>1, <2>5
  <2>9. log[d.id].stage = "reviewed" /\ log[d.id].parent = x.id /\ d.id \in Nat
    BY <2>3, <2>6, <2>7 DEF Draft
  <2>10. IdsOf(run.drafts \o run.shown \o <<d>>) = Append(Append(ids, x.id), d.id)
    <3>1. run.drafts \o run.shown \in Seq(Draft)
      BY <1>1
    <3>2. run.drafts \o run.shown \o <<d>> = Append(run.drafts \o run.shown, d)
      <4> DEFINE u == run.drafts \o run.shown
      <4>1. u \in Seq(Draft)
        BY <3>1
      <4> HIDE DEF u
      <4>2. Append(u, d) = u \o <<d>>
        BY <2>3, <4>1, AppendFacts
      <4> QED
        BY <4>2 DEF u
    <3>3. \A e \in Draft : e.id \in Nat
      BY DEF Draft
    <3>4. IdsOf(Append(run.drafts \o run.shown, d)) = Append(IdsOf(run.drafts \o run.shown), d.id)
      BY <2>3, <3>1, <3>3, IdsAppended
    <3> QED
      BY <1>16, <2>1, <2>7, <3>2, <3>4
  <2> HIDE DEF x, ids, log
  <2>11. Match(log, Append(Append(ids, x.id), d.id), Append(run.dispositions, x))
    BY <1>1, <2>7, <2>8, <2>9, MatchEdited
  <2>12. /\ run'.drafts = run.drafts \o run.shown \o <<d>>
         /\ run'.dispositions = Append(run.dispositions, x)
    BY <2>2 DEF Becomes, x
  <2>13. Match(issued', IdsOf(run'.drafts), run'.dispositions)
    BY <2>10, <2>11, <2>12 DEF log
  <2> QED
    BY <1>5, <2>1, <2>5, <2>13 DEF MInv
<1>20. CASE WriteRecord
  <2>1. /\ issued' = issued /\ archive' = archive \cup {ThisRecord}
        /\ Stops("error") \/ Turns("publish")
    BY <1>20, CommitRows
  <2>2. /\ run'.cmd = run.cmd /\ run'.drafts = run.drafts
        /\ run'.dispositions = run.dispositions
    BY <2>1 DEF Turns, Becomes, Stops
  <2>3. /\ ThisRecord.cmd = run.cmd /\ ThisRecord.ids = IdsOf(run.drafts)
        /\ ThisRecord.dispositions = run.dispositions
    BY DEF ThisRecord
  <2> QED
    BY <1>3, <2>1, <2>2, <2>3 DEF MInv
<1>21. CASE OpenRecord \/ OpenOutput \/ WriteOutput
  <2>1. /\ issued' = issued /\ archive' = archive
        /\ Turns("recording") \/ Turns("publishing") \/ Stops(Exit)
    BY <1>21, CommitRows
  <2>2. /\ run'.cmd = run.cmd /\ run'.drafts = run.drafts
        /\ run'.dispositions = run.dispositions
    BY <2>1 DEF Turns, Becomes, Stops
  <2> QED
    BY <1>7, <2>1, <2>2
<1>22. CASE UNCHANGED vars
  BY <1>7, <1>22 DEF vars
<1> QED
  BY <1>8, <1>9, <1>10, <1>11, <1>13, <1>14, <1>15, <1>18, <1>19, <1>20, <1>21, <1>22,
     NextRows

\* The record of an assist session tells what became of each of its drafts, in
\* order, and a draft has a revision exactly if it was edited (assist.go: every
\* path of the loop that keeps a draft appends to both lists).
THEOREM DispositionsMatch == Spec => []DispositionsMatchDrafts
<1>1. Init => TInv /\ KInv /\ MInv
  BY TypesStart, KnownStart, MatchStart
<1>2. TInv /\ KInv /\ MInv /\ [Next]_vars => (TInv /\ KInv /\ MInv)'
  BY TypesKept, KnownKept, MatchKept
<1>3. MInv => DispositionsMatchDrafts
  BY MatchSaysIt DEF MInv
<1> QED
  BY <1>1, <1>2, <1>3, PTL DEF Spec


(***************************************************************************)
(* The files the commands leave, or others of the kind, promoted again.     *)
(***************************************************************************)

\* The drafts of a file that become traces, and the last one of each ID.
Kept(f) == { k \in DOMAIN f : IsPromotable(f[k]) }
Lasting(f) == { k \in Kept(f) : \A j \in Kept(f) : j > k => f[j].id # f[k].id }

AllHave(f, field) == \A k \in DOMAIN f : f[k][field] # 0

\* Once a file whose drafts have IDs is promoted, the mesh holds a trace for each
\* promotable ID, and if they have times, the trace of its last draft.
PInv ==
    /\ file \in DraftFile /\ promotions \in Nat
    /\ promotions = 0 => mesh = {}
    /\ promotions > 0 /\ AllHave(file, "id") =>
          /\ MeshIDs(mesh) = { file[k].id : k \in Kept(file) }
          /\ AllHave(file, "timestamp") =>
                mesh = { Promote(file[k]) : k \in Lasting(file) }

\* A load leaves a draft with an ID what it is, but for a time it lacks.
LEMMA LoadedFacts ==
    ASSUME NEW f \in DraftFile, NEW n, AllHave(f, "id")
    PROVE  LET l == LoadDrafts(f, n) IN
           /\ DOMAIN l = DOMAIN f
           /\ \A k \in DOMAIN f :
                 /\ l[k].id = f[k].id
                 /\ IsPromotable(l[k]) <=> IsPromotable(f[k])
                 /\ Promote(l[k]).id = f[k].id
                 /\ AllHave(f, "timestamp") => Promote(l[k]) = Promote(f[k])
<1> DEFINE l == LoadDrafts(f, n)
<1>1. DOMAIN l = DOMAIN f
  BY DEF LoadDrafts
<1>2. ASSUME NEW k \in DOMAIN f
      PROVE  /\ l[k].id = f[k].id /\ l[k].what = f[k].what
             /\ l[k].source = f[k].source /\ l[k].observer = f[k].observer
             /\ f[k].timestamp # 0 => l[k].timestamp = f[k].timestamp
  <2> DEFINE d == f[k]
  <2>1. IsDraft(d) /\ d.id # 0
    BY <1>2, DraftReadingsAssumption DEF AllHave
  <2>2. l[k] = [d EXCEPT !.id = IF @ = 0 THEN n + k ELSE @,
                         !.timestamp = IF @ = 0 THEN n ELSE @]
    BY DEF LoadDrafts
  <2> HIDE DEF d, l
  <2>3. d = [x \in DraftFields |-> d[x]]
    BY <2>1 DEF IsDraft
  <2>4. /\ DOMAIN d = DraftFields
        /\ {"id", "timestamp", "what", "source", "observer"} \subseteq DraftFields
    BY <2>3 DEF DraftFields
  <2> QED
    BY <2>1, <2>2, <2>4 DEF d
<1> HIDE DEF l
<1>3. \A k \in DOMAIN f :
         /\ IsPromotable(l[k]) <=> IsPromotable(f[k])
         /\ Promote(l[k]).id = f[k].id
  BY <1>2 DEF IsPromotable, Promote
<1>4. ASSUME AllHave(f, "timestamp"), NEW k \in DOMAIN f
      PROVE  Promote(l[k]) = Promote(f[k])
  BY <1>2, <1>4 DEF Promote, AllHave
<1> QED
  BY <1>1, <1>2, <1>3, <1>4 DEF l


\* The last draft of an ID is there.
LEMMA LastingIDs ==
    ASSUME NEW f \in DraftFile
    PROVE  { f[k].id : k \in Lasting(f) } = { f[k].id : k \in Kept(f) }
<1>1. \A K : K \in SUBSET DOMAIN f => K \in SUBSET Int /\ IsFiniteSet(K)
  BY Places, DraftReadingsAssumption
<1>2. ASSUME NEW j \in Kept(f)
      PROVE  \E k \in Lasting(f) : f[k].id = f[j].id
  <2> DEFINE K == { k \in Kept(f) : f[k].id = f[j].id }
  <2>1. K \in SUBSET DOMAIN f /\ K # {}
    BY <1>2 DEF Kept
  <2> HIDE DEF K
  <2>2. K \in SUBSET Int /\ IsFiniteSet(K)
    BY <1>1, <2>1
  <2>3. PICK m \in K : \A k \in K : k =< m
    BY <2>1, <2>2, FirstAndLast
  <2>4. \A k \in Kept(f) : k \in Int
    BY <1>1 DEF Kept
  <2>5. m \in Lasting(f) /\ f[m].id = f[j].id
    BY <2>2, <2>3, <2>4 DEF Lasting, K
  <2> QED
    BY <2>5
<1> QED
  BY <1>2 DEF Lasting

\* What a promotion and a store leave of a mesh that has no other IDs.
LEMMA PromotionStores ==
    ASSUME file \in DraftFile, AllHave(file, "id"), PromoteAndStore,
           MeshIDs(mesh) \subseteq { file[k].id : k \in Kept(file) }
    PROVE  /\ MeshIDs(mesh') = { file[k].id : k \in Kept(file) }
           /\ AllHave(file, "timestamp") =>
                 mesh' = { Promote(file[k]) : k \in Lasting(file) }
<1> DEFINE n == Fresh(promotions + 1)
           l == LoadDrafts(file, n)
           kept == { k \in DOMAIN l : IsPromotable(l[k]) }
           last == { k \in kept : \A j \in kept : j > k => l[j].id # l[k].id }
           new == { Promote(l[k]) : k \in last }
<1>1. mesh' = { t \in mesh : \A k \in kept : l[k].id # t.id } \cup new
  BY DEF PromoteAndStore
<1> HIDE DEF n
<1>2. /\ DOMAIN l = DOMAIN file
      /\ \A k \in DOMAIN file :
            /\ l[k].id = file[k].id
            /\ IsPromotable(l[k]) <=> IsPromotable(file[k])
            /\ Promote(l[k]).id = file[k].id
            /\ AllHave(file, "timestamp") => Promote(l[k]) = Promote(file[k])
  BY LoadedFacts
<1> HIDE DEF l
<1>3. kept = Kept(file)
  BY <1>2 DEF Kept
<1>4. last = Lasting(file)
  BY <1>2, <1>3 DEF Lasting, Kept
<1>5. \A k \in last : k \in DOMAIN file
  BY <1>4 DEF Lasting, Kept
<1>6. \A t \in mesh : \E k \in kept : l[k].id = t.id
  BY <1>2, <1>3 DEF MeshIDs, Kept
<1>7. mesh' = new
  BY <1>1, <1>6
<1>8. { t.id : t \in new } = { file[k].id : k \in last }
  BY <1>2, <1>5
<1>9. MeshIDs(mesh') = { file[k].id : k \in Kept(file) }
  <2>1. MeshIDs(new) = { file[k].id : k \in last }
    BY <1>8 DEF MeshIDs
  <2> HIDE DEF last
  <2>2. { file[k].id : k \in last } = { file[k].id : k \in Kept(file) }
    BY <1>4, LastingIDs
  <2> QED
    BY <1>7, <2>1, <2>2
<1>10. AllHave(file, "timestamp") => new = { Promote(file[k]) : k \in last }
  BY <1>2, <1>5
<1> QED
  BY <1>4, <1>7, <1>9, <1>10

\* Every reading but promotion leaves the mesh alone, and none changes the file.
LEMMA OtherReadings ==
    ASSUME [NextReading]_readingVars
    PROVE  PromoteAndStore \/ UNCHANGED <<file, mesh, promotions>>
<1>1. ASSUME NEW s, Scans(s)
      PROVE  UNCHANGED <<file, mesh, promotions>>
  BY <1>1 DEF Scans
<1>2. Search => UNCHANGED <<file, mesh, promotions>>
  <2>1. FromAnchor \/ FromUnvisited \/ Finish => UNCHANGED <<file, mesh, promotions>>
    BY <1>1 DEF FromAnchor, FromUnvisited, Finish
  <2>2. Descend \/ Leave => UNCHANGED <<file, mesh, promotions>>
    BY <1>1 DEF Descend, Leave
  <2>3. Climb => UNCHANGED <<file, mesh, promotions>>
    BY <1>1 DEF Climb
  <2> QED
    BY <2>1, <2>2, <2>3 DEF Search
<1>3. StartLineage => UNCHANGED <<file, mesh, promotions>>
  BY DEF StartLineage
<1>4. ASSUME NEW a, NEW b, NEW span, ChainDiff(a, b, span)
      PROVE  UNCHANGED <<file, mesh, promotions>>
  BY <1>4 DEF ChainDiff
<1>5. ASSUME NEW a, NEW b, ExtractionGap(a, b)
      PROVE  UNCHANGED <<file, mesh, promotions>>
  BY <1>5 DEF ExtractionGap
<1>6. CASE NextReading
  BY Zenon, <1>2, <1>3, <1>4, <1>5, <1>6 DEF NextReading
<1>7. CASE UNCHANGED readingVars
  BY <1>7 DEF readingVars
<1> QED
  BY <1>6, <1>7

\* Promotion finds a mesh that is empty or holds what the file has, and leaves
\* what the file has.
LEMMA PromotedKept ==
    ASSUME PInv, [NextReading]_readingVars
    PROVE  PInv'
<1>1. CASE PromoteAndStore
  <2>1. file' = file /\ promotions' = promotions + 1 /\ promotions \in Nat /\ file \in DraftFile
    BY <1>1 DEF PromoteAndStore, PInv
  <2>2. ASSUME AllHave(file, "id")
        PROVE  /\ MeshIDs(mesh') = { file[k].id : k \in Kept(file) }
               /\ AllHave(file, "timestamp") =>
                     mesh' = { Promote(file[k]) : k \in Lasting(file) }
    <3>1. MeshIDs(mesh) \subseteq { file[k].id : k \in Kept(file) }
      <4>1. CASE promotions = 0
        <5>1. mesh = {}
          BY <4>1 DEF PInv
        <5> QED
          BY <5>1 DEF MeshIDs
      <4>2. CASE promotions > 0
        BY <2>2, <4>2 DEF PInv
      <4> QED
        BY <2>1, <4>1, <4>2
    <3> QED
      BY <1>1, <2>1, <2>2, <3>1, PromotionStores
  <2>3. promotions' \in Nat /\ promotions' # 0
    BY <2>1
  <2> QED
    BY <2>1, <2>2, <2>3 DEF PInv, MeshIDs
<1>2. ASSUME UNCHANGED <<file, mesh, promotions>>
      PROVE  PInv'
  BY <1>2 DEF PInv, MeshIDs
<1> QED
  BY <1>1, <1>2, OtherReadings

\* Promoting and storing a file again adds no trace if each of its drafts has an
\* ID, and changes none if each has a time, too, whatever the file and however
\* often (LoadDrafts, cmdPromote).
THEOREM PromotingAgain ==
    ReadingsSpec => PromotingAgainAddsNothing
<1>1. InitReadings => PInv
  BY DEF InitReadings, PInv
<1>2. PInv /\ [NextReading]_readingVars => PInv'
  BY PromotedKept
<1>3. ASSUME PInv, PInv', [NextReading]_readingVars, promotions > 0, FileHas("id")
      PROVE  /\ MeshIDs(mesh') = MeshIDs(mesh)
             /\ FileHas("timestamp") => mesh' = mesh
  <2>1. CASE PromoteAndStore
    <3>1. AllHave(file, "id") /\ (FileHas("timestamp") => AllHave(file, "timestamp"))
      BY <1>3 DEF FileHas, AllHave
    <3>2. /\ MeshIDs(mesh) = { file[k].id : k \in Kept(file) }
          /\ AllHave(file, "timestamp") =>
                mesh = { Promote(file[k]) : k \in Lasting(file) }
      BY <1>3, <3>1 DEF PInv
    <3> QED
      BY <1>3, <2>1, <3>1, <3>2, PromotionStores DEF PInv
  <2>2. CASE UNCHANGED mesh
    BY <2>2
  <2> QED
    BY <1>3, <2>1, <2>2, OtherReadings
<1>4. PInv /\ PInv' /\ [NextReading]_readingVars =>
         [promotions > 0 /\ FileHas("id") =>
            /\ MeshIDs(mesh') = MeshIDs(mesh)
            /\ FileHas("timestamp") => mesh' = mesh]_mesh
  BY <1>3
<1> QED
  BY <1>1, <1>2, <1>4, PTL DEF ReadingsSpec, PromotingAgainAddsNothing

(***************************************************************************)
(* Chains of derivation, and what chain-diff and extraction-gap say of them.*)
(***************************************************************************)

UniqueIn(ds) == \A j, k \in DOMAIN ds : ds[j].id = ds[k].id => j = k

\* A map from IDs holds one draft at most under an ID, and one under that of
\* each draft: the draft itself, if IDs are unique.
LEMMA ByIDFacts ==
    ASSUME NEW S, NEW ds \in Seq(S), NEW i
    PROVE  /\ ByID(ds, i) \subseteq { k \in DOMAIN ds : ds[k].id = i }
           /\ ByID(ds, i) = {} \/ \E k \in DOMAIN ds : ByID(ds, i) = {k}
           /\ (\E k \in DOMAIN ds : ds[k].id = i) => ByID(ds, i) # {}
<1>1. Len(ds) \in Nat /\ DOMAIN ds = 1..Len(ds)
  OBVIOUS
<1>2. ByID(ds, i) \subseteq { k \in DOMAIN ds : ds[k].id = i }
  BY DEF ByID
<1>3. ASSUME NEW j \in ByID(ds, i), NEW k \in ByID(ds, i)
      PROVE  j = k
  <2>1. j \in Int /\ k \in Int /\ ~ (j > k) /\ ~ (k > j)
    BY <1>1, <1>3 DEF ByID
  <2> QED
    BY <2>1
<1>4. ASSUME NEW k \in DOMAIN ds, ds[k].id = i
      PROVE  ByID(ds, i) # {}
  <2> DEFINE K == { m \in DOMAIN ds : ds[m].id = i }
  <2>1. K \in SUBSET Int /\ IsFiniteSet(K)
    <3> HIDE DEF K
    <3>1. K \in SUBSET DOMAIN ds
      BY DEF K
    <3> QED
      BY <3>1, Places
  <2>2. PICK m \in K : \A n \in K : n =< m
    <3>1. K # {}
      BY <1>4
    <3> HIDE DEF K
    <3> QED
      BY <2>1, <3>1, FirstAndLast
  <2>3. m \in ByID(ds, i)
    <3>1. ASSUME NEW j \in DOMAIN ds, j > m
          PROVE  ds[j].id # i
      BY <1>1, <2>2, <3>1
    <3> QED
      BY <3>1 DEF ByID
  <2> QED
    BY <2>3
<1> QED
  BY <1>2, <1>3, <1>4

\* The draft under an ID, as a sequence.
LEMMA UnderOne ==
    ASSUME NEW S, NEW ds \in Seq(S), NEW i
    PROVE  \/ Under(ds, {i}) = <<>> /\ \A k \in DOMAIN ds : ds[k].id # i
           \/ \E k \in DOMAIN ds : Under(ds, {i}) = <<k>> /\ ds[k].id = i
<1>1. UNION { ByID(ds, x) : x \in {i} } = ByID(ds, i)
  OBVIOUS
<1>2. CASE ByID(ds, i) = {}
  <2>1. Under(ds, {i}) = <<>>
    BY <1>1, <1>2, SmallSubsequences DEF Under
  <2> QED
    BY <1>2, <2>1, ByIDFacts
<1>3. ASSUME NEW k \in DOMAIN ds, ByID(ds, i) = {k}
      PROVE  Under(ds, {i}) = <<k>> /\ ds[k].id = i
  <2>1. k \in Int /\ Order(ds)[k] = k
    BY DEF Order
  <2>2. Under(ds, {i}) = Subsequence(Order(ds), {k})
    BY <1>1, <1>3 DEF Under
  <2>3. ds[k].id = i
    BY <1>3, ByIDFacts
  <2> QED
    BY <2>1, <2>2, <2>3, SmallSubsequences
<1> QED
  BY <1>2, <1>3, ByIDFacts

\* The first child has one ID.
LEMMA FirstChildFacts ==
    ASSUME NEW S, NEW ds \in Seq(S), NEW i
    PROVE  /\ FirstChild(ds, i) = {} \/
                 \E k \in DOMAIN ds : FirstChild(ds, i) = {ds[k].id} /\ ds[k].derivedFrom = i
           /\ FirstChild(ds, i) = {} => \A k \in DOMAIN ds : ds[k].derivedFrom # i
<1> DEFINE K == { k \in DOMAIN ds : ds[k].derivedFrom = i }
           First == { k \in DOMAIN ds : /\ ds[k].derivedFrom = i
                                        /\ \A j \in 1..(k - 1) : ds[j].derivedFrom # i }
<1>1. Len(ds) \in Nat /\ DOMAIN ds = 1..Len(ds)
  OBVIOUS
<1>2. K \in SUBSET Int /\ IsFiniteSet(K)
  <2>1. K \in SUBSET DOMAIN ds
    OBVIOUS
  <2> HIDE DEF K
  <2> QED
    BY <2>1, Places
<1>3. ASSUME NEW m \in K, \A k \in K : m =< k
      PROVE  First = {m}
  <2>1. m \in First
    <3>1. ASSUME NEW j \in 1..(m - 1)
          PROVE  ds[j].derivedFrom # i
      BY <1>1, <1>3
    <3> QED
      BY <3>1
  <2>2. ASSUME NEW k \in First
        PROVE  k = m
    <3>1. k \in K /\ k \in Int /\ m \in Int /\ m =< k
      BY <1>1, <1>3
    <3>2. CASE m < k
      <4>1. m \in 1..(k - 1)
        BY <1>1, <3>1, <3>2
      <4> QED
        BY <4>1
    <3> QED
      BY <3>1, <3>2
  <2> QED
    BY <2>1, <2>2
<1>4. FirstChild(ds, i) = { ds[k].id : k \in First }
  BY DEF FirstChild
<1>5. CASE K = {}
  BY <1>4, <1>5
<1>6. ASSUME NEW m \in K, \A k \in K : m =< k
      PROVE  FirstChild(ds, i) = {ds[m].id} /\ ds[m].derivedFrom = i /\ m \in DOMAIN ds
  <2>1. First = {m}
    BY <1>3, <1>6
  <2> HIDE DEF First
  <2> QED
    BY <1>4, <2>1
<1>7. CASE K # {}
  <2>1. PICK m \in K : \A k \in K : m =< k
    <3> HIDE DEF K
    <3> QED
      BY <1>2, <1>7, FirstAndLast
  <2> QED
    BY <1>6, <2>1
<1> QED
  BY <1>5, <1>7

\* The IDs of a chain, where it can go on, and one round of the loop.
Seen(ds, chain) == { ds[k].id : k \in Range(chain) }
Onward(ds, chain) == FirstChild(ds, ds[chain[Len(chain)]].id) \ Seen(ds, chain)
Longer(ds, chain) == IF chain = <<>> THEN <<>> ELSE chain \o Under(ds, Onward(ds, chain))

\* A round adds one draft, whose ID is new, or nothing.
LEMMA OneRound ==
    ASSUME NEW S, NEW ds \in Seq(S), NEW chain \in Seq(DOMAIN ds), chain # <<>>
    PROVE  \/ Onward(ds, chain) = {} /\ Longer(ds, chain) = chain
           \/ \E k \in DOMAIN ds :
                 /\ Longer(ds, chain) = Append(chain, k)
                 /\ ds[k].id \in FirstChild(ds, ds[chain[Len(chain)]].id)
                 /\ ds[k].id \notin Seen(ds, chain)
<1> DEFINE next == FirstChild(ds, ds[chain[Len(chain)]].id)
<1>1. CASE Onward(ds, chain) = {}
  <2>1. UNION { ByID(ds, x) : x \in {} } = {}
    OBVIOUS
  <2>2. Under(ds, {}) = <<>>
    BY <2>1, SmallSubsequences DEF Under
  <2>3. Longer(ds, chain) = chain \o <<>>
    BY <1>1, <2>2 DEF Longer
  <2> QED
    BY <1>1, <2>3
<1>2. CASE Onward(ds, chain) # {}
  <2> HIDE DEF next
  <2>1. PICK k \in DOMAIN ds : next = {ds[k].id}
    <3>1. next # {}
      BY <1>2 DEF Onward, next
    <3> QED
      BY <3>1, FirstChildFacts DEF next
  <2>2. Onward(ds, chain) = {ds[k].id} /\ ds[k].id \notin Seen(ds, chain)
    BY <1>2, <2>1 DEF Onward, next
  <2>3. PICK j \in DOMAIN ds : Under(ds, {ds[k].id}) = <<j>> /\ ds[j].id = ds[k].id
    <3> DEFINE i == ds[k].id
    <3>1. \E j \in DOMAIN ds : ds[j].id = i
      OBVIOUS
    <3> HIDE DEF i
    <3>2. \E j \in DOMAIN ds : Under(ds, {i}) = <<j>> /\ ds[j].id = i
      BY <3>1, UnderOne
    <3> QED
      BY <3>2 DEF i
  <2>4. Longer(ds, chain) = chain \o <<j>>
    BY <2>2, <2>3 DEF Longer
  <2>5. chain \o <<j>> = Append(chain, j)
    OBVIOUS
  <2> QED
    BY <2>1, <2>2, <2>3, <2>4, <2>5 DEF next
<1> QED
  BY <1>1, <1>2

\* A chain that begins at the draft under an ID, when there is one, and goes
\* from each draft to the first child of it.
IsWalk(ds, from, chain) ==
    /\ chain \in Seq(DOMAIN ds)
    /\ \A m, n \in DOMAIN chain : ds[chain[m]].id = ds[chain[n]].id => m = n
    /\ \A n \in 2..Len(chain) : ds[chain[n]].id \in FirstChild(ds, ds[chain[n - 1]].id)
    /\ chain = <<>> => \A k \in DOMAIN ds : ds[k].id # from
    /\ chain # <<>> => ds[chain[1]].id = from

\* A draft with a new ID may follow where it is a first child.
LEMMA WalkAppended ==
    ASSUME NEW S, NEW ds \in Seq(S), NEW from, NEW chain, IsWalk(ds, from, chain), chain # <<>>,
           NEW k \in DOMAIN ds, ds[k].id \in FirstChild(ds, ds[chain[Len(chain)]].id),
           ds[k].id \notin Seen(ds, chain)
    PROVE  IsWalk(ds, from, Append(chain, k)) /\ Len(Append(chain, k)) = Len(chain) + 1
<1> DEFINE new == Append(chain, k)
<1>1. chain \in Seq(DOMAIN ds) /\ Len(chain) \in Nat /\ Len(chain) # 0
  BY DEF IsWalk
<1>2. /\ new \in Seq(DOMAIN ds) /\ Len(new) = Len(chain) + 1
      /\ DOMAIN new = 1..(Len(chain) + 1) /\ DOMAIN chain = 1..Len(chain)
      /\ \A n \in 1..Len(chain) : new[n] = chain[n]
      /\ new[Len(chain) + 1] = k
  BY <1>1
<1> HIDE DEF new
<1>3. ASSUME NEW m \in 1..Len(chain)
      PROVE  ds[chain[m]].id # ds[k].id
  <2>1. chain[m] \in Range(chain)
    BY <1>2 DEF Range
  <2> QED
    BY <2>1 DEF Seen
<1>4. ASSUME NEW m \in DOMAIN new, NEW n \in DOMAIN new, ds[new[m]].id = ds[new[n]].id
      PROVE  m = n
  <2>1. CASE m \in 1..Len(chain) /\ n \in 1..Len(chain)
    BY <1>2, <1>4, <2>1 DEF IsWalk
  <2>2. CASE m \in 1..Len(chain) /\ n = Len(chain) + 1
    BY <1>2, <1>3, <1>4, <2>2
  <2>3. CASE n \in 1..Len(chain) /\ m = Len(chain) + 1
    BY <1>2, <1>3, <1>4, <2>3
  <2>4. CASE m = Len(chain) + 1 /\ n = Len(chain) + 1
    BY <2>4
  <2> QED
    BY <1>1, <1>2, <2>1, <2>2, <2>3, <2>4
<1>5. ASSUME NEW n \in 2..Len(new)
      PROVE  ds[new[n]].id \in FirstChild(ds, ds[new[n - 1]].id)
  <2>1. CASE n = Len(chain) + 1
    <3>1. new[n] = k /\ new[n - 1] = chain[Len(chain)]
      BY <1>1, <1>2, <2>1
    <3> QED
      BY <3>1
  <2>2. CASE n \in 2..Len(chain)
    <3>1. new[n] = chain[n] /\ new[n - 1] = chain[n - 1]
      BY <1>1, <1>2, <2>2
    <3> QED
      BY <2>2, <3>1 DEF IsWalk
  <2> QED
    BY <1>1, <1>2, <2>1, <2>2
<1>6. new # <<>> /\ new[1] = chain[1]
  BY <1>1, <1>2
<1>7. IsWalk(ds, from, new)
  BY <1>2, <1>4, <1>5, <1>6 DEF IsWalk
<1> QED
  BY <1>2, <1>7 DEF new

\* A round leaves such a chain, one draft longer or with nowhere to go on.
LEMMA WalkLonger ==
    ASSUME NEW S, NEW ds \in Seq(S), NEW from, NEW chain, IsWalk(ds, from, chain)
    PROVE  /\ IsWalk(ds, from, Longer(ds, chain))
           /\ \/ Longer(ds, chain) = <<>>
              \/ Len(Longer(ds, chain)) = Len(chain) + 1
              \/ Longer(ds, chain) = chain /\ Onward(ds, chain) = {}
<1>1. CASE chain = <<>>
  <2>1. Longer(ds, chain) = <<>>
    BY <1>1 DEF Longer
  <2> QED
    BY <1>1, <2>1
<1>2. CASE chain # <<>>
  <2>1. chain \in Seq(DOMAIN ds)
    BY DEF IsWalk
  <2>2. ASSUME NEW k \in DOMAIN ds, Longer(ds, chain) = Append(chain, k),
               ds[k].id \in FirstChild(ds, ds[chain[Len(chain)]].id),
               ds[k].id \notin Seen(ds, chain)
        PROVE  IsWalk(ds, from, Longer(ds, chain)) /\ Len(Longer(ds, chain)) = Len(chain) + 1
    BY <1>2, <2>2, WalkAppended
  <2> QED
    BY <1>2, <2>1, <2>2, OneRound
<1> QED
  BY <1>1, <1>2

\* FollowDraftChain returns such a chain, and it could not go on.
LEMMA FollowFacts ==
    ASSUME NEW S, NEW ds \in Seq(S), NEW from
    PROVE  LET chain == FollowDraftChain(ds, from)
           IN  IsWalk(ds, from, chain) /\ (chain # <<>> => Onward(ds, chain) = {})
<1> DEFINE N == Len(ds)
           start == Under(ds, {from})
           T == Seq(DOMAIN ds)
           Walks(f) == f = [n \in 0..N |-> IF n = 0 THEN start ELSE Longer(ds, f[n - 1])]
           walk == CHOOSE f : Walks(f)
<1>1. N \in Nat /\ DOMAIN ds = 1..N
  OBVIOUS
<1>2. FollowDraftChain(ds, from) = walk[N]
  BY DEF FollowDraftChain, Longer, Onward, Seen
<1>3. start \in T /\ IsWalk(ds, from, start) /\ (start = <<>> \/ Len(start) = 1)
  <2>1. CASE start = <<>> /\ \A k \in DOMAIN ds : ds[k].id # from
    <3> HIDE DEF start
    <3>1. start \in T /\ DOMAIN start = {} /\ Len(start) = 0
      BY <2>1
    <3> QED
      BY <2>1, <3>1 DEF IsWalk
  <2>2. ASSUME NEW k \in DOMAIN ds, start = <<k>>, ds[k].id = from
        PROVE  start \in T /\ IsWalk(ds, from, start) /\ Len(start) = 1
    <3> HIDE DEF start
    <3> QED
      BY <2>2 DEF IsWalk
  <2>3. \/ start = <<>> /\ \A k \in DOMAIN ds : ds[k].id # from
        \/ \E k \in DOMAIN ds : start = <<k>> /\ ds[k].id = from
    BY UnderOne
  <2> HIDE DEF start, T
  <2> QED
    BY <2>1, <2>2, <2>3
<1> HIDE DEF start
<1>4. ASSUME NEW c \in T
      PROVE  Longer(ds, c) \in T
  <2>1. CASE c = <<>>
    BY <2>1 DEF Longer
  <2>2. CASE c # <<>>
    <3>1. ASSUME NEW k \in DOMAIN ds
          PROVE  Append(c, k) \in T
      OBVIOUS
    <3> QED
      BY <2>2, <3>1, OneRound
  <2> QED
    BY <2>1, <2>2
<1>5. \E f : Walks(f)
  <2> DEFINE F == [c \in T |-> Longer(ds, c)]
  <2>1. F \in [T -> T]
    BY <1>4
  <2>2. \A c \in T : F[c] = Longer(ds, c)
    OBVIOUS
  <2> HIDE DEF F, T, N
  <2>3. PICK f \in [0..N -> T] : IsLoop(f, N, start, F)
    BY <1>1, <1>3, <2>1, LoopExists
  <2>4. Walks(f)
    <3>1. ASSUME NEW n \in 0..N, n # 0
          PROVE  F[f[n - 1]] = Longer(ds, f[n - 1])
      <4>1. n - 1 \in 0..N
        BY <1>1, <3>1
      <4> QED
        BY <2>2, <4>1
    <3> QED
      BY <2>3, <3>1 DEF IsLoop
  <2> QED
    BY <2>4
<1>6. Walks(walk)
  <2> HIDE DEF Walks
  <2> QED
    BY <1>5
<1> HIDE DEF walk
<1>7. walk[0] = start /\ \A n \in 0..(N - 1) : walk[n + 1] = Longer(ds, walk[n])
  <2>1. walk[0] = start
    BY <1>1, <1>6
  <2>2. ASSUME NEW n \in 0..(N - 1)
        PROVE  walk[n + 1] = Longer(ds, walk[n])
    <3>1. n + 1 \in 0..N /\ n + 1 # 0 /\ (n + 1) - 1 = n
      BY <1>1
    <3> QED
      BY <1>6, <3>1
  <2> QED
    BY <2>1, <2>2
<1> DEFINE Good(n, c) == /\ IsWalk(ds, from, c)
                         /\ c = <<>> \/ Len(c) = n + 1 \/ Onward(ds, c) = {}
           Q == { n \in 0..N : Good(n, walk[n]) }
<1>8. 0 \in Q
  BY <1>1, <1>3, <1>7
<1>9. ASSUME NEW n \in 0..(N - 1), n \in Q
      PROVE  n + 1 \in Q
  <2>1. walk[n + 1] = Longer(ds, walk[n]) /\ Good(n, walk[n])
    BY <1>7, <1>9
  <2>2. Good(n + 1, Longer(ds, walk[n]))
    <3> DEFINE c == walk[n]
    <3>1. c = <<>> => Longer(ds, c) = <<>>
      BY DEF Longer
    <3>2. Onward(ds, c) = {} /\ c # <<>> => Longer(ds, c) = c
      <4>1. ASSUME Longer(ds, c) # c, Onward(ds, c) = {}, c # <<>>
            PROVE  FALSE
        BY <2>1, <4>1, OneRound DEF IsWalk, Onward
      <4> QED
        BY <4>1
    <3> QED
      BY <2>1, <3>1, <3>2, WalkLonger
  <2> QED
    BY <1>1, <2>1, <2>2
<1>10. N \in Q
  <2>1. 0..N \subseteq Q
    <3> HIDE DEF Q
    <3> QED
      BY <1>1, <1>8, <1>9, Rounds
  <2>2. N \in 0..N
    BY <1>1
  <2> HIDE DEF Q, N
  <2> QED
    BY <2>1, <2>2
<1>11. ASSUME NEW c, Good(N, c), c # <<>>
       PROVE  Onward(ds, c) = {}
  <2>1. c \in Seq(DOMAIN ds) /\ \A m, n \in DOMAIN c : c[m] = c[n] => m = n
    BY <1>11 DEF IsWalk
  <2>2. IsFiniteSet(DOMAIN ds) /\ Cardinality(DOMAIN ds) = N
    BY <1>1, FS_Interval
  <2>3. Len(c) =< N /\ Len(c) \in Nat
    <3> HIDE DEF N
    <3> QED
      BY <2>1, <2>2, NoLongerThan
  <2> QED
    BY <1>1, <1>11, <2>3
<1> QED
  BY <1>2, <1>10, <1>11

\* What drafts with these IDs are derived from, as links between IDs.
NamedBy(ids) == { loaded[j].derivedFrom : j \in { j \in DOMAIN loaded : ID(j) \in ids } } \ {0}
Names == { loaded[j].derivedFrom : j \in DOMAIN loaded }
Links == { <<ID(j), loaded[j].derivedFrom>> : j \in { j \in DOMAIN loaded : loaded[j].derivedFrom # 0 } }

\* The ancestors of a draft are the smallest set that holds what it is derived
\* from, and with the ID of a draft what that one is derived from.
LEMMA AncestorsFacts ==
    ASSUME NEW S, loaded \in Seq(S), NEW k \in DOMAIN loaded
    PROVE  /\ {loaded[k].derivedFrom} \ {0} \subseteq Ancestors(k)
           /\ NamedBy(Ancestors(k)) \subseteq Ancestors(k)
           /\ \A C : /\ {loaded[k].derivedFrom} \ {0} \subseteq C
                     /\ NamedBy(C) \subseteq C
                     => Ancestors(k) \subseteq C
           /\ IsFiniteSet(Ancestors(k))
<1> DEFINE N == Len(loaded)
           start == {loaded[k].derivedFrom} \ {0}
           Ups(f) == f = [n \in 0..N |-> IF n = 0 THEN start ELSE f[n - 1] \cup NamedBy(f[n - 1])]
           up == CHOOSE f : Ups(f)
<1>1. N \in Nat /\ DOMAIN loaded = 1..N
  OBVIOUS
<1>2. Ancestors(k) = up[N]
  BY DEF Ancestors, NamedBy
<1>3. start \in SUBSET Names /\ \A e \in Links : e[2] \in Names
  BY DEF Names, Links
<1>4. ASSUME NEW ids
      PROVE  NamedBy(ids) = Image(Links, ids)
  <2>1. ASSUME NEW i \in NamedBy(ids)
        PROVE  i \in Image(Links, ids)
    <3>1. PICK j \in DOMAIN loaded : ID(j) \in ids /\ loaded[j].derivedFrom = i /\ i # 0
      BY <2>1 DEF NamedBy
    <3>2. <<ID(j), i>> \in Links
      BY <3>1 DEF Links
    <3> QED
      BY <3>1, <3>2 DEF Image
  <2>2. ASSUME NEW i \in Image(Links, ids)
        PROVE  i \in NamedBy(ids)
    <3>1. PICK j \in DOMAIN loaded : /\ ID(j) \in ids /\ loaded[j].derivedFrom = i
                                     /\ loaded[j].derivedFrom # 0
      BY <2>2 DEF Image, Links
    <3> QED
      BY <3>1 DEF NamedBy
  <2> QED
    BY <2>1, <2>2
<1>5. IsFiniteSet(Names) /\ Cardinality(Names) =< N
  <2> DEFINE g == [j \in 1..N |-> loaded[j].derivedFrom]
  <2>1. g \in Surjection(1..N, Names)
    <3>1. g \in [1..N -> Names]
      BY <1>1 DEF Names
    <3>2. \A x \in Names : \E j \in 1..N : g[j] = x
      BY <1>1 DEF Names
    <3> HIDE DEF g
    <3> QED
      BY <3>1, <3>2, Fun_IsSurj
  <2> HIDE DEF N, g
  <2>2. IsFiniteSet(1..N) /\ Cardinality(1..N) = N
    BY <1>1, FS_Interval
  <2> QED
    BY <2>1, <2>2, FS_Surjection
<1> HIDE DEF start, N
<1>6. \A f : Ups(f) <=> IsGrowth(f, N, start, Links)
  BY <1>4 DEF IsGrowth
<1>7. IsGrowth(up, N, start, Links)
  <2>1. \E f : Ups(f)
    <3> HIDE DEF Ups
    <3> QED
      BY <1>1, <1>3, <1>6, GrowthExists
  <2> HIDE DEF Ups
  <2> QED
    BY <1>6, <2>1
<1> HIDE DEF up
<1>8. /\ start \subseteq up[N] /\ up[N] \subseteq Names
      /\ Image(Links, up[N]) \subseteq up[N]
      /\ \A C : start \subseteq C /\ Image(Links, C) \subseteq C => up[N] \subseteq C
  BY <1>1, <1>3, <1>5, <1>7, GrowthFacts
<1>9. IsFiniteSet(up[N])
  BY <1>5, <1>8, FS_Subset
<1> QED
  BY <1>2, <1>4, <1>8, <1>9 DEF start

\* A draft has one ancestor less than what is derived from it, at least.
LEMMA FewerAncestors ==
    ASSUME NEW S, loaded \in Seq(S), NEW j \in DOMAIN loaded, NEW k \in DOMAIN loaded,
           ~Circular(j), loaded[k].derivedFrom = ID(j), ID(j) # 0
    PROVE  /\ Cardinality(Ancestors(j)) \in Nat /\ Cardinality(Ancestors(k)) \in Nat
           /\ Cardinality(Ancestors(j)) < Cardinality(Ancestors(k))
<1>1. /\ {loaded[k].derivedFrom} \ {0} \subseteq Ancestors(k)
      /\ NamedBy(Ancestors(k)) \subseteq Ancestors(k)
      /\ IsFiniteSet(Ancestors(k)) /\ IsFiniteSet(Ancestors(j))
  BY AncestorsFacts
<1>2. ID(j) \in Ancestors(k) /\ ID(j) \notin Ancestors(j)
  BY <1>1 DEF Circular
<1>3. {loaded[j].derivedFrom} \ {0} \subseteq Ancestors(k)
  BY <1>1, <1>2 DEF NamedBy
<1>4. Ancestors(j) \subseteq Ancestors(k)
  BY <1>1, <1>3, AncestorsFacts
<1>5. Ancestors(j) # Ancestors(k)
  BY <1>2
<1>6. /\ Cardinality(Ancestors(j)) \in Nat /\ Cardinality(Ancestors(k)) \in Nat
      /\ Cardinality(Ancestors(j)) =< Cardinality(Ancestors(k))
      /\ Cardinality(Ancestors(k)) # Cardinality(Ancestors(j))
  BY <1>1, <1>4, <1>5, FS_Subset, FS_CardinalityType
<1> QED
  BY <1>6

\* Where derivation does not go round, no drafts are each derived from another
\* of them.
LEMMA NoDescent ==
    ASSUME NEW S, loaded \in Seq(S), ~Cyclic, \A k \in DOMAIN loaded : ID(k) # 0,
           NEW Out \in SUBSET DOMAIN loaded,
           \A k \in Out : \E j \in Out : loaded[k].derivedFrom = ID(j)
    PROVE  Out = {}
<1> DEFINE A(k) == Cardinality(Ancestors(k))
<1>1. \A k \in Out : A(k) \in Nat
  BY AncestorsFacts, FS_CardinalityType
<1>2. ASSUME NEW k \in Out
      PROVE  \E j \in Out : A(j) < A(k)
  <2>1. PICK j \in Out : loaded[k].derivedFrom = ID(j)
    OBVIOUS
  <2>2. ~Circular(j)
    BY DEF Cyclic
  <2>3. ID(j) # 0
    OBVIOUS
  <2>4. A(j) < A(k)
    BY <2>1, <2>2, <2>3, FewerAncestors
  <2> QED
    BY <2>4
<1> HIDE DEF A
<1>3. ASSUME NEW x \in Out
      PROVE  FALSE
  <2> DEFINE K == { n \in 0..A(x) : \E k \in Out : A(k) = n }
  <2>1. K \in SUBSET Int /\ IsFiniteSet(K) /\ K # {}
    <3>1. A(x) \in 0..A(x) /\ IsFiniteSet(0..A(x))
      BY <1>1, FS_Interval
    <3>2. A(x) \in K /\ K \in SUBSET (0..A(x)) /\ K \in SUBSET Int
      BY <3>1
    <3> HIDE DEF K
    <3>3. IsFiniteSet(K)
      BY <3>1, <3>2, FS_Subset
    <3> QED
      BY <3>2, <3>3
  <2>2. PICK m \in K : \A n \in K : m =< n
    <3> HIDE DEF K
    <3> QED
      BY <2>1, FirstAndLast
  <2>3. PICK k \in Out : A(k) = m
    OBVIOUS
  <2>4. PICK j \in Out : A(j) < m
    BY <1>2, <2>3
  <2>5. A(j) \in Nat /\ A(x) \in Nat /\ m \in 0..A(x)
    BY <1>1
  <2>6. A(j) \in 0..A(x)
    BY <2>4, <2>5
  <2>7. A(j) \in K
    BY <2>6
  <2>8. m =< A(j)
    <3> HIDE DEF K
    <3> QED
      BY <2>2, <2>7
  <2> QED
    BY <2>4, <2>5, <2>8
<1> QED
  BY <1>3

\* The drafts of one analyst and of one span, at places of their own in the file.
LEMMA MineFacts ==
    ASSUME NEW S, NEW ds \in Seq(S), NEW a, NEW span
    PROVE  LET mine == OfSpan(GroupByAnalyst(ds, a), span) IN
           /\ mine \in Seq(S)
           /\ \E f \in [DOMAIN mine -> DOMAIN ds] :
                 /\ \A n \in DOMAIN mine : mine[n] = ds[f[n]]
                 /\ \A m, n \in DOMAIN mine : f[m] = f[n] => m = n
<1> DEFINE hers == GroupByAnalyst(ds, a)
           J == { k \in DOMAIN ds : ds[k].by = a }
           mine == OfSpan(hers, span)
           K == { k \in DOMAIN hers : hers[k].span = span }
<1>1. hers = Subsequence(ds, J) /\ J \in SUBSET DOMAIN ds
  BY DEF GroupByAnalyst
<1>2. mine = Subsequence(hers, K) /\ K \in SUBSET DOMAIN hers
  BY DEF OfSpan
<1> HIDE DEF J, K, hers, mine
<1>3. PICK g : IsOrigin(g, hers, ds, J)
  BY <1>1, PartOf
<1>4. hers \in Seq(S)
  BY <1>1, PartOf
<1>5. PICK h : IsOrigin(h, mine, hers, K)
  BY <1>2, <1>4, PartOf
<1>6. mine \in Seq(S)
  BY <1>2, <1>4, PartOf
<1> DEFINE f == [n \in DOMAIN mine |-> g[h[n]]]
<1>7. ASSUME NEW n \in DOMAIN mine
      PROVE  h[n] \in DOMAIN hers /\ f[n] \in DOMAIN ds /\ mine[n] = ds[f[n]]
  BY <1>1, <1>2, <1>3, <1>5 DEF IsOrigin
<1>8. ASSUME NEW m \in DOMAIN mine, NEW n \in DOMAIN mine, f[m] = f[n]
      PROVE  m = n
  <2>1. g[h[m]] = g[h[n]] /\ h[m] \in DOMAIN hers /\ h[n] \in DOMAIN hers
    BY <1>7, <1>8
  <2> QED
    BY <1>3, <1>5, <2>1 DEF IsOrigin
<1>9. f \in [DOMAIN mine -> DOMAIN ds]
  BY <1>7
<1> HIDE DEF f
<1> QED
  BY <1>6, <1>7, <1>8, <1>9 DEF mine, hers

\* The one root of a span.
LEMMA OneRoot ==
    ASSUME NEW S, NEW mine \in Seq(S), Len(Roots(mine)) = 1
    PROVE  /\ Roots(mine)[1] \in DOMAIN mine
           /\ \A k \in DOMAIN mine :
                 \/ k = Roots(mine)[1]
                 \/ \E j \in DOMAIN mine : mine[j].id = mine[k].derivedFrom
<1> DEFINE Begins(k) == \/ mine[k].derivedFrom = 0
                        \/ \A j \in DOMAIN mine : mine[j].id # mine[k].derivedFrom
           K == { k \in DOMAIN mine : Begins(k) }
<1>1. Roots(mine) = Subsequence(Order(mine), K)
  BY DEF Roots
<1>2. Order(mine) \in Seq(DOMAIN mine) /\ DOMAIN Order(mine) = DOMAIN mine
  BY DEF Order
<1>3. K \in SUBSET DOMAIN Order(mine) /\ K \subseteq DOMAIN mine
  BY <1>2
<1>4. ASSUME NEW k \in DOMAIN mine, k \notin K
      PROVE  \E j \in DOMAIN mine : mine[j].id = mine[k].derivedFrom
  BY <1>4
<1> HIDE DEF K
<1>5. PICK f : IsOrigin(f, Roots(mine), Order(mine), K)
  BY <1>1, <1>2, <1>3, PartOf
<1>6. DOMAIN Roots(mine) = {1}
  <2>1. Roots(mine) \in Seq(DOMAIN mine)
    BY <1>1, <1>2, <1>3, PartOf
  <2> QED
    BY <2>1
<1>7. Roots(mine)[1] = f[1] /\ f[1] \in K
  BY <1>3, <1>5, <1>6 DEF Order, IsOrigin
<1>8. \A k \in K : k = f[1]
  BY <1>5, <1>6 DEF IsOrigin
<1> QED
  BY <1>3, <1>4, <1>7, <1>8

Forked(mine) == \E j, k \in DOMAIN mine : /\ j # k /\ mine[j].derivedFrom # 0
                                          /\ mine[j].derivedFrom = mine[k].derivedFrom

\* Where IDs are unique a chain leads from each draft to one derived from it.
LEMMA WalkLinks ==
    ASSUME NEW S, NEW ds \in Seq(S), UniqueIn(ds), NEW from, NEW chain, IsWalk(ds, from, chain),
           NEW n \in 2..Len(chain)
    PROVE  ds[chain[n]].derivedFrom = ds[chain[n - 1]].id
<1>1. chain \in Seq(DOMAIN ds) /\ n \in DOMAIN chain
  BY DEF IsWalk
<1>2. chain[n] \in DOMAIN ds
  BY <1>1
<1>3. ds[chain[n]].id \in FirstChild(ds, ds[chain[n - 1]].id)
  BY DEF IsWalk
<1>4. PICK k \in DOMAIN ds : /\ FirstChild(ds, ds[chain[n - 1]].id) = {ds[k].id}
                             /\ ds[k].derivedFrom = ds[chain[n - 1]].id
  BY <1>3, FirstChildFacts
<1>5. k = chain[n]
  BY <1>2, <1>3, <1>4 DEF UniqueIn
<1> QED
  BY <1>4, <1>5

\* Where besides no two drafts are derived from one, what is derived from a
\* draft of a chain that cannot go on is in the chain.
LEMMA WalkClosed ==
    ASSUME NEW S, NEW ds \in Seq(S), UniqueIn(ds), \A k \in DOMAIN ds : ds[k].id # 0,
           ~Forked(ds), NEW from, NEW chain, IsWalk(ds, from, chain), Onward(ds, chain) = {},
           NEW m \in DOMAIN chain, NEW k \in DOMAIN ds, ds[k].derivedFrom = ds[chain[m]].id
    PROVE  k \in Range(chain)
<1>1. chain \in Seq(DOMAIN ds) /\ Len(chain) \in Nat /\ DOMAIN chain = 1..Len(chain)
  BY DEF IsWalk
<1>2. chain[m] \in DOMAIN ds /\ ds[k].derivedFrom # 0
  BY <1>1
<1>3. CASE m < Len(chain)
  <2>1. m + 1 \in 2..Len(chain) /\ m + 1 \in DOMAIN chain /\ (m + 1) - 1 = m
    BY <1>1, <1>3
  <2>2. ds[chain[m + 1]].derivedFrom = ds[chain[m]].id
    BY <2>1, WalkLinks
  <2>3. chain[m + 1] \in DOMAIN ds
    BY <1>1, <2>1
  <2>4. k = chain[m + 1]
    BY <1>2, <2>2, <2>3 DEF Forked
  <2> QED
    BY <2>1, <2>4 DEF Range
<1>4. CASE m = Len(chain)
  <2>1. FirstChild(ds, ds[chain[m]].id) # {}
    BY FirstChildFacts
  <2>2. PICK j \in DOMAIN ds : /\ FirstChild(ds, ds[chain[m]].id) = {ds[j].id}
                               /\ ds[j].derivedFrom = ds[chain[m]].id
    BY <2>1, FirstChildFacts
  <2>3. j = k
    BY <1>2, <2>2 DEF Forked
  <2>4. ds[k].id \in Seen(ds, chain)
    BY <1>4, <2>2, <2>3 DEF Onward
  <2>5. PICK n \in DOMAIN chain : ds[chain[n]].id = ds[k].id
    BY <2>4 DEF Seen, Range
  <2>6. chain[n] = k
    <3>1. chain[n] \in DOMAIN ds
      BY <1>1
    <3> QED
      BY <2>5, <3>1 DEF UniqueIn
  <2> QED
    BY <2>6 DEF Range
<1> QED
  BY <1>1, <1>3, <1>4

\* A chain of one analyst and one span is whole, whatever is loaded.
LEMMA WholeChain ==
    ASSUME NEW S, loaded \in Seq(S), \A k \in DOMAIN loaded : ID(k) # 0,
           NEW a, NEW span, ~buildChain(loaded, a, span).refused
    PROVE  LET side == buildChain(loaded, a, span)
           IN  side.chain \in Seq(DOMAIN side.mine) /\ ChainIsWhole(side)
<1> DEFINE side == buildChain(loaded, a, span)
           mine == OfSpan(GroupByAnalyst(loaded, a), span)
           r == Roots(mine)[1]
           chain == FollowDraftChain(mine, mine[r].id)
<1>1. Len(Roots(mine)) = 1 /\ side.mine = mine /\ side.chain = chain
  <2> HIDE DEF mine
  <2>1. CASE Len(Roots(mine)) # 1
    BY <2>1 DEF buildChain, mine
  <2>2. CASE Len(Roots(mine)) = 1
    BY <2>2 DEF buildChain, mine
  <2> QED
    BY <2>1, <2>2
<1>2. mine \in Seq(S)
  BY MineFacts
<1>3. PICK f \in [DOMAIN mine -> DOMAIN loaded] :
         /\ \A n \in DOMAIN mine : mine[n] = loaded[f[n]]
         /\ \A m, n \in DOMAIN mine : f[m] = f[n] => m = n
  BY MineFacts
<1> HIDE DEF mine
<1>4. /\ r \in DOMAIN mine
      /\ \A k \in DOMAIN mine : k = r \/ \E j \in DOMAIN mine : mine[j].id = mine[k].derivedFrom
  BY <1>1, <1>2, OneRoot
<1>5. IsWalk(mine, mine[r].id, chain) /\ (chain # <<>> => Onward(mine, chain) = {})
  BY <1>2, FollowFacts
<1> HIDE DEF r, chain, side
<1>6. chain \in Seq(DOMAIN mine) /\ chain # <<>>
  BY <1>4, <1>5 DEF IsWalk
<1>7. \A m, n \in DOMAIN chain : chain[m] = chain[n] => m = n
  BY <1>5 DEF IsWalk
<1>8. UniqueIDs => UniqueIn(mine)
  BY <1>3 DEF UniqueIDs, UniqueIn, ID
<1>9. \A k \in DOMAIN mine : mine[k].id # 0
  BY <1>3 DEF ID
<1>10. UniqueIDs => \A n \in 2..Len(chain) : mine[chain[n]].derivedFrom = mine[chain[n - 1]].id
  BY <1>2, <1>5, <1>8, WalkLinks
<1>11. ASSUME UniqueIDs, ~Cyclic, ~Forked(mine)
       PROVE  Range(chain) = DOMAIN mine
  <2> DEFINE Out == { f[k] : k \in DOMAIN mine \ Range(chain) }
  <2>1. r \in Range(chain)
    <3>1. 1 \in DOMAIN chain /\ chain[1] \in DOMAIN mine
      BY <1>6
    <3>2. mine[chain[1]].id = mine[r].id
      BY <1>5, <1>6 DEF IsWalk
    <3>3. chain[1] = r
      BY <1>4, <1>8, <1>11, <3>1, <3>2 DEF UniqueIn
    <3> QED
      BY <3>1, <3>3 DEF Range
  <2>2. ASSUME NEW k \in DOMAIN mine \ Range(chain)
        PROVE  \E j \in DOMAIN mine \ Range(chain) : mine[j].id = mine[k].derivedFrom
    <3>1. PICK j \in DOMAIN mine : mine[j].id = mine[k].derivedFrom
      BY <1>4, <2>1
    <3>2. ASSUME j \in Range(chain)
          PROVE  FALSE
      <4>1. PICK m \in DOMAIN chain : chain[m] = j
        BY <3>2 DEF Range
      <4>2. k \in Range(chain)
        BY <1>2, <1>5, <1>6, <1>8, <1>9, <1>11, <3>1, <4>1, WalkClosed
      <4> QED
        BY <4>2
    <3> QED
      BY <3>1, <3>2
  <2>3. Out \in SUBSET DOMAIN loaded /\ \A k \in Out : \E j \in Out : loaded[k].derivedFrom = ID(j)
    BY <1>3, <2>2 DEF ID
  <2>4. Out = {}
    <3> HIDE DEF Out
    <3> QED
      BY <1>11, <2>3, NoDescent
  <2>5. DOMAIN mine \subseteq Range(chain)
    BY <2>4
  <2>6. Range(chain) \subseteq DOMAIN mine
    BY <1>6 DEF Range
  <2> QED
    BY <2>5, <2>6
<1>12. ChainIsWhole(side)
  BY <1>1, <1>7, <1>10, <1>11 DEF ChainIsWhole, Forked
<1> QED
  BY <1>1, <1>6, <1>12 DEF side

\* The last clause of ComparisonsHold, of the drafts p and d.
ChangedIfApart(p, d, fields) ==
    draftContentChanged(p, d) <=>
        \/ fields \cap {"what", "source", "observer"} # {}
        \/ AsBag(p.source) = AsBag(d.source) /\ p.source # d.source

\* Seen from the other side the fields two drafts disagree in are the same, and
\* the chain sees a change where they disagree about content or order a list
\* otherwise.
LEMMA DisagreementsAgree ==
    ASSUME NEW d, NEW e
    PROVE  /\ Disagreements(d, e) = Disagreements(e, d)
           /\ ChangedIfApart(d, e, Disagreements(d, e))
<1>1. \A f : f \in Disagreements(d, e) <=>
               \/ f \in {"what", "observer", "doc", "note"} /\ d[f] # e[f]
               \/ f \in {"source", "blank"} /\ AsBag(d[f]) # AsBag(e[f])
  BY DEF Disagreements
<1>2. \A f : f \in Disagreements(e, d) <=>
               \/ f \in {"what", "observer", "doc", "note"} /\ d[f] # e[f]
               \/ f \in {"source", "blank"} /\ AsBag(d[f]) # AsBag(e[f])
  BY DEF Disagreements
<1>3. /\ "what" \in Disagreements(d, e) <=> d.what # e.what
      /\ "observer" \in Disagreements(d, e) <=> d.observer # e.observer
      /\ "source" \in Disagreements(d, e) <=> AsBag(d.source) # AsBag(e.source)
  BY <1>1
<1>4. d.source = e.source => AsBag(d.source) = AsBag(e.source)
  OBVIOUS
<1> QED
  BY <1>1, <1>2, <1>3, <1>4 DEF draftContentChanged, ChangedIfApart

\* So are those of what two analysts made of a span.
LEMMA CompareSpanAgrees ==
    ASSUME NEW s, NEW t
    PROVE  compareSpan(s, t) = compareSpan(t, s)
BY DisagreementsAgree DEF compareSpan

\* The only draft of a span is the one its position says.
LEMMA OnlyOfSpan ==
    ASSUME NEW S, NEW ds \in Seq(S), NEW span, Len(OfSpan(ds, span)) = 1,
           NEW j \in DOMAIN ds, ds[j].span = span
    PROVE  OfSpan(ds, span)[1] = ds[j]
<1> DEFINE K == { k \in DOMAIN ds : ds[k].span = span }
<1>1. OfSpan(ds, span) = Subsequence(ds, K) /\ K \in SUBSET DOMAIN ds /\ j \in K
  BY DEF OfSpan
<1> HIDE DEF K
<1>2. PICK f : IsOrigin(f, OfSpan(ds, span), ds, K)
  BY <1>1, PartOf
<1>3. OfSpan(ds, span) \in Seq(S)
  BY <1>1, PartOf
<1>4. DOMAIN OfSpan(ds, span) = {1}
  BY <1>3
<1>5. f[1] = j
  BY <1>1, <1>2, <1>4 DEF IsOrigin
<1> QED
  BY <1>2, <1>4, <1>5 DEF IsOrigin

\* What ComparisonsHold says of a gap.
GapIsRight(setA, setB, gap) ==
    LET back == CompareExtractions(setB, setA)
    IN  /\ back = [onlyInA |-> gap.onlyInB, onlyInB |-> gap.onlyInA, inBoth |-> gap.inBoth]
        /\ gap.onlyInA \cup gap.onlyInB \cup DOMAIN gap.inBoth = Spans(setA) \cup Spans(setB)
        /\ gap.onlyInA \cap gap.onlyInB = {}
        /\ \A j \in DOMAIN setA, k \in DOMAIN setB :
              LET p == setA[j]
                  d == setB[k]
                  fields == gap.inBoth[p.span]
              IN  p.span = d.span /\ fields # {"(multiple-drafts)"} =>
                      ChangedIfApart(p, d, fields)

\* It holds of the gap between any two lists of drafts.
LEMMA GapFacts ==
    ASSUME NEW S, NEW setA \in Seq(S), NEW setB \in Seq(S)
    PROVE  GapIsRight(setA, setB, CompareExtractions(setA, setB))
<1> DEFINE gap == CompareExtractions(setA, setB)
           back == CompareExtractions(setB, setA)
           A == Spans(setA)
           B == Spans(setB)
           both == [s \in A \cap B |-> compareSpan(OfSpan(setA, s), OfSpan(setB, s))]
           htob == [s \in B \cap A |-> compareSpan(OfSpan(setB, s), OfSpan(setA, s))]
<1>1. /\ gap = [onlyInA |-> A \ B, onlyInB |-> B \ A, inBoth |-> both]
      /\ back = [onlyInA |-> B \ A, onlyInB |-> A \ B, inBoth |-> htob]
  BY DEF CompareExtractions
<1>2. both = htob
  <2>1. A \cap B = B \cap A
    OBVIOUS
  <2>2. \A s : compareSpan(OfSpan(setA, s), OfSpan(setB, s)) = compareSpan(OfSpan(setB, s), OfSpan(setA, s))
    BY CompareSpanAgrees
  <2> HIDE DEF A, B
  <2> QED
    BY <2>1, <2>2
<1>3. DOMAIN both = A \cap B
  OBVIOUS
<1>4. ASSUME NEW j \in DOMAIN setA, NEW k \in DOMAIN setB, setA[j].span = setB[k].span,
             both[setA[j].span] # {"(multiple-drafts)"}
      PROVE  ChangedIfApart(setA[j], setB[k], both[setA[j].span])
  <2> DEFINE s == setA[j].span
  <2>1. s \in A \cap B
    BY <1>4 DEF Spans
  <2>2. both[s] = compareSpan(OfSpan(setA, s), OfSpan(setB, s))
    BY <2>1
  <2> HIDE DEF both
  <2>3. /\ Len(OfSpan(setA, s)) = 1 /\ Len(OfSpan(setB, s)) = 1
        /\ both[s] = Disagreements(OfSpan(setA, s)[1], OfSpan(setB, s)[1])
    BY <1>4, <2>2 DEF compareSpan
  <2>4. OfSpan(setA, s)[1] = setA[j] /\ OfSpan(setB, s)[1] = setB[k]
    BY <1>4, <2>3, OnlyOfSpan
  <2> QED
    BY <2>3, <2>4, DisagreementsAgree
<1> HIDE DEF gap, back, A, B, both, htob
<1>5. /\ gap.onlyInA = A \ B /\ gap.onlyInB = B \ A /\ gap.inBoth = both
      /\ back = [onlyInA |-> B \ A, onlyInB |-> A \ B, inBoth |-> both]
  BY <1>1, <1>2
<1> QED
  BY <1>3, <1>4, <1>5 DEF GapIsRight, gap, back, A, B

\* What chain-diff and extraction-gap print.
ChainReport(a, b, span) ==
    LET A == buildChain(loaded, a, span)
        B == buildChain(loaded, b, span)
    IN  [of |-> "chain-diff", a |-> A, b |-> B,
         kindsA |-> ClassifyDraftChain(A.mine, A.chain),
         kindsB |-> ClassifyDraftChain(B.mine, B.chain),
         diffs |-> CompareChainClassifications(
                      ClassifyDraftChain(A.mine, A.chain),
                      ClassifyDraftChain(B.mine, B.chain))]

GapReport(a, b) ==
    LET setA == GroupByAnalyst(loaded, a)
        setB == GroupByAnalyst(loaded, b)
    IN  [of |-> "gap", setA |-> setA, setB |-> setB,
         gap |-> CompareExtractions(setA, setB)]

\* The last report is one of the file there is.
RInv ==
    /\ file \in DraftFile
    /\ \/ report = NoReport
       \/ \E a, b : report = GapReport(a, b)
       \/ \E a, b, span : /\ ~buildChain(loaded, a, span).refused
                          /\ ~buildChain(loaded, b, span).refused
                          /\ report = ChainReport(a, b, span)

\* Whatever the file, a load is a sequence of drafts that have IDs.
LEMMA LoadedDrafts ==
    ASSUME file \in DraftFile
    PROVE  /\ loaded \in Seq(Range(loaded))
           /\ \A k \in DOMAIN loaded : ID(k) # 0
<1>1. file \in Seq(Range(file)) /\ \A k \in DOMAIN file : IsDraft(file[k])
  BY DraftReadingsAssumption
<1>2. DOMAIN loaded = DOMAIN file /\ DOMAIN file = 1..Len(file) /\ Len(file) \in Nat
  BY <1>1 DEF loaded, LoadDrafts
<1>3. loaded \in Seq(Range(loaded))
  <2>1. loaded = [k \in 1..Len(file) |-> loaded[k]]
    BY <1>2 DEF loaded, LoadDrafts
  <2>2. \A k \in 1..Len(file) : loaded[k] \in Range(loaded)
    BY <1>2 DEF Range
  <2> HIDE DEF loaded
  <2> QED
    BY <1>2, <2>1, <2>2
<1>4. ASSUME NEW k \in DOMAIN loaded
      PROVE  ID(k) # 0
  <2> DEFINE d == file[k]
  <2>1. d = [x \in DraftFields |-> d[x]] /\ "id" \in DraftFields
    BY Zenon, <1>1, <1>2 DEF IsDraft, DraftFields
  <2>2. loaded[k] = [d EXCEPT !.id = IF @ = 0 THEN Fresh(0) + k ELSE @,
                              !.timestamp = IF @ = 0 THEN Fresh(0) ELSE @]
    BY <1>2 DEF loaded, LoadDrafts
  <2> HIDE DEF d, loaded
  <2>3. "id" \in DOMAIN d
    BY <2>1
  <2>4. loaded[k].id = IF d.id = 0 THEN Fresh(0) + k ELSE d.id
    BY <2>2, <2>3
  <2>5. Fresh(0) + k # 0
    BY <1>2 DEF Fresh
  <2> QED
    BY <2>4, <2>5 DEF ID
<1> QED
  BY <1>3, <1>4

\* A comparison prints such a report, and no other reading leaves one.
LEMMA ReportKept ==
    ASSUME RInv, [NextReading]_readingVars
    PROVE  RInv'
<1>1. ASSUME UNCHANGED <<file, report>>
      PROVE  RInv'
  BY <1>1 DEF RInv, GapReport, ChainReport, loaded
<1>2. ASSUME UNCHANGED file, report' = NoReport
      PROVE  RInv'
  BY <1>2 DEF RInv
<1>3. ASSUME NEW a, NEW b, ExtractionGap(a, b)
      PROVE  RInv'
  <2>1. UNCHANGED file /\ loaded' = loaded /\ report' = GapReport(a, b)
    BY <1>3 DEF ExtractionGap, GapReport, loaded
  <2>2. report' = GapReport(a, b)'
    BY <2>1 DEF GapReport
  <2> QED
    BY <2>1, <2>2 DEF RInv
<1>4. ASSUME NEW a, NEW b, NEW span, ChainDiff(a, b, span)
      PROVE  RInv'
  <2>1. UNCHANGED file /\ loaded' = loaded /\ report' = ChainReport(a, b, span)
    BY <1>4 DEF ChainDiff, ChainReport, loaded
  <2>2. report' = ChainReport(a, b, span)'
    BY <2>1 DEF ChainReport
  <2>3. ~buildChain(loaded, a, span).refused /\ ~buildChain(loaded, b, span).refused
    BY <1>4 DEF ChainDiff
  <2> QED
    BY <2>1, <2>2, <2>3 DEF RInv
<1>5. ASSUME NEW s, Scans(s)
      PROVE  UNCHANGED <<file, report>>
  BY <1>5 DEF Scans
<1>6. Search => UNCHANGED <<file, report>>
  <2>1. FromAnchor \/ FromUnvisited \/ Finish => UNCHANGED <<file, report>>
    BY <1>5 DEF FromAnchor, FromUnvisited, Finish
  <2>2. Descend \/ Leave => UNCHANGED <<file, report>>
    BY <1>5 DEF Descend, Leave
  <2>3. Climb => UNCHANGED <<file, report>>
    BY <1>5 DEF Climb
  <2> QED
    BY <2>1, <2>2, <2>3 DEF Search
<1>7. StartLineage \/ PromoteAndStore => UNCHANGED file /\ report' = NoReport
  BY DEF StartLineage, PromoteAndStore
<1>8. CASE NextReading
  BY Zenon, <1>1, <1>2, <1>3, <1>4, <1>6, <1>7, <1>8 DEF NextReading
<1>9. CASE UNCHANGED readingVars
  BY <1>1, <1>9 DEF readingVars
<1> QED
  BY <1>8, <1>9

\* The last report holds, of any file.
LEMMA ReportHolds ==
    ASSUME RInv
    PROVE  ComparisonsHold
<1>1. loaded \in Seq(Range(loaded)) /\ \A k \in DOMAIN loaded : ID(k) # 0
  BY LoadedDrafts DEF RInv
<1>2. CASE report = NoReport
  BY <1>2 DEF ComparisonsHold, NoReport
<1>3. ASSUME NEW a, NEW b, report = GapReport(a, b)
      PROVE  ComparisonsHold
  <2> DEFINE setA == GroupByAnalyst(loaded, a)
             setB == GroupByAnalyst(loaded, b)
  <2>1. setA \in Seq(Range(loaded)) /\ setB \in Seq(Range(loaded))
    BY <1>1, PartOf DEF GroupByAnalyst
  <2>2. /\ report.of = "gap" /\ report.setA = setA /\ report.setB = setB
        /\ report.gap = CompareExtractions(setA, setB)
    BY <1>3 DEF GapReport
  <2> HIDE DEF setA, setB
  <2>3. GapIsRight(report.setA, report.setB, report.gap)
    BY <2>1, <2>2, GapFacts
  <2> QED
    BY <2>2, <2>3 DEF ComparisonsHold, GapIsRight, ChangedIfApart
<1>4. ASSUME NEW a, NEW b, NEW span, report = ChainReport(a, b, span),
             ~buildChain(loaded, a, span).refused, ~buildChain(loaded, b, span).refused
      PROVE  ComparisonsHold
  <2> DEFINE A == buildChain(loaded, a, span)
             B == buildChain(loaded, b, span)
             kA == ClassifyDraftChain(A.mine, A.chain)
             kB == ClassifyDraftChain(B.mine, B.chain)
  <2>1. /\ A.chain \in Seq(DOMAIN A.mine) /\ ChainIsWhole(A)
        /\ B.chain \in Seq(DOMAIN B.mine) /\ ChainIsWhole(B)
    BY <1>1, <1>4, WholeChain
  <2>2. /\ report.of = "chain-diff" /\ report.a = A /\ report.b = B
        /\ report.diffs = CompareChainClassifications(kA, kB)
    BY <1>4 DEF ChainReport
  <2>3. DOMAIN kA = 1..(Len(A.chain) - 1) /\ DOMAIN kB = 1..(Len(B.chain) - 1)
    BY DEF ClassifyDraftChain
  <2> HIDE DEF A, B, kA, kB
  <2>4. \A n \in report.diffs : n \in DOMAIN kA /\ n \in DOMAIN kB
    BY <2>2 DEF CompareChainClassifications
  <2>5. Len(A.chain) \in Nat /\ Len(B.chain) \in Nat
    BY <2>1
  <2>6. \A n \in report.diffs : n < Len(A.chain) /\ n < Len(B.chain)
    BY <2>3, <2>4, <2>5
  <2> QED
    BY <2>1, <2>2, <2>6 DEF ComparisonsHold
<1> QED
  BY <1>1, <1>2, <1>3, <1>4 DEF RInv

\* Whatever the drafts, a chain visits no draft twice, follows derivation where
\* IDs are unique, and leaves nothing of its span out where lineage finds no
\* fault and nothing forks; chains differ only where both have a step, and the
\* gap between two analysts is the same from both sides, names each span once,
\* and disagrees with the chain about content in the order of lists only
\* (FollowDraftChain, buildChain, CompareChainClassifications, CompareExtractions).
THEOREM ComparisonsAreRight == ReadingsSpec => []ComparisonsHold
<1>1. InitReadings => RInv
  BY DEF InitReadings, RInv
<1>2. RInv /\ [NextReading]_readingVars => RInv'
  BY ReportKept
<1>3. RInv => ComparisonsHold
  BY ReportHolds
<1> QED
  BY <1>1, <1>2, <1>3, PTL DEF ReadingsSpec

(***************************************************************************)
(* What is above and below a draft: the chains of a file.                   *)
(***************************************************************************)

\* The prior draft of a draft is one draft, or none.
LEMMA PriorFacts ==
    ASSUME NEW S, NEW ds \in Seq(S), NEW k \in DOMAIN ds
    PROVE  \/ Prior(ds, k) = {}
           \/ \E p \in DOMAIN ds : /\ Prior(ds, k) = {p} /\ ds[p].id = ds[k].derivedFrom
                                   /\ ds[k].derivedFrom # 0
<1>1. CASE ds[k].derivedFrom = 0
  BY <1>1 DEF Prior
<1>2. CASE ds[k].derivedFrom # 0
  <2>1. Prior(ds, k) = ByID(ds, ds[k].derivedFrom)
    BY <1>2 DEF Prior
  <2>2. CASE Prior(ds, k) # {}
    <3>1. PICK p \in DOMAIN ds : ByID(ds, ds[k].derivedFrom) = {p}
      BY <2>1, <2>2, ByIDFacts
    <3>2. ds[p].id = ds[k].derivedFrom
      BY <3>1, ByIDFacts
    <3> QED
      BY <1>2, <2>1, <3>1, <3>2
  <2> QED
    BY <2>2
<1> QED
  BY <1>1, <1>2

\* A part of the positions of a list, in order.
LEMMA PartOfOrder ==
    ASSUME NEW S, NEW ds \in Seq(S), NEW K \in SUBSET DOMAIN ds
    PROVE  /\ Subsequence(Order(ds), K) \in Seq(DOMAIN ds)
           /\ Range(Subsequence(Order(ds), K)) = K
<1> DEFINE part == Subsequence(Order(ds), K)
<1>1. /\ Order(ds) \in Seq(DOMAIN ds) /\ DOMAIN Order(ds) = DOMAIN ds
      /\ \A k \in DOMAIN ds : Order(ds)[k] = k
  BY DEF Order
<1> HIDE DEF part
<1>2. part \in Seq(DOMAIN ds)
  BY <1>1, PartOf DEF part
<1>3. PICK f : IsOrigin(f, part, Order(ds), K)
  BY <1>1, PartOf DEF part
<1>4. \A n \in DOMAIN part : part[n] = f[n] /\ f[n] \in K
  BY <1>1, <1>3 DEF IsOrigin
<1>5. \A k \in K : \E n \in DOMAIN part : part[n] = k
  BY <1>3, <1>4 DEF IsOrigin
<1>6. Range(part) = K
  BY <1>4, <1>5 DEF Range
<1> QED
  BY <1>2, <1>6 DEF part

\* The anchors are the drafts with no prior.
LEMMA AnchorsFacts ==
    ASSUME NEW S, NEW ds \in Seq(S)
    PROVE  /\ Anchors(ds) \in Seq(DOMAIN ds)
           /\ Range(Anchors(ds)) = { k \in DOMAIN ds : Prior(ds, k) = {} }
<1>1. { k \in DOMAIN ds : Prior(ds, k) = {} } \in SUBSET DOMAIN ds
  OBVIOUS
<1> QED
  BY <1>1, PartOfOrder DEF Anchors

\* The subsequent drafts of a draft are those whose prior it is.
LEMMA SubsequentFacts ==
    ASSUME NEW S, NEW ds \in Seq(S), NEW n
    PROVE  /\ Subsequent(ds, n) \in Seq(DOMAIN ds)
           /\ Range(Subsequent(ds, n)) = { k \in DOMAIN ds : n \in Prior(ds, k) }
<1>1. { k \in DOMAIN ds : n \in Prior(ds, k) } \in SUBSET DOMAIN ds
  OBVIOUS
<1> QED
  BY <1>1, PartOfOrder DEF Subsequent

\* The members of a chain are the smallest set that holds its anchor and with
\* each draft what is derived from it.
LEMMA MembersFacts ==
    ASSUME NEW S, NEW ds \in Seq(S), NEW r \in DOMAIN ds
    PROVE  /\ r \in collectMembers(ds, r) /\ collectMembers(ds, r) \subseteq DOMAIN ds
           /\ \A k \in DOMAIN ds : Prior(ds, k) \cap collectMembers(ds, r) # {}
                                      => k \in collectMembers(ds, r)
           /\ \A C : /\ r \in C
                     /\ \A k \in DOMAIN ds : Prior(ds, k) \cap C # {} => k \in C
                     => collectMembers(ds, r) \subseteq C
<1> DEFINE N == Len(ds)
           X == DOMAIN ds
           start == {r}
           Below(c) == { k \in X : Prior(ds, k) \cap c # {} }
           R == { e \in X \X X : e[1] \in Prior(ds, e[2]) }
           Downs(f) == f = [d \in 0..N |-> IF d = 0 THEN start ELSE f[d - 1] \cup Below(f[d - 1])]
           down == CHOOSE f : Downs(f)
<1>1. N \in Nat /\ X = 1..N
  OBVIOUS
<1>2. collectMembers(ds, r) = down[N]
  BY DEF collectMembers
<1>3. \A k \in X : \A p : p \in Prior(ds, k) => p \in X
  BY PriorFacts
<1>4. IsFiniteSet(X) /\ Cardinality(X) =< N
  <2> HIDE DEF N
  <2> QED
    BY <1>1, FS_Interval
<1>5. start \in SUBSET X
  OBVIOUS
<1> HIDE DEF start, N, X
<1>6. \A e \in R : e[1] \in Prior(ds, e[2]) /\ e[2] \in X
  OBVIOUS
<1>7. \A p, k \in X : p \in Prior(ds, k) => <<p, k>> \in R
  OBVIOUS
<1> HIDE DEF R
<1>8. ASSUME NEW c
      PROVE  Below(c) = Image(R, c)
  <2>1. ASSUME NEW k \in Below(c)
        PROVE  k \in Image(R, c)
    <3>1. PICK p \in Prior(ds, k) : p \in c
      OBVIOUS
    <3>2. <<p, k>> \in R
      BY <1>3, <1>7, <3>1
    <3> QED
      BY <3>1, <3>2 DEF Image
  <2>2. ASSUME NEW k \in Image(R, c)
        PROVE  k \in Below(c)
    <3>1. PICK e \in R : e[1] \in c /\ e[2] = k
      BY <2>2 DEF Image
    <3> QED
      BY <1>6, <3>1
  <2> QED
    BY <2>1, <2>2
<1>9. \A f : Downs(f) <=> IsGrowth(f, N, start, R)
  <2> HIDE DEF Below
  <2> QED
    BY <1>8 DEF IsGrowth
<1>10. IsGrowth(down, N, start, R)
  <2>1. \E f : Downs(f)
    <3> HIDE DEF Downs
    <3> QED
      BY <1>1, <1>5, <1>6, <1>9, GrowthExists
  <2> HIDE DEF Downs
  <2> QED
    BY <1>9, <2>1
<1> HIDE DEF down
<1>11. /\ start \subseteq down[N] /\ down[N] \subseteq X
       /\ Image(R, down[N]) \subseteq down[N]
       /\ \A C : start \subseteq C /\ Image(R, C) \subseteq C => down[N] \subseteq C
  <2>1. \A e \in R : e[2] \in X
    BY <1>6
  <2>2. N \in Nat
    BY <1>1
  <2> QED
    BY <1>4, <1>5, <1>10, <2>1, <2>2, GrowthFacts
<1>12. r \in down[N] /\ Below(down[N]) \subseteq down[N]
  BY <1>8, <1>11 DEF start
<1>13. ASSUME NEW C, r \in C, \A k \in DOMAIN ds : Prior(ds, k) \cap C # {} => k \in C
       PROVE  down[N] \subseteq C
  <2>1. Below(C) \subseteq C
    BY <1>13 DEF X
  <2> QED
    BY <1>8, <1>11, <1>13, <2>1 DEF start
<1> QED
  BY <1>2, <1>11, <1>12, <1>13 DEF X

\* No draft is in the chains of two anchors.
LEMMA OneChain ==
    ASSUME NEW S, NEW ds \in Seq(S), NEW r \in DOMAIN ds, NEW q \in DOMAIN ds,
           Prior(ds, r) = {}, Prior(ds, q) = {}, r # q
    PROVE  collectMembers(ds, r) \cap collectMembers(ds, q) = {}
<1> DEFINE mine == collectMembers(ds, r)
           others == collectMembers(ds, q)
           C == mine \ others
           D == { k \in others : k = q \/ Prior(ds, k) \cap others # {} }
<1>1. others \subseteq D
  <2>1. q \in D
    BY MembersFacts
  <2>2. ASSUME NEW k \in DOMAIN ds, Prior(ds, k) \cap D # {}
        PROVE  k \in D
    BY <2>2, MembersFacts
  <2> HIDE DEF D
  <2> QED
    BY <2>1, <2>2, MembersFacts
<1>2. r \in C
  BY <1>1, MembersFacts
<1>3. ASSUME NEW k \in DOMAIN ds, Prior(ds, k) \cap C # {}
      PROVE  k \in C
  <2>1. k \in mine
    BY <1>3, MembersFacts
  <2>2. ASSUME k \in others
        PROVE  FALSE
    <3>1. k # q /\ Prior(ds, k) \cap others # {}
      BY <1>1, <1>3, <2>2
    <3>2. PICK p \in DOMAIN ds : Prior(ds, k) = {p}
      BY <1>3, PriorFacts
    <3> QED
      BY <1>3, <3>1, <3>2
  <2> QED
    BY <2>1, <2>2
<1>4. mine \subseteq C
  <2> HIDE DEF C
  <2> QED
    BY <1>2, <1>3, MembersFacts
<1> QED
  BY <1>4

\* Where derivation does not go round, each draft is in the chain of an anchor.
LEMMA InAChain ==
    ASSUME NEW S, loaded \in Seq(S), ~Cyclic, \A k \in DOMAIN loaded : ID(k) # 0,
           NEW k \in DOMAIN loaded
    PROVE  \E r \in Range(Anchors(loaded)) : k \in collectMembers(loaded, r)
<1> DEFINE Roofs == { r \in DOMAIN loaded : Prior(loaded, r) = {} }
           Out == { j \in DOMAIN loaded : \A r \in Roofs : j \notin collectMembers(loaded, r) }
<1>1. Range(Anchors(loaded)) = Roofs
  BY AnchorsFacts
<1>2. ASSUME NEW j \in Out
      PROVE  \E p \in Out : loaded[j].derivedFrom = ID(p)
  <2>1. j \notin Roofs
    BY MembersFacts
  <2>2. PICK p \in DOMAIN loaded : Prior(loaded, j) = {p} /\ loaded[p].id = loaded[j].derivedFrom
    BY <2>1, PriorFacts
  <2>3. p \in Out
    BY <2>2, MembersFacts
  <2> QED
    BY <2>2, <2>3 DEF ID
<1>3. Out = {}
  <2>1. Out \in SUBSET DOMAIN loaded
    OBVIOUS
  <2> HIDE DEF Out
  <2> QED
    BY <1>2, <2>1, NoDescent
<1> QED
  BY <1>1, <1>3

\* With unique IDs the prior of a draft is the one it names.
LEMMA PriorNamed ==
    ASSUME NEW S, NEW ds \in Seq(S), UniqueIn(ds), NEW k \in DOMAIN ds, NEW j \in DOMAIN ds,
           ds[k].derivedFrom = ds[j].id, ds[j].id # 0
    PROVE  Prior(ds, k) = {j}
<1>1. Prior(ds, k) = ByID(ds, ds[j].id)
  BY DEF Prior
<1>2. PICK p \in DOMAIN ds : ByID(ds, ds[j].id) = {p}
  BY ByIDFacts
<1>3. ds[p].id = ds[j].id
  BY <1>2, ByIDFacts
<1> QED
  BY <1>1, <1>2, <1>3 DEF UniqueIn

\* The drafts whose prior is this one, and that none of F are on a loop of these.
Children(ds, k) == { c \in DOMAIN ds : k \in Prior(ds, c) }
NoLoop(ds, F) == \A X \in SUBSET F : (\A j \in X : Children(ds, j) \cap X # {}) => X = {}

\* Where derivation goes round, there are drafts from each of which another of
\* them is derived: the ancestors of one that is its own ancestor.
LEMMA CircleHasLoop ==
    ASSUME NEW S, loaded \in Seq(S), UniqueIn(loaded), \A k \in DOMAIN loaded : ID(k) # 0,
           NoLoop(loaded, DOMAIN loaded)
    PROVE  ~Cyclic
<1> SUFFICES ASSUME NEW k \in DOMAIN loaded, Circular(k)
             PROVE  FALSE
  BY DEF Cyclic
<1> DEFINE A == Ancestors(k)
           X == { j \in DOMAIN loaded : ID(j) \in A }
<1>1. k \in X
  BY DEF Circular
<1>2. ASSUME NEW j \in X, Children(loaded, j) \cap X = {}
      PROVE  FALSE
  <2> DEFINE C == A \ {ID(j)}
  <2>1. ASSUME NEW c \in X
        PROVE  loaded[c].derivedFrom # ID(j)
    <3>1. ASSUME loaded[c].derivedFrom = ID(j)
          PROVE  FALSE
      <4>1. Prior(loaded, c) = {j}
        BY <3>1, PriorNamed DEF ID
      <4> QED
        BY <1>2, <4>1 DEF Children
    <3> QED
      BY <3>1
  <2>2. {loaded[k].derivedFrom} \ {0} \subseteq C
    BY <1>1, <2>1, AncestorsFacts
  <2>3. NamedBy(A) \subseteq A
    BY AncestorsFacts
  <2>4. NamedBy(C) \subseteq C
    <3>1. ASSUME NEW i \in NamedBy(C)
          PROVE  i \in C
      <4>1. PICK c \in DOMAIN loaded : ID(c) \in C /\ i = loaded[c].derivedFrom /\ i # 0
        BY <3>1 DEF NamedBy
      <4>2. c \in X
        BY <4>1
      <4>3. i \in NamedBy(A)
        BY <4>1, <4>2 DEF NamedBy
      <4> QED
        BY <2>1, <2>3, <4>1, <4>2, <4>3
    <3> QED
      BY <3>1
  <2>5. A \subseteq C
    <3> HIDE DEF C
    <3> QED
      BY <2>2, <2>4, AncestorsFacts
  <2> QED
    BY <2>5
<1>3. X = {}
  BY <1>2 DEF NoLoop
<1> QED
  BY <1>1, <1>3

\* Finishing a draft whose children are finished makes no loop.
LEMMA NoLoopAdded ==
    ASSUME NEW ds, NEW F, NoLoop(ds, F), \A k \in F : Children(ds, k) \subseteq F,
           NEW t, t \notin F, Children(ds, t) \subseteq F
    PROVE  NoLoop(ds, F \cup {t})
<1> SUFFICES ASSUME NEW X \in SUBSET (F \cup {t}), \A j \in X : Children(ds, j) \cap X # {}
             PROVE  X = {}
  BY DEF NoLoop
<1>1. \A j \in X : Children(ds, j) \cap (X \ {t}) # {}
  OBVIOUS
<1>2. X \ {t} = {}
  BY <1>1 DEF NoLoop
<1> QED
  BY <1>1, <1>2

\* With unique IDs and no circle, the chains that hold a draft are one chain, and
\* --id finds it.
LEMMA ChainOfADraft ==
    ASSUME NEW S, loaded \in Seq(S), NEW k \in DOMAIN loaded
    PROVE  LET chains == { r \in Range(Anchors(loaded)) : k \in collectMembers(loaded, r) } IN
           /\ chains = {} \/ \E r : chains = {r}
           /\ UniqueIn(loaded) => filterLineageByID(loaded, ID(k)) = chains
<1> DEFINE anchors == Anchors(loaded)
           chains == { r \in Range(anchors) : k \in collectMembers(loaded, r) }
           Holds(n) == \E j \in collectMembers(loaded, anchors[n]) : loaded[j].id = ID(k)
           First == { n \in DOMAIN anchors : Holds(n) /\ \A m \in 1..(n - 1) : ~Holds(m) }
           K == { n \in DOMAIN anchors : Holds(n) }
<1>1. anchors \in Seq(DOMAIN loaded) /\ Range(anchors) = { r \in DOMAIN loaded : Prior(loaded, r) = {} }
  BY AnchorsFacts
<1> HIDE DEF anchors
<1>2. ASSUME NEW q \in chains, NEW r \in chains
      PROVE  q = r
  BY <1>1, <1>2, OneChain
<1>3. chains = {} \/ \E r : chains = {r}
  BY <1>2
<1>4. ASSUME UniqueIn(loaded)
      PROVE  filterLineageByID(loaded, ID(k)) = chains
  <2>1. filterLineageByID(loaded, ID(k)) = { anchors[n] : n \in First }
    BY DEF filterLineageByID, anchors
  <2>2. ASSUME NEW n \in DOMAIN anchors
        PROVE  Holds(n) <=> anchors[n] \in chains
    <3>1. anchors[n] \in DOMAIN loaded /\ anchors[n] \in Range(anchors)
      BY <1>1 DEF Range
    <3>2. collectMembers(loaded, anchors[n]) \subseteq DOMAIN loaded
      BY <3>1, MembersFacts
    <3>3. \A j \in DOMAIN loaded : loaded[j].id = ID(k) <=> j = k
      BY <1>4 DEF UniqueIn, ID
    <3> QED
      BY <3>1, <3>2, <3>3
  <2>3. \A n \in First : anchors[n] \in chains
    BY <2>2
  <2>4. ASSUME NEW r \in chains
        PROVE  \E n \in First : anchors[n] = r
    <3>1. PICK n \in DOMAIN anchors : anchors[n] = r
      BY DEF Range
    <3>2. n \in K
      BY <2>2, <3>1
    <3>3. K \in SUBSET Int /\ IsFiniteSet(K)
      <4>1. K \in SUBSET DOMAIN anchors
        OBVIOUS
      <4> HIDE DEF K
      <4> QED
        BY <1>1, <4>1, Places
    <3>4. PICK m \in K : \A j \in K : m =< j
      <4> HIDE DEF K
      <4> QED
        BY <3>2, <3>3, FirstAndLast
    <3>5. DOMAIN anchors = 1..Len(anchors) /\ Len(anchors) \in Nat
      BY <1>1
    <3>6. ASSUME NEW j \in 1..(m - 1)
          PROVE  ~Holds(j)
      <4>1. j \in DOMAIN anchors /\ j < m
        BY <3>5
      <4>2. j \notin K
        BY <3>4, <3>5, <4>1
      <4> HIDE DEF Holds
      <4> QED
        BY <4>1, <4>2
    <3>7. m \in First
      <4> HIDE DEF Holds
      <4> QED
        BY <3>4, <3>6
    <3>8. anchors[m] = r
      BY <1>2, <2>3, <3>7
    <3> QED
      BY <3>7, <3>8
  <2> HIDE DEF First, chains
  <2> QED
    BY <2>1, <2>3, <2>4
<1> QED
  BY <1>3, <1>4 DEF anchors

(***************************************************************************)
(* The search for cycles, call by call.                                     *)
(***************************************************************************)

Frame(ds) == [draft : DOMAIN ds, left : Seq(DOMAIN ds), up : BOOLEAN]
ScanType(ds) ==
    [status : {"idle", "walking", "done", "cycle"}, roots : Seq(DOMAIN ds), rest : Seq(DOMAIN ds),
     stack : Seq(Frame(ds)), visited : SUBSET Nat, inPath : SUBSET Nat, culprit : Nat]

\* The drafts met so far, those of the calls that did not return, and the rest.
Met(ds, s) == { k \in DOMAIN ds : ds[k].id \in s.visited }
Current(s) == { s.stack[n].draft : n \in DOMAIN s.stack }
Finished(ds, s) == Met(ds, s) \ Current(s)

AllChained(ds) == \A k \in DOMAIN ds : \E r \in Range(Anchors(ds)) : k \in collectMembers(ds, r)

\* The path is what the calls are about, each about a draft of its own.
PathFits(ds, s) ==
    /\ s.inPath = { ds[k].id : k \in Current(s) }
    /\ Current(s) \subseteq Met(ds, s)
    /\ \A m, n \in DOMAIN s.stack : s.stack[m].draft = s.stack[n].draft => m = n

\* Each child of a draft being looked at is finished, is still to be called, or
\* is what the next call is about, "due" being about to be called.
Above(s, n, due) == IF n = Len(s.stack) THEN due ELSE {s.stack[n + 1].draft}
FramesFit(ds, s, due) ==
    \A n \in DOMAIN s.stack :
        /\ Range(s.stack[n].left) \subseteq Children(ds, s.stack[n].draft)
        /\ Children(ds, s.stack[n].draft) \subseteq
              Finished(ds, s) \cup Range(s.stack[n].left) \cup Above(s, n, due)

\* What is finished has finished children and no loop.
FinishedFits(ds, s) ==
    /\ \A k \in Finished(ds, s) : Children(ds, k) \subseteq Finished(ds, s)
    /\ NoLoop(ds, Finished(ds, s))

\* Every draft is met or still to be met, an anchor as an anchor.
RestFits(ds, s, due) ==
    /\ DOMAIN ds \subseteq Met(ds, s) \cup Range(s.rest) \cup due
    /\ Range(Anchors(ds)) \subseteq Met(ds, s) \cup Range(s.roots) \cup due
    /\ Range(s.roots) \subseteq Range(Anchors(ds))

\* If each draft is in a chain, the calls go from an anchor down.
Straight(ds, s) ==
    AllChained(ds) =>
        \A n \in DOMAIN s.stack :
            Prior(ds, s.stack[n].draft) = IF n = 1 THEN {} ELSE {s.stack[n - 1].draft}

Fits(ds, s, due) ==
    /\ s \in ScanType(ds)
    /\ PathFits(ds, s) /\ FramesFit(ds, s, due) /\ FinishedFits(ds, s)
    /\ RestFits(ds, s, due) /\ Straight(ds, s)

\* A call about a draft that is due makes its new frame the top one.
Pushed(s, k) ==
    [s EXCEPT !.visited = @ \cup {ID(k)},
              !.inPath = @ \cup {ID(k)},
              !.stack = Append(@, [draft |-> k, left |-> Subsequent(loaded, k), up |-> FALSE])]

\* It was due, so the search is as it should be after the push.
LEMMA PushFits ==
    ASSUME NEW S, loaded \in Seq(S), UniqueIn(loaded), \A j \in DOMAIN loaded : ID(j) \in Nat,
           NEW k \in DOMAIN loaded, NEW s, Fits(loaded, s, {k}), k \notin Met(loaded, s),
           AllChained(loaded) =>
              Prior(loaded, k) = IF s.stack = <<>> THEN {} ELSE {s.stack[Len(s.stack)].draft}
    PROVE  Fits(loaded, Pushed(s, k), {}) /\ Pushed(s, k).status = s.status
<1> DEFINE ds == loaded
           t == Pushed(s, k)
           frame == [draft |-> k, left |-> Subsequent(loaded, k), up |-> FALSE]
           L == Len(s.stack)
<1>1. s \in ScanType(ds) /\ s.stack \in Seq(Frame(ds)) /\ L \in Nat /\ DOMAIN s.stack = 1..L
  BY DEF Fits, ScanType
<1>2. Subsequent(ds, k) \in Seq(DOMAIN ds) /\ Range(Subsequent(ds, k)) = Children(ds, k)
  BY SubsequentFacts DEF Children
<1>3. frame \in Frame(ds)
  BY <1>2 DEF Frame
<1>4. ID(k) \in Nat /\ ID(k) = ds[k].id
  BY DEF ID
<1> HIDE DEF frame
<1>5. /\ t.status = s.status /\ t.roots = s.roots /\ t.rest = s.rest /\ t.culprit = s.culprit
      /\ t.visited = s.visited \cup {ID(k)} /\ t.inPath = s.inPath \cup {ID(k)}
      /\ t.stack = Append(s.stack, frame)
      /\ t \in ScanType(ds)
  <2>1. t = [s EXCEPT !.visited = @ \cup {ID(k)}, !.inPath = @ \cup {ID(k)},
                      !.stack = Append(@, frame)]
    BY DEF Pushed, frame
  <2>2. /\ s = [status |-> s.status, roots |-> s.roots, rest |-> s.rest, stack |-> s.stack,
                visited |-> s.visited, inPath |-> s.inPath, culprit |-> s.culprit]
        /\ s.status \in {"idle", "walking", "done", "cycle"} /\ s.culprit \in Nat
        /\ s.roots \in Seq(DOMAIN ds) /\ s.rest \in Seq(DOMAIN ds)
        /\ s.visited \in SUBSET Nat /\ s.inPath \in SUBSET Nat
    BY <1>1 DEF ScanType
  <2> HIDE DEF t, ds
  <2>3. t = [status |-> s.status, roots |-> s.roots, rest |-> s.rest,
             stack |-> Append(s.stack, frame), visited |-> s.visited \cup {ID(k)},
             inPath |-> s.inPath \cup {ID(k)}, culprit |-> s.culprit]
    BY <2>1, <2>2
  <2>4. /\ Append(s.stack, frame) \in Seq(Frame(ds))
        /\ s.visited \cup {ID(k)} \in SUBSET Nat /\ s.inPath \cup {ID(k)} \in SUBSET Nat
    BY <1>1, <1>3, <1>4, <2>2
  <2>5. t \in ScanType(ds)
    BY <2>2, <2>3, <2>4 DEF ScanType
  <2> QED
    BY <2>3, <2>5
<1> HIDE DEF t
<1>6. /\ Len(t.stack) = L + 1 /\ DOMAIN t.stack = 1..(L + 1)
      /\ \A n \in 1..L : t.stack[n] = s.stack[n]
      /\ t.stack[L + 1] = frame
  BY <1>1, <1>3, <1>5
<1>7. frame.draft = k /\ frame.left = Subsequent(ds, k)
  BY DEF frame
<1>8. Met(ds, t) = Met(ds, s) \cup {k}
  BY <1>4, <1>5 DEF Met, UniqueIn
<1>9. Current(t) = Current(s) \cup {k}
  <2>1. ASSUME NEW j \in Current(t)
        PROVE  j \in Current(s) \cup {k}
    <3>1. PICK n \in 1..(L + 1) : t.stack[n].draft = j
      BY <1>6 DEF Current
    <3>2. n \in 1..L \/ n = L + 1
      BY <1>1
    <3> QED
      BY <1>1, <1>6, <1>7, <3>1, <3>2 DEF Current
  <2>2. ASSUME NEW n \in 1..L
        PROVE  s.stack[n].draft \in Current(t)
    <3>1. n \in DOMAIN t.stack /\ t.stack[n].draft = s.stack[n].draft
      BY <1>1, <1>6
    <3> QED
      BY <3>1 DEF Current
  <2>3. k \in Current(t)
    <3>1. L + 1 \in DOMAIN t.stack
      BY <1>1, <1>6
    <3> QED
      BY <1>6, <1>7, <3>1 DEF Current
  <2>4. Current(s) \subseteq Current(t)
    BY <1>1, <2>2 DEF Current
  <2> QED
    BY <2>1, <2>3, <2>4
<1>10. Finished(ds, t) = Finished(ds, s)
  BY <1>8, <1>9 DEF Finished
<1>11. k \notin Current(s)
  BY DEF Fits, PathFits
<1>12. PathFits(ds, t)
  <2>1. t.inPath = { ds[j].id : j \in Current(t) }
    BY <1>4, <1>5, <1>9 DEF Fits, PathFits
  <2>2. Current(t) \subseteq Met(ds, t)
    BY <1>8, <1>9 DEF Fits, PathFits
  <2>3. ASSUME NEW m \in DOMAIN t.stack, NEW n \in DOMAIN t.stack,
               t.stack[m].draft = t.stack[n].draft
        PROVE  m = n
    <3>1. \A i \in 1..L : s.stack[i].draft \in Current(s)
      BY <1>1 DEF Current
    <3>2. CASE m \in 1..L /\ n \in 1..L
      BY <1>1, <1>6, <2>3, <3>2 DEF Fits, PathFits
    <3>3. CASE m \in 1..L /\ n = L + 1
      BY <1>6, <1>7, <1>11, <2>3, <3>1, <3>3
    <3>4. CASE n \in 1..L /\ m = L + 1
      BY <1>6, <1>7, <1>11, <2>3, <3>1, <3>4
    <3>5. CASE m = L + 1 /\ n = L + 1
      BY <3>5
    <3> QED
      BY <1>1, <1>6, <3>2, <3>3, <3>4, <3>5
  <2> QED
    BY <2>1, <2>2, <2>3 DEF PathFits
<1>13. FramesFit(ds, t, {})
  <2>1. ASSUME NEW n \in DOMAIN t.stack
        PROVE  /\ Range(t.stack[n].left) \subseteq Children(ds, t.stack[n].draft)
               /\ Children(ds, t.stack[n].draft) \subseteq
                     Finished(ds, t) \cup Range(t.stack[n].left) \cup Above(t, n, {})
    <3>1. CASE n = L + 1
      BY <1>2, <1>6, <1>7, <3>1
    <3>2. CASE n \in 1..L
      <4>1. Above(t, n, {}) = Above(s, n, {k})
        <5>1. CASE n = L
          BY <1>1, <1>6, <1>7, <5>1 DEF Above
        <5>2. CASE n # L
          <6>1. n + 1 \in 1..L
            BY <1>1, <3>2, <5>2
          <6> QED
            BY <1>1, <1>6, <3>2, <5>2, <6>1 DEF Above
        <5> QED
          BY <5>1, <5>2
      <4> QED
        BY <1>1, <1>6, <1>10, <3>2, <4>1 DEF Fits, FramesFit
    <3> QED
      BY <1>1, <1>6, <3>1, <3>2
  <2> QED
    BY <2>1 DEF FramesFit
<1>14. FinishedFits(ds, t)
  BY <1>10 DEF Fits, FinishedFits
<1>15. RestFits(ds, t, {})
  BY <1>5, <1>8 DEF Fits, RestFits
<1>16. Straight(ds, t)
  <2>1. ASSUME AllChained(ds), NEW n \in DOMAIN t.stack
        PROVE  Prior(ds, t.stack[n].draft) = IF n = 1 THEN {} ELSE {t.stack[n - 1].draft}
    <3>1. CASE n = L + 1
      <4>1. CASE L = 0
        BY <1>1, <1>6, <1>7, <2>1, <3>1, <4>1
      <4>2. CASE L # 0
        <5>1. s.stack # <<>> /\ n - 1 = L /\ L \in 1..L /\ n # 1
          BY <1>1, <3>1, <4>2
        <5> QED
          BY <1>6, <1>7, <2>1, <3>1, <5>1
      <4> QED
        BY <4>1, <4>2
    <3>2. CASE n \in 1..L
      <4>1. n # 1 => n - 1 \in 1..L
        BY <1>1, <3>2
      <4> QED
        BY <1>1, <1>6, <2>1, <3>2, <4>1 DEF Fits, Straight
    <3> QED
      BY <1>1, <1>6, <3>1, <3>2
  <2> QED
    BY <2>1 DEF Straight
<1> QED
  BY <1>5, <1>12, <1>13, <1>14, <1>15, <1>16 DEF Fits, t

\* A call leaves the search as it should be, or ends it with an error.
LEMMA CallFits ==
    ASSUME NEW S, loaded \in Seq(S), UniqueIn(loaded), \A j \in DOMAIN loaded : ID(j) \in Nat,
           NEW k \in DOMAIN loaded, NEW s, Fits(loaded, s, {k}), s.status = "walking",
           AllChained(loaded) =>
              /\ ID(k) \notin s.inPath
              /\ k \notin Met(loaded, s) =>
                    Prior(loaded, k) = IF s.stack = <<>> THEN {} ELSE {s.stack[Len(s.stack)].draft}
    PROVE  \/ Call(s, k).status = "cycle" /\ ~AllChained(loaded)
           \/ Call(s, k).status = "walking" /\ Fits(loaded, Call(s, k), {})
<1>1. s \in ScanType(loaded)
  BY DEF Fits
<1>2. CASE ID(k) \in s.inPath
  <2>1. Call(s, k) = [s EXCEPT !.status = "cycle", !.culprit = k]
    BY <1>2 DEF Call
  <2>2. Call(s, k).status = "cycle"
    BY <1>1, <2>1 DEF ScanType
  <2> QED
    BY <1>2, <2>2
<1>3. CASE ID(k) \notin s.inPath /\ ID(k) \in s.visited
  <2>1. Call(s, k) = s
    BY <1>3 DEF Call
  <2>2. k \in Finished(loaded, s)
    <3>1. k \in Met(loaded, s)
      BY <1>3 DEF Met, ID
    <3>2. k \notin Current(s)
      BY <1>3 DEF Fits, PathFits, ID
    <3> QED
      BY <3>1, <3>2 DEF Finished
  <2>3. FramesFit(loaded, s, {})
    <3>1. \A n \in DOMAIN s.stack : Above(s, n, {k}) \subseteq Above(s, n, {}) \cup {k}
      BY DEF Above
    <3> QED
      BY <2>2, <3>1 DEF Fits, FramesFit
  <2>4. RestFits(loaded, s, {})
    BY <2>2 DEF Fits, RestFits, Finished
  <2> QED
    BY <2>1, <2>3, <2>4 DEF Fits
<1>4. CASE ID(k) \notin s.inPath /\ ID(k) \notin s.visited
  <2>1. Call(s, k) = Pushed(s, k)
    BY <1>4 DEF Call, Pushed
  <2>2. k \notin Met(loaded, s)
    BY <1>4 DEF Met, ID
  <2> QED
    BY <2>1, <2>2, PushFits
<1> QED
  BY <1>2, <1>3, <1>4

\* The state of the search, the IDs being unique.
SearchInv(ds, s) ==
    /\ s.status \in {"idle", "walking", "done", "cycle"}
    /\ s.status = "idle" => s = NoSearch
    /\ s.status = "walking" => Fits(ds, s, {})
    /\ s.status = "done" => Fits(ds, s, {}) /\ s.stack = <<>> /\ s.rest = <<>>
    /\ s.status = "cycle" => ~AllChained(ds)

\* What every action of the search can rely on.
LEMMA AtACall ==
    ASSUME NEW S, loaded \in Seq(S), NEW s, Fits(loaded, s, {}), s.stack # <<>>
    PROVE  LET top == s.stack[Len(s.stack)] IN
           /\ Len(s.stack) \in DOMAIN s.stack /\ top \in Frame(loaded)
           /\ top.draft \in Current(s) /\ top.draft \in Met(loaded, s)
           /\ Range(top.left) \subseteq Children(loaded, top.draft)
           /\ Children(loaded, top.draft) \subseteq Finished(loaded, s) \cup Range(top.left)
<1>1. s.stack \in Seq(Frame(loaded))
  BY DEF Fits, ScanType
<1>2. Len(s.stack) \in DOMAIN s.stack
  BY <1>1
<1>3. s.stack[Len(s.stack)] \in Frame(loaded)
  BY <1>1, <1>2
<1>4. s.stack[Len(s.stack)].draft \in Current(s)
  BY <1>2 DEF Current
<1>5. Above(s, Len(s.stack), {}) = {}
  BY DEF Above
<1> QED
  BY <1>2, <1>3, <1>4, <1>5 DEF Fits, PathFits, FramesFit

\* A queue is its first element and the others.
LEMMA HeadAndTail ==
    ASSUME NEW T, NEW q \in Seq(T), q # <<>>
    PROVE  /\ q[1] \in T /\ Tail(q) \in Seq(T)
           /\ Range(q) = {q[1]} \cup Range(Tail(q))
           /\ Len(q) \in Nat /\ Len(Tail(q)) \in Nat /\ Len(q) = Len(Tail(q)) + 1
<1>1. /\ Len(q) \in Nat /\ Len(q) >= 1 /\ DOMAIN q = 1..Len(q)
      /\ Tail(q) \in Seq(T) /\ DOMAIN Tail(q) = 1..(Len(q) - 1)
      /\ \A n \in 1..(Len(q) - 1) : Tail(q)[n] = q[n + 1]
      /\ Len(Tail(q)) \in Nat /\ Len(q) = Len(Tail(q)) + 1
  OBVIOUS
<1>2. ASSUME NEW x \in Range(q)
      PROVE  x = q[1] \/ x \in Range(Tail(q))
  <2>1. PICK n \in 1..Len(q) : x = q[n]
    BY <1>1 DEF Range
  <2>2. CASE n # 1
    <3>1. n - 1 \in 1..(Len(q) - 1) /\ Tail(q)[n - 1] = q[n]
      BY <1>1, <2>2
    <3> QED
      BY <1>1, <2>1, <3>1 DEF Range
  <2> QED
    BY <2>1, <2>2
<1>3. ASSUME NEW n \in DOMAIN Tail(q)
      PROVE  Tail(q)[n] \in Range(q)
  <2>1. n + 1 \in DOMAIN q /\ Tail(q)[n] = q[n + 1]
    BY <1>1
  <2> QED
    BY <2>1 DEF Range
<1>4. q[1] \in T /\ q[1] \in Range(q)
  BY <1>1 DEF Range
<1>5. Range(Tail(q)) \subseteq Range(q)
  BY <1>3 DEF Range
<1> QED
  BY <1>1, <1>2, <1>4, <1>5

\* A search whose calls have all returned met what it finished.
LEMMA NoCalls ==
    ASSUME NEW ds, NEW s, s.stack = <<>>
    PROVE  Current(s) = {} /\ Finished(ds, s) = Met(ds, s)
<1>1. DOMAIN s.stack = {}
  OBVIOUS
<1> QED
  BY <1>1 DEF Current, Finished

\* A search goes on from the next anchor.
LEMMA AnchorFits ==
    ASSUME NEW S, loaded \in Seq(S), UniqueIn(loaded), \A j \in DOMAIN loaded : ID(j) \in Nat,
           SearchInv(loaded, scan), FromAnchor
    PROVE  SearchInv(loaded, scan')
<1> DEFINE k == scan.roots[1]
           s == [scan EXCEPT !.roots = Tail(@), !.inPath = {}]
<1>1. scan.status = "walking" /\ scan.stack = <<>> /\ scan.roots # <<>> /\ scan' = Call(s, k)
  BY DEF FromAnchor, Walking, Scans
<1>2. Fits(loaded, scan, {}) /\ scan \in ScanType(loaded)
  BY <1>1 DEF SearchInv, Fits
<1>3. /\ k \in DOMAIN loaded /\ Tail(scan.roots) \in Seq(DOMAIN loaded)
      /\ Range(scan.roots) = {k} \cup Range(Tail(scan.roots))
  <2>1. scan.roots \in Seq(DOMAIN loaded)
    BY <1>2 DEF ScanType
  <2> QED
    BY <1>1, <2>1, HeadAndTail
<1>4. /\ s \in ScanType(loaded) /\ s.status = scan.status /\ s.stack = scan.stack
      /\ s.rest = scan.rest /\ s.visited = scan.visited
      /\ s.roots = Tail(scan.roots) /\ s.inPath = {}
  BY <1>2, <1>3 DEF ScanType
<1> HIDE DEF s, k
<1>5. Met(loaded, s) = Met(loaded, scan) /\ Current(s) = {} /\ Finished(loaded, s) = Finished(loaded, scan)
  BY <1>1, <1>4, NoCalls DEF Met, Current, Finished
<1>6. Fits(loaded, s, {k})
  <2>1. PathFits(loaded, s) /\ FramesFit(loaded, s, {k}) /\ Straight(loaded, s)
    <3>1. DOMAIN s.stack = {}
      BY <1>1, <1>4
    <3> QED
      BY <1>4, <1>5, <3>1 DEF PathFits, FramesFit, Straight
  <2>2. FinishedFits(loaded, s)
    BY <1>2, <1>5 DEF Fits, FinishedFits
  <2>3. RestFits(loaded, s, {k})
    BY <1>2, <1>3, <1>4, <1>5 DEF Fits, RestFits
  <2> QED
    BY <1>4, <2>1, <2>2, <2>3 DEF Fits
<1>7. Prior(loaded, k) = {}
  <2>1. k \in Range(Anchors(loaded))
    BY <1>2, <1>3 DEF Fits, RestFits
  <2> QED
    BY <2>1, AnchorsFacts
<1>8. \/ scan'.status = "cycle" /\ ~AllChained(loaded)
      \/ scan'.status = "walking" /\ Fits(loaded, scan', {})
  BY <1>1, <1>3, <1>4, <1>6, <1>7, CallFits
<1> QED
  BY <1>8 DEF SearchInv

\* Where each draft is in a chain, all are met when the anchors are done.
LEMMA AnchorsMeetAll ==
    ASSUME NEW S, NEW ds \in Seq(S), AllChained(ds), NEW s, Fits(ds, s, {}),
           s.stack = <<>>, s.roots = <<>>
    PROVE  DOMAIN ds \subseteq Met(ds, s)
<1> DEFINE M == Met(ds, s)
<1>1. Range(s.roots) = {}
  BY DEF Range
<1>2. Range(Anchors(ds)) \subseteq M
  BY <1>1 DEF Fits, RestFits
<1>3. \A k \in M : Children(ds, k) \subseteq M
  BY NoCalls DEF Fits, FinishedFits
<1>4. ASSUME NEW r \in Range(Anchors(ds))
      PROVE  collectMembers(ds, r) \subseteq M
  <2>1. r \in DOMAIN ds
    BY AnchorsFacts
  <2>2. ASSUME NEW k \in DOMAIN ds, Prior(ds, k) \cap M # {}
        PROVE  k \in M
    BY <1>3, <2>2 DEF Children
  <2> HIDE DEF M
  <2> QED
    BY <1>2, <2>1, <2>2, MembersFacts
<1> QED
  BY <1>4 DEF AllChained

\* A search goes on from a draft that no anchor led to: the error it may end with is
\* right, since then some draft is in no chain.
LEMMA UnvisitedFits ==
    ASSUME NEW S, loaded \in Seq(S), UniqueIn(loaded), \A j \in DOMAIN loaded : ID(j) \in Nat,
           SearchInv(loaded, scan), FromUnvisited
    PROVE  SearchInv(loaded, scan')
<1> DEFINE k == scan.rest[1]
           s == [scan EXCEPT !.rest = Tail(@), !.inPath = {}]
<1>1. /\ scan.status = "walking" /\ scan.stack = <<>> /\ scan.roots = <<>> /\ scan.rest # <<>>
      /\ scan' = Call(s, k)
  BY DEF FromUnvisited, Walking, Scans
<1>2. Fits(loaded, scan, {}) /\ scan \in ScanType(loaded)
  BY <1>1 DEF SearchInv, Fits
<1>3. /\ k \in DOMAIN loaded /\ Tail(scan.rest) \in Seq(DOMAIN loaded)
      /\ Range(scan.rest) = {k} \cup Range(Tail(scan.rest))
  <2>1. scan.rest \in Seq(DOMAIN loaded)
    BY <1>2 DEF ScanType
  <2> QED
    BY <1>1, <2>1, HeadAndTail
<1>4. /\ s \in ScanType(loaded) /\ s.status = scan.status /\ s.stack = scan.stack
      /\ s.roots = scan.roots /\ s.visited = scan.visited
      /\ s.rest = Tail(scan.rest) /\ s.inPath = {}
  BY <1>2, <1>3 DEF ScanType
<1> HIDE DEF s, k
<1>5. Met(loaded, s) = Met(loaded, scan) /\ Current(s) = {} /\ Finished(loaded, s) = Finished(loaded, scan)
  BY <1>1, <1>4, NoCalls DEF Met, Current, Finished
<1>6. Fits(loaded, s, {k})
  <2>1. PathFits(loaded, s) /\ FramesFit(loaded, s, {k}) /\ Straight(loaded, s)
    <3>1. DOMAIN s.stack = {}
      BY <1>1, <1>4
    <3> QED
      BY <1>4, <1>5, <3>1 DEF PathFits, FramesFit, Straight
  <2>2. FinishedFits(loaded, s)
    BY <1>2, <1>5 DEF Fits, FinishedFits
  <2>3. RestFits(loaded, s, {k})
    BY <1>2, <1>3, <1>4, <1>5 DEF Fits, RestFits
  <2> QED
    BY <1>4, <2>1, <2>2, <2>3 DEF Fits
<1>7. AllChained(loaded) => k \in Met(loaded, s)
  BY <1>1, <1>2, <1>3, <1>5, AnchorsMeetAll
<1>8. \/ scan'.status = "cycle" /\ ~AllChained(loaded)
      \/ scan'.status = "walking" /\ Fits(loaded, scan', {})
  BY <1>1, <1>3, <1>4, <1>6, <1>7, CallFits
<1> QED
  BY <1>8 DEF SearchInv

\* A search that is another one but for its top frame.
TopIs(ds, s, t, frame, due) ==
    /\ Fits(ds, t, due) /\ t.status = s.status
    /\ t.stack # <<>> /\ Len(t.stack) = Len(s.stack)
    /\ t.stack[Len(t.stack)] = frame
    /\ t.inPath = s.inPath /\ t.visited = s.visited
    /\ Current(t) = Current(s) /\ Met(ds, t) = Met(ds, s)

\* The top frame may take a draft from those it has left and have it called.
LEMMA TopChanged ==
    ASSUME NEW S, NEW ds \in Seq(S), NEW s, Fits(ds, s, {}), s.stack # <<>>,
           NEW frame \in Frame(ds), frame.draft = s.stack[Len(s.stack)].draft,
           NEW due,
           Range(frame.left) \subseteq Range(s.stack[Len(s.stack)].left),
           Range(s.stack[Len(s.stack)].left) \subseteq Range(frame.left) \cup due
    PROVE  TopIs(ds, s, InTop(s, frame), frame, due)
<1> DEFINE t == InTop(s, frame)
           L == Len(s.stack)
           new == [s.stack EXCEPT ![L] = frame]
<1>1. /\ s \in ScanType(ds) /\ s.stack \in Seq(Frame(ds)) /\ L \in Nat /\ L # 0
      /\ DOMAIN s.stack = 1..L
  BY DEF Fits, ScanType
<1>2. /\ new \in Seq(Frame(ds)) /\ DOMAIN new = 1..L /\ Len(new) = L /\ new[L] = frame
      /\ \A n \in 1..(L - 1) : new[n] = s.stack[n]
  BY <1>1
<1>3. t = [s EXCEPT !.stack = new]
  <2>1. "stack" \in DOMAIN s
    BY <1>1 DEF ScanType
  <2> QED
    BY <2>1 DEF InTop
<1> HIDE DEF new, t
<1>4. /\ t \in ScanType(ds) /\ t.stack = new /\ t.status = s.status /\ t.roots = s.roots
      /\ t.rest = s.rest /\ t.visited = s.visited /\ t.inPath = s.inPath
  BY <1>1, <1>2, <1>3 DEF ScanType
<1>5. \A n \in 1..L : t.stack[n].draft = s.stack[n].draft
  <2>1. ASSUME NEW n \in 1..L
        PROVE  t.stack[n].draft = s.stack[n].draft
    <3>1. CASE n = L
      BY <1>2, <1>4, <3>1
    <3>2. CASE n # L
      <4>1. n \in 1..(L - 1)
        BY <1>1, <3>2
      <4> QED
        BY <1>2, <1>4, <4>1
    <3> QED
      BY <3>1, <3>2
  <2> QED
    BY <2>1
<1>6. DOMAIN t.stack = 1..L /\ Len(t.stack) = L
  BY <1>2, <1>4
<1>7. Current(t) = Current(s)
  BY <1>1, <1>5, <1>6 DEF Current
<1>8. Met(ds, t) = Met(ds, s) /\ Finished(ds, t) = Finished(ds, s)
  BY <1>4, <1>7 DEF Met, Finished
<1>9. PathFits(ds, t)
  BY <1>1, <1>4, <1>5, <1>6, <1>7, <1>8 DEF Fits, PathFits
<1>10. FramesFit(ds, t, due)
  <2>1. ASSUME NEW n \in 1..L
        PROVE  /\ Range(t.stack[n].left) \subseteq Children(ds, t.stack[n].draft)
               /\ Children(ds, t.stack[n].draft) \subseteq
                     Finished(ds, t) \cup Range(t.stack[n].left) \cup Above(t, n, due)
    <3>1. CASE n = L
      <4>1. t.stack[n] = frame /\ Above(t, n, due) = due /\ Above(s, n, {}) = {} /\ n \in DOMAIN s.stack
        BY <1>1, <1>2, <1>4, <1>6, <3>1 DEF Above
      <4>2. /\ Range(s.stack[n].left) \subseteq Children(ds, s.stack[n].draft)
            /\ Children(ds, s.stack[n].draft) \subseteq
                  Finished(ds, s) \cup Range(s.stack[n].left) \cup {}
        BY <4>1 DEF Fits, FramesFit
      <4> QED
        BY <1>8, <3>1, <4>1, <4>2
    <3>2. CASE n # L
      <4>1. n \in 1..(L - 1) /\ n + 1 \in 1..L /\ n \in DOMAIN s.stack
        BY <1>1, <3>2
      <4>2. t.stack[n] = s.stack[n] /\ Above(t, n, due) = Above(s, n, {})
        BY <1>2, <1>4, <1>5, <1>6, <3>2, <4>1 DEF Above
      <4> QED
        BY <1>8, <4>1, <4>2 DEF Fits, FramesFit
    <3> QED
      BY <3>1, <3>2
  <2> QED
    BY <1>6, <2>1 DEF FramesFit
<1>11. FinishedFits(ds, t)
  BY <1>8 DEF Fits, FinishedFits
<1>12. RestFits(ds, t, due)
  BY <1>4, <1>8 DEF Fits, RestFits
<1>13. Straight(ds, t)
  <2>1. ASSUME AllChained(ds), NEW n \in 1..L
        PROVE  Prior(ds, t.stack[n].draft) = IF n = 1 THEN {} ELSE {t.stack[n - 1].draft}
    <3>1. n # 1 => n - 1 \in 1..L
      BY <1>1
    <3> QED
      BY <1>1, <1>5, <2>1, <3>1 DEF Fits, Straight
  <2> QED
    BY <1>6, <2>1 DEF Straight
<1>14. Fits(ds, t, due)
  BY <1>4, <1>9, <1>10, <1>11, <1>12, <1>13 DEF Fits
<1>15. t.stack # <<>> /\ t.stack[L] = frame
  BY <1>1, <1>2, <1>4
<1> QED
  BY <1>4, <1>6, <1>7, <1>8, <1>14, <1>15 DEF t, TopIs

\* A search goes on to a draft derived from the one on top, which is not in the path:
\* its prior is the one on top.
LEMMA DescendFits ==
    ASSUME NEW S, loaded \in Seq(S), UniqueIn(loaded), \A j \in DOMAIN loaded : ID(j) \in Nat,
           SearchInv(loaded, scan), Descend
    PROVE  SearchInv(loaded, scan')
<1> DEFINE top == scan.stack[Len(scan.stack)]
           k == top.left[1]
           frame == [top EXCEPT !.left = Tail(@)]
           s == InTop(scan, frame)
<1>1. /\ scan.status = "walking" /\ scan.stack # <<>> /\ top.left # <<>>
      /\ scan' = Call(s, k)
  BY DEF Descend, Walking, Scans, Top
<1>2. Fits(loaded, scan, {})
  BY <1>1 DEF SearchInv
<1>3. /\ top \in Frame(loaded) /\ top.draft \in Current(scan) /\ Len(scan.stack) \in DOMAIN scan.stack
      /\ Range(top.left) \subseteq Children(loaded, top.draft)
  BY <1>1, <1>2, AtACall
<1> HIDE DEF top
<1>4. /\ k \in DOMAIN loaded /\ Tail(top.left) \in Seq(DOMAIN loaded)
      /\ Range(top.left) = {k} \cup Range(Tail(top.left))
  <2>1. top.left \in Seq(DOMAIN loaded)
    BY <1>3 DEF Frame
  <2> QED
    BY <1>1, <2>1, HeadAndTail
<1>5. frame \in Frame(loaded) /\ frame.draft = top.draft /\ frame.left = Tail(top.left)
  BY <1>3, <1>4 DEF Frame
<1> HIDE DEF frame, k
<1>6. /\ Fits(loaded, s, {k}) /\ s.status = "walking" /\ s.stack # <<>>
      /\ s.stack[Len(s.stack)] = frame
      /\ s.inPath = scan.inPath /\ Current(s) = Current(scan) /\ Met(loaded, s) = Met(loaded, scan)
  <2>1. /\ Range(frame.left) \subseteq Range(top.left)
        /\ Range(top.left) \subseteq Range(frame.left) \cup {k}
    BY <1>4, <1>5
  <2>2. TopIs(loaded, scan, InTop(scan, frame), frame, {k})
    <3>1. frame.draft = scan.stack[Len(scan.stack)].draft
      BY <1>5 DEF top
    <3>2. /\ Range(frame.left) \subseteq Range(scan.stack[Len(scan.stack)].left)
          /\ Range(scan.stack[Len(scan.stack)].left) \subseteq Range(frame.left) \cup {k}
      BY <2>1 DEF top
    <3>3. loaded \in Seq(S) /\ Fits(loaded, scan, {}) /\ scan.stack # <<>> /\ frame \in Frame(loaded)
      BY <1>1, <1>2, <1>5
    <3> HIDE DEF s
    <3> QED
      BY <3>1, <3>2, <3>3, TopChanged
  <2> QED
    BY <1>1, <2>2 DEF TopIs
<1>7. Prior(loaded, k) = {top.draft}
  <2>1. top.draft \in Prior(loaded, k)
    BY <1>3, <1>4 DEF Children
  <2> QED
    BY <1>4, <2>1, PriorFacts
<1>8. ASSUME AllChained(loaded), ID(k) \in s.inPath
      PROVE  FALSE
  <2>1. k \in Current(scan)
    <3>1. PICK j \in Current(scan) : ID(k) = loaded[j].id
      BY <1>2, <1>6, <1>8 DEF Fits, PathFits
    <3>2. j \in DOMAIN loaded
      BY <1>2 DEF Fits, PathFits, Met
    <3> QED
      BY <1>4, <3>1, <3>2 DEF UniqueIn, ID
  <2>2. PICK n \in DOMAIN scan.stack : scan.stack[n].draft = k
    BY <2>1 DEF Current
  <2>3. Prior(loaded, k) = IF n = 1 THEN {} ELSE {scan.stack[n - 1].draft}
    BY <1>2, <1>8, <2>2 DEF Fits, Straight
  <2>4. n # 1 /\ scan.stack[n - 1].draft = scan.stack[Len(scan.stack)].draft
    BY <1>7, <2>3 DEF top
  <2>5. DOMAIN scan.stack = 1..Len(scan.stack) /\ Len(scan.stack) \in Nat
    BY <1>2 DEF Fits, ScanType
  <2>6. n - 1 \in DOMAIN scan.stack /\ n - 1 # Len(scan.stack)
    BY <2>4, <2>5
  <2> QED
    BY <1>2, <1>3, <2>4, <2>6 DEF Fits, PathFits
<1>9. \/ scan'.status = "cycle" /\ ~AllChained(loaded)
      \/ scan'.status = "walking" /\ Fits(loaded, scan', {})
  <2> HIDE DEF s
  <2> QED
    BY <1>1, <1>4, <1>5, <1>6, <1>7, <1>8, CallFits
<1> QED
  BY <1>9 DEF SearchInv

\* A search goes on to the prior of the draft on top only if nothing led to it
\* before: then some draft is in no chain.
LEMMA ClimbFits ==
    ASSUME NEW S, loaded \in Seq(S), UniqueIn(loaded), \A j \in DOMAIN loaded : ID(j) \in Nat,
           SearchInv(loaded, scan), Climb
    PROVE  SearchInv(loaded, scan')
<1> DEFINE top == scan.stack[Len(scan.stack)]
           frame == [top EXCEPT !.up = TRUE]
           s == InTop(scan, frame)
           unseen == { p \in Prior(loaded, top.draft) : ID(p) \notin scan.visited }
<1>1. /\ scan.status = "walking" /\ scan.stack # <<>>
      /\ IF unseen = {} THEN scan' = s ELSE \E p \in unseen : scan' = Call(s, p)
  BY DEF Climb, Walking, Scans, Top
<1>2. Fits(loaded, scan, {})
  BY <1>1 DEF SearchInv
<1>3. top \in Frame(loaded) /\ top.draft \in Current(scan) /\ Len(scan.stack) \in DOMAIN scan.stack
  BY <1>1, <1>2, AtACall
<1> HIDE DEF top
<1>4. frame \in Frame(loaded) /\ frame.draft = top.draft /\ frame.left = top.left
  BY <1>3 DEF Frame
<1> HIDE DEF frame
<1>5. ASSUME NEW due
      PROVE  Fits(loaded, s, due) /\ s.status = "walking" /\ Met(loaded, s) = Met(loaded, scan)
  <2>1. frame.draft = scan.stack[Len(scan.stack)].draft /\ frame.left = scan.stack[Len(scan.stack)].left
    BY <1>4 DEF top
  <2>2. loaded \in Seq(S) /\ Fits(loaded, scan, {}) /\ scan.stack # <<>> /\ frame \in Frame(loaded)
    BY <1>1, <1>2, <1>4
  <2>3. /\ Range(frame.left) \subseteq Range(scan.stack[Len(scan.stack)].left)
        /\ Range(scan.stack[Len(scan.stack)].left) \subseteq Range(frame.left) \cup due
    BY <2>1
  <2> HIDE DEF s
  <2>4. TopIs(loaded, scan, InTop(scan, frame), frame, due)
    BY <2>1, <2>2, <2>3, TopChanged
  <2> QED
    BY <1>1, <2>4 DEF TopIs, s
<1> HIDE DEF s
<1>6. CASE unseen = {}
  BY <1>1, <1>5, <1>6 DEF SearchInv
<1>7. ASSUME NEW p \in unseen, scan' = Call(s, p)
      PROVE  SearchInv(loaded, scan')
  <2>1. p \in DOMAIN loaded /\ top.draft \in DOMAIN loaded
    <3>1. top.draft \in DOMAIN loaded
      BY <1>3 DEF Frame
    <3>2. p \in Prior(loaded, top.draft)
      OBVIOUS
    <3> QED
      BY <3>1, <3>2, PriorFacts
  <2>2. ~AllChained(loaded)
    <3>1. SUFFICES ASSUME AllChained(loaded)
                   PROVE  FALSE
      OBVIOUS
    <3>2. Prior(loaded, top.draft)
            = IF Len(scan.stack) = 1 THEN {} ELSE {scan.stack[Len(scan.stack) - 1].draft}
      BY <1>2, <1>3, <3>1 DEF Fits, Straight, top
    <3>3. Len(scan.stack) # 1 /\ p = scan.stack[Len(scan.stack) - 1].draft
      BY <3>2
    <3>4. DOMAIN scan.stack = 1..Len(scan.stack) /\ Len(scan.stack) \in Nat
      BY <1>2 DEF Fits, ScanType
    <3>5. Len(scan.stack) - 1 \in DOMAIN scan.stack
      <4>1. Len(scan.stack) \in 1..Len(scan.stack) /\ Len(scan.stack) # 1
        BY <1>3, <3>3, <3>4
      <4>2. \A L \in Nat : L \in 1..L /\ L # 1 => L - 1 \in 1..L
        OBVIOUS
      <4> QED
        BY <3>4, <4>1, <4>2
    <3>6. p \in Met(loaded, scan)
      BY <1>2, <3>3, <3>5 DEF Fits, PathFits, Current
    <3> QED
      BY <3>6 DEF Met, ID
  <2>3. \/ Call(s, p).status = "cycle" /\ ~AllChained(loaded)
        \/ Call(s, p).status = "walking" /\ Fits(loaded, Call(s, p), {})
    BY <1>5, <2>1, <2>2, CallFits
  <2> QED
    BY <1>7, <2>3 DEF SearchInv
<1> QED
  BY <1>1, <1>6, <1>7

\* When a call returns, its draft is finished: its children are, and it is on no
\* loop of theirs.
LEMMA LeaveFits ==
    ASSUME NEW S, loaded \in Seq(S), UniqueIn(loaded), \A j \in DOMAIN loaded : ID(j) \in Nat,
           SearchInv(loaded, scan), Leave
    PROVE  SearchInv(loaded, scan')
<1> DEFINE ds == loaded
           s == scan
           L == Len(s.stack)
           top == s.stack[L]
           k == top.draft
           t == scan'
<1>1. /\ s.status = "walking" /\ s.stack # <<>> /\ top.left = <<>>
      /\ t = [s EXCEPT !.inPath = @ \ {ID(k)}, !.stack = SubSeq(@, 1, Len(@) - 1)]
  BY DEF Leave, Walking, Scans, Top
<1>2. Fits(ds, s, {})
  BY <1>1 DEF SearchInv
<1>3. /\ L \in DOMAIN s.stack /\ top \in Frame(ds)
      /\ k \in Current(s) /\ k \in Met(ds, s)
      /\ Children(ds, k) \subseteq Finished(ds, s) \cup Range(top.left)
  BY <1>1, <1>2, AtACall
<1>4. /\ s \in ScanType(ds) /\ s.stack \in Seq(Frame(ds)) /\ DOMAIN s.stack = 1..L
      /\ L \in Nat /\ L - 1 \in Nat
  <2>1. s \in ScanType(ds) /\ s.stack \in Seq(Frame(ds))
    BY <1>2 DEF Fits, ScanType
  <2> QED
    BY <1>3, <2>1
<1> DEFINE new == SubSeq(s.stack, 1, L - 1)
<1>5. /\ new \in Seq(Frame(ds)) /\ Len(new) = L - 1 /\ DOMAIN new = 1..(L - 1)
      /\ \A n \in 1..(L - 1) : new[n] = s.stack[n]
  BY <1>4
<1> HIDE DEF new
<1>6. t = [s EXCEPT !.inPath = s.inPath \ {ID(k)}, !.stack = new]
  BY <1>1 DEF new
<1>7. /\ t \in ScanType(ds) /\ t.stack = new /\ t.status = "walking" /\ t.roots = s.roots
      /\ t.rest = s.rest /\ t.visited = s.visited /\ t.inPath = s.inPath \ {ID(k)}
  BY <1>1, <1>4, <1>5, <1>6 DEF ScanType
<1> HIDE DEF t
<1>8. Met(ds, t) = Met(ds, s)
  BY <1>7 DEF Met
<1>9. \A m, n \in DOMAIN s.stack : s.stack[m].draft = s.stack[n].draft => m = n
  BY <1>2 DEF Fits, PathFits
<1>10. Current(t) = Current(s) \ {k}
  <2>1. ASSUME NEW n \in 1..(L - 1)
        PROVE  s.stack[n].draft \in Current(s) \ {k}
    <3>1. n \in DOMAIN s.stack /\ n # L
      BY <1>4
    <3> QED
      BY <1>3, <1>9, <3>1 DEF Current
  <2>2. ASSUME NEW j \in Current(s) \ {k}
        PROVE  \E n \in 1..(L - 1) : s.stack[n].draft = j
    <3>1. PICK n \in DOMAIN s.stack : s.stack[n].draft = j
      BY DEF Current
    <3>2. n # L
      BY <3>1
    <3>3. n \in 1..(L - 1)
      BY <1>4, <3>2
    <3> QED
      BY <3>1, <3>3
  <2>3. Current(t) = { s.stack[n].draft : n \in 1..(L - 1) }
    BY <1>5, <1>7 DEF Current
  <2> QED
    BY <2>1, <2>2, <2>3
<1>11. Current(s) \subseteq Met(ds, s)
  BY <1>2 DEF Fits, PathFits
<1>12. Finished(ds, t) = Finished(ds, s) \cup {k} /\ k \notin Finished(ds, s)
  BY <1>3, <1>8, <1>10 DEF Finished
<1>13. PathFits(ds, t)
  <2>1. \A j \in Current(s) : ds[j].id = ID(k) => j = k
    BY <1>3, <1>11 DEF Met, UniqueIn, ID
  <2>2. s.inPath = { ds[j].id : j \in Current(s) }
    BY <1>2 DEF Fits, PathFits
  <2>3. t.inPath = { ds[j].id : j \in Current(t) }
    BY <1>3, <1>7, <1>10, <2>1, <2>2 DEF ID
  <2>4. \A m, n \in DOMAIN t.stack : t.stack[m].draft = t.stack[n].draft => m = n
    <3>1. \A n \in 1..(L - 1) : n \in DOMAIN s.stack
      BY <1>4
    <3> QED
      BY <1>5, <1>7, <1>9, <3>1
  <2> QED
    BY <1>8, <1>10, <1>11, <2>3, <2>4 DEF PathFits
<1>14. FramesFit(ds, t, {})
  <2>1. ASSUME NEW n \in 1..(L - 1)
        PROVE  /\ Range(s.stack[n].left) \subseteq Children(ds, s.stack[n].draft)
               /\ Children(ds, s.stack[n].draft) \subseteq
                     Finished(ds, t) \cup Range(s.stack[n].left) \cup Above(t, n, {})
    <3>1. n \in DOMAIN s.stack /\ n # L
      BY <1>4
    <3>2. Above(s, n, {}) = {s.stack[n + 1].draft}
      BY <3>1 DEF Above
    <3>3. CASE n = L - 1
      <4>1. Above(s, n, {}) = {k}
        BY <1>4, <3>2, <3>3
      <4> QED
        BY <1>2, <1>12, <3>1, <4>1 DEF Fits, FramesFit
    <3>4. CASE n # L - 1
      <4>1. n + 1 \in 1..(L - 1)
        BY <1>4, <3>4
      <4>2. Above(t, n, {}) = Above(s, n, {})
        BY <1>5, <1>7, <3>2, <3>4, <4>1 DEF Above
      <4> QED
        BY <1>2, <1>12, <3>1, <4>2 DEF Fits, FramesFit
    <3> QED
      BY <3>3, <3>4
  <2> QED
    BY <1>5, <1>7, <2>1 DEF FramesFit
<1>15. FinishedFits(ds, t)
  <2>1. Range(top.left) = {}
    BY <1>1 DEF Range
  <2>2. Children(ds, k) \subseteq Finished(ds, s)
    BY <1>3, <2>1
  <2>3. /\ \A j \in Finished(ds, s) : Children(ds, j) \subseteq Finished(ds, s)
        /\ NoLoop(ds, Finished(ds, s))
    BY <1>2 DEF Fits, FinishedFits
  <2>4. NoLoop(ds, Finished(ds, s) \cup {k})
    <3> HIDE DEF k, s, ds
    <3> QED
      BY <1>12, <2>2, <2>3, NoLoopAdded
  <2> QED
    BY <1>12, <2>2, <2>3, <2>4 DEF FinishedFits
<1>16. RestFits(ds, t, {})
  BY <1>2, <1>7, <1>8 DEF Fits, RestFits
<1>17. Straight(ds, t)
  <2>1. ASSUME AllChained(ds), NEW n \in 1..(L - 1)
        PROVE  Prior(ds, t.stack[n].draft) = IF n = 1 THEN {} ELSE {t.stack[n - 1].draft}
    <3>1. n \in DOMAIN s.stack /\ (n # 1 => n - 1 \in 1..(L - 1))
      BY <1>4
    <3> QED
      BY <1>2, <1>5, <1>7, <2>1, <3>1 DEF Fits, Straight
  <2> QED
    BY <1>5, <1>7, <2>1 DEF Straight
<1>18. Fits(ds, t, {}) /\ t.status = "walking"
  BY <1>7, <1>13, <1>14, <1>15, <1>16, <1>17 DEF Fits
<1> QED
  BY <1>18 DEF SearchInv, t

\* The search is done when nothing is left to meet.
LEMMA FinishFits ==
    ASSUME NEW S, loaded \in Seq(S), SearchInv(loaded, scan), Finish
    PROVE  SearchInv(loaded, scan')
<1> DEFINE t == scan'
<1>1. /\ scan.status = "walking" /\ scan.stack = <<>> /\ scan.rest = <<>>
      /\ t = [scan EXCEPT !.status = "done"]
  BY DEF Finish, Walking, Scans
<1>2. Fits(loaded, scan, {}) /\ scan \in ScanType(loaded)
  BY <1>1 DEF SearchInv, Fits
<1>3. /\ t \in ScanType(loaded) /\ t.status = "done" /\ t.stack = scan.stack /\ t.roots = scan.roots
      /\ t.rest = scan.rest /\ t.visited = scan.visited /\ t.inPath = scan.inPath
  BY <1>1, <1>2 DEF ScanType
<1> HIDE DEF t
<1>4. Met(loaded, t) = Met(loaded, scan) /\ Current(t) = Current(scan)
  BY <1>3 DEF Met, Current
<1>5. Finished(loaded, t) = Finished(loaded, scan)
  BY <1>4 DEF Finished
<1>6. \A n : Above(t, n, {}) = Above(scan, n, {})
  BY <1>3 DEF Above
<1>7. PathFits(loaded, t) /\ FramesFit(loaded, t, {})
  BY <1>2, <1>3, <1>4, <1>5, <1>6 DEF Fits, PathFits, FramesFit
<1>8. FinishedFits(loaded, t) /\ RestFits(loaded, t, {}) /\ Straight(loaded, t)
  BY <1>2, <1>3, <1>4, <1>5 DEF Fits, FinishedFits, RestFits, Straight
<1> QED
  BY <1>1, <1>3, <1>7, <1>8 DEF SearchInv, Fits, t

\* At the start no draft is met and all are still to be met.
LEMMA StartFits ==
    ASSUME NEW S, loaded \in Seq(S), StartLineage
    PROVE  SearchInv(loaded, scan')
<1> DEFINE t == scan'
<1>1. t = [status |-> "walking", roots |-> Anchors(loaded), rest |-> Order(loaded), stack |-> <<>>,
           visited |-> {}, inPath |-> {}, culprit |-> 0]
  BY DEF StartLineage, NoSearch
<1>2. /\ Order(loaded) \in Seq(DOMAIN loaded) /\ Range(Order(loaded)) = DOMAIN loaded
  <2>1. DOMAIN loaded = 1..Len(loaded) /\ Len(loaded) \in Nat
    OBVIOUS
  <2>2. Order(loaded) = [k \in 1..Len(loaded) |-> k]
    BY <2>1 DEF Order
  <2>3. DOMAIN Order(loaded) = DOMAIN loaded /\ \A k \in DOMAIN loaded : Order(loaded)[k] = k
    BY <2>1, <2>2
  <2> QED
    BY <2>1, <2>2, <2>3 DEF Range
<1>3. Anchors(loaded) \in Seq(DOMAIN loaded)
  BY AnchorsFacts
<1>4. t \in ScanType(loaded)
  BY <1>1, <1>2, <1>3 DEF ScanType
<1>5. t.stack = <<>> /\ t.visited = {} /\ t.inPath = {} /\ t.roots = Anchors(loaded)
      /\ t.rest = Order(loaded) /\ t.status = "walking"
  BY <1>1
<1> HIDE DEF t
<1>6. Met(loaded, t) = {} /\ Current(t) = {} /\ Finished(loaded, t) = {}
  BY <1>5, NoCalls DEF Met
<1>7. DOMAIN t.stack = {}
  BY <1>5
<1>8. PathFits(loaded, t) /\ FramesFit(loaded, t, {}) /\ Straight(loaded, t)
  BY <1>5, <1>6, <1>7 DEF PathFits, FramesFit, Straight
<1>9. FinishedFits(loaded, t)
  BY <1>6 DEF FinishedFits, NoLoop
<1>10. RestFits(loaded, t, {})
  BY <1>2, <1>5 DEF RestFits
<1> QED
  BY <1>4, <1>5, <1>8, <1>9, <1>10 DEF SearchInv, Fits, t

(***************************************************************************)
(* What lineage says.                                                       *)
(***************************************************************************)

\* The search of a file with unique IDs is as it should be.
LInv ==
    /\ file \in DraftFile
    /\ UniqueIn(loaded) => SearchInv(loaded, scan)

\* IDs are numbers.
LEMMA LoadedIDs ==
    ASSUME file \in DraftFile
    PROVE  \A k \in DOMAIN loaded : ID(k) \in Nat
<1>1. file \in Seq(Range(file)) /\ \A k \in DOMAIN file : IsDraft(file[k])
  BY DraftReadingsAssumption
<1>2. DOMAIN file = 1..Len(file) /\ Len(file) \in Nat /\ DOMAIN loaded = DOMAIN file
  BY <1>1 DEF loaded, LoadDrafts
<1>3. ASSUME NEW k \in DOMAIN file
      PROVE  ID(k) \in Nat
  <2>1. /\ file[k].id \in Nat
        /\ file[k] = [x \in DraftFields |-> file[k][x]] /\ "id" \in DraftFields
    BY <1>1 DEF IsDraft, DraftFields
  <2>2. "id" \in DOMAIN file[k]
    BY <2>1
  <2>3. loaded[k].id = IF file[k].id = 0 THEN Fresh(0) + k ELSE file[k].id
    BY <2>2 DEF loaded, LoadDrafts
  <2>4. Fresh(0) + k \in Nat
    BY <1>2 DEF Fresh
  <2> QED
    BY <2>1, <2>3, <2>4 DEF ID
<1> QED
  BY <1>2, <1>3

\* The search stays as it should be, in every step of any command.
LEMMA SearchKept ==
    ASSUME LInv, [NextReading]_readingVars
    PROVE  LInv'
<1>1. /\ loaded \in Seq(Range(loaded)) /\ \A k \in DOMAIN loaded : ID(k) # 0
      /\ \A k \in DOMAIN loaded : ID(k) \in Nat
  BY LoadedDrafts, LoadedIDs DEF LInv
<1>2. UNCHANGED file => loaded' = loaded
  BY DEF loaded
<1>3. ASSUME UNCHANGED <<file, scan>>
      PROVE  LInv'
  <2>1. loaded' = loaded /\ file' = file /\ scan' = scan
    BY <1>2, <1>3
  <2> QED
    BY <2>1 DEF LInv
<1>4. ASSUME UNCHANGED file, UniqueIn(loaded) => SearchInv(loaded, scan')
      PROVE  LInv'
  <2>1. loaded' = loaded /\ file' = file
    BY <1>2, <1>4
  <2> QED
    BY <1>4, <2>1 DEF LInv
<1>5. CASE StartLineage
  <2>1. UNCHANGED file
    BY <1>5 DEF StartLineage
  <2>2. SearchInv(loaded, scan')
    BY <1>1, <1>5, StartFits
  <2> QED
    BY <1>4, <2>1, <2>2
<1>6. ASSUME NEW s, Scans(s)
      PROVE  UNCHANGED file
  BY <1>6 DEF Scans
<1>7. CASE Search
  <2>1. UNCHANGED file
    <3>1. FromAnchor \/ FromUnvisited \/ Finish => UNCHANGED file
      BY <1>6 DEF FromAnchor, FromUnvisited, Finish
    <3>2. Descend \/ Leave => UNCHANGED file
      BY <1>6 DEF Descend, Leave
    <3>3. Climb => UNCHANGED file
      BY <1>6 DEF Climb
    <3> QED
      BY <1>7, <3>1, <3>2, <3>3 DEF Search
  <2>2. ASSUME UniqueIn(loaded)
        PROVE  SearchInv(loaded, scan')
    <3>1. SearchInv(loaded, scan)
      BY <2>2 DEF LInv
    <3>2. CASE FromAnchor
      BY <1>1, <2>2, <3>1, <3>2, AnchorFits
    <3>3. CASE FromUnvisited
      BY <1>1, <2>2, <3>1, <3>3, UnvisitedFits
    <3>4. CASE Finish
      BY <1>1, <3>1, <3>4, FinishFits
    <3>5. CASE Descend
      BY <1>1, <2>2, <3>1, <3>5, DescendFits
    <3>6. CASE Climb
      BY <1>1, <2>2, <3>1, <3>6, ClimbFits
    <3>7. CASE Leave
      BY <1>1, <2>2, <3>1, <3>7, LeaveFits
    <3> QED
      BY <1>7, <3>2, <3>3, <3>4, <3>5, <3>6, <3>7 DEF Search
  <2> QED
    BY <1>4, <2>1, <2>2
<1>8. CASE \E a, b \in Analysts(loaded) :
              /\ a # b /\ "" \notin {a, b}
              /\ \/ ExtractionGap(a, b)
                 \/ \E span \in Spans(loaded) : ChainDiff(a, b, span)
  <2>1. UNCHANGED <<file, scan>>
    BY ZenonT(60), <1>8 DEF ExtractionGap, ChainDiff
  <2> QED
    BY <1>3, <2>1
<1>9. CASE PromoteAndStore
  <2>1. UNCHANGED <<file, scan>>
    BY <1>9 DEF PromoteAndStore
  <2> QED
    BY <1>3, <2>1
<1>10. CASE UNCHANGED readingVars
  <2>1. UNCHANGED <<file, scan>>
    BY <1>10 DEF readingVars
  <2> QED
    BY <1>3, <2>1
<1> QED
  BY Zenon, <1>5, <1>7, <1>8, <1>9, <1>10 DEF NextReading

\* What the search being done, or having failed, says of the drafts.
LEMMA SearchTells ==
    ASSUME LInv
    PROVE  LineageFindsCycles
<1>1. /\ loaded \in Seq(Range(loaded)) /\ \A k \in DOMAIN loaded : ID(k) # 0
      /\ \A k \in DOMAIN loaded : ID(k) \in Nat
  BY LoadedDrafts, LoadedIDs DEF LInv
<1>2. UniqueIDs <=> UniqueIn(loaded)
  BY DEF UniqueIDs, UniqueIn, ID
<1>3. ~Cyclic => AllChained(loaded)
  BY <1>1, InAChain DEF AllChained
<1>4. ASSUME scan.status = "cycle", UniqueIDs
      PROVE  Cyclic
  BY <1>2, <1>3, <1>4 DEF LInv, SearchInv
<1>5. ASSUME scan.status = "done", UniqueIDs
      PROVE  ~Cyclic
  <2>1. Fits(loaded, scan, {}) /\ scan.stack = <<>> /\ scan.rest = <<>>
    BY <1>2, <1>5 DEF LInv, SearchInv
  <2>2. Range(scan.rest) = {}
    BY <2>1 DEF Range
  <2>3. Finished(loaded, scan) = Met(loaded, scan)
    BY <2>1, NoCalls
  <2>4. Finished(loaded, scan) = DOMAIN loaded
    BY <2>1, <2>2, <2>3 DEF Fits, RestFits, Met
  <2>5. NoLoop(loaded, DOMAIN loaded)
    BY <2>1, <2>4 DEF Fits, FinishedFits
  <2> QED
    BY <1>1, <1>2, <1>5, <2>5, CircleHasLoop
<1>6. ASSUME scan.status = "done", NEW k \in DOMAIN loaded
      PROVE  LET chains == { r \in Range(Anchors(loaded)) : k \in collectMembers(loaded, r) }
             IN  /\ Cardinality(chains) =< 1
                 /\ UniqueIDs => /\ ~Circular(k)
                                 /\ Cardinality(chains) = 1
                                 /\ filterLineageByID(loaded, ID(k)) = chains
  <2> DEFINE chains == { r \in Range(Anchors(loaded)) : k \in collectMembers(loaded, r) }
  <2>1. /\ chains = {} \/ \E r : chains = {r}
        /\ UniqueIDs => filterLineageByID(loaded, ID(k)) = chains
    BY <1>1, <1>2, ChainOfADraft
  <2>2. UniqueIDs => chains # {} /\ ~Circular(k)
    <3>1. UniqueIDs => ~Cyclic
      BY <1>5, <1>6
    <3>2. ~Cyclic => \E r \in Range(Anchors(loaded)) : k \in collectMembers(loaded, r)
      BY <1>3 DEF AllChained
    <3> QED
      BY <3>1, <3>2 DEF Cyclic
  <2> HIDE DEF chains
  <2>3. Cardinality(chains) =< 1 /\ (chains # {} => Cardinality(chains) = 1)
    <3>1. CASE chains = {}
      BY <3>1, FS_EmptySet
    <3>2. ASSUME NEW r, chains = {r}
          PROVE  Cardinality(chains) = 1
      BY <3>2, FS_Singleton
    <3> QED
      BY <2>1, <3>1, <3>2
  <2> QED
    BY <2>1, <2>2, <2>3 DEF chains
<1> QED
  BY <1>4, <1>6 DEF LineageFindsCycles

\* Whatever the drafts, if IDs are unique an error of lineage means that
\* derivation goes round in a circle and no error that it does not, and each
\* draft is then in one chain, which --id finds; no draft is ever in two
\* (buildLineage, detectCycleDFS, filterLineageByID).
THEOREM LineageIsRight == ReadingsSpec => []LineageFindsCycles
<1>1. InitReadings => LInv
  BY DEF InitReadings, LInv, SearchInv, NoSearch
<1>2. LInv /\ [NextReading]_readingVars => LInv'
  BY SearchKept
<1>3. LInv => LineageFindsCycles
  BY SearchTells
<1> QED
  BY <1>1, <1>2, <1>3, PTL DEF ReadingsSpec

(***************************************************************************)
(* The search gets nearer to its end.                                       *)
(***************************************************************************)
\* What is ahead of a search, the most significant first: the IDs not marked yet,
\* the drafts it still has to start from, the calls that have not returned, and
\* what the last of these has to do.
Unmarked(s) == { ID(k) : k \in DOMAIN loaded } \ s.visited
ToDo(frame) == Len(frame.left) + (IF frame.up THEN 0 ELSE 1)
Ahead(s) == << Cardinality(Unmarked(s)), Len(s.roots) + Len(s.rest), Len(s.stack),
               IF s.stack = <<>> THEN 0 ELSE ToDo(s.stack[Len(s.stack)]) >>
Quadruple == Nat \X Nat \X Nat \X Nat
Lower(p, q) == \E n \in 1..4 : p[n] < q[n] /\ \A m \in 1..(n - 1) : p[m] = q[m]

\* A step of the search takes it nearer to its end, or is its end.
Nearer(s, t) ==
    /\ Ahead(s) \in Quadruple
    /\ \/ t.status # "walking"
       \/ Ahead(t) \in Quadruple /\ Lower(Ahead(t), Ahead(s))

\* The search is typed, whatever the IDs.
ScanTyped == file \in DraftFile /\ scan \in ScanType(loaded)

\* What a call has to do is a number, which falls with each child it takes and
\* when it has looked up.
LEMMA ToDoFacts ==
    ASSUME NEW n \in Nat, NEW f, Len(f.left) = n
    PROVE  /\ ToDo(f) \in Nat
           /\ \A g : n = Len(g.left) + 1 /\ Len(g.left) \in Nat /\ g.up = f.up
                    => ToDo(g) < ToDo(f)
           /\ \A g : Len(g.left) = n /\ g.up /\ ~f.up => ToDo(g) < ToDo(f)
<1> DEFINE U(g) == IF g.up THEN 0 ELSE 1
<1>1. \A g : U(g) \in {0, 1} /\ ToDo(g) = Len(g.left) + U(g)
  BY DEF ToDo
<1>2. \A g : /\ g.up = f.up => U(g) = U(f)
             /\ g.up => U(g) = 0
             /\ ~g.up => U(g) = 1
  BY Zenon
<1>3. \A g : n = Len(g.left) + 1 /\ Len(g.left) \in Nat /\ g.up = f.up => ToDo(g) < ToDo(f)
  <2> HIDE DEF U
  <2> QED
    BY <1>1, <1>2
<1>4. ASSUME NEW g, Len(g.left) = n, g.up, ~f.up
      PROVE  ToDo(g) < ToDo(f)
  <2>1. U(g) = 0 /\ U(f) = 1
    BY Zenon, <1>2, <1>4
  <2>2. ToDo(g) = Len(g.left) + U(g) /\ ToDo(f) = Len(f.left) + U(f)
    BY <1>1
  <2> HIDE DEF U
  <2>3. ToDo(g) = n /\ ToDo(f) = n + 1
    BY <1>4, <2>1, <2>2
  <2> QED
    BY <2>3
<1>5. ToDo(f) \in Nat
  <2> HIDE DEF U
  <2> QED
    BY <1>1
<1> QED
  BY Zenon, <1>3, <1>4, <1>5

\* The four numbers.
LEMMA AheadFacts ==
    ASSUME NEW S, loaded \in Seq(S), NEW s \in ScanType(loaded)
    PROVE  /\ Ahead(s) \in Quadruple
           /\ Ahead(s)[1] = Cardinality(Unmarked(s)) /\ Ahead(s)[2] = Len(s.roots) + Len(s.rest)
           /\ Ahead(s)[3] = Len(s.stack)
           /\ Ahead(s)[4] = IF s.stack = <<>> THEN 0 ELSE ToDo(s.stack[Len(s.stack)])
           /\ IsFiniteSet(Unmarked(s))
<1>1. IsFiniteSet(Unmarked(s)) /\ Cardinality(Unmarked(s)) \in Nat
  <2>1. IsFiniteSet(DOMAIN loaded)
    <3>1. DOMAIN loaded = 1..Len(loaded) /\ Len(loaded) \in Nat
      OBVIOUS
    <3> QED
      BY <3>1, FS_Interval
  <2>2. IsFiniteSet({ ID(k) : k \in DOMAIN loaded })
    <3> DEFINE g == [k \in DOMAIN loaded |-> ID(k)]
               T == { ID(k) : k \in DOMAIN loaded }
    <3>1. g \in Surjection(DOMAIN loaded, T)
      <4>1. g \in [DOMAIN loaded -> T] /\ \A x \in T : \E k \in DOMAIN loaded : g[k] = x
        OBVIOUS
      <4> HIDE DEF g, T
      <4> QED
        BY <4>1, Fun_IsSurj
    <3> HIDE DEF g, T
    <3>2. IsFiniteSet(T)
      BY <2>1, <3>1, FS_Surjection
    <3> QED
      BY <3>2 DEF T
  <2> QED
    BY <2>2, FS_Subset, FS_CardinalityType DEF Unmarked
<1>2. /\ Len(s.roots) + Len(s.rest) \in Nat /\ s.stack \in Seq(Frame(loaded)) /\ Len(s.stack) \in Nat
  BY DEF ScanType
<1>3. ASSUME s.stack # <<>>
      PROVE  ToDo(s.stack[Len(s.stack)]) \in Nat
  <2>1. Len(s.stack) \in DOMAIN s.stack
    BY <1>2, <1>3
  <2>2. s.stack[Len(s.stack)] \in Frame(loaded)
    BY <1>2, <2>1
  <2>3. Len(s.stack[Len(s.stack)].left) \in Nat
    BY <2>2 DEF Frame
  <2> QED
    BY <2>3, ToDoFacts
<1> QED
  BY <1>1, <1>2, <1>3 DEF Ahead, Quadruple

\* A call marks an ID, or is the end of the search, or changes nothing.
LEMMA CallMarks ==
    ASSUME NEW S, loaded \in Seq(S), \A j \in DOMAIN loaded : ID(j) \in Nat,
           NEW s \in ScanType(loaded), NEW k \in DOMAIN loaded
    PROVE  /\ Call(s, k) \in ScanType(loaded)
           /\ \/ Call(s, k).status = "cycle"
              \/ ID(k) \in s.visited /\ Call(s, k) = s
              \/ Ahead(Call(s, k))[1] < Ahead(s)[1]
<1> DEFINE t == Call(s, k)
           frame == [draft |-> k, left |-> Subsequent(loaded, k), up |-> FALSE]
<1>1. CASE ID(k) \in s.inPath
  <2>1. t = [s EXCEPT !.status = "cycle", !.culprit = k]
    BY <1>1 DEF Call
  <2>2. k \in Nat
    OBVIOUS
  <2> HIDE DEF t
  <2>3. t.status = "cycle" /\ t \in ScanType(loaded)
    BY <2>1, <2>2 DEF ScanType
  <2> QED
    BY <2>3 DEF t
<1>2. CASE ID(k) \notin s.inPath /\ ID(k) \in s.visited
  BY <1>2 DEF Call
<1>3. CASE ID(k) \notin s.inPath /\ ID(k) \notin s.visited
  <2>1. t = [s EXCEPT !.visited = @ \cup {ID(k)}, !.inPath = @ \cup {ID(k)},
                      !.stack = Append(@, frame)]
    BY <1>3 DEF Call
  <2>2. frame \in Frame(loaded)
    BY SubsequentFacts DEF Frame
  <2>3. ID(k) \in Nat
    OBVIOUS
  <2> HIDE DEF t, frame
  <2>4. t \in ScanType(loaded) /\ t.visited = s.visited \cup {ID(k)}
    <3>1. s = [status |-> s.status, roots |-> s.roots, rest |-> s.rest, stack |-> s.stack,
               visited |-> s.visited, inPath |-> s.inPath, culprit |-> s.culprit]
      BY DEF ScanType
    <3>2. /\ s.status \in {"idle", "walking", "done", "cycle"} /\ s.culprit \in Nat
          /\ s.roots \in Seq(DOMAIN loaded) /\ s.rest \in Seq(DOMAIN loaded)
          /\ s.visited \in SUBSET Nat /\ s.inPath \in SUBSET Nat
          /\ s.stack \in Seq(Frame(loaded))
      BY DEF ScanType
    <3>3. t = [status |-> s.status, roots |-> s.roots, rest |-> s.rest,
               stack |-> Append(s.stack, frame), visited |-> s.visited \cup {ID(k)},
               inPath |-> s.inPath \cup {ID(k)}, culprit |-> s.culprit]
      BY <2>1, <3>1
    <3>4. /\ Append(s.stack, frame) \in Seq(Frame(loaded))
          /\ s.visited \cup {ID(k)} \in SUBSET Nat /\ s.inPath \cup {ID(k)} \in SUBSET Nat
      BY <2>2, <2>3, <3>2
    <3> QED
      BY <3>2, <3>3, <3>4 DEF ScanType
  <2>5. Unmarked(t) \subseteq Unmarked(s) /\ Unmarked(t) # Unmarked(s)
    BY <1>3, <2>4 DEF Unmarked
  <2>6. Cardinality(Unmarked(t)) < Cardinality(Unmarked(s))
    <3>1. IsFiniteSet(Unmarked(s))
      BY AheadFacts
    <3>2. /\ Cardinality(Unmarked(t)) =< Cardinality(Unmarked(s))
          /\ Cardinality(Unmarked(t)) # Cardinality(Unmarked(s))
          /\ Cardinality(Unmarked(t)) \in Nat /\ Cardinality(Unmarked(s)) \in Nat
      BY <2>5, <3>1, FS_Subset, FS_CardinalityType
    <3> QED
      BY <3>2
  <2>7. Ahead(t)[1] < Ahead(s)[1]
    BY <2>4, <2>6, AheadFacts
  <2> QED
    BY <2>4, <2>7 DEF t
<1> QED
  BY <1>1, <1>2, <1>3

\* A step that ends in a call takes the search nearer to its end if it has less to do
\* before the call.
LEMMA NearerByCall ==
    ASSUME NEW S, loaded \in Seq(S), \A j \in DOMAIN loaded : ID(j) \in Nat,
           NEW s \in ScanType(loaded), NEW r \in ScanType(loaded), NEW k \in DOMAIN loaded,
           r.visited = s.visited,
           ID(k) \in s.visited => Lower(Ahead(r), Ahead(s))
    PROVE  Nearer(s, Call(r, k)) /\ Call(r, k) \in ScanType(loaded)
<1> DEFINE t == Call(r, k)
<1>1. /\ t \in ScanType(loaded)
      /\ \/ t.status = "cycle"
         \/ ID(k) \in r.visited /\ t = r
         \/ Ahead(t)[1] < Ahead(r)[1]
  BY CallMarks
<1> HIDE DEF t
<1>2. Ahead(s) \in Quadruple /\ Ahead(t) \in Quadruple
  BY <1>1, AheadFacts
<1>3. Ahead(r)[1] = Ahead(s)[1]
  BY AheadFacts DEF Unmarked
<1>4. Ahead(t)[1] < Ahead(r)[1] => Lower(Ahead(t), Ahead(s))
  BY <1>3 DEF Lower
<1> QED
  BY <1>1, <1>2, <1>4 DEF Nearer, t

\* A draft taken from those to start from is one less.
LEMMA FromAListNearer ==
    ASSUME NEW S, loaded \in Seq(S), \A j \in DOMAIN loaded : ID(j) \in Nat,
           scan \in ScanType(loaded), FromAnchor \/ FromUnvisited
    PROVE  Nearer(scan, scan') /\ scan' \in ScanType(loaded)
<1>1. CASE FromAnchor
  <2> DEFINE k == scan.roots[1]
             r == [scan EXCEPT !.roots = Tail(@), !.inPath = {}]
  <2>1. scan.stack = <<>> /\ scan.roots # <<>> /\ scan' = Call(r, k)
    BY <1>1 DEF FromAnchor, Scans
  <2>2. scan.roots \in Seq(DOMAIN loaded) /\ scan.rest \in Seq(DOMAIN loaded)
    BY DEF ScanType
  <2>3. /\ k \in DOMAIN loaded /\ Tail(scan.roots) \in Seq(DOMAIN loaded)
        /\ Len(Tail(scan.roots)) + Len(scan.rest) < Len(scan.roots) + Len(scan.rest)
    <3>1. /\ k \in DOMAIN loaded /\ Tail(scan.roots) \in Seq(DOMAIN loaded)
          /\ Len(scan.roots) = Len(Tail(scan.roots)) + 1 /\ Len(Tail(scan.roots)) \in Nat
      BY <2>1, <2>2, HeadAndTail
    <3>2. Len(scan.rest) \in Nat /\ Len(scan.roots) \in Nat
      BY <2>2
    <3>3. \A a, b, c \in Nat : a = b + 1 => b + c < a + c
      OBVIOUS
    <3> QED
      BY <3>1, <3>2, <3>3
  <2>4. /\ r \in ScanType(loaded) /\ r.visited = scan.visited
        /\ r.roots = Tail(scan.roots) /\ r.rest = scan.rest
    BY <2>3 DEF ScanType
  <2> HIDE DEF r, k
  <2>5. Lower(Ahead(r), Ahead(scan))
    <3>1. Ahead(r)[1] = Ahead(scan)[1] /\ Ahead(r)[2] < Ahead(scan)[2]
      BY <2>3, <2>4, AheadFacts DEF Unmarked
    <3> QED
      BY <3>1 DEF Lower
  <2> QED
    BY <2>1, <2>3, <2>4, <2>5, NearerByCall
<1>2. CASE FromUnvisited
  <2> DEFINE k == scan.rest[1]
             r == [scan EXCEPT !.rest = Tail(@), !.inPath = {}]
  <2>1. scan.stack = <<>> /\ scan.rest # <<>> /\ scan' = Call(r, k)
    BY <1>2 DEF FromUnvisited, Scans
  <2>2. scan.roots \in Seq(DOMAIN loaded) /\ scan.rest \in Seq(DOMAIN loaded)
    BY DEF ScanType
  <2>3. /\ k \in DOMAIN loaded /\ Tail(scan.rest) \in Seq(DOMAIN loaded)
        /\ Len(scan.roots) + Len(Tail(scan.rest)) < Len(scan.roots) + Len(scan.rest)
    <3>1. /\ k \in DOMAIN loaded /\ Tail(scan.rest) \in Seq(DOMAIN loaded)
          /\ Len(scan.rest) = Len(Tail(scan.rest)) + 1 /\ Len(Tail(scan.rest)) \in Nat
      BY <2>1, <2>2, HeadAndTail
    <3>2. Len(scan.roots) \in Nat /\ Len(scan.rest) \in Nat
      BY <2>2
    <3>3. \A a, b, c \in Nat : a = b + 1 => c + b < c + a
      OBVIOUS
    <3> QED
      BY <3>1, <3>2, <3>3
  <2>4. /\ r \in ScanType(loaded) /\ r.visited = scan.visited
        /\ r.roots = scan.roots /\ r.rest = Tail(scan.rest)
    BY <2>3 DEF ScanType
  <2> HIDE DEF r, k
  <2>5. Lower(Ahead(r), Ahead(scan))
    <3>1. Ahead(r)[1] = Ahead(scan)[1] /\ Ahead(r)[2] < Ahead(scan)[2]
      BY <2>3, <2>4, AheadFacts DEF Unmarked
    <3> QED
      BY <3>1 DEF Lower
  <2> QED
    BY <2>1, <2>3, <2>4, <2>5, NearerByCall
<1> QED
  BY <1>1, <1>2

\* A frame on top with less to do takes the search nearer to its end.
LEMMA LessToDo ==
    ASSUME NEW S, loaded \in Seq(S), NEW s \in ScanType(loaded), s.stack # <<>>,
           NEW frame \in Frame(loaded), ToDo(frame) < ToDo(s.stack[Len(s.stack)])
    PROVE  /\ InTop(s, frame) \in ScanType(loaded) /\ InTop(s, frame).visited = s.visited
           /\ InTop(s, frame).status = s.status
           /\ Lower(Ahead(InTop(s, frame)), Ahead(s))
<1> DEFINE t == InTop(s, frame)
           L == Len(s.stack)
           new == [s.stack EXCEPT ![L] = frame]
<1>1. s.stack \in Seq(Frame(loaded)) /\ L \in Nat /\ L # 0 /\ DOMAIN s.stack = 1..L
  BY DEF ScanType
<1>2. new \in Seq(Frame(loaded)) /\ Len(new) = L /\ new[L] = frame /\ new # <<>>
  BY <1>1
<1>3. t = [s EXCEPT !.stack = new]
  <2>1. "stack" \in DOMAIN s
    BY DEF ScanType
  <2> QED
    BY <2>1 DEF InTop
<1> HIDE DEF new, t
<1>4. /\ t \in ScanType(loaded) /\ t.stack = new /\ t.status = s.status /\ t.roots = s.roots
      /\ t.rest = s.rest /\ t.visited = s.visited
  BY <1>2, <1>3 DEF ScanType
<1>5. /\ Ahead(t)[1] = Ahead(s)[1] /\ Ahead(t)[2] = Ahead(s)[2] /\ Ahead(t)[3] = Ahead(s)[3]
      /\ Ahead(t)[4] < Ahead(s)[4]
  BY <1>2, <1>4, AheadFacts DEF Unmarked
<1>6. Lower(Ahead(t), Ahead(s))
  <2>1. \A m \in 1..3 : Ahead(t)[m] = Ahead(s)[m]
    BY <1>5
  <2> QED
    BY <1>5, <2>1 DEF Lower
<1> QED
  BY <1>4, <1>6 DEF t

\* So does a call from the top frame, which takes a child or looks up once.
LEMMA FromTheTopNearer ==
    ASSUME NEW S, loaded \in Seq(S), \A j \in DOMAIN loaded : ID(j) \in Nat,
           scan \in ScanType(loaded), Descend \/ Climb
    PROVE  Nearer(scan, scan') /\ scan' \in ScanType(loaded)
<1> DEFINE top == scan.stack[Len(scan.stack)]
<1>1. scan.stack # <<>>
  BY DEF Descend, Climb
<1>2. top \in Frame(loaded)
  <2>1. scan.stack \in Seq(Frame(loaded))
    BY DEF ScanType
  <2>2. Len(scan.stack) \in DOMAIN scan.stack
    BY <1>1, <2>1
  <2> QED
    BY <2>1, <2>2
<1>3. top.left \in Seq(DOMAIN loaded) /\ top.up \in BOOLEAN /\ top.draft \in DOMAIN loaded
  BY <1>2 DEF Frame
<1>4. CASE Descend
  <2> DEFINE k == top.left[1]
             frame == [top EXCEPT !.left = Tail(@)]
  <2>1. top.left # <<>> /\ scan' = Call(InTop(scan, frame), k)
    BY <1>4 DEF Descend, Scans, Top
  <2>2. /\ k \in DOMAIN loaded /\ Tail(top.left) \in Seq(DOMAIN loaded)
        /\ Len(top.left) = Len(Tail(top.left)) + 1 /\ Len(Tail(top.left)) \in Nat
    BY <1>3, <2>1, HeadAndTail
  <2>3. frame \in Frame(loaded) /\ frame.left = Tail(top.left) /\ frame.up = top.up
    BY <1>2, <2>2 DEF Frame
  <2> HIDE DEF frame, k, top
  <2>4. ToDo(frame) < ToDo(top)
    <3>1. PICK n \in Nat : Len(top.left) = n
      BY <2>2
    <3>2. n = Len(frame.left) + 1 /\ Len(frame.left) \in Nat
      BY <2>2, <2>3, <3>1
    <3> QED
      BY Zenon, <2>3, <3>1, <3>2, ToDoFacts
  <2>5. /\ InTop(scan, frame) \in ScanType(loaded) /\ InTop(scan, frame).visited = scan.visited
        /\ Lower(Ahead(InTop(scan, frame)), Ahead(scan))
    <3>1. ToDo(frame) < ToDo(scan.stack[Len(scan.stack)])
      BY <2>4 DEF top
    <3> QED
      BY <1>1, <2>3, <3>1, LessToDo
  <2> QED
    BY <2>1, <2>2, <2>5, NearerByCall
<1>5. CASE Climb
  <2> DEFINE frame == [top EXCEPT !.up = TRUE]
             unseen == { p \in Prior(loaded, top.draft) : ID(p) \notin scan.visited }
             r == InTop(scan, frame)
  <2>1. /\ ~top.up /\ scan.status = "walking"
        /\ IF unseen = {} THEN scan' = r ELSE \E p \in unseen : scan' = Call(r, p)
    BY <1>5 DEF Climb, Scans, Top, Walking
  <2>2. frame \in Frame(loaded) /\ frame.left = top.left /\ frame.up = TRUE
    BY <1>2 DEF Frame
  <2> HIDE DEF frame, top
  <2>3. ToDo(frame) < ToDo(top)
    <3>1. Len(top.left) \in Nat /\ ~top.up
      BY <1>3, <2>1
    <3>2. Len(frame.left) = Len(top.left) /\ frame.up
      BY <2>2
    <3>3. PICK n \in Nat : Len(top.left) = n
      BY <3>1
    <3>4. Len(frame.left) = n
      BY <3>2, <3>3
    <3>5. \A g : Len(g.left) = n /\ g.up /\ ~top.up => ToDo(g) < ToDo(top)
      BY Zenon, <3>3, ToDoFacts
    <3> QED
      BY Zenon, <3>1, <3>2, <3>4, <3>5
  <2>4. /\ InTop(scan, frame) \in ScanType(loaded) /\ InTop(scan, frame).visited = scan.visited
        /\ Lower(Ahead(InTop(scan, frame)), Ahead(scan))
    <3>1. ToDo(frame) < ToDo(scan.stack[Len(scan.stack)])
      BY <2>3 DEF top
    <3> QED
      BY <1>1, <2>2, <3>1, LessToDo
  <2> HIDE DEF r
  <2>5. CASE unseen = {}
    <3>1. Ahead(scan) \in Quadruple /\ Ahead(r) \in Quadruple
      BY <2>4, AheadFacts DEF r
    <3> QED
      BY <2>1, <2>4, <2>5, <3>1 DEF Nearer, r
  <2>6. ASSUME NEW p \in unseen, scan' = Call(r, p)
        PROVE  Nearer(scan, scan') /\ scan' \in ScanType(loaded)
    <3>1. p \in DOMAIN loaded
      <4>1. p \in Prior(loaded, top.draft)
        OBVIOUS
      <4> QED
        BY <1>3, <4>1, PriorFacts
    <3>2. r \in ScanType(loaded) /\ r.visited = scan.visited /\ Lower(Ahead(r), Ahead(scan))
      BY <2>4 DEF r
    <3> QED
      BY <2>6, <3>1, <3>2, NearerByCall
  <2> QED
    BY <2>1, <2>5, <2>6
<1> QED
  BY <1>4, <1>5

\* So does a return: the stack is shorter.
LEMMA LeavingNearer ==
    ASSUME NEW S, loaded \in Seq(S), scan \in ScanType(loaded), Leave
    PROVE  Nearer(scan, scan') /\ scan' \in ScanType(loaded)
<1> DEFINE L == Len(scan.stack)
           t == scan'
           new == SubSeq(scan.stack, 1, L - 1)
           path == scan.inPath \ {ID(Top.draft)}
<1>1. scan.stack # <<>> /\ t = [scan EXCEPT !.inPath = path, !.stack = new]
  BY DEF Leave, Scans
<1>2. scan.stack \in Seq(Frame(loaded)) /\ path \in SUBSET Nat
  BY DEF ScanType
<1>3. L \in Nat /\ L - 1 \in Nat
  BY <1>1, <1>2
<1>4. new \in Seq(Frame(loaded)) /\ Len(new) = L - 1
  BY <1>2, <1>3
<1> HIDE DEF new, path, t
<1>5. t \in ScanType(loaded) /\ t.stack = new /\ t.visited = scan.visited
      /\ t.roots = scan.roots /\ t.rest = scan.rest
  BY <1>1, <1>2, <1>4 DEF ScanType
<1>6. /\ Ahead(t)[1] = Ahead(scan)[1] /\ Ahead(t)[2] = Ahead(scan)[2]
      /\ Ahead(t)[3] < Ahead(scan)[3]
      /\ Ahead(t) \in Quadruple /\ Ahead(scan) \in Quadruple
  <2>1. L - 1 < L
    BY <1>3
  <2> QED
    BY <1>4, <1>5, <2>1, AheadFacts DEF Unmarked
<1>7. Lower(Ahead(t), Ahead(scan))
  <2>1. \A m \in 1..2 : Ahead(t)[m] = Ahead(scan)[m]
    BY <1>6
  <2> QED
    BY <1>6, <2>1 DEF Lower
<1> QED
  BY <1>5, <1>6, <1>7 DEF Nearer, t

\* Every step of the search takes it nearer to its end.
LEMMA SearchNearer ==
    ASSUME ScanTyped, Search
    PROVE  Nearer(scan, scan') /\ scan' \in ScanType(loaded)
<1>1. /\ loaded \in Seq(Range(loaded)) /\ \A k \in DOMAIN loaded : ID(k) \in Nat
      /\ scan \in ScanType(loaded)
  BY LoadedDrafts, LoadedIDs DEF ScanTyped
<1>2. CASE FromAnchor \/ FromUnvisited
  BY <1>1, <1>2, FromAListNearer
<1>3. CASE Descend \/ Climb
  BY <1>1, <1>3, FromTheTopNearer
<1>4. CASE Leave
  BY <1>1, <1>4, LeavingNearer
<1>5. CASE Finish
  <2>1. scan' = [scan EXCEPT !.status = "done"]
    BY <1>5 DEF Finish, Scans
  <2>2. scan' \in ScanType(loaded) /\ scan'.status = "done"
    BY <1>1, <2>1 DEF ScanType
  <2> QED
    BY <1>1, <2>2, AheadFacts DEF Nearer
<1> QED
  BY <1>2, <1>3, <1>4, <1>5 DEF Search

\* The search stays typed, in every step of any command and for any IDs.
LEMMA ScanKept ==
    ASSUME ScanTyped, [NextReading]_readingVars
    PROVE  ScanTyped'
<1>1. /\ loaded \in Seq(Range(loaded)) /\ scan \in ScanType(loaded)
  BY LoadedDrafts DEF ScanTyped
<1>2. ASSUME UNCHANGED file, scan' \in ScanType(loaded)
      PROVE  ScanTyped'
  <2>1. loaded' = loaded
    BY <1>2 DEF loaded
  <2> QED
    BY <1>2, <2>1 DEF ScanTyped
<1>3. ASSUME UNCHANGED <<file, scan>>
      PROVE  ScanTyped'
  BY <1>1, <1>2, <1>3
<1>4. CASE StartLineage
  <2>1. UNCHANGED file
    BY <1>4 DEF StartLineage
  <2>2. SearchInv(loaded, scan') /\ scan'.status = "walking"
    <3>1. scan'.status = "walking"
      BY <1>4 DEF StartLineage, NoSearch
    <3> QED
      BY <1>1, <1>4, <3>1, StartFits
  <2> QED
    BY <1>2, <2>1, <2>2 DEF SearchInv, Fits
<1>5. ASSUME NEW s, Scans(s)
      PROVE  UNCHANGED file
  BY <1>5 DEF Scans
<1>6. CASE Search
  <2>1. FromAnchor \/ FromUnvisited \/ Finish => UNCHANGED file
    BY <1>5 DEF FromAnchor, FromUnvisited, Finish
  <2>2. Descend \/ Leave => UNCHANGED file
    BY <1>5 DEF Descend, Leave
  <2>3. Climb => UNCHANGED file
    BY <1>5 DEF Climb
  <2>4. UNCHANGED file
    BY <1>6, <2>1, <2>2, <2>3 DEF Search
  <2> QED
    BY <1>2, <1>6, <2>4, SearchNearer
<1>7. CASE \E a, b \in Analysts(loaded) :
              /\ a # b /\ "" \notin {a, b}
              /\ \/ ExtractionGap(a, b)
                 \/ \E span \in Spans(loaded) : ChainDiff(a, b, span)
  <2>1. UNCHANGED <<file, scan>>
    BY ZenonT(60), <1>7 DEF ExtractionGap, ChainDiff
  <2> QED
    BY <1>3, <2>1
<1>8. CASE PromoteAndStore
  <2>1. UNCHANGED <<file, scan>>
    BY <1>8 DEF PromoteAndStore
  <2> QED
    BY <1>3, <2>1
<1>9. CASE UNCHANGED readingVars
  <2>1. UNCHANGED <<file, scan>>
    BY <1>9 DEF readingVars
  <2> QED
    BY <1>3, <2>1
<1> QED
  BY Zenon, <1>4, <1>6, <1>7, <1>8, <1>9 DEF NextReading

\* Whatever the drafts, repeated IDs and circles included, each step of the search
\* is its last or lowers four numbers in the order of a dictionary, which cannot go
\* on for ever (detectCycleDFS, which calls itself along links in both directions).
THEOREM SearchGetsNearer == ReadingsSpec => [][Search => Nearer(scan, scan')]_readingVars
<1>1. InitReadings => ScanTyped
  <2> SUFFICES ASSUME InitReadings
               PROVE  ScanTyped
    OBVIOUS
  <2>1. <<>> \in Seq(DOMAIN loaded) /\ <<>> \in Seq(Frame(loaded))
    OBVIOUS
  <2> QED
    BY <2>1 DEF InitReadings, ScanTyped, NoSearch, ScanType
<1>2. ScanTyped /\ [NextReading]_readingVars => ScanTyped'
  BY ScanKept
<1>3. ScanTyped /\ [NextReading]_readingVars => [Search => Nearer(scan, scan')]_readingVars
  BY SearchNearer
<1> QED
  BY <1>1, <1>2, <1>3, PTL DEF ReadingsSpec
=============================================================================
