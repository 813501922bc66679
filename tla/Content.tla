------------------------------ MODULE Content ------------------------------
(***************************************************************************)
(* Content for everybody: content/registry.py, production.py, store.py,    *)
(* review.py and publication.py, the worker's stages produce, inspect and  *)
(* publish (worker/runner.py) and the screen Q3 (web/app.py).              *)
(*                                                                         *)
(* The worker writes at most one draft of a type, people judge it, and it  *)
(* goes to the parent system: a living document is put at its path again   *)
(* and again, an issue is created each time it is sent.  What a text says  *)
(* is left out; a document is the draft it shows.                          *)
(***************************************************************************)
EXTENDS Naturals, FiniteSets

CONSTANTS
  Types,
  Decl,        \* the declaration of each type (types.toml)
  Webs,        \* threads of the web process
  Worker,
  None,
  MaxDrafts,   \* bound: drafts ever written
  MaxCommits,  \* bound: commits the ingest cursor moves over
  MaxFaults    \* bound: crashes, failed commits, failed or lost calls

PlaceFor == [living |-> "document", issued |-> "publication"]

ContentType == [nature : {"living", "issued"}, final : BOOLEAN,
                place : {"document", "publication"},
                threshold : {"none", "source_changed", "repeat_questions"},
                periodic : BOOLEAN, semantic : BOOLEAN]

\* What registry._parse lets through.
Accepted(d) ==
  /\ d.periodic \/ d.threshold # "none"
  /\ d.place = PlaceFor[d.nature]
  /\ d.nature = "issued" => d.final

ASSUME ContentAssumption ==
  /\ None \notin Types \union Webs \union {Worker}
  /\ Worker \notin Webs
  /\ Decl \in [Types -> ContentType]
  /\ \A t \in Types : Accepted(Decl[t])
  /\ MaxDrafts \in Nat /\ MaxCommits \in Nat /\ MaxFaults \in Nat

VARIABLES
  registry,  \* the types that are declared
  type, state, base, decided, findings, ticket,  \* table content_draft
  made,      \* how many drafts there are: a draft is its number
  row,       \* table content_publication: a unique index keeps one for a draft
  sent,      \* how often the parent system accepted a draft, 2 for more than once
  doc,       \* the draft the document of a type shows, 0 for none
  ran,       \* types with a last_generated_at
  elapsed,   \* those whose period has passed since
  last,      \* last_commit of each type
  drawn,     \* history: the cursor when the model last answered for a type
  cursor,    \* the commit ingest has read up to, 0 for none
  repeats,   \* has a question been asked as often as the threshold says?
  knowledge, \* what there is to write from: nothing, all of it fresh, or some stale
  stage, todo, \* where the worker's tick is, and the list it works off
  job,       \* what each process is doing
  apart,     \* do handlers keep from one type, and press what the page lists?
  faults

vars == <<registry, type, state, base, decided, findings, ticket, made, row, sent, doc, ran,
          elapsed, last, drawn, cursor, repeats, knowledge, stage, todo, job,
          apart, faults>>

drafts  == <<registry, type, state, base, decided, findings, ticket, made>>
parent  == <<sent, doc>>
runs    == <<ran, elapsed, last, drawn>>
sources == <<cursor, repeats, knowledge>>
tick    == <<stage, todo>>

Procs  == Webs \union {Worker}
Drafts == 1..MaxDrafts

Living(t)     == Decl[t].nature = "living"
OnDocument(t) == Decl[t].place = "document"

Idle == [at |-> "idle", draft |-> 0, yes |-> FALSE, type |-> None, base |-> 0]

Job == [at : {"idle", "model", "save", "record", "findings", "close", "check",
              "open", "call", "mark"},
        draft : 0..MaxDrafts, yes : BOOLEAN,
        type : Types \union {None}, base : 0..MaxDrafts]

Material == {"none", "fresh", "mixed"}

Stages == {"down", "rest", "produce", "inspect", "publish"}

TypeOK ==
  /\ registry \subseteq Types
  /\ type \in [Drafts -> Types \union {None}]
  /\ state \in [Drafts -> {"none", "pending", "approved", "rejected"}]
  /\ base \in [Drafts -> 0..MaxDrafts]
  /\ decided \in [Drafts -> 0..MaxDrafts]
  /\ findings \in [Drafts -> BOOLEAN]
  /\ ticket \in [Drafts -> {"none", "open", "closed"}]
  /\ made \in 0..MaxDrafts
  /\ row \in [Drafts -> {"none", "in_flight", "published"}]
  /\ sent \in [Drafts -> 0..2]
  /\ doc \in [Types -> 0..MaxDrafts]
  /\ ran \subseteq Types /\ elapsed \subseteq Types
  /\ last \in [Types -> 0..MaxCommits] /\ drawn \in [Types -> 0..MaxCommits]
  /\ cursor \in 0..MaxCommits
  /\ repeats \in BOOLEAN
  /\ knowledge \in Material
  /\ stage \in Stages
  /\ todo \subseteq Types \union Drafts
  /\ job \in [Procs -> Job]
  /\ apart \in BOOLEAN
  /\ faults \in 0..MaxFaults

Init ==
  /\ registry \in SUBSET Types
  /\ type = [d \in Drafts |-> None]
  /\ state = [d \in Drafts |-> "none"]
  /\ base = [d \in Drafts |-> 0]
  /\ decided = [d \in Drafts |-> 0]
  /\ findings = [d \in Drafts |-> FALSE]
  /\ ticket = [d \in Drafts |-> "none"]
  /\ made = 0
  /\ row = [d \in Drafts |-> "none"]
  /\ sent = [d \in Drafts |-> 0]
  /\ doc = [t \in Types |-> 0]
  /\ ran = {} /\ elapsed = {}
  /\ last = [t \in Types |-> 0] /\ drawn = [t \in Types |-> 0]
  /\ cursor = 0
  /\ repeats = FALSE
  /\ knowledge = "none"
  /\ stage = "down" /\ todo = {}
  /\ job = [p \in Procs |-> Idle]
  /\ apart \in BOOLEAN
  /\ faults \in 0..MaxFaults

Fault == faults < MaxFaults /\ faults' = faults + 1

Goto(p, there) == job' = [job EXCEPT ![p].at = there]
Finish(p)      == job' = [job EXCEPT ![p] = Idle]

TypeAt(p) == IF job[p].draft = 0 THEN job[p].type ELSE type[job[p].draft]

Free(p, t) == apart => \A o \in Procs \ {p} : TypeAt(o) # t

-----------------------------------------------------------------------------
(* What the tables say *)

Pending(t) == {d \in Drafts : type[d] = t /\ state[d] = "pending"}

\* store.current: the approved draft that was decided last, 0 for none.
Current(t) ==
  LET yes == {d \in Drafts : type[d] = t /\ state[d] = "approved"}
  IN IF yes = {} THEN 0
     ELSE CHOOSE d \in yes : \A e \in yes : decided[e] <= decided[d]

Recorded(d) == row[d] # "none"
Out(d)      == row[d] = "published"

\* Mutant: an attempt that did not end is not taken up again.
RetriableOnlyNew == {d \in Drafts : /\ state[d] = "approved"
                                    /\ ~Decl[type[d]].final
                                    /\ ~Recorded(d)}

\* The worker sends again what it may: documents without a final check.
Retriable == {d \in Drafts :
                /\ state[d] = "approved"
                /\ ~Decl[type[d]].final
                /\ \/ ~Recorded(d)
                   \/ OnDocument(type[d]) /\ row[d] = "in_flight"}

\* The page Q3 lists under the final check.
Waiting == {d \in Drafts : state[d] = "approved" /\ Decl[type[d]].final
                           /\ ~Recorded(d)}

Awaiting == {d \in Drafts : state[d] = "pending" /\ ~findings[d]
                            /\ Decl[type[d]].semantic}

-----------------------------------------------------------------------------
(* What comes from elsewhere *)

\* The stages before: ingest moves the cursor, and with it the items that rest
\* on the code go stale until it has seen to them (Lint).
Ingest ==
  /\ stage = "rest"
  /\ \E c \in {cursor, cursor + 1}, k \in Material :
       /\ c <= MaxCommits
       /\ c # cursor \/ k # knowledge
       /\ cursor' = c /\ knowledge' = k
  /\ UNCHANGED <<drafts, row, parent, runs, repeats, tick, job, apart, faults>>

PeriodPasses(t) ==
  /\ Decl[t].periodic /\ t \in ran
  /\ elapsed' = elapsed \union {t}
  /\ UNCHANGED <<drafts, row, parent, ran, last, drawn, sources, tick, job, apart,
                 faults>>

QuestionRepeats ==
  /\ \E t \in registry : Decl[t].threshold = "repeat_questions"
  /\ repeats' = TRUE
  /\ UNCHANGED <<drafts, row, parent, runs, cursor, knowledge, tick, job, apart,
                 faults>>

-----------------------------------------------------------------------------
(* The worker writes: ContentProducer.run *)

Threshold(t) ==
  CASE Decl[t].threshold = "none"             -> FALSE
    [] Decl[t].threshold = "source_changed"   -> cursor # 0 /\ cursor # last[t]
    [] Decl[t].threshold = "repeat_questions" -> repeats

Periodic(t) == t \notin ran \/ t \in elapsed

Due(t) == Periodic(t) \/ Threshold(t)

\* Code has changed but the knowledge has not caught up: wait for it.
Held(t) ==
  /\ knowledge = "mixed"
  /\ Decl[t].threshold = "source_changed"
  /\ Threshold(t) /\ ~Periodic(t)

\* Mutant: the drafts that wait are not looked at.
WritableThoughPending(t) ==
  /\ Due(t)
  /\ knowledge \in {"fresh", "mixed"}
  /\ ~Held(t)

Writable(t) ==
  /\ Pending(t) = {}
  /\ Due(t)
  /\ knowledge \in {"fresh", "mixed"}
  /\ ~Held(t)

\* The version the new one is written from, and the reviewer compares it with.
Previous(t) == IF Living(t) THEN Current(t) ELSE 0

Produce(t) ==
  /\ stage = "produce" /\ t \in todo
  /\ job[Worker] = Idle /\ Free(Worker, t)
  /\ todo' = todo \ {t}
  /\ IF Writable(t)
     THEN job' = [job EXCEPT ![Worker] = [Idle EXCEPT !.at = "model", !.type = t,
                                                      !.base = Previous(t)]]
     ELSE UNCHANGED job
  /\ UNCHANGED <<drafts, row, parent, runs, sources, stage, apart, faults>>

\* record_run of a run in which the model answered: clock and cursor advance.
Generated(t) ==
  /\ ran' = ran \union {t}
  /\ elapsed' = elapsed \ {t}
  /\ last' = [last EXCEPT ![t] = IF cursor = 0 THEN @ ELSE cursor]

\* The model has nothing to change.
Unchanged ==
  /\ job[Worker].at = "model" /\ job[Worker].base # 0
  /\ Generated(job[Worker].type)
  /\ drawn' = [drawn EXCEPT ![job[Worker].type] = cursor]
  /\ Finish(Worker)
  /\ UNCHANGED <<drafts, row, parent, sources, tick, apart, faults>>

\* Mutant: a run without an answer is recorded like one with.
NotGeneratedRecorded ==
  /\ job[Worker].at = "model"
  /\ Fault
  /\ Generated(job[Worker].type)
  /\ Finish(Worker)
  /\ UNCHANGED <<drafts, row, parent, drawn, sources, tick, apart>>

NotGenerated ==
  /\ job[Worker].at = "model"
  /\ Fault
  /\ Finish(Worker)
  /\ UNCHANGED <<drafts, row, parent, runs, sources, tick, apart>>

\* The ticket is a transaction of its own: after a crash behind it there is a
\* ticket without draft, which no page of Q3 opens.
IssueTicket ==
  /\ job[Worker].at = "model"
  /\ made < MaxDrafts
  /\ Goto(Worker, "save")
  /\ UNCHANGED <<drafts, row, parent, runs, sources, tick, apart, faults>>

SaveDraft ==
  /\ job[Worker].at = "save"
  /\ made' = made + 1
  /\ type' = [type EXCEPT ![made + 1] = job[Worker].type]
  /\ state' = [state EXCEPT ![made + 1] = "pending"]
  /\ base' = [base EXCEPT ![made + 1] = job[Worker].base]
  /\ ticket' = [ticket EXCEPT ![made + 1] = "open"]
  /\ drawn' = [drawn EXCEPT ![job[Worker].type] = cursor]
  /\ Goto(Worker, "record")
  /\ UNCHANGED <<registry, decided, findings, row, parent, ran, elapsed, last, sources, tick,
                 apart, faults>>

RecordRun ==
  /\ job[Worker].at = "record"
  /\ Generated(job[Worker].type)
  /\ Finish(Worker)
  /\ UNCHANGED <<drafts, row, parent, drawn, sources, tick, apart, faults>>

-----------------------------------------------------------------------------
(* The worker asks the model what to look at: inspect_semantically *)

Inspect(d) ==
  /\ stage = "inspect" /\ d \in todo
  /\ job[Worker] = Idle /\ Free(Worker, type[d])
  /\ todo' = todo \ {d}
  /\ job' = [job EXCEPT ![Worker] = [Idle EXCEPT !.at = "findings", !.draft = d]]
  /\ UNCHANGED <<drafts, row, parent, runs, sources, stage, apart, faults>>

\* Mutant: findings are written into a draft whatever became of it.
JudgeableAlways(d) == state[d] # "none"

Judgeable(d) == state[d] = "pending"

RecordFindings ==
  /\ job[Worker].at = "findings"
  /\ findings' = IF Judgeable(job[Worker].draft)
                 THEN [findings EXCEPT ![job[Worker].draft] = TRUE] ELSE findings
  /\ Finish(Worker)
  /\ UNCHANGED <<registry, type, state, base, decided, ticket, made, row, parent, runs,
                 sources, tick, apart, faults>>

NoFindings ==
  /\ job[Worker].at = "findings"
  /\ Fault
  /\ Finish(Worker)
  /\ UNCHANGED <<drafts, row, parent, runs, sources, tick, apart>>

-----------------------------------------------------------------------------
(* People judge: q3_decide and review.decide *)

\* The page may be old: the draft may have been judged since.
Decide(w, d, yes) ==
  /\ job[w] = Idle /\ state[d] # "none"
  /\ Free(w, type[d]) /\ (apart => state[d] = "pending")
  /\ IF Judgeable(d)
     THEN /\ state' = [state EXCEPT ![d] = IF yes THEN "approved" ELSE "rejected"]
          /\ decided' = [decided EXCEPT ![d] =
                           Cardinality({e \in Drafts : decided[e] # 0}) + 1]
     ELSE UNCHANGED <<state, decided>>
  /\ job' = [job EXCEPT ![w] = [Idle EXCEPT !.at = "close", !.draft = d, !.yes = yes]]
  /\ UNCHANGED <<registry, type, base, findings, ticket, made, row, parent, runs, sources, tick,
                 apart, faults>>

\* The resolution is written and the ticket closed; when it is closed already
\* transition refuses and the handler ends there.
CloseTicket(w) ==
  /\ job[w].at = "close"
  /\ ticket' = [ticket EXCEPT ![job[w].draft] = "closed"]
  /\ IF ticket[job[w].draft] = "open" /\ job[w].yes /\ ~Decl[type[job[w].draft]].final
     THEN job' = [job EXCEPT ![w].at = "check", ![w].yes = FALSE]
     ELSE Finish(w)
  /\ UNCHANGED <<registry, type, state, base, decided, findings, made, row, parent, runs,
                 sources, tick, apart, faults>>

\* q3_publish: the button is the final check.
Confirm(w, d) ==
  /\ job[w] = Idle /\ state[d] # "none"
  /\ Free(w, type[d]) /\ (apart => d \in Waiting)
  /\ job' = [job EXCEPT ![w] = [Idle EXCEPT !.at = "check", !.draft = d, !.yes = TRUE]]
  /\ UNCHANGED <<drafts, row, parent, runs, sources, tick, apart, faults>>

-----------------------------------------------------------------------------
(* The exit: publication.publish *)

MayGoOut(p, d) == state[d] = "approved" /\ (Decl[type[d]].final => job[p].yes)

Refused(p) ==
  /\ job[p].at = "check"
  /\ \/ ~MayGoOut(p, job[p].draft)
     \/ Out(job[p].draft)
  /\ Finish(p)
  /\ UNCHANGED <<drafts, row, parent, runs, sources, tick, apart, faults>>

NoRowYet(p) ==
  /\ job[p].at = "check" /\ MayGoOut(p, job[p].draft)
  /\ ~Recorded(job[p].draft)
  /\ Goto(p, "open")
  /\ UNCHANGED <<drafts, row, parent, runs, sources, tick, apart, faults>>

\* An attempt that did not end is taken up again, whoever began it.
TakeUp(p) ==
  /\ job[p].at = "check" /\ MayGoOut(p, job[p].draft)
  /\ row[job[p].draft] = "in_flight"
  /\ Goto(p, "call")
  /\ UNCHANGED <<drafts, row, parent, runs, sources, tick, apart, faults>>

\* Mutant: the row is not committed before the call.
OpenNothing(p) ==
  /\ job[p].at = "open"
  /\ Goto(p, "call")
  /\ UNCHANGED <<drafts, row, parent, runs, sources, tick, apart, faults>>

\* Committed before the call.  Between of_draft and the INSERT another process
\* may have opened the row: the index refuses, which no handler expects.  The
\* request ends there, and so does the worker's process.
OpenRow(p) ==
  /\ job[p].at = "open"
  /\ IF Recorded(job[p].draft)
     THEN /\ Finish(p)
          /\ stage' = IF p = Worker THEN "down" ELSE stage
          /\ todo' = IF p = Worker THEN {} ELSE todo
          /\ UNCHANGED row
     ELSE /\ row' = [row EXCEPT ![job[p].draft] = "in_flight"]
          /\ Goto(p, "call")
          /\ UNCHANGED tick
  /\ UNCHANGED <<drafts, parent, runs, sources, apart, faults>>

\* upsert_document or create_publication.
Accept(d) ==
  /\ sent' = [sent EXCEPT ![d] = IF @ = 0 THEN 1 ELSE 2]
  /\ doc' = IF OnDocument(type[d]) THEN [doc EXCEPT ![type[d]] = d] ELSE doc

Send(p) ==
  /\ job[p].at = "call"
  /\ \/ Accept(job[p].draft) /\ Goto(p, "mark") /\ UNCHANGED faults
     \/ Accept(job[p].draft) /\ Fault /\ Finish(p)     \* the reply is lost
     \/ Fault /\ Finish(p) /\ UNCHANGED parent         \* it cannot be reached
  /\ UNCHANGED <<drafts, row, runs, sources, tick, apart>>

MarkPublished(p) ==
  /\ job[p].at = "mark"
  /\ row' = [row EXCEPT ![job[p].draft] = "published"]
  /\ Finish(p)
  /\ UNCHANGED <<drafts, parent, runs, sources, tick, apart, faults>>

Republish(d) ==
  /\ stage = "publish" /\ d \in todo
  /\ \A e \in todo : d <= e                            \* the oldest first
  /\ job[Worker] = Idle /\ Free(Worker, type[d])
  /\ todo' = todo \ {d}
  /\ job' = [job EXCEPT ![Worker] = [Idle EXCEPT !.at = "check", !.draft = d]]
  /\ UNCHANGED <<drafts, row, parent, runs, sources, stage, apart, faults>>

-----------------------------------------------------------------------------
(* The tick, crashes *)

NextStage ==
  /\ stage \in {"rest", "produce", "inspect", "publish"}
  /\ job[Worker] = Idle
  /\ stage # "rest" => todo = {}
  /\ LET next == [rest |-> "produce", produce |-> "inspect", inspect |-> "publish",
                  publish |-> "rest"][stage]
     IN /\ stage' = next
        /\ todo' = CASE next = "produce" -> registry
                     [] next = "inspect" -> Awaiting
                     [] next = "publish" -> Retriable
                     [] next = "rest"    -> {}
  /\ UNCHANGED <<drafts, row, parent, runs, sources, job, apart, faults>>

Boot ==
  /\ stage = "down"
  /\ stage' = "rest"
  /\ UNCHANGED <<drafts, row, parent, runs, sources, todo, job, apart, faults>>

Crash ==
  /\ stage # "down"
  /\ Fault
  /\ stage' = "down" /\ todo' = {}
  /\ Finish(Worker)
  /\ UNCHANGED <<drafts, row, parent, runs, sources, apart>>

\* The request ends with the web process.
Abandon(w) ==
  /\ job[w] # Idle
  /\ Fault
  /\ Finish(w)
  /\ UNCHANGED <<drafts, row, parent, runs, sources, tick, apart>>

Writer == Unchanged \/ NotGenerated \/ IssueTicket \/ SaveDraft \/ RecordRun
          \/ RecordFindings \/ NoFindings

Exit(p) == \/ Refused(p) \/ NoRowYet(p) \/ OpenRow(p) \/ Send(p) \/ MarkPublished(p)
           \/ TakeUp(p)

WorkerNext ==
  \/ Writer \/ Exit(Worker) \/ NextStage
  \/ \E t \in Types : Produce(t)
  \/ \E d \in Drafts : Inspect(d) \/ Republish(d)

WebNext(w) == CloseTicket(w) \/ Exit(w)

Next ==
  \/ Ingest \/ QuestionRepeats \/ Boot \/ Crash \/ WorkerNext
  \/ \E t \in Types : PeriodPasses(t)
  \/ \E w \in Webs : \/ WebNext(w) \/ Abandon(w)
                     \/ \E d \in Drafts : \/ Confirm(w, d)
                                          \/ \E yes \in BOOLEAN : Decide(w, d, yes)

Fairness == WF_vars(WorkerNext) /\ \A w \in Webs : WF_vars(WebNext(w))

Spec == Init /\ [][Next]_vars /\ Fairness

-----------------------------------------------------------------------------
(* What must hold *)

\* Q3 holds one draft of a type, and it was written from the version people
\* approved last: what the reviewer sees as the change is the change.
OneUnderReview ==
  \A d \in Drafts : state[d] = "pending" =>
    /\ Pending(type[d]) = {d}
    /\ base[d] = Previous(type[d])

\* What the parent system shows was approved by somebody and is on record
\* before it goes out, and a row that says published is true: in every
\* interleaving and after every crash.
OnlyApprovedIsOut ==
  \A d \in Drafts :
    /\ sent[d] # 0 => state[d] = "approved" /\ Recorded(d)
    /\ Out(d) => sent[d] # 0

\* An issue is created once, through lost replies and crashes, when people press
\* what the page lists: it cannot be taken back.
IssueOnce == apart => \A d \in Drafts : sent[d] > 1 => OnDocument(type[d])

\* While nothing fails, the document shows what people approved last.  A failure
\* is enough to end that: an approved version that was not sent is sent again
\* after the next one went out, and the document shows the old one from then on.
DocumentIsCurrent ==
  (apart /\ faults = 0) =>
    \A t \in Types : (OnDocument(t) /\ Current(t) # 0 /\ Out(Current(t)))
                       => doc[t] = Current(t)

\* What the parent system shows was approved, is on record, was issued once and
\* is the newest version, each as far as the code can keep it.
OutIsInOrder == OnlyApprovedIsOut /\ IssueOnce /\ DocumentIsCurrent

\* A judged draft stays as it was judged, with what the judge saw of it.
JudgedIsFrozen ==
  [][\A d \in Drafts : state[d] \in {"approved", "rejected"} =>
       state'[d] = state[d] /\ findings'[d] = findings[d]]_vars

\* A document nobody has to confirm goes out in the end, whatever was lost.
ApprovedGoesOut ==
  \A d \in Drafts :
    (state[d] = "approved" /\ ~Decl[type[d]].final)
      ~> (Out(d) \/ stage = "down")

\* A change of the code is written up once the knowledge has caught up with it,
\* or a draft waits for people, or the model failed.
ChangeIsWrittenUp ==
  \A t \in Types : Decl[t].threshold = "source_changed" =>
    ((t \in registry /\ cursor # drawn[t])
       ~> (cursor = drawn[t] \/ Pending(t) # {} \/ knowledge # "fresh"
           \/ stage = "down" \/ made = MaxDrafts))

=============================================================================
