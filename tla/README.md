# agentic_service_desk in TLA+

A verification project kept beside the code of the service desk. It models the
parts of the service whose correctness rests on the order of steps taken by
several actors, checks them with TLC on small instances, and proves the most
important facts for all instances with TLAPS. Paths below are relative to
`src/src/agentic_service_desk/`.

The system is two processes and one file. The **batch worker**
(`worker/runner.py`) runs ticks, each a fixed sequence of steps. The **web
process** (FastAPI, synchronous handlers in a thread pool) serves the operator's
screens. Both share one SQLite database in WAL mode: what one of them commits the
other sees at its next statement, and most updates are by id alone, without the
state that was read. Outside are the **parent system** (questions, answers,
documents; reached through an adapter), a **git repository** of knowledge items,
and models. Nothing supervises the worker; it is started by hand.

## 1. Inventory

| component | code | state | operations | hard about it | correct when |
|---|---|---|---|---|---|
| exit: drafts and publication | `pipeline/draft_store.py`, `pipeline/publication.py` | `answer_draft`, `answer_record`, `holding_notice`, posts of the parent | save, decide, auto_approve, publish, hold, settle | worker and web threads publish at once; a call acts and its reply is lost; records outlive processes | an answer is out at most once, never unrecorded; the rows say what stands |
| corrections (Q5) | `pipeline/correction.py` | `lint_finding`, `content_draft` of kind correction | propagate, draft, ignore | the items behind an answer change while its correction waits | a correction is written from fresh items and comes for every answer a change reached |
| intake | `operations/intake.py` | `qna_item`, `ticket` | pending, admit, process, gate, issue | several commits per question, failures between them | every admitted question ends with somebody |
| tracking | `operations/tracking.py`, `qna_state.py` | `qna_item`, Raw Layer | adopt_explicit, rerun, settle_quiet, upgrade | lists read first and worked off later, against operators | grades agree with states, the asker's mark wins, nothing stays open for ever |
| QnA collection | `ingest/qna.py` | Raw Layer | collect | partial passes | all that was said arrives |
| build console, ingest run | `operations/build.py`, `checkpoint.py`, `ingest/run.py` | `build_control`, `ingest_run`, cursors, working tree | start, stop, rebuild, run, commit, move cursors | crash between save, git commit and cursor; console against worker | nothing is skipped; a stop stops, a start is heard |
| phase and gating | `operations/phase.py`, `pipeline/gating.py` | `phase_state`, `phase_decision`, `phase_observation` | observe, judge, regress, advance, assess | the worker lowers while an operator raises on a page read earlier | one fall lowers once; nothing passes by a phase that no longer holds |
| tickets, resolutions, promotion | `operations/ticket.py`, `resolution.py`, `promotion.py`, `manual_entry.py`, `drafter.py` | `ticket`, `ticket_resolution`, knowledge items | transitions, hold and release, draft, confirm, decline, promote | two stores (git and SQLite), release against close, redraft against confirm | a confirmed resolution is not lost; one resolution, one item |
| answer pipeline | `pipeline/answer.py`, `review.py`, `knowledge/search.py` | none kept | analyse, search, rank, generate, render, review | what a model says at each stage is anything | what goes out by itself is backed by what was found; silence means that nothing was |
| content | `content/*` | drafts, runs, publications | produce, inspect, judge, confirm, publish, retry | record first; an upsert may be repeated, an issue may not; one draft is written on the last | only approved drafts are out, an issue once; what was approved goes out |
| knowledge and Lint | `knowledge/*`, `ingest/source.py` | git repository, findings, contradictions | apply, commit, mark stale, find, resolve, verify human edits | a run writes from what it read hours ago; people edit the same files | marks are right; a person's committed edit stays; one ticket a finding |
| retention | `operations/retention.py` | raw rows, `manual_entry`, `qna_item` | expire | runs last in a tick, between the clicks of people | what waits has its text, nothing goes before the tick's ingest had it, the rest goes |
| recheck | `operations/recheck.py` | `recheck` | sample by risk, decide | the risky kinds come first | an approval is looked at again, if the others leave it room |
| alerts | `operations/alert.py` | `alert_sent` | pending, dispatch, mark | the webhook refuses, or takes a post nobody marks | what stays neglected is told, once |
| endpoint of the model | `operations/llm_endpoint.py`, `llm/harness.py`, `llm/policy.py` | `llm_endpoint`, the harness's file | save, refresh, sync | row and file are two writes | an old file is said; the policy holds |
| models | `llm/*` | - | call | - | pure I/O |
| agent | `ingest/agent.py`, `output_filter.py`, `config_values.py` | - | extract, filter | feedback loop through our own answers | the service's unconfirmed answers are not learned |
| migrations, startup | `operations/migrations.py`, `preflight.py`, `config.py`, `cli.py` | schema version | migrate, refuse to start | run by hand | a process never runs on another schema |
| console, adapters | `web/*`, `adapters/*` | sessions | screens, calls | lost replies | as seen by the callers |

How they touch: a tick runs, in this order, endpoint refresh, heartbeat, phase,
mirrors, collection, intake, tracking (explicit marks, reruns, quiet settlement),
promotion, release of held tickets, sample of the recheck, resolution drafts,
ingest, Lint, corrections, content (produce, inspect, publish), reindex,
retention, alerts. Intake and tracking call the answer pipeline and gating, which
goes by the phase, and the exit. The web process judges drafts (and then publishes
or opens a ticket), settles attempts, registers answers, moves, confirms, promotes
and declines tickets, resolves contradictions, ignores corrections, judges and
publishes content, decides samples, saves the endpoint, drives the build and
approves advances. Every step but the heartbeat and the reindex is an action of
some module.

## 2. Modules

| module | what it is |
|---|---|
| `Publication` | the exit, with its drafts, records, notices, corrections and the parent's posts |
| `AnswerExit` | what the exit promises, in 4 actions; `Publication` implements it (`KeepsExitContract`) |
| `QnaTracking` | one question from being asked to being closed: collection, intake, tracking, judgements |
| `BuildIngest` | the build: worker loop, ingest run, cursors, console |
| `Phase` | the phase: observation, regression, advance, gate and promotion |
| `Tickets` | tickets of questions, their resolutions, promotion into the repository |
| `Content` | documents the service writes: drafts, inspection, judgement, publication |
| `Knowledge` | items in the repository and on the way to answers: ingest, people, Lint, contradictions, corrections |
| `Retention` | expiry and recheck of what was answered, inside the whole tick |
| `Alerts` | the webhook |
| `Endpoint` | the connection to the model |
| `Answer` | one question through the answer pipeline and the gate |
| `MC*` | instances: symmetry sets and structured constants; `MCServices` runs `Alerts`, `Endpoint` and `Answer`, which share nothing, one at a time |
| `PublicationProofs`, `QnaTrackingProofs`, `BuildIngestProofs`, `PhaseProofs`, `TicketsProofs`, `ContentProofs`, `KnowledgeProofs` | the theorems about the module of that name |
| `ServicesProofs` | the theorems about `Retention`, `Alerts`, `Endpoint` and `Answer` |

The modules do not share variables; each keeps what the others do to its state as
actions of its own. A *delivery* is four steps of two processes in `Publication`
and one step of `QnaTracking`, which knows of a notice only its place in the
thread. The ticket is a flag in `QnaTracking` and has a life of its own in
`Tickets`, where intake and publication are the actions `IssueTicket` and
`Publish`. A run of ingest is a sequence of commits and cursors in `BuildIngest`,
what it does to the items is in `Knowledge`, and that it reads an answer is one
step of `Retention`. `Phase` routes any draft; what the signals of a draft are is
in `Answer`.

**Granularity.** A step is what a handler does between two points at which
another can come between: a committed transaction, a read of a table that others
write, a call of the parent system. A local variable that lives across such a
point is a field of `job`, `view`, `run`, `todo` or `doing`.

### Publication

* `draft`, `record`, `notice`, `finding` are tables. The partial unique index
  `answer_record_one_per_draft` is the guard of `InsertRecord`; `InsertRefused`
  is the handler that loses.
* `post` is the parent system: which body stands in which post.
* A handler runs `approve → publish → insert → choose → call → finish`
  (`decide`, `publish`), the worker also `judge`, `hold*`, `remake`.
* `CallLostReply` is a call that acted but whose reply is lost or whose process
  ended; the record stays in flight until an operator settles it. Crashes and
  failed calls count against `MaxFaults`.
* `Settle*` is the operator's screen. `SettleLive` says whether an attempt that
  is still running may be settled; the code cannot tell. The main run and the
  proofs say FALSE, which is an assumption about the operator.

### QnaTracking

* `words[q]` is the thread at the parent by creation time: the asker's words,
  people's answers, our answers, our notice (`"notice"`, revised to `"filled"` in
  place). `old[q]` words are older than the quiet period. `raw[q]` is what has
  been collected.
* The worker's tick is `pc`, with `todo` the list the stage has read and `doing`
  the question in process; `Process*`, `Route*`, `IssueTicket` and `MarkAwaiting`
  are the transactions of `intake.process`.
* `Judge`, then `SendDraft` or `ReopenForRejected`, is a web thread in two
  transactions.

### BuildIngest

* `head` and `cursor` are the mirrors' HEADs and the checkpoints, one commit a
  chunk. `dirty` and `leftover` are saved and uncommitted items, of a run under
  way and of one that ended before committing.
* `seen[<<m, c>>]` is a history: was the commit read, and since the last rebuild?
* `rebuilding` is the console's rebuild, whose check, deletion and start request
  are separate transactions.

### Phase

* `obs` has one row for a day, overwritten by later ticks; `changed` is the day of
  the last change and cuts baselines off; `lowered` is the worker's last row.
* What is counted is left out: each tick observes any of `Observations`. Every
  axis is either a floor, a ceiling or one that phase 3 alone asks for; one of each
  is kept, and one reading that only signals. Thresholds may be undeclared.

### Tickets

* `ticket`, `row`, `item`, `declined` are the tables `ticket` and
  `ticket_resolution`; `entry` is `manual_entry`. `kb` is the other store, the
  working tree of the knowledge repository: which item is in the file that the
  slug of a generalised question names.
* `job[p]` is a handler between two of its transactions. Closing and promoting run
  `read → write` (`ticket.transition`, whose UPDATE goes by id alone), then
  `check → save → record` (`promotion.promote`: guards, file and git, row).
  `q1_state`, `q1_confirm`, `q7_promote`, `run_auto` and the release of held
  tickets enter this sequence at different points.
* `todo` is the list a stage of the worker has read. `AwaitingResolutionDraft`
  joins published answers, so a ticket is in it once for each of them, and the
  second draft is written over whatever became of the first.
* `Refused` is `InvalidTransition`: the screen ends, and the worker with it, as
  nothing catches it.
* `apart`, chosen once, says whether handlers keep off each other's ticket. With
  one operator and a worker they mostly do; nothing in the code makes them.
  Properties that hold only then say so in their first word.

### Content

* A declared type (`Decl`) is a record: living or issued, with a final check or
  not, at the document or publication side of the parent, produced by a period, by
  what changed in the code or by repeated questions. `registry` is the set in use.
* `type`, `state`, `base`, `findings` and `ticket` are the rows of `content_draft`,
  `row` those of `content_publication`; `sent` and `doc` are the parent system,
  and `drawn` is a history: what the model last wrote from.
* `job[p]` is a handler between two transactions: production asks the model, issues
  the ticket, saves the draft and records the run; publication opens its row, sends
  and marks. The unique index is the guard of `OpenRow`; the handler that loses
  there ends, and so does the worker, since nothing catches the error.
* `apart` says whether handlers keep off each other; with a fault the run has them
  apart, and without one they may overlap.

### Knowledge

* `file` is the working tree and `saved` its last commit; `head`, `touched` and
  `cursor` are the code's commits, what each changes, and how far ingest has read.
  An item has its reference, the commits it was written from, the marks `stale` and
  `edited_by_human`, and whose words it says.
* A run of ingest reads every item once (`snap`) and writes from that. People edit
  files and commit through the hook (`VerifyEdit`), with the worker in between.
* Lint is `StartLint` (one scan), a `Mark` for each item, the findings, the index,
  `EndLint`. Its list is what it read at the start.
* Corrections: `Propagate`, `OpenCandidate` with its ticket, `StartDrafts`,
  `DraftCorrection`, and the web thread's resolve, ignore and publish.

### Retention

* One item is a row of `qna_item` with its text, draft, ticket, resolution and
  samples. Time is two facts: the item is closed longer than the retention, and
  the sampling period is over.
* The tick is `Steps`, one action each; between any two of them, and between the
  list of what expires and its deletion, people act. `Ingest` reads any part of
  what it could read and remembers the rest in `left`, a history variable: it may
  be paused by the console, stopped at a border or ended by an error
  (`runner.py:713`, 735, 741), and `_expire` of the same tick runs all the same.
  A model that is `"flaky"` leaves any part of the drafts of resolutions undone.
* `SampleRecheck` draws from the approvals of the items; those of other questions
  and documents, riskier or newer, take any number of places before them. `room`
  is what such a draw left, until the next step.

### Alerts, Endpoint, Answer

* `Alerts` keeps the open findings in the order they were first seen, how many of
  them are older than the limit, and the phase decisions. A post and its mark are
  two steps, with a crash between them.
* `Endpoint` is the row, the file the harness reads and the saves under way, as
  row and file are two writes; the worker takes the row at the head of a tick.
  Saves overlap and are cut off freely. `orderly`, a history variable, says that
  the last save began alone and that nothing happened to it or to the file since.
* `Answer` has texts as sets of words. Matching, scores, the three fifths of a
  statement that must be covered, what makes a statement "confirmed", the mechanical checks of
  the review and the signals of the gate are written out; what the model names,
  says, renders and judges is any member of a set, and each call may fail.

## 3. Runs

| run | instance | states | says |
|---|---|---|---|
| `publication` | 2 drafts, 3 records, 3 posts, worker + 2 web threads, 1 fault | 137 thousand | the exit is safe, its rows are right and it implements `AnswerExit` |
| `qna_tracking` | 1 question, 2 words of the asker, threads up to 4, failures | 2.4 million | states and grades agree, settlement leaves waiting drafts alone |
| `qna_tracking_live` | same, threads up to 3, no failures | 400 thousand | unanswered questions are somebody's job; marks stay; nothing stays open |
| `build_ingest` | 1 worker, 2 mirrors of 2 commits, 1 answer, 1 fault, 1 rebuild | 1.0 million | no hole, commit before marks; a pause holds reading back; stop, start, everything read |
| `phase` | 1 operator, 3 days, 5 observations | 726 thousand | one fall lowers once; nothing loose when lowered |
| `tickets` | 2 tickets of 1 question, 2 answers, worker + 1 web thread, 1 fault | 4.8 million | closed means confirmed and promoted; apart, ends are final and promotion happens once |
| `tickets_live` | same, no answers, no faults, handlers overlap | 200 thousand | replies reopen, written answers get their draft |
| `content` | 1 of 3 types, 2 drafts, worker + 1 web thread, 1 fault or overlap | 206 thousand | only what was approved is out, and it goes out; an issue once; a change is written up |
| `knowledge` | 2 items, 1 answer, 2 commits, 1 edit, worker + 1 web thread, 1 fault | 526 thousand | marks are right, edits stay, changes reach the answer, corrections come from fresh items |
| `retention` | 1 item, 1 sample a period | 393 thousand | text stays while needed and until ingest had it, goes in the end; approvals are rechecked |
| `services` | 2 findings, 2 decisions, 1 crash; 4 endpoints, 2 threads; 3 items of which 2 are found | 212 thousand | neglect is told once; an old file is said; what goes out by itself is backed |
| `publication_reject_race` | violation | | a rejected draft goes out |

### Why the bounds are enough

* **publication.** Every property speaks of at most two drafts,
  records or posts; the races are of two handlers on one draft, or of two drafts
  over one notice or one answer to correct. Three records leave room for a retry
  and a correction; two web threads and the worker for every pair. One fault
  separates any two steps of one handler. Once the drafts are used up nothing is
  left to do: deadlock is not checked. All four properties are proved for all
  values, the refinement included.
* **qna_tracking.** Questions share only the worker's lists, which are worked off
  one by one; one question and two words reach every ordering of first answer,
  follow-up, rerun, mark, settlement, judgement. `MaxWords` bounds only how long
  drafts go on being made. `GradeFitsState`, `ClosesOnlyIdle` and
  `UnansweredIsSomeonesJob` are proved for any number of questions and words.
* **build_ingest.** Two mirrors, so that one fails while the other goes on; two
  commits, so that a chunk fails before and after a good one. One repository
  starts complete and the other grows by its last commit while a run may be under
  way (`GrowingInit`). `NoHole` is proved for all
  values, the other two safety properties for all values with one worker.
* **phase.** Three days with a look-back of one: a fall, a lowering, another
  baseline and another fall. Proved for all values.
* **tickets.** The properties speak of one ticket, one row and one file, and the
  races are of the worker with a handler, or of two answers of one question over
  one ticket; a second ticket of the same question gives every list two entries and
  the repository a second file. One fault separates any two steps of a handler.
  Five ids: two rows, two files, one handler that saves anew while the other holds
  one, so that a new id is always free (`SaveItem` takes the least unused one).
  The safety properties are proved for all values.
* **content.** Types share nothing but the worker's list, so one type at a time;
  two drafts are the least with a version written on another; one commit of the
  code, one fault. The safety properties are proved for any types and drafts.
* **knowledge.** Two items of which one stays fresh while the other changes, two
  commits (one read, one to make it stale), one edit, one fault that separates any
  two steps of a handler. All but `ChangeReachesAnswer` is proved for all values.
* **retention.** Items share only the sample; one item has five kinds of approval,
  so with one sample a period the rest wait and the order by risk matters, and the
  approvals of all other items are the places they take of it. The two safety
  properties are proved for all values.
* **services.** Two findings, so that the oldest is dealt with while another waits;
  two saves at once; three items with two places, so that the search drops one.
  All but `NeglectIsTold` is proved for all values.

### Fairness

* `QnaTracking`: weak fairness of the worker's tick (`WorkerNext`: the loop of
  `runner.run` calls the next step by itself, and a step that fails ends and is
  called again), of time (`QuietPasses`), and of a web handler that has started.
  Nobody has to judge, confirm, ask or answer; hence `SettlesOrWaits` allows a
  draft that waits.
* `BuildIngest`: weak fairness of each live worker's own steps, and of a confirmed
  rebuild. Starting a worker is never required: the liveness properties are about
  workers that stay up. With `MaxFaults` finite, failures end at some time.
* `Tickets`: weak fairness of the worker's stages and steps while it is up, and of
  a web handler that has started; nobody has to press anything. `Boot` is not
  required, so the properties speak of a worker that stays up.
* `Content`, `Knowledge`, `Retention`: weak fairness of the worker's steps while it
  is up, in `Content` of a started web handler and in `Retention` of the passing of
  periods. Nobody has to start the worker: `Content` says "or the worker is down".
  Faults are bounded. A person who must judge need not, and the properties say so.
* `Alerts`: weak fairness of the worker, and strong fairness of the webhook
  accepting: an address that is called again and again takes a post some time. The
  code offers no more than to call again at the next tick.

### Findings

`publication_reject_race`: *a rejected draft goes out.* `decide` and `auto_approve`
read the draft's state and then update it by id. In the run the operator's `decide`
has read the draft as pending; the gate approves it, `publish` finds it approved
and writes its row; then the UPDATE of the rejection lands, and the answer is
posted all the same: the draft is rejected and out. (In the other order, the
gate's UPDATE after the rejection's, the draft ends approved: the rejection is lost
without a trace in its state, which this property does not see.) PROJECT.json
quotes what the code and its tests say.

### Further divergences

Stated in the modules and refuted by TLC when set as the only property of one of
the instances above, but not kept as runs of their own (`DeclinedStaysOut` and its
like are parts of a property the run checks under `apart`):

| property | instance | what happens |
|---|---|---|
| `CorrectionInPlace` | publication, MaxFaults 0 | when another correction of the same answer went out meanwhile, `_correction_target` finds none and the correction is posted as a new answer |
| `OneHeldPlace` | publication, MaxFaults 0, one web thread | a question that waits again after its notice was filled gets a second notice |
| `OnePublishedPerPost` | publication, MaxFaults 1 | an attempt to revise that is settled as published leaves its predecessor published too |
| `NoDuplicateAnswer` | publication with `SettleLive = TRUE` | abandoning an attempt that is still running lets the draft go out twice |
| `ApprovedIsSomewhere` | publication, MaxFaults 0 | a draft the gate approved and publish refused is in no queue |
| `GradeNeverDropped` | qna_tracking, no failures | the settlement lists the quiet questions and closes them later by id: an explicit grade confirmed in between becomes an implicit one ("강등은 없다", `operations/tracking.py:351`) |
| `ImplicitMeansAnswered` | qna_tracking, no failures | only the "confirming" notice was posted, and it counts as the last answer |
| `GapMeansUnanswered` | qna_tracking, no failures | a notice revised after a follow-up keeps its time, so the follow-up is the last word |
| `AwaitingMeansWork` | qna_tracking, no failures | the operator publishes while `process` is on its way to its last UPDATE |
| `EventuallyClosed` | qna_tracking_live | a marked question that a rejection reopens is never closed |
| `MarkedIsLeftAlone` | qna_tracking_live | a late delivery reopens a marked question, which is rerun at every tick |
| `MarkedIsCommitted` | build_ingest | items of a crashed run are not committed by a later run that changes nothing |
| `AtMostOneRun` | build_ingest with two workers | a second worker closes the first one's run as abandoned |
| `RaisedOnOtherEvidence` | phase | a lowering cuts the baseline off, so the observation that caused it has no signal any more and the page proposes the advance back |
| `OneStepDown` | phase | an advance that is written between the worker's judgement and its write is undone together with the step below it: 3 to 1 |
| `AdvanceFromWhatHolds` | phase | the row of an advance names a phase that no longer held |
| `LooseOnlyWhenLicensed` | phase with two operators at once | a stale advance lowers the phase under the worker |
| `EndStatesAreFinal` without `apart` | tickets | the operator closes a ticket whose release is under way, and the release opens it again |
| `DeclinedStaysOut`, `PromotedOnce` without `apart` | tickets | a decline or a second promotion comes between the check of `promote` and its last UPDATE |
| `PromotedIsThere` without `apart` | tickets | two promotions of one ticket write the file in one order and the row in the other |
| `PromotedIsThere` with `Slug <- SharedTitle` | tickets | two resolutions whose generalised questions have one slug write one file: the second promotion replaces the item of the first, whose row still names it (`knowledge/repository.py:281`, `resolution.py:109`) |
| `AdmittedHasTicket` | qna_tracking | a failure after admission leaves a question without ticket; `intake.pending` never offers it again ("모든 QnA 가 티켓을 발행한다", `operations/intake.py:7`) |
| `RebuildRereads` | build_ingest | a run that starts between the rebuild's check and its deletion writes the cursor back ("도는 중에는 거부한다", `operations/build.py:391`) |
| `IssueOnce` without `apart` | content | a second click, or a page shown earlier, sends an issue whose first call is under way (`content/publication.py:158`) |
| `DocumentIsCurrent` with faults | content | an older version whose call failed is sent again after the newer one (`content/publication.py:268`, `store.py:202`) |
| every readable answer is read before its text expires | retention | the console has paused the build, or the run was stopped or failed: the tick goes on to `_expire` and deletes the text ("after this tick's collection, pipeline and ingest have used the text", `worker/runner.py:584`) |
| `ApprovalIsRechecked` without its hypothesis | retention | approvals of other questions take the whole sample each time an old one waits (`recheck.py:176`) |
| `OldFileIsSaid` without `orderly` | services | two saves at once leave the row of one and the file of the other, or the process ends between row and file; nothing is shown until the next save |
| a worker that nothing but a crash ends | tickets, no failures | the operator reopens a held ticket that is in the release list: `transition` refuses, nothing catches it, and the worker ends |
| an entry always has its ticket | tickets | the process ends between the two commits of `register` |

Met while modelling, and visible in the modules as behaviours no property forbids:

* **Content.** `content_publication.settle` has no caller, so an issue whose reply
  was lost stays in flight for ever. A living type with a final check whose upsert
  was lost is on no list. A verdict pressed again is recorded as a disagreement and
  its ticket's second closing raises. A periodic run consumes the code's change.
  A crash between `ticket.issue` and `store.save` leaves a ticket without draft.
* **Knowledge.** A run of ingest writes from the items it read at its start: what
  people save meanwhile and do not commit is lost (`run.py:188`), and `commit`
  stages everything, so a half-finished edit goes into an ingest commit. An item
  that ingest rewrites before Lint looks is never stale, so answers resting on it
  get no correction. `ignore` on an item still stale is undone by the next tick. A
  correction published between `propagate`'s two reads re-opens its finding. Of the
  findings of Lint only corrections are ever resolved. A crash between the ticket
  and the finding leaves a ticket of nothing. `verify` asks only whether the path
  is there.
* **Retention.** An answer upgraded in Q6 keeps its old closing time: clicked
  between ingest and expiry of one tick, its text goes unread (`ReadBeforeExpired`
  leaves `upgraded` out). A mark of the asker on an item closed long ago expires in
  the same tick. Approving the draft of an explicit item sets "published", which
  never expires; so do manual registrations. A resolution sampled before its
  promotion is sampled again after it. A sample drawn after the expiry has no text
  to show. Two operators judging one sample: the second verdict is written over
  the first.
* **Alerts.** A contradiction that opens again has the fingerprint of the first
  time and is never told again ("새 알림", `operations/alert.py`). A post that was
  taken and not marked is sent twice; `ToldOnce` allows one repetition a crash.
* **Endpoint.** `asd sync-harness` writes the file from the settings, not from the
  row, and an emptied endpoint leaves the file.
* **Answer.** The same question asked again is no similar question, as every
  question with its text is excluded, so it counts as novel. With embeddings any
  similarity above 0 is a hit, so that "no grounding" hardly comes up. A title the
  model ranks twice fills two of the places.

## 4. Proofs

All theorems hold for every value of the constants, under the `ASSUME`s of the
modules. Most of these say only that the sets are disjoint and the bounds are
natural numbers. Beyond that, `Answer` takes vocabularies to be finite and
similarities not to be negative (`knowledge/search.py:311` adds only positive ones), and
`Knowledge` takes the web threads to be finitely many and `None` to be no row.
Further hypotheses stand in the statement of the theorem:

| hypothesis | of | why it may be made |
|---|---|---|
| `~SettleLive` | the theorems of the exit | an assumption about the operator, see section 2; without it `NoDuplicateAnswer` is refuted |
| `OneWorker` | `ScreenIsTrue`, `CommitsFirst` | `operations/build.py:323` counts on it; with two workers `AtMostOneRun` is refuted |
| `OneOperator` | the theorems of the phase | with two `LooseOnlyWhenLicensed` is refuted |
| `Distinct` | `DecisionsHold` | different resolutions, different slugs; refuted with `SharedTitle` |
| `DocumentsGoUnconfirmed` | `WhatIsOutIsInOrder` | so declared in `content/types.toml`; `content/registry.py` would accept a document with a final check, and TLC finds that an older approved version can then be confirmed after a newer one |
| `~Faults` | `SomeonesJob` | a failure after admission leaves a question without ticket (`AdmittedHasTicket` above) |

Each theorem rests on an invariant that TLC checked on the instance of the module
before it was proved. These are not in the runs, as they add nothing to the theorem.

* **The exit** (`PublicationProofs`). `IndInv` is the type invariant, `Shape` (what
  rows and locals refer to), `Attempts`, and three promises. The promises alone
  are not inductive: that a call does not post an answer twice needs to know that
  the handler about to call owns an in-flight record of its draft *and that the
  answer stands nowhere yet*. `Attempts` says both, and that no two handlers own
  the same record. It is established by `InsertRecord`, whose guard is the unique
  index: no live record, hence (by `NoUnrecordedAnswer`) no post. It survives the
  other handlers because each posts only its own draft. Theorems:
  `PublicationInvariant`, `AnswerStandsOnce`, `AnswerIsRecorded`.

  That the rows are true (`RowsTell`) is a second invariant on top. A handler chooses
  its place, then calls, then writes; meanwhile others fill or correct the same
  place. `Placed` says that the place is still the one of the answer it corrects or of
  the notice it fills, and `Kept` is why: no step takes an answer out of a post,
  moves the post of a record that is out, or that of a notice.

  `ExitImplemented` is the refinement. The ledger of `AnswerExit` is read off the
  records; `LedgerReads` says what each entry means for the records, which is where
  the unique index comes in again. `InsertRecord` is `Try`, a call is `PutUp`,
  the closing transaction is `Confirm`, settling is `Confirm` or `Forget`, and all
  else, notices above all, stutters. `PutUp` and `Forget` need that the answer stands
  nowhere, so the refinement rests on `Attempts`.
* **Tracking** (`QnaTrackingProofs`). The tick reads a list and works it off while
  people act, so the invariant says what stays true of what is on the list:
  `Admitting` (not admitted yet), `InHand` (the question in process), `Listed` (no
  draft waits for what is being settled: between that list and the UPDATEs there are
  judgements, and those make no drafts). `GradesFit` needs also that only an answer
  that is out is corrected (`Corrections`), as delivering a correction must not
  reopen; that the bot has not touched a new question (`NewIsUntouched`); and that
  notices are places of the thread. Theorems: `TrackingInvariant`, `GradesFit`,
  `ClosesIdle` (an action property).

  `SomeonesJob` is a second invariant. `Excused` is the property with the question in
  hand excepted; `Cared` says that this one is in a queue from its draft on, or its
  ticket is about to be opened. Between a judgement and what follows from it, the web
  thread itself is the queue.
* **The build** (`BuildIngestProofs`). `NoHole` needs `RunSound`: a run that has
  met no failure has read everything up to where it stands, and everything up to
  every HEAD it means to record. The proof covers any number of workers, so
  `NoHole` does not rest on there being one. Theorems: `BuildInvariant`,
  `NothingSkipped`. With one worker, `OneRun` adds `DirtyIsOwned`: what is
  uncommitted belongs to the run under way, which knows that it changed something
  and has its last commit still before it. Hence `ScreenIsTrue` and `CommitsFirst`.
  `PauseHolds`, an action property, needs no more than typing: `PausedRunGoesOn`
  says that of a run's steps only two begin something (the next chunk, the next
  repository), and that both ask `ShouldStop` first.
* **The phase** (`PhaseProofs`). `WorkerSound`: what the
  worker holds it read from a phase that can since only have been raised, and what
  it lowers by was observed after the last lowering and the look-back.
  `AdvanceSound`: an advance at work has read a phase that can since only have
  been lowered, so it writes above what holds. The two support each other: the
  worker's gate stays licensed because advances only raise, and advances only
  raise because nobody but the worker changes the phase in between, which is
  where `OneOperator` is needed. Theorems: `PhaseInvariant`,
  `NothingLooseWhenLowered`, `EvidenceIsSpent` (an action property).
* **Tickets** (`TicketsProofs`). That a closed ticket's resolution is confirmed
  could fail in two ways: it was not when the ticket closed, or a late draft took
  the confirmation away. Against the first, `JobSound` says that what is about to be
  closed is confirmed, also for handlers that overlap, as a row goes back to a draft
  only where it was none or the ticket had closed by itself. Against the second,
  `ListSound`: what is left of a list the drafts work off still has no row, or its
  ticket had closed by itself, which is an end state. Hence `ClosingLosesNothing`.
  Under `apart`, `ApartSound` says that what a handler has read of its ticket is
  still so; hence `NoStepUndoes` (an action property) and `DecisionsHold`. The
  latter needs `Distinct`, and `SavedIsThere`: the item about to be recorded is in
  its file. Theorems: these and `TicketsInvariant`.
* **Content** (`ContentProofs`). `JobSound`: a handler about to open a row, call or
  mark holds an approved draft, about to call one on record, and about to mark one
  the parent has accepted. It stands while other handlers run because an approved
  draft never becomes anything else and a row never disappears. Theorems:
  `NothingUnapprovedIsOut` and `JudgementsStand` (an action property).

  `ReviewerSeesTheChange` is about versions. The model chooses the version a draft
  is written on by `CHOOSE` of the newest, so the proof first needs that there is one:
  `Numbered` (judgements have different numbers) and `Ordered`. `Writing` then says
  that while the worker asks the model nothing of that type waits for judgement, so
  that the version it began with is still the newest when it saves.

  `WhatIsOutIsInOrder` adds what holds when handlers keep apart: `Exclusive` (no two
  work on one type), `Solo` (the row the handler knows is the row there is), and,
  without faults, `InHand`: an approved document is out, or it is the newest version
  and somebody has it in hand. So an older version can never go out after a newer one.
* **Knowledge** (`KnowledgeProofs`). Three invariants, one on the other. `Sound` counts
  tickets: one for every open row and one for every request about to close one
  (`Counted`, with cardinalities of the requests); hence `RowsHaveOneTicket`.

  `Tidy` is about marks and edits where people edit between ticks. What a run or
  Lint has read is what lies in the tree (`InStep`), what people committed is flagged
  and lies there (`Flagged`), and of the commits an item was written from there is a
  last one (`Dated`), without which "left behind" would mean nothing. `ListRight` splits
  `MarksAreRight` over the loop of Lint: what is left behind is marked or still on the
  list. Hence `LintMarksRightly` and `EditsAreKept` (an action property).

  `Propagated` is about answers and holds also while people edit: from the scan of
  the stale items to the draft of a correction no new mark appears, and a candidate
  that is open lists all that is stale behind its answer. Hence
  `CorrectionsAreFresh` (an action property).
* **Retention** (`ServicesProofs`). The list of what expires is read and then
  deleted from, with people in between. `TargetsAreDone`: what was listed is still
  something nobody waits for when it is deleted, as no click leads out of a closed
  state into one that needs the text. `DraftedInTime` and `ReadInTime` tie what is
  done to the place of the tick: behind the drafts, an answer without resolution
  belongs to an item that is open again; behind ingest, an answer that could be
  read was read, is in `left`, or belongs to an item that is open again. Hence
  `ReadBeforeExpired`, an action property: a text goes unread only in a tick whose
  ingest had it and left it. It assumes nothing of ingest, neither that it is not
  paused nor that the model answers; `TextWaits` keeps its hypothesis `llm = "up"`
  for the drafts of resolutions alone.
  Theorems: `RetentionInvariant`, `TextWaits`, `ReadFirst`.
* **Alerts** (`ServicesProofs`). Nothing waits that is marked or just posted, and what
  was told is marked, or just posted, or the worker died in between: told at most
  once more than it died. Theorem: `SituationToldOnce`.
* **Endpoint** (`ServicesProofs`). `Saving`: whatever is being saved passed the
  policy, and while `orderly` holds it is the row. So after a save that ran alone
  the file, if it is not the row, is one whose write failed, and that was shown -
  whatever overlapping, cut off or failed saves came before. While saves overlap
  only the part about the policy is claimed. Theorem: `OldFileNeverSilent`.
* **Answer** (`ServicesProofs`). What the gate lets out by itself says no number the
  grounding lacks, rests on fresh items and was passed, for every vocabulary, every
  knowledge and whatever the model says. Each stage hands on what the next one
  needs: once there is something to render its grounding is not empty and was found
  (`DraftRests`), and "passed" is only said of what is still in order
  (`PassedInOrder`). Theorem: `OnlyBackedGoesOut`. For `SilenceHasAReason`, one
  matching word gives an item a score above 0 (`MatchScores`), something of the best
  score is always among the hits, and ranking leaves something of what it was given:
  where the search came back empty, nothing matched.

Every safety property of the passing runs, invariant or action property, is stated
by a theorem (of `ConsoleIsObeyed` the part `PauseStopsReading`). Model-checked only
are the liveness properties (`MarkIsNeverLost`, `SettlesOrWaits`, `ConsoleIsObeyed`,
`EverythingIsRead`, `ReplyReopens`, `EntryIsDrafted`, `ApprovedGoesOut`,
`ChangeIsWrittenUp`, `ChangeReachesAnswer`, `OldTextGoes`, `ApprovalIsRechecked`,
`NeglectIsTold`), as the prover has neither ENABLED nor fairness; so would induction
over data and RECURSIVE operators be, of which these modules have none.

## 5. What is abstracted

Bodies, prompts, groundings and reasons; which questions are similar and which
items are stale (a free choice); wording of screens; SQLite itself (a transaction
is a step, and so are the reads a handler does in a row before its next write;
a database lock that makes a writer wait is not a state); HTTP (a call
acts and answers, acts and its answer is lost, or fails). Time is the day in
`Phase`, an order of words in `QnaTracking`, and old or not elsewhere. The race of
two first reads of a new database that both sow the phase is left out: both write
the same row.

In `Tickets`: what a resolution says (`confirm` rewrites the row it read, so it may
put back the wording of the draft before), the order of the lists, and how the
conditions of automatic promotion are read, which is a free choice of tickets.

In `Content`: what a text says, how repeats, observations and totals of a period
are counted. In `Knowledge`: renamed and broken files, a cursor whose commit no
longer exists, several paths behind one item; the index is rebuilt in one step. In
`Retention`: one answer, draft and ticket per item, the verdict of a sample, and of
the approvals of other items and of content all but the places they take. In `Alerts`: ages, but for their order. In `Answer`: the order of hits
and their ties, languages, list markers, how many similar questions are shown; the
knowledge stands still during one answer.

## 6. Not modelled, and what is left to do

Not modelled: migrations and startup (run by hand, one process, before anything
else; a wrong schema refuses to start), the calls of models and the command line
(pure I/O), the screens' wording and counts (`web/metrics.py`, `web/dashboard.py`
only read), sessions and login, `llm/arbiter.py` beyond its call sites (its
`yield_if_needed` has no caller), the statistics, periods and observations that
content is produced from, the output filter of the agent.

Left to do, in this order:

1. **Proofs**: abstract specifications of further components, with the refinement
   proved as for the exit: the build (a cursor as a mark on a list that is read in
   order), content (as `AnswerExit`, with versions), tickets (a ticket and the item it
   becomes). `EverythingIsRead` and its like split into the safety facts they rest
   on, so that only the fairness is left to TLC.
2. **Content**: the observations and periods that make a type due, as operators
   against a reference definition.
3. **Algorithms**: audience and output filter over bounded texts.
4. **Recheck** of content judgements, which joins `Retention` and `Content`.
