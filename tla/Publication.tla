---------------------------- MODULE Publication ----------------------------
(***************************************************************************)
(* The one exit of the service (pipeline/publication.py) and the drafts    *)
(* that leave through it (pipeline/draft_store.py): how an answer draft is *)
(* saved, judged, recorded and posted to the parent system by the batch    *)
(* worker and by the threads of the operator's web process.  They share    *)
(* one SQLite database, in which only a committed transaction is visible   *)
(* to the others, and the parent system, which is called with no           *)
(* transaction open.                                                       *)
(*                                                                         *)
(* A step of a handler is what it does between two points at which another *)
(* handler can come between: one committed transaction, one read, or one   *)
(* call of the parent system.  Bodies, groundings and reasons are not      *)
(* kept: a post carries the draft it was composed from, or the "confirming"*)
(* notice (Holding).                                                       *)
(***************************************************************************)
EXTENDS Naturals, FiniteSets

CONSTANTS
  Questions,   \* QnA items that have a question in the parent system
  Drafts,      \* identities of answer drafts
  Records,     \* identities of answer records
  Posts,       \* identities the parent system gives to answers
  Worker,      \* the batch worker: its intake, rerun and correction steps
  Web,         \* threads of the web process that serve /queues/Q2/../decide
  Holding,     \* the body of the "confirming" notice
  None,        \* NULL
  MaxFaults,   \* bound: crashes and failed calls in one behaviour
  SettleLive,  \* may the operator settle an attempt that is still running?
  CanReject    \* do the operators reject drafts in this instance?

Handlers == {Worker} \union Web

ASSUME PublicationAssumption ==
  /\ Worker \notin Web
  /\ None \notin Drafts \union Records \union Posts \union Questions
  /\ Holding \notin Drafts \union {None}
  /\ MaxFaults \in Nat
  /\ SettleLive \in BOOLEAN
  /\ CanReject \in BOOLEAN

VARIABLES
  draft,    \* table answer_draft: state, question and the record it corrects
  record,   \* table answer_record: state, draft and post
  notice,   \* table holding_notice: its post, and whether it was filled
  finding,  \* records with an open stale_answer finding
  post,     \* the parent system: question, body and how the post began
  pc,       \* where each handler is
  job,      \* what each handler holds in its local variables
  faults    \* number of crashes and failed calls so far (bounded)

vars == <<draft, record, notice, finding, post, pc, job, faults>>

-----------------------------------------------------------------------------
(* The tables *)

DraftState  == {"unsaved", "pending", "approved", "rejected"}
RecordState == {"unused", "in_flight", "published", "abandoned", "corrected"}
NoticeState == {"none", "open", "filled"}

PC == {"idle", "remake", "judge", "approve", "reject", "publish", "insert", "choose",
       "call", "finish", "hold", "hold_call", "hold_insert"}

DraftRow  == [state : DraftState, qna : Questions \union {None},
              corrects : Records \union {None}]
RecordRow == [state : RecordState, draft : Drafts \union {None},
              post : Posts \union {None}]
NoticeRow == [state : NoticeState, post : Posts \union {None}]
PostRow   == [qna : Questions \union {None},
              body : Drafts \union {Holding, None}, held : BOOLEAN]

\* The draft at hand, the record inserted for it, the post called or chosen,
\* the record being corrected, and whether the post is an open notice.
Job   == [draft : Drafts \union {None}, record : Records \union {None},
          post : Posts \union {None}, old : Records \union {None},
          fills : BOOLEAN]
NoJob == [draft |-> None, record |-> None, post |-> None, old |-> None,
          fills |-> FALSE]

TypeOK ==
  /\ draft \in [Drafts -> DraftRow]
  /\ record \in [Records -> RecordRow]
  /\ notice \in [Questions -> NoticeRow]
  /\ finding \in SUBSET Records
  /\ post \in [Posts -> PostRow]
  /\ pc \in [Handlers -> PC]
  /\ job \in [Handlers -> Job]
  /\ faults \in Nat

Init ==
  /\ draft = [d \in Drafts |->
                [state |-> "unsaved", qna |-> None, corrects |-> None]]
  /\ record = [r \in Records |->
                [state |-> "unused", draft |-> None, post |-> None]]
  /\ notice = [q \in Questions |-> [state |-> "none", post |-> None]]
  /\ finding = {}
  /\ post = [p \in Posts |-> [qna |-> None, body |-> None, held |-> FALSE]]
  /\ pc = [h \in Handlers |-> "idle"]
  /\ job = [h \in Handlers |-> NoJob]
  /\ faults = 0

\* Mutant: an index that does not count attempts.
LiveStateDone == {"published", "corrected"}

\* The states the partial unique index answer_record_one_per_draft counts.
LiveState == {"in_flight", "published", "corrected"}

\* The rows of draft d the index allows at most one of.
LiveRecords(d) ==
  {r \in Records : record[r].draft = d /\ record[r].state \in LiveState}

PendingFor(q) ==
  {d \in Drafts : draft[d].state = "pending" /\ draft[d].qna = q}

PendingCorrections(r) ==
  {d \in Drafts : draft[d].state = "pending" /\ draft[d].corrects = r}

\* Handler h goes from one point to the next; at "idle" it has returned and
\* its local variables are gone.
Goto(h, from, to) ==
  /\ pc[h] = from
  /\ pc' = [pc EXCEPT ![h] = to]

Return(h, from) ==
  /\ Goto(h, from, "idle")
  /\ job' = [job EXCEPT ![h] = NoJob]

\* A handler that has nothing but a draft at hand.
Task(d) == [NoJob EXCEPT !.draft = d]

store == <<draft, record, notice, finding>>

-----------------------------------------------------------------------------
(* The worker: where drafts come from *)

\* intake._queue: draft_store.save commits the draft, so the operators see it
\* before the gate has judged it.  An item is processed when it is admitted
\* or rerun after a follow-up, and a rerun skips an item with a pending draft.
SaveDraft(q, d) ==
  /\ draft[d].state = "unsaved"
  /\ PendingFor(q) = {}
  /\ draft' = [draft EXCEPT ![d] =
                [state |-> "pending", qna |-> q, corrects |-> None]]
  /\ \E to \in {"idle", "judge", "hold"} :   \* no gate, auto, human
       /\ Goto(Worker, "idle", to)
       /\ job' = [job EXCEPT ![Worker] =
                   IF to = "idle" THEN NoJob ELSE Task(d)]
  /\ UNCHANGED <<record, notice, finding, post, faults>>

\* correction.propagate: an item the answer rests on went stale.
OpenFinding(r) ==
  /\ pc[Worker] = "idle"
  /\ record[r].state = "published"
  /\ r \notin finding
  /\ finding' = finding \union {r}
  /\ UNCHANGED <<draft, record, notice, post, pc, job, faults>>

\* Worker._draft_corrections: the ground caught up, so the answer is remade.
\* The candidate is read here ...
StartCorrection(r, d) ==
  /\ r \in finding
  /\ PendingCorrections(r) = {}
  /\ draft[d].state = "unsaved"
  /\ Goto(Worker, "idle", "remake")
  /\ job' = [job EXCEPT ![Worker] = [Task(d) EXCEPT !.old = r]]
  /\ UNCHANGED <<draft, record, notice, finding, post, faults>>

\* ... and the draft that replaces it is saved after the model has written it.
SaveCorrection ==
  LET j == job[Worker] IN
  /\ Return(Worker, "remake")
  /\ draft' = [draft EXCEPT ![j.draft] =
                [state |-> "pending", qna |-> draft[record[j.old].draft].qna,
                 corrects |-> j.old]]
  /\ UNCHANGED <<record, notice, finding, post, faults>>

\* Q5 "ignore": the operator finds the answer still right.
IgnoreFinding(r) ==
  /\ r \in finding
  /\ finding' = finding \ {r}
  /\ UNCHANGED <<draft, record, notice, post, pc, job, faults>>

-----------------------------------------------------------------------------
(* Judging a draft: read its state, then write the judgement *)

\* auto_approve reads; a draft no longer pending is left alone, and publish is
\* called either way.
JudgeAuto ==
  /\ Goto(Worker, "judge",
          IF draft[job[Worker].draft].state = "pending"
          THEN "approve" ELSE "publish")
  /\ UNCHANGED <<draft, record, notice, finding, post, job, faults>>

\* q2_decide reads on behalf of an operator, who may act on a page that is no
\* longer current.  A rejection of a judged draft writes no judgement.
Decide(h, d, approved) ==
  /\ draft[d].state # "unsaved"
  /\ draft[d].state = "pending" \/ approved
  /\ approved \/ CanReject
  /\ Goto(h, "idle", IF draft[d].state # "pending" THEN "publish"
                     ELSE IF approved THEN "approve" ELSE "reject")
  /\ job' = [job EXCEPT ![h] = Task(d)]
  /\ UNCHANGED <<draft, record, notice, finding, post, faults>>

\* The UPDATE of decide and of auto_approve names the draft, not its state.
Approve(h) ==
  /\ Goto(h, "approve", "publish")
  /\ draft' = [draft EXCEPT ![job[h].draft].state = "approved"]
  /\ UNCHANGED <<record, notice, finding, post, job, faults>>

RejectDraft(h) ==
  /\ Return(h, "reject")
  /\ draft' = [draft EXCEPT ![job[h].draft].state = "rejected"]
  /\ UNCHANGED <<record, notice, finding, post, faults>>

-----------------------------------------------------------------------------
(* publish: record first, then post, then confirm *)

\* The checks before the row is written: the draft is approved and no live
\* record is there.  The other refusals (account, pinning) are data.
CheckPublish(h) ==
  LET d == job[h].draft IN
  /\ pc[h] = "publish"
  /\ \/ /\ draft[d].state = "approved"
        /\ LiveRecords(d) = {}
        /\ Goto(h, "publish", "insert")
        /\ UNCHANGED job
     \/ Return(h, "publish")
  /\ UNCHANGED <<draft, record, notice, finding, post, faults>>

\* Mutant: the row is written but committed only after the call.
InsertRecordLate(h) ==
  /\ Goto(h, "insert", "choose")
  /\ LiveRecords(job[h].draft) = {}
  /\ UNCHANGED <<draft, record, notice, finding, post, job, faults>>

\* The row the unique index admits.
InsertRecord(h) ==
  LET d == job[h].draft IN
  /\ Goto(h, "insert", "choose")
  /\ LiveRecords(d) = {}
  /\ \E r \in Records :
       /\ record[r].state = "unused"
       /\ record' = [record EXCEPT ![r] =
                      [state |-> "in_flight", draft |-> d, post |-> None]]
       /\ job' = [job EXCEPT ![h].record = r]
  /\ UNCHANGED <<draft, notice, finding, post, faults>>

\* The row the unique index refuses: IntegrityError leaves the handler.
InsertRefused(h) ==
  /\ Return(h, "insert")
  /\ LiveRecords(job[h].draft) # {}
  /\ UNCHANGED <<draft, record, notice, finding, post, faults>>

\* Mutant: what the call is about to replace is closed before the call.
ChooseTargetEager(h) ==
  LET d == job[h].draft
      r == draft[d].corrects
      q == draft[d].qna
  IN
  /\ Goto(h, "choose", "call")
  /\ IF r # None /\ record[r].state = "published"
     THEN /\ job' = [job EXCEPT ![h].post = record[r].post, ![h].old = r]
          /\ record' = [record EXCEPT ![r].state = "corrected"]
          /\ UNCHANGED notice
     ELSE IF notice[q].state = "open"
     THEN /\ job' = [job EXCEPT ![h].post = notice[q].post, ![h].fills = TRUE]
          /\ notice' = [notice EXCEPT ![q].state = "filled"]
          /\ UNCHANGED record
     ELSE UNCHANGED <<job, record, notice>>
  /\ UNCHANGED <<draft, finding, post, faults>>

\* _correction_target and holding_of: the answer to revise, the notice to
\* fill, or neither.
ChooseTarget(h) ==
  LET d == job[h].draft
      r == draft[d].corrects
      q == draft[d].qna
  IN
  /\ Goto(h, "choose", "call")
  /\ job' = [job EXCEPT ![h] =
       IF r # None /\ record[r].state = "published"
         THEN [@ EXCEPT !.post = record[r].post, !.old = r]
       ELSE IF notice[q].state = "open"
         THEN [@ EXCEPT !.post = notice[q].post, !.fills = TRUE]
       ELSE @]
  /\ UNCHANGED <<draft, record, notice, finding, post, faults>>

\* The parent system carries the draft: on the chosen post, or on a new one.
Shown(h, p) ==
  /\ IF job[h].post = None THEN post[p].body = None ELSE p = job[h].post
  /\ post' = [post EXCEPT ![p].qna = draft[job[h].draft].qna,
                          ![p].body = job[h].draft]

CallParent(h) ==
  /\ Goto(h, "call", "finish")
  /\ \E p \in Posts :
       /\ Shown(h, p)
       /\ job' = [job EXCEPT ![h].post = p]
  /\ UNCHANGED <<draft, record, notice, finding, faults>>

\* The call went through but the answer did not come back.
CallLostReply(h) ==
  /\ faults < MaxFaults
  /\ faults' = faults + 1
  /\ Return(h, "call")
  /\ \E p \in Posts : Shown(h, p)
  /\ UNCHANGED store

\* Mutant: the answer a correction replaced is closed as not out.
FinishPublishDrops(h) ==
  LET j == job[h] IN
  /\ Return(h, "finish")
  /\ record' = [r \in Records |->
       IF r = j.old THEN [record[r] EXCEPT !.state = "abandoned"]
       ELSE IF r = j.record
         THEN [record[r] EXCEPT !.state = "published", !.post = j.post]
       ELSE record[r]]
  /\ finding' = finding \ {j.old}
  /\ UNCHANGED <<draft, notice, post, faults>>

\* The closing transaction of publish.
FinishPublish(h) ==
  LET j == job[h] IN
  /\ Return(h, "finish")
  /\ record' = [r \in Records |->
       IF r = j.old THEN [record[r] EXCEPT !.state = "corrected"]
       ELSE IF r = j.record
         THEN [record[r] EXCEPT !.state = "published", !.post = j.post]
       ELSE record[r]]
  /\ finding' = finding \ {j.old}
  /\ notice' = IF j.fills
               THEN [notice EXCEPT ![draft[j.draft].qna].state = "filled"]
               ELSE notice
  /\ UNCHANGED <<draft, post, faults>>

-----------------------------------------------------------------------------
(* hold: keep a place with the "confirming" notice *)

CheckHold ==
  LET q == draft[job[Worker].draft].qna IN
  /\ pc[Worker] = "hold"
  /\ \/ /\ notice[q].state # "open"
        /\ Goto(Worker, "hold", "hold_call")
        /\ UNCHANGED job
     \/ Return(Worker, "hold")
  /\ UNCHANGED <<draft, record, notice, finding, post, faults>>

PlaceHeld(p) ==
  /\ post[p].body = None
  /\ post' = [post EXCEPT ![p] = [qna |-> draft[job[Worker].draft].qna,
                                  body |-> Holding, held |-> TRUE]]

CallHold ==
  /\ Goto(Worker, "hold_call", "hold_insert")
  /\ \E p \in Posts :
       /\ PlaceHeld(p)
       /\ job' = [job EXCEPT ![Worker].post = p]
  /\ UNCHANGED <<draft, record, notice, finding, faults>>

HoldLostReply ==
  /\ faults < MaxFaults
  /\ faults' = faults + 1
  /\ Return(Worker, "hold_call")
  /\ \E p \in Posts : PlaceHeld(p)
  /\ UNCHANGED store

\* The primary key of holding_notice is the question: a second row, even after
\* the first was filled, is an IntegrityError.
InsertHold ==
  LET q == draft[job[Worker].draft].qna IN
  /\ Return(Worker, "hold_insert")
  /\ notice' = IF notice[q].state # "none" THEN notice
               ELSE [notice EXCEPT ![q] =
                      [state |-> "open", post |-> job[Worker].post]]
  /\ UNCHANGED <<draft, record, finding, post, faults>>

-----------------------------------------------------------------------------
(* Failures and the operator who clears them up *)

\* The process dies, or an exception ends the handler: a call that never
\* reached the parent, a lock that was not obtained.
Fail(h) ==
  /\ faults < MaxFaults
  /\ faults' = faults + 1
  /\ pc[h] # "idle"
  /\ Return(h, pc[h])
  /\ UNCHANGED <<draft, record, notice, finding, post>>

Running(r) == \E h \in Handlers : job[h].record = r

\* settle: the operator looks at the parent system and says what is there.
SettlePublished(r, p) ==
  /\ record[r].state = "in_flight"
  /\ SettleLive \/ ~Running(r)
  /\ post[p].body = record[r].draft
  /\ record' = [record EXCEPT ![r].state = "published", ![r].post = p]
  /\ UNCHANGED <<draft, notice, finding, post, pc, job, faults>>

SettleAbandoned(r) ==
  /\ record[r].state = "in_flight"
  /\ SettleLive \/ ~Running(r)
  /\ \A p \in Posts : post[p].body # record[r].draft
  /\ record' = [record EXCEPT ![r].state = "abandoned"]
  /\ UNCHANGED <<draft, notice, finding, post, pc, job, faults>>

-----------------------------------------------------------------------------

WorkerNext ==
  \/ \E q \in Questions, d \in Drafts : SaveDraft(q, d)
  \/ \E r \in Records : OpenFinding(r)
  \/ \E r \in Records, d \in Drafts : StartCorrection(r, d)
  \/ SaveCorrection
  \/ JudgeAuto
  \/ CheckHold
  \/ CallHold
  \/ HoldLostReply
  \/ InsertHold

WebNext ==
  \/ \E h \in Web, d \in Drafts, approved \in BOOLEAN : Decide(h, d, approved)
  \/ \E h \in Web : RejectDraft(h)
  \/ \E r \in Records : IgnoreFinding(r)

PublishNext(h) ==
  \/ Approve(h)
  \/ CheckPublish(h)
  \/ InsertRecord(h)
  \/ InsertRefused(h)
  \/ ChooseTarget(h)
  \/ CallParent(h)
  \/ CallLostReply(h)
  \/ FinishPublish(h)
  \/ Fail(h)

OperatorNext ==
  \/ \E r \in Records, p \in Posts : SettlePublished(r, p)
  \/ \E r \in Records : SettleAbandoned(r)

Next ==
  \/ WorkerNext
  \/ WebNext
  \/ \E h \in Handlers : PublishNext(h)
  \/ OperatorNext

Spec == Init /\ [][Next]_vars

-----------------------------------------------------------------------------
(* What the exit promises *)

\* One answer never stands twice at a question (publication.Refusal.IN_FLIGHT:
\* sending again on a guess would hang the same answer twice).
NoDuplicateAnswer ==
  \A p1, p2 \in Posts :
    post[p1].body \in Drafts /\ post[p1].body = post[p2].body => p1 = p2

\* Nothing stands at the parent system that no live record knows of: the
\* order "record, post, confirm" exists to rule that state out.
NoUnrecordedAnswer ==
  \A p \in Posts :
    post[p].body \in Drafts =>
      \E r \in Records : /\ record[r].draft = post[p].body
                         /\ record[r].state # "abandoned"

\* A draft has at most one live record, whatever handlers raced to insert it.
OneLiveRecord ==
  \A r1, r2 \in Records :
    /\ record[r1].draft = record[r2].draft /\ record[r1].draft # None
    /\ "abandoned" \notin {record[r1].state, record[r2].state}
    => r1 = r2

\* A record that says its answer is out names a post that carries an answer:
\* no later step of any handler turns that post back into a notice.
PublishedShowsAnswer ==
  \A r \in Records :
    record[r].state \in {"published", "corrected"} =>
      /\ record[r].post \in Posts
      /\ post[record[r].post].body \in Drafts

\* A corrected record has handed its post over: a published record of another
\* draft stands on it.
CorrectedHasSuccessor ==
  \A r \in Records : record[r].state = "corrected" =>
    \E s \in Records : /\ record[s].state = "published"
                       /\ record[s].post = record[r].post
                       /\ record[s].draft # record[r].draft

\* A filled notice's post carries an answer: it was filled after the call.
FilledShowsAnswer ==
  \A q \in Questions :
    notice[q].state = "filled" => post[notice[q].post].body \in Drafts

\* The rows agree with what stands in the parent system, whatever handlers
\* chose their place before others filled or corrected it.
RowsTellTheParent ==
  PublishedShowsAnswer /\ CorrectedHasSuccessor /\ FilledShowsAnswer

\* Why the three promises above hold: the facts every step keeps while the
\* operator settles only attempts that have ended.

\* Saved drafts have a question; records and busy handlers name saved drafts;
\* only a record that is out has a finding or a handler that corrects it.
Shape ==
  /\ \A d \in Drafts : draft[d].state # "unsaved" => draft[d].qna \in Questions
  /\ \A r \in Records :
       /\ record[r].state = "unused" <=> record[r].draft = None
       /\ record[r].draft \in Drafts => draft[record[r].draft].state # "unsaved"
  /\ \A r \in finding : record[r].state \in {"published", "corrected"}
  /\ \A h \in Handlers : pc[h] # "idle" =>
       /\ job[h].draft \in Drafts
       /\ pc[h] # "remake" => draft[job[h].draft].state # "unsaved"
  /\ \A h \in Handlers : job[h].old # None =>
       record[job[h].old].state \in {"published", "corrected"}
  /\ pc[Worker] = "remake" => job[Worker].old # None

\* A handler between its INSERT and its closing UPDATE owns an in-flight record
\* of its draft, and until its call is through that answer stands nowhere.
Attempts ==
  /\ \A h \in Handlers :
       IF pc[h] \in {"choose", "call", "finish"}
       THEN /\ job[h].record \in Records
            /\ record[job[h].record].state = "in_flight"
            /\ record[job[h].record].draft = job[h].draft
       ELSE job[h].record = None
  /\ \A h1, h2 \in Handlers :
       job[h1].record = job[h2].record /\ job[h1].record # None => h1 = h2
  /\ \A h \in Handlers : pc[h] \in {"choose", "call"} =>
       \A p \in Posts : post[p].body # job[h].draft

IndInv ==
  /\ TypeOK
  /\ Shape
  /\ Attempts
  /\ OneLiveRecord
  /\ NoUnrecordedAnswer
  /\ NoDuplicateAnswer

\* The tables and the parent system implement the contract of AnswerExit.
Ledger == [d \in Drafts |->
  CASE LiveRecords(d) = {} -> "none"
    [] \E r \in LiveRecords(d) : record[r].state = "in_flight" -> "open"
    [] OTHER -> "out"]

Standing == [p \in Posts |-> IF post[p].body = Holding THEN None
                             ELSE post[p].body]

Exit == INSTANCE AnswerExit WITH
          NoAnswer <- None, ledger <- Ledger, standing <- Standing

KeepsExitContract == Exit!Spec

-----------------------------------------------------------------------------
(* What its comments promise and the code does not keep *)

\* A rejected draft is not out (publication.Refusal.NOT_APPROVED).
RejectedIsNotOut ==
  \A p \in Posts, d \in Drafts :
    post[p].body = d => draft[d].state # "rejected"

\* hold keeps one place per question: a later wait reuses it.
OneHeldPlace ==
  \A p1, p2 \in Posts :
    /\ post[p1].held /\ post[p2].held
    /\ post[p1].qna = post[p2].qna
    => p1 = p2

\* A correction revises the answer it corrects and opens no post of its own.
CorrectionInPlace ==
  \A p \in Posts, d \in Drafts :
    post[p].body = d /\ draft[d].corrects # None =>
      record[draft[d].corrects].post = p

\* A post that changed hands has one published record, the last one.
OnePublishedPerPost ==
  \A r1, r2 \in Records :
    /\ {record[r1].state, record[r2].state} = {"published"}
    /\ record[r1].post = record[r2].post
    => r1 = r2

\* Failures converge on a person's queue: once nobody is working on it, an
\* approved draft has a record, out or unsettled.
ApprovedIsSomewhere ==
  \A d \in Drafts :
    draft[d].state = "approved" =>
      \/ \E h \in Handlers : job[h].draft = d
      \/ \E r \in Records : record[r].draft = d

=============================================================================
