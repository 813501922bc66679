------------------------- MODULE PublicationProofs -------------------------
(***************************************************************************)
(* For any number of drafts, records, posts, questions and web threads,    *)
(* and any number of faults: while the operator settles only attempts that *)
(* have ended, an answer never stands twice and never without a record,    *)
(* the rows tell what stands in the parent system, and the exit implements *)
(* the contract of AnswerExit.                                             *)
(***************************************************************************)
EXTENDS Publication, TLAPS

\* What is said of the records and the posts alone.
Safe == OneLiveRecord /\ NoUnrecordedAnswer /\ NoDuplicateAnswer

\* The rows handlers put in their local variables.
LEMMA JobRows ==
  /\ NoJob \in Job
  /\ NoJob.draft = None /\ NoJob.record = None /\ NoJob.old = None
  /\ \A d \in Drafts : /\ Task(d) \in Job
                       /\ Task(d).draft = d
                       /\ Task(d).record = None
                       /\ Task(d).old = None
  /\ \A d \in Drafts, r \in Records :
       /\ [Task(d) EXCEPT !.old = r] \in Job
       /\ [Task(d) EXCEPT !.old = r].draft = d
       /\ [Task(d) EXCEPT !.old = r].record = None
       /\ [Task(d) EXCEPT !.old = r].old = r
BY DEF NoJob, Task, Job

\* The values that are read from a well-typed row.
LEMMA RowFields ==
  /\ \A x \in Job : /\ x.draft \in Drafts \union {None}
                    /\ x.record \in Records \union {None}
                    /\ x.post \in Posts \union {None}
                    /\ x.old \in Records \union {None}
                    /\ x.fills \in BOOLEAN
  /\ \A x \in DraftRow : /\ x.state \in DraftState
                         /\ x.qna \in Questions \union {None}
                         /\ x.corrects \in Records \union {None}
  /\ \A x \in RecordRow : /\ x.state \in RecordState
                          /\ x.draft \in Drafts \union {None}
                          /\ x.post \in Posts \union {None}
BY DEF Job, DraftRow, RecordRow

\* Before any draft is written nothing stands, is held or is corrected.
LEMMA InitIndInv == Init => IndInv
<1> SUFFICES ASSUME Init PROVE IndInv
  OBVIOUS
<1> USE PublicationAssumption DEF Init
<1>1. TypeOK
  <2>1. NoJob \in Job
    BY JobRows
  <2> QED BY <2>1 DEF TypeOK, DraftRow, RecordRow, NoticeRow, PostRow,
             DraftState, RecordState, NoticeState, PC
<1>2. Shape
  BY JobRows DEF Shape, Handlers
<1>3. Attempts
  BY DEF Attempts, NoJob
<1>4. OneLiveRecord /\ NoUnrecordedAnswer /\ NoDuplicateAnswer
  BY DEF OneLiveRecord, NoUnrecordedAnswer, NoDuplicateAnswer
<1> QED BY <1>1, <1>2, <1>3, <1>4 DEF IndInv

\* A step that touches neither the records nor the posts keeps what is said of
\* them alone.
LEMMA SafeKept ==
  ASSUME Safe, UNCHANGED <<record, post>> PROVE Safe'
BY DEF Safe, OneLiveRecord, NoUnrecordedAnswer, NoDuplicateAnswer

\* A new draft has no record, no handler and no answer.
LEMMA SaveDraftStep ==
  ASSUME IndInv, NEW q \in Questions, NEW d \in Drafts, SaveDraft(q, d)
  PROVE  IndInv'
<1> USE PublicationAssumption, JobRows DEF IndInv
<1>a. PICK to \in {"idle", "judge", "hold"} :
         /\ pc[Worker] = "idle"
         /\ pc' = [pc EXCEPT ![Worker] = to]
         /\ job' = [job EXCEPT ![Worker] =
                      IF to = "idle" THEN NoJob ELSE Task(d)]
  BY DEF SaveDraft, Goto
<1>b. /\ draft[d].state = "unsaved"
      /\ draft' = [draft EXCEPT ![d] =
                    [state |-> "pending", qna |-> q, corrects |-> None]]
      /\ UNCHANGED <<record, notice, finding, post, faults>>
  BY DEF SaveDraft
<1>1. TypeOK'
  <2>1. draft' \in [Drafts -> DraftRow]
    BY <1>b DEF TypeOK, DraftRow, DraftState
  <2> QED BY <1>a, <1>b, <2>1 DEF TypeOK, PC
<1>2. Shape'
  BY <1>a, <1>b DEF TypeOK, Shape, Handlers
<1>3. Attempts'
  BY <1>a, <1>b DEF TypeOK, Attempts, Handlers
<1> QED BY <1>1, <1>2, <1>3, <1>b, SafeKept DEF Safe

\* The pipeline only looks at what it may correct.
LEMMA StartCorrectionStep ==
  ASSUME IndInv, NEW r \in Records, NEW d \in Drafts, StartCorrection(r, d)
  PROVE  IndInv'
<1> USE PublicationAssumption, JobRows DEF IndInv, StartCorrection, Goto
<1>1. TypeOK'
  BY DEF TypeOK, PC
<1>2. Shape'
  BY DEF TypeOK, Shape, Handlers
<1>3. Attempts'
  BY DEF TypeOK, Attempts, Handlers
<1> QED BY <1>1, <1>2, <1>3, SafeKept DEF Safe

\* A correction is saved as a draft like any other.
LEMMA SaveCorrectionStep ==
  ASSUME IndInv, SaveCorrection
  PROVE  IndInv'
<1> USE PublicationAssumption, JobRows DEF IndInv, SaveCorrection, Return, Goto
<1> DEFINE j == job[Worker]
           q == draft[record[j.old].draft].qna
<1>a. j.draft \in Drafts /\ j.old \in Records /\ q \in Questions
  BY RowFields DEF TypeOK, Shape, Handlers
<1>1. TypeOK'
  <2>1. [state |-> "pending", qna |-> q, corrects |-> j.old] \in DraftRow
    BY <1>a DEF DraftRow, DraftState
  <2> QED BY <1>a, <2>1 DEF TypeOK, PC
<1>2. Shape'
  BY SMTT(30), <1>a DEF TypeOK, Shape, Handlers
<1>3. Attempts'
  BY DEF TypeOK, Attempts, Handlers
<1> QED BY <1>1, <1>2, <1>3, SafeKept DEF Safe

\* A finding of the lint changes what is ready, not what is published.
LEMMA FindingStep ==
  ASSUME IndInv, NEW r \in Records, OpenFinding(r) \/ IgnoreFinding(r)
  PROVE  IndInv'
<1> USE PublicationAssumption DEF IndInv, OpenFinding, IgnoreFinding
<1>1. TypeOK'
  BY DEF TypeOK
<1>2. Shape'
  BY DEF TypeOK, Shape
<1>3. Attempts'
  BY DEF Attempts
<1> QED BY <1>1, <1>2, <1>3, SafeKept DEF Safe

\* A handler that returns, whatever the reason, and leaves the tables alone
\* but for notices.
LEMMA ReturnKeeps ==
  ASSUME IndInv, NEW h \in Handlers, NEW from, Return(h, from),
         UNCHANGED <<draft, record, finding, post>>,
         notice' \in [Questions -> NoticeRow], faults' \in Nat
  PROVE  IndInv'
<1> USE PublicationAssumption, JobRows DEF IndInv, Return, Goto
<1>1. TypeOK'
  BY DEF TypeOK, PC
<1>2. Shape'
  BY DEF TypeOK, Shape
<1>3. Attempts'
  BY DEF TypeOK, Attempts
<1> QED BY <1>1, <1>2, <1>3, SafeKept DEF Safe

\* The automatic verdict on a draft starts at most one handler.
LEMMA JudgeAutoStep ==
  ASSUME IndInv, JudgeAuto
  PROVE  IndInv'
<1> USE PublicationAssumption DEF IndInv, JudgeAuto, Goto
<1>1. TypeOK'
  BY DEF TypeOK, PC
<1>2. Shape'
  BY DEF TypeOK, Shape, Handlers
<1>3. Attempts'
  BY DEF TypeOK, Attempts, Handlers
<1> QED BY <1>1, <1>2, <1>3, SafeKept DEF Safe

\* What a person decides reaches only drafts that wait for a decision.
LEMMA DecideStep ==
  ASSUME IndInv, NEW h \in Web, NEW d \in Drafts, NEW approved \in BOOLEAN,
         Decide(h, d, approved)
  PROVE  IndInv'
<1> USE PublicationAssumption, JobRows DEF IndInv
<1>a. PICK to \in {"publish", "approve", "reject"} : Goto(h, "idle", to)
  BY DEF Decide
<1>b. /\ draft[d].state # "unsaved"
      /\ job' = [job EXCEPT ![h] = Task(d)]
      /\ UNCHANGED <<draft, record, notice, finding, post, faults>>
  BY DEF Decide
<1> USE <1>a, <1>b DEF Goto
<1>1. TypeOK'
  BY DEF TypeOK, PC, Handlers
<1>2. Shape'
  BY DEF TypeOK, Shape, Handlers
<1>3. Attempts'
  BY DEF TypeOK, Attempts, Handlers
<1> QED BY <1>1, <1>2, <1>3, SafeKept DEF Safe

\* A judgement changes the state of one draft, and no draft's question.
LEMMA JudgedRow ==
  ASSUME TypeOK, NEW d \in Drafts, NEW s \in DraftState, s # "unsaved",
         draft' = [draft EXCEPT ![d].state = s]
  PROVE  /\ draft' \in [Drafts -> DraftRow]
         /\ \A e \in Drafts :
              /\ draft'[e].qna = draft[e].qna
              /\ draft[e].state # "unsaved" => draft'[e].state # "unsaved"
<1> DEFINE row == [draft[d] EXCEPT !.state = s]
<1>1. draft \in [Drafts -> DraftRow] /\ draft[d] \in DraftRow
  BY DEF TypeOK
<1>2. row \in DraftRow /\ row.qna = draft[d].qna /\ row.state = s
  BY <1>1 DEF DraftRow
<1>3. draft' = [draft EXCEPT ![d] = row]
  OBVIOUS
<1> HIDE DEF row
<1> QED BY <1>1, <1>2, <1>3

\* An approval starts a handler that holds nothing yet.
LEMMA ApproveStep ==
  ASSUME IndInv, NEW h \in Handlers, Approve(h)
  PROVE  IndInv'
<1> USE PublicationAssumption DEF IndInv, Approve, Goto
<1>a. job[h].draft \in Drafts /\ draft[job[h].draft].state # "unsaved"
  BY DEF Shape
<1>b. /\ draft' \in [Drafts -> DraftRow]
      /\ \A d \in Drafts :
           /\ draft'[d].qna = draft[d].qna
           /\ draft[d].state # "unsaved" => draft'[d].state # "unsaved"
  <2>1. "approved" \in DraftState
    BY DEF DraftState
  <2> QED BY <1>a, <2>1, JudgedRow
<1>1. TypeOK'
  BY <1>b DEF TypeOK, PC
<1>2. Shape'
  BY <1>b DEF TypeOK, Shape, Handlers
<1>3. Attempts'
  BY DEF TypeOK, Attempts
<1> QED BY <1>1, <1>2, <1>3, SafeKept DEF Safe

\* A rejection writes to no record.
LEMMA RejectStep ==
  ASSUME IndInv, NEW h \in Handlers, RejectDraft(h)
  PROVE  IndInv'
<1> USE PublicationAssumption, JobRows DEF IndInv, RejectDraft, Return, Goto
<1>a. job[h].draft \in Drafts /\ draft[job[h].draft].state # "unsaved"
  BY DEF Shape
<1>b. /\ draft' \in [Drafts -> DraftRow]
      /\ \A d \in Drafts :
           /\ draft'[d].qna = draft[d].qna
           /\ draft[d].state # "unsaved" => draft'[d].state # "unsaved"
  <2>1. "rejected" \in DraftState
    BY DEF DraftState
  <2> QED BY <1>a, <2>1, JudgedRow
<1>1. TypeOK'
  BY <1>b DEF TypeOK, PC
<1>2. Shape'
  BY <1>b DEF TypeOK, Shape, Handlers
<1>3. Attempts'
  BY DEF TypeOK, Attempts
<1> QED BY <1>1, <1>2, <1>3, SafeKept DEF Safe

\* The checks before the record only read.
LEMMA CheckPublishStep ==
  ASSUME IndInv, NEW h \in Handlers, CheckPublish(h)
  PROVE  IndInv'
<1> USE PublicationAssumption DEF IndInv
<1>1. CASE Return(h, "publish")
  BY <1>1, ReturnKeeps DEF CheckPublish, TypeOK
<1>2. CASE Goto(h, "publish", "insert") /\ UNCHANGED job
  <2> USE <1>2 DEF CheckPublish, Goto
  <2>1. TypeOK'
    BY DEF TypeOK, PC
  <2>2. Shape'
    BY DEF TypeOK, Shape
  <2>3. Attempts'
    BY DEF TypeOK, Attempts
  <2> QED BY <2>1, <2>2, <2>3, SafeKept DEF Safe
<1> QED BY <1>1, <1>2 DEF CheckPublish

\* A record is written before its answer, and only one of them is live.
LEMMA InsertRecordStep ==
  ASSUME IndInv, NEW h \in Handlers, InsertRecord(h)
  PROVE  IndInv'
<1> USE PublicationAssumption DEF IndInv
<1> DEFINE d == job[h].draft
<1>0. PICK r \in Records :
         /\ record[r].state = "unused"
         /\ record' = [record EXCEPT ![r] =
                        [state |-> "in_flight", draft |-> d, post |-> None]]
         /\ job' = [job EXCEPT ![h].record = r]
  BY DEF InsertRecord
<1>a. /\ pc[h] = "insert"
      /\ pc' = [pc EXCEPT ![h] = "choose"]
      /\ LiveRecords(d) = {}
      /\ UNCHANGED <<draft, notice, finding, post, faults>>
  BY DEF InsertRecord, Goto
<1>b. d \in Drafts
  BY <1>a DEF Shape
\* The index admits the row: whatever the draft has had is abandoned ...
<1>c. \A s \in Records : record[s].draft = d => record[s].state = "abandoned"
  BY <1>a, <1>b, RowFields
     DEF LiveRecords, LiveState, TypeOK, RecordState, Shape
\* ... and so its answer stands nowhere.
<1>d. \A p \in Posts : post[p].body # d
  BY <1>b, <1>c DEF NoUnrecordedAnswer
<1>1. TypeOK'
  <2>1. record' \in [Records -> RecordRow]
    BY <1>0, <1>b DEF TypeOK, RecordRow, RecordState
  <2>2. job' \in [Handlers -> Job]
    BY SMTT(30), <1>0 DEF TypeOK, Job
  <2> QED BY <1>a, <2>1, <2>2 DEF TypeOK, PC
<1>2. Shape'
  BY SMTT(30), <1>0, <1>a, <1>b DEF TypeOK, Shape, Handlers, Job
<1>3. Attempts'
  BY <1>0, <1>a, <1>b, <1>c, <1>d DEF TypeOK, Attempts, Job
<1>4. Safe'
  BY <1>0, <1>a, <1>b, <1>c
     DEF TypeOK, Shape, Safe, OneLiveRecord, NoUnrecordedAnswer,
         NoDuplicateAnswer
<1> QED BY <1>1, <1>2, <1>3, <1>4 DEF Safe

\* A handler takes a place that is its own, or the place it corrects.
LEMMA ChooseTargetStep ==
  ASSUME IndInv, NEW h \in Handlers, ChooseTarget(h)
  PROVE  IndInv'
<1> USE PublicationAssumption DEF IndInv
<1> DEFINE d == job[h].draft
           r == draft[d].corrects
           q == draft[d].qna
           j == job'[h]
<1>a. pc[h] = "choose" /\ pc' = [pc EXCEPT ![h] = "call"]
  BY DEF ChooseTarget, Goto
<1>b. /\ d \in Drafts /\ q \in Questions
      /\ r \in Records \union {None}
  BY <1>a, RowFields DEF Shape, TypeOK
<1>c. /\ job[h] \in Job
      /\ notice[q].post \in Posts \union {None}
      /\ r # None => record[r].post \in Posts \union {None}
  BY <1>b, RowFields DEF TypeOK, NoticeRow
<1>d. /\ j \in Job /\ j.draft = d /\ j.record = job[h].record
      /\ j.old = job[h].old \/ record[j.old].state = "published"
      /\ job' = [job EXCEPT ![h] = j]
  BY <1>b, <1>c DEF ChooseTarget, Job, TypeOK
<1>e. UNCHANGED <<draft, record, notice, finding, post, faults>>
  BY DEF ChooseTarget
<1> HIDE DEF j
<1>1. TypeOK'
  BY <1>a, <1>d, <1>e DEF TypeOK, PC
<1>2. Shape'
  BY <1>a, <1>d, <1>e DEF TypeOK, Shape
<1>3. Attempts'
  BY <1>a, <1>d, <1>e DEF TypeOK, Attempts
<1> QED BY <1>1, <1>2, <1>3, <1>e, SafeKept DEF Safe

\* The call itself: handler h has the answer of its draft put up on p, and
\* goes on to close the record or is gone.
LEMMA ShownKeeps ==
  ASSUME IndInv, NEW h \in Handlers, NEW p \in Posts,
         pc[h] = "call", Shown(h, p),
         UNCHANGED <<draft, record, notice, finding>>,
         NEW to \in {"finish", "idle"}, pc' = [pc EXCEPT ![h] = to],
         job' = [job EXCEPT ![h] =
                  IF to = "finish" THEN [job[h] EXCEPT !.post = p] ELSE NoJob],
         faults' \in Nat
  PROVE  IndInv'
<1> USE PublicationAssumption, JobRows DEF IndInv
<1> DEFINE d == job[h].draft
           row == [post[p] EXCEPT !.qna = draft[d].qna, !.body = d]
           j == [job[h] EXCEPT !.post = p]
<1>1. /\ d \in Drafts
      /\ draft[d].qna \in Questions
      /\ job[h].record \in Records
      /\ record[job[h].record].state = "in_flight"
      /\ record[job[h].record].draft = d
      /\ \A s \in Posts : post[s].body # d
  BY DEF Shape, Attempts
<1>2. row \in PostRow /\ row.body = d
  <2>1. post[p] \in PostRow
    BY DEF TypeOK
  <2> QED BY <1>1, <2>1 DEF PostRow
<1>3. post' = [post EXCEPT ![p] = row]
  <2>1. post \in [Posts -> PostRow]
    BY DEF TypeOK
  <2> QED BY ZenonT(40), <2>1 DEF Shown
<1>4. /\ j \in Job /\ j.draft = d
      /\ j.record = job[h].record /\ j.old = job[h].old
  <2>1. job[h] \in Job
    BY DEF TypeOK
  <2> QED BY <2>1 DEF Job
<1>5. job' = [job EXCEPT ![h] = IF to = "finish" THEN j ELSE NoJob]
  OBVIOUS
<1> HIDE DEF row, j
\* No other handler is about to put up the same answer: its record would be
\* the one h owns.
<1>6. \A g \in Handlers :
        pc[g] \in {"choose", "call"} /\ g # h => job[g].draft # d
  BY <1>1 DEF Attempts, OneLiveRecord
<1>7. TypeOK'
  BY <1>2, <1>3, <1>4, <1>5 DEF TypeOK, PC
<1>8. Shape'
  BY <1>4, <1>5 DEF TypeOK, Shape
<1>9. Attempts'
  <2>1. ASSUME NEW g \in Handlers
        PROVE  IF pc'[g] \in {"choose", "call", "finish"}
               THEN /\ job'[g].record \in Records
                    /\ record'[job'[g].record].state = "in_flight"
                    /\ record'[job'[g].record].draft = job'[g].draft
               ELSE job'[g].record = None
    BY <1>1, <1>4, <1>5 DEF TypeOK, Attempts
  <2>2. ASSUME NEW g \in Handlers, NEW g2 \in Handlers,
               job'[g].record = job'[g2].record, job'[g].record # None
        PROVE  g = g2
    BY <2>2, <1>4, <1>5 DEF TypeOK, Attempts
  <2>3. ASSUME NEW g \in Handlers, pc'[g] \in {"choose", "call"},
               NEW s \in Posts
        PROVE  post'[s].body # job'[g].draft
    BY <2>3, <1>2, <1>3, <1>5, <1>6 DEF TypeOK, Attempts
  <2> QED BY <2>1, <2>2, <2>3 DEF Attempts
<1>10. Safe'
  <2>1. OneLiveRecord'
    BY DEF OneLiveRecord
  <2>2. NoUnrecordedAnswer'
    BY <1>1, <1>2, <1>3 DEF NoUnrecordedAnswer, TypeOK
  <2>3. NoDuplicateAnswer'
    BY <1>1, <1>2, <1>3 DEF NoDuplicateAnswer, TypeOK
  <2> QED BY <2>1, <2>2, <2>3 DEF Safe
<1> QED BY <1>7, <1>8, <1>9, <1>10 DEF Safe

\* The parent's answer appears at the place the handler has a record for.
LEMMA CallStep ==
  ASSUME IndInv, NEW h \in Handlers, CallParent(h) \/ CallLostReply(h)
  PROVE  IndInv'
<1>1. CASE CallParent(h)
  <2>1. PICK p \in Posts : Shown(h, p) /\ job' = [job EXCEPT ![h].post = p]
    BY <1>1 DEF CallParent
  <2>2. job' = [job EXCEPT ![h] = [job[h] EXCEPT !.post = p]]
    BY <2>1 DEF IndInv, TypeOK
  <2> QED BY <1>1, <2>1, <2>2, ShownKeeps DEF CallParent, Goto, IndInv, TypeOK
<1>2. CASE CallLostReply(h)
  <2>1. PICK p \in Posts : Shown(h, p)
    BY <1>2 DEF CallLostReply
  <2>2. /\ pc[h] = "call" /\ pc' = [pc EXCEPT ![h] = "idle"]
        /\ job' = [job EXCEPT ![h] = NoJob]
        /\ UNCHANGED <<draft, record, notice, finding>>
        /\ faults' \in Nat
    BY <1>2 DEF CallLostReply, Return, Goto, store, IndInv, TypeOK
  <2>3. job' = [job EXCEPT ![h] =
                 IF "idle" = "finish" THEN [job[h] EXCEPT !.post = p] ELSE NoJob]
    BY <2>2
  <2> QED BY <2>1, <2>2, <2>3, ShownKeeps
<1> QED BY <1>1, <1>2

\* Finishing a handler settles its record and lets its place go.
LEMMA FinishStep ==
  ASSUME IndInv, NEW h \in Handlers, FinishPublish(h)
  PROVE  IndInv'
<1> USE PublicationAssumption, JobRows DEF IndInv
<1> DEFINE j == job[h]
           q == draft[j.draft].qna
<1>1. /\ pc[h] = "finish" /\ pc' = [pc EXCEPT ![h] = "idle"]
      /\ job' = [job EXCEPT ![h] = NoJob]
      /\ finding' = finding \ {j.old}
      /\ UNCHANGED <<draft, post, faults>>
  BY DEF FinishPublish, Return, Goto
<1>2. /\ j.draft \in Drafts /\ j.record \in Records
      /\ j.post \in Posts \union {None}
      /\ record[j.record].state = "in_flight"
  BY <1>1, RowFields DEF Shape, Attempts, TypeOK
\* Only the states and posts of records change, no record is abandoned, and
\* those of other handlers stay in flight.
<1>3. /\ record' \in [Records -> RecordRow]
      /\ \A r \in Records :
           /\ record'[r].draft = record[r].draft
           /\ record[r].state = "unused" <=> record'[r].state = "unused"
           /\ record[r].state \in {"published", "corrected"} =>
                record'[r].state \in {"published", "corrected"}
           /\ record'[r].state = "abandoned" <=> record[r].state = "abandoned"
           /\ r # j.record /\ record[r].state = "in_flight" =>
                record'[r].state = "in_flight"
  <2>1. ASSUME NEW r \in Records
        PROVE  LET c == [record[r] EXCEPT !.state = "corrected"]
                   p == [record[r] EXCEPT !.state = "published", !.post = j.post]
               IN /\ c \in RecordRow /\ p \in RecordRow
                  /\ c.state = "corrected" /\ c.draft = record[r].draft
                  /\ p.state = "published" /\ p.draft = record[r].draft
    <3>1. record[r] \in RecordRow
      BY DEF TypeOK
    <3> QED BY <1>2, <3>1 DEF RecordRow, RecordState
  <2>2. record' = [r \in Records |->
          IF r = j.old THEN [record[r] EXCEPT !.state = "corrected"]
          ELSE IF r = j.record
            THEN [record[r] EXCEPT !.state = "published", !.post = j.post]
          ELSE record[r]]
    BY DEF FinishPublish
  <2>3. /\ record \in [Records -> RecordRow]
        /\ j.old \in Records =>
             record[j.old].state \in {"published", "corrected"}
    BY DEF TypeOK, Shape
  <2> QED BY <1>2, <2>1, <2>2, <2>3
<1>4. notice' \in [Questions -> NoticeRow]
  <2>1. q \in Questions
    BY <1>1, <1>2 DEF Shape
  <2>2. notice \in [Questions -> NoticeRow] /\ notice[q] \in NoticeRow
    BY <2>1 DEF TypeOK
  <2>3. [notice[q] EXCEPT !.state = "filled"] \in NoticeRow
    BY <2>2 DEF NoticeRow, NoticeState
  <2>4. [notice EXCEPT ![q].state = "filled"]
          = [notice EXCEPT ![q] = [notice[q] EXCEPT !.state = "filled"]]
    OBVIOUS
  <2> QED BY <2>1, <2>2, <2>3, <2>4 DEF FinishPublish
<1>5. TypeOK'
  BY <1>1, <1>3, <1>4 DEF TypeOK, PC
<1>6. Shape'
  <2>1. ASSUME NEW g \in Handlers, job'[g].old # None
        PROVE  record'[job'[g].old].state \in {"published", "corrected"}
    BY <1>1, <1>3, <2>1, RowFields DEF TypeOK, Shape
  <2>2. \A r \in Records :
          /\ record'[r].state = "unused" <=> record'[r].draft = None
          /\ record'[r].draft \in Drafts =>
               draft'[record'[r].draft].state # "unsaved"
    BY <1>1, <1>3 DEF Shape
  <2>3. \A r \in finding' : record'[r].state \in {"published", "corrected"}
    BY <1>1, <1>3 DEF TypeOK, Shape
  <2>4. \A g \in Handlers : pc'[g] # "idle" =>
          /\ job'[g].draft \in Drafts
          /\ pc'[g] # "remake" => draft'[job'[g].draft].state # "unsaved"
    BY <1>1 DEF TypeOK, Shape
  <2>5. pc'[Worker] = "remake" => job'[Worker].old # None
    BY <1>1 DEF TypeOK, Shape
  <2> QED BY <1>1, <2>1, <2>2, <2>3, <2>4, <2>5 DEF Shape
<1>7. Attempts'
  BY <1>1, <1>2, <1>3 DEF TypeOK, Attempts
<1>8. Safe'
  BY <1>1, <1>3
     DEF TypeOK, Safe, OneLiveRecord, NoUnrecordedAnswer, NoDuplicateAnswer
<1> QED BY <1>5, <1>6, <1>7, <1>8 DEF Safe

\* The notice that keeps a place: no answer is on it.
LEMMA HeldKeeps ==
  ASSUME IndInv, NEW p \in Posts, PlaceHeld(p),
         UNCHANGED <<draft, record, notice, finding>>,
         pc[Worker] = "hold_call",
         NEW to \in {"hold_insert", "idle"}, pc' = [pc EXCEPT ![Worker] = to],
         NEW j \in Job, job' = [job EXCEPT ![Worker] = j],
         j.record = None,
         j.draft = job[Worker].draft \/ to = "idle",
         j.old = job[Worker].old \/ j.old = None,
         faults' \in Nat
  PROVE  IndInv'
<1> USE PublicationAssumption DEF IndInv
<1>1. post' \in [Posts -> PostRow]
  <2>1. job[Worker].draft \in Drafts
    BY DEF Shape, Handlers
  <2>2. draft[job[Worker].draft].qna \in Questions \union {None}
    BY <2>1, RowFields DEF TypeOK
  <2> QED BY <2>2 DEF PlaceHeld, TypeOK, PostRow
<1>2. \A s \in Posts : post'[s].body = post[s].body \/ post'[s].body = Holding
  BY DEF PlaceHeld, TypeOK
<1>3. TypeOK'
  BY <1>1 DEF TypeOK, PC
<1>4. Shape'
  BY DEF TypeOK, Shape, Handlers
<1>5. Attempts'
  BY <1>2 DEF TypeOK, Attempts, Handlers, Shape
<1>6. Safe'
  BY <1>2 DEF Safe, OneLiveRecord, NoUnrecordedAnswer, NoDuplicateAnswer
<1> QED BY <1>3, <1>4, <1>5, <1>6 DEF Safe

\* A place that is held shows that the answer is on its way.
LEMMA HoldStep ==
  ASSUME IndInv, CheckHold \/ CallHold \/ HoldLostReply \/ InsertHold
  PROVE  IndInv'
<1> USE PublicationAssumption DEF IndInv
<1>1. CASE CheckHold
  <2>1. CASE Return(Worker, "hold")
    BY <1>1, <2>1, ReturnKeeps DEF CheckHold, TypeOK, Handlers
  <2>2. CASE Goto(Worker, "hold", "hold_call") /\ UNCHANGED job
    <3> USE <1>1, <2>2 DEF CheckHold, Goto
    <3>1. TypeOK'
      BY DEF TypeOK, PC
    <3>2. Shape'
      BY ZenonT(40) DEF TypeOK, Shape
    <3>3. Attempts'
      BY DEF TypeOK, Attempts
    <3> QED BY <3>1, <3>2, <3>3, SafeKept DEF Safe
  <2> QED BY <1>1, <2>1, <2>2 DEF CheckHold
<1>2. CASE CallHold
  <2>1. PICK p \in Posts :
          PlaceHeld(p) /\ job' = [job EXCEPT ![Worker].post = p]
    BY <1>2 DEF CallHold
  <2>2. /\ pc[Worker] = "hold_call"
        /\ pc' = [pc EXCEPT ![Worker] = "hold_insert"]
        /\ UNCHANGED <<draft, record, notice, finding, faults>>
    BY <1>2 DEF CallHold, Goto
  <2> DEFINE j == [job[Worker] EXCEPT !.post = p]
  <2>3. job \in [Handlers -> Job] /\ job[Worker] \in Job
    BY DEF TypeOK, Handlers
  <2>4. /\ j \in Job /\ j.draft = job[Worker].draft
        /\ j.record = job[Worker].record /\ j.old = job[Worker].old
    BY <2>3 DEF Job
  <2>5. job' = [job EXCEPT ![Worker] = j]
    BY <2>1, <2>3
  <2>6. job[Worker].record = None
    BY <2>2 DEF Attempts, Handlers
  <2>7. faults' \in Nat
    BY <2>2 DEF TypeOK
  <2> HIDE DEF j
  <2> QED BY <2>1, <2>2, <2>4, <2>5, <2>6, <2>7, HeldKeeps
<1>3. CASE HoldLostReply
  <2>1. PICK p \in Posts : PlaceHeld(p)
    BY <1>3 DEF HoldLostReply
  <2>2. /\ pc[Worker] = "hold_call"
        /\ pc' = [pc EXCEPT ![Worker] = "idle"]
        /\ job' = [job EXCEPT ![Worker] = NoJob]
        /\ UNCHANGED <<draft, record, notice, finding>>
        /\ faults' \in Nat
    BY <1>3 DEF HoldLostReply, Return, Goto, store, TypeOK
  <2> QED BY <2>1, <2>2, JobRows, HeldKeeps
<1>4. CASE InsertHold
  <2> DEFINE q == draft[job[Worker].draft].qna
             row == [state |-> "open", post |-> job[Worker].post]
  <2>1. row \in NoticeRow
    BY RowFields DEF TypeOK, Handlers, NoticeRow, NoticeState
  <2>2. notice' \in [Questions -> NoticeRow]
    BY <1>4, <2>1 DEF InsertHold, TypeOK
  <2>3. /\ Return(Worker, "hold_insert")
        /\ UNCHANGED <<draft, record, finding, post>>
        /\ faults' \in Nat
    BY <1>4 DEF InsertHold, TypeOK
  <2> QED BY <2>2, <2>3, ReturnKeeps DEF Handlers
<1> QED BY <1>1, <1>2, <1>3, <1>4

\* A handler that ends leaves its record as it is.
LEMMA EndStep ==
  ASSUME IndInv, NEW h \in Handlers, InsertRefused(h) \/ Fail(h)
  PROVE  IndInv'
BY ReturnKeeps DEF InsertRefused, Fail, IndInv, TypeOK

\* What is settled by hand was left by a handler that is gone.
LEMMA SettleStep ==
  ASSUME IndInv, ~SettleLive, NEW r \in Records,
         \/ \E p \in Posts : SettlePublished(r, p)
         \/ SettleAbandoned(r)
  PROVE  IndInv'
<1> USE PublicationAssumption DEF IndInv
<1>1. /\ record[r].state = "in_flight"
      /\ \A h \in Handlers : job[h].record # r
      /\ UNCHANGED <<draft, notice, finding, post, pc, job, faults>>
  BY DEF SettlePublished, SettleAbandoned, Running
<1>2. PICK row \in RecordRow :
        /\ row.draft = record[r].draft
        /\ \/ row.state = "published"
           \/ /\ row.state = "abandoned"
              /\ \A p \in Posts : post[p].body # record[r].draft
        /\ record' = [record EXCEPT ![r] = row]
  <2>1. record \in [Records -> RecordRow] /\ record[r] \in RecordRow
    BY DEF TypeOK
  <2>2. ASSUME NEW p \in Posts, SettlePublished(r, p)
        PROVE  /\ record' = [record EXCEPT ![r] =
                    [record[r] EXCEPT !.state = "published", !.post = p]]
               /\ [record[r] EXCEPT !.state = "published", !.post = p]
                    \in RecordRow
    BY <2>1, <2>2 DEF SettlePublished, RecordRow, RecordState
  <2>3. ASSUME SettleAbandoned(r)
        PROVE  /\ record' = [record EXCEPT ![r] =
                    [record[r] EXCEPT !.state = "abandoned"]]
               /\ [record[r] EXCEPT !.state = "abandoned"] \in RecordRow
               /\ \A p \in Posts : post[p].body # record[r].draft
    BY <2>1, <2>3 DEF SettleAbandoned, RecordRow, RecordState
  <2> QED BY <2>1, <2>2, <2>3 DEF RecordRow
<1>3. TypeOK'
  BY <1>1, <1>2 DEF TypeOK
<1>4. Shape'
  BY <1>1, <1>2 DEF TypeOK, Shape
<1>5. Attempts'
  BY <1>1, <1>2 DEF TypeOK, Attempts
<1>6. Safe'
  <2>1. OneLiveRecord'
    BY <1>1, <1>2 DEF TypeOK, OneLiveRecord
  <2>2. NoUnrecordedAnswer'
    BY <1>1, <1>2 DEF TypeOK, NoUnrecordedAnswer
  <2>3. NoDuplicateAnswer'
    BY <1>1 DEF NoDuplicateAnswer
  <2> QED BY <2>1, <2>2, <2>3 DEF Safe
<1> QED BY <1>3, <1>4, <1>5, <1>6 DEF Safe

\* Every step keeps the invariant, as long as nobody settles a live handler.
LEMMA NextIndInv ==
  ASSUME IndInv, ~SettleLive, [Next]_vars
  PROVE  IndInv'
<1>1. CASE WorkerNext
  BY <1>1, SaveDraftStep, FindingStep, StartCorrectionStep, SaveCorrectionStep,
     JudgeAutoStep, HoldStep DEF WorkerNext
<1>2. CASE WebNext
  BY <1>2, DecideStep, RejectStep, FindingStep DEF WebNext, Handlers
<1>3. ASSUME NEW h \in Handlers, PublishNext(h)
      PROVE  IndInv'
  BY <1>3, ApproveStep, CheckPublishStep, InsertRecordStep, EndStep,
     ChooseTargetStep, CallStep, FinishStep DEF PublishNext
<1>4. CASE OperatorNext
  BY <1>4, SettleStep DEF OperatorNext
<1>5. CASE UNCHANGED vars
  BY <1>5 DEF vars, IndInv, TypeOK, Shape, Attempts, OneLiveRecord,
     NoUnrecordedAnswer, NoDuplicateAnswer
<1> QED BY <1>1, <1>2, <1>3, <1>4, <1>5 DEF Next

\* The inductive invariant holds in every reachable state.
THEOREM PublicationInvariant == ~SettleLive => (Spec => []IndInv)
<1> SUFFICES ASSUME ~SettleLive PROVE Spec => []IndInv
  OBVIOUS
<1>1. Init => IndInv
  BY InitIndInv
<1>2. IndInv /\ [Next]_vars => IndInv'
  BY NextIndInv
<1> QED BY <1>1, <1>2, PTL DEF Spec

\* No answer stands twice at a question, whoever raced, crashed or retried
\* (publish and settle).
THEOREM AnswerStandsOnce == ~SettleLive => (Spec => []NoDuplicateAnswer)
<1>1. IndInv => NoDuplicateAnswer
  BY DEF IndInv
<1> QED BY <1>1, PublicationInvariant, PTL

\* No answer stands at the parent system without a record of it: the order
\* "record, post, confirm" of publish.
THEOREM AnswerIsRecorded == ~SettleLive => (Spec => []NoUnrecordedAnswer)
<1>1. IndInv => NoUnrecordedAnswer
  BY DEF IndInv
<1> QED BY <1>1, PublicationInvariant, PTL

-----------------------------------------------------------------------------
(* The rows tell what stands in the parent system *)

\* A post that carries an answer.
Answers(p) == p \in Posts /\ post[p].body \in Drafts

\* The place handler h has chosen is the one of the answer it corrects or of
\* the notice it fills, from the choice to the closing transaction, and after
\* the call an answer stands there.  What the worker remakes is not saved yet.
PlaceOf(h) ==
  LET j == job[h]
      q == draft[j.draft].qna
  IN
  /\ pc[h] = "finish" => Answers(j.post)
  /\ j.old # None => pc[h] \in {"remake", "call", "finish"}
  /\ j.old # None /\ pc[h] # "remake" => j.post = record[j.old].post
  /\ j.fills => /\ pc[h] \in {"call", "finish"}
                /\ notice[q].state # "none"
                /\ j.post = notice[q].post
  /\ pc[h] = "hold_insert" => j.post \in Posts
  /\ pc[h] = "remake" => h = Worker /\ draft[j.draft].state = "unsaved"

NoticesPlaced ==
  \A q \in Questions : notice[q].state # "none" => notice[q].post \in Posts

Placed == NoticesPlaced /\ \A h \in Handlers : PlaceOf(h)

RowsInv == IndInv /\ Placed /\ RowsTellTheParent

OutState == {"published", "corrected"}

\* What no step takes back: an answer once it stands, the post of a record that
\* is out, the post of a notice, the question of a draft.
Kept ==
  /\ \A p \in Posts : Answers(p) => post'[p].body \in Drafts
  /\ \A r \in Records : record[r].state \in OutState =>
       record'[r].state \in OutState /\ record'[r].post = record[r].post
  /\ \A q \in Questions : notice[q].state # "none" =>
       notice'[q].state # "none" /\ notice'[q].post = notice[q].post
  /\ \A d \in Drafts :
       draft[d].state # "unsaved" => draft'[d].qna = draft[d].qna

\* A handler that did not move has its place still.
LEMMA PlaceStays ==
  ASSUME RowsInv, Kept, NEW h \in Handlers,
         pc'[h] = pc[h], job'[h] = job[h],
         pc[h] = "remake" => draft'[job[h].draft] = draft[job[h].draft]
  PROVE  PlaceOf(h)'
<1> DEFINE j == job[h]
           q == draft[j.draft].qna
<1>1. TypeOK /\ Shape /\ PlaceOf(h)
  BY DEF RowsInv, IndInv, Placed
<1>2. j \in Job
  BY <1>1 DEF TypeOK
<1>3. pc[h] \notin {"idle", "remake"} =>
        q \in Questions /\ draft'[j.draft].qna = q
  BY <1>1 DEF Shape, Kept
<1>4. j.old # None => /\ j.old \in Records
                      /\ record'[j.old].post = record[j.old].post
  BY <1>1, <1>2, RowFields DEF Shape, Kept, OutState
<1>5. pc[h] = "finish" => Answers(j.post)'
  BY <1>1 DEF PlaceOf, Answers, Kept
<1>6. j.fills => /\ pc[h] \in {"call", "finish"}
                 /\ notice'[draft'[j.draft].qna].state # "none"
                 /\ j.post = notice'[draft'[j.draft].qna].post
  BY <1>1, <1>3 DEF PlaceOf, Kept
<1> QED BY <1>1, <1>4, <1>5, <1>6 DEF PlaceOf

\* A handler that has returned has no place.
LEMMA PlaceGone ==
  ASSUME NEW h \in Handlers, pc'[h] = "idle", job'[h] = NoJob
  PROVE  PlaceOf(h)'
BY DEF PlaceOf, NoJob

\* A handler with a draft at hand and nothing else has no place yet.
LEMMA PlaceNone ==
  ASSUME NEW h \in Handlers, NEW j \in Job, j.old = None, ~j.fills,
         pc'[h] \notin {"finish", "remake", "hold_insert"}, job'[h] = j
  PROVE  PlaceOf(h)'
BY DEF PlaceOf

\* While no record goes out or is corrected and no notice is filled, the rows
\* tell what they told.
LEMMA RowsStay ==
  ASSUME RowsInv, Kept,
         \A r \in Records :
           \/ record'[r] = record[r]
           \/ /\ record[r].state \notin OutState
              /\ record'[r].state \notin OutState,
         \A q \in Questions :
           notice'[q].state = "filled" => notice[q].state = "filled"
  PROVE  RowsTellTheParent'
<1>1. PublishedShowsAnswer'
  BY DEF RowsInv, RowsTellTheParent, PublishedShowsAnswer, Kept, OutState,
     Answers
<1>2. CorrectedHasSuccessor'
  <2> SUFFICES ASSUME NEW r \in Records, record'[r].state = "corrected"
               PROVE  \E s \in Records : /\ record'[s].state = "published"
                                         /\ record'[s].post = record'[r].post
                                         /\ record'[s].draft # record'[r].draft
    BY DEF CorrectedHasSuccessor
  <2>1. record'[r] = record[r]
    BY DEF OutState
  <2>2. PICK s \in Records : /\ record[s].state = "published"
                             /\ record[s].post = record[r].post
                             /\ record[s].draft # record[r].draft
    BY <2>1 DEF RowsInv, RowsTellTheParent, CorrectedHasSuccessor
  <2>3. record'[s] = record[s]
    BY <2>2 DEF OutState
  <2> QED BY <2>1, <2>2, <2>3
<1>3. FilledShowsAnswer'
  BY DEF RowsInv, RowsTellTheParent, FilledShowsAnswer, Placed, NoticesPlaced,
     Kept, Answers
<1> QED BY <1>1, <1>2, <1>3 DEF RowsTellTheParent

\* One handler moves, and of the tables only drafts may change.
LEMMA QuietMove ==
  ASSUME RowsInv, NEW h \in Handlers, PlaceOf(h)',
         \A g \in Handlers \ {h} :
           /\ pc'[g] = pc[g] /\ job'[g] = job[g]
           /\ pc[g] = "remake" => draft'[job[g].draft] = draft[job[g].draft],
         UNCHANGED <<record, notice, post>>,
         \A d \in Drafts :
           draft[d].state # "unsaved" => draft'[d].qna = draft[d].qna
  PROVE  Placed' /\ RowsTellTheParent'
<1>1. Kept
  BY DEF Kept, Answers
<1>2. \A g \in Handlers : PlaceOf(g)'
  BY <1>1, PlaceStays
<1>3. NoticesPlaced'
  BY DEF RowsInv, Placed, NoticesPlaced
<1>4. RowsTellTheParent'
  BY <1>1, RowsStay
<1> QED BY <1>2, <1>3, <1>4 DEF Placed

\* The others stay where they are.
LEMMA OthersStay ==
  ASSUME TypeOK, NEW h \in Handlers, NEW to, NEW j,
         pc' = [pc EXCEPT ![h] = to], job' = [job EXCEPT ![h] = j]
  PROVE  /\ pc'[h] = to /\ job'[h] = j
         /\ \A g \in Handlers \ {h} : pc'[g] = pc[g] /\ job'[g] = job[g]
BY DEF TypeOK

\* The draft the worker is remaking is not saved, so nobody judges it.
LEMMA RemakeUntouched ==
  ASSUME RowsInv, NEW g \in Handlers, pc[g] = "remake",
         NEW h \in Handlers, pc[h] \notin {"idle", "remake"}
  PROVE  job[g].draft # job[h].draft
BY DEF RowsInv, IndInv, Shape, Placed, PlaceOf

\* A task has no place.
LEMMA TaskPlain ==
  ASSUME NEW d \in Drafts
  PROVE  Task(d) \in Job /\ Task(d).old = None /\ ~Task(d).fills
BY DEF Task, NoJob, Job

\* A handler that returns, whatever the reason.
LEMMA ReturnRows ==
  ASSUME RowsInv, NEW h \in Handlers, NEW from, Return(h, from),
         UNCHANGED <<record, notice, post>>,
         \A g \in Handlers \ {h} :
           pc[g] = "remake" => draft'[job[g].draft] = draft[job[g].draft],
         \A d \in Drafts :
           draft[d].state # "unsaved" => draft'[d].qna = draft[d].qna
  PROVE  Placed' /\ RowsTellTheParent'
<1>1. /\ pc'[h] = "idle" /\ job'[h] = NoJob
      /\ \A g \in Handlers \ {h} : pc'[g] = pc[g] /\ job'[g] = job[g]
  BY OthersStay DEF Return, Goto, RowsInv, IndInv
<1>2. PlaceOf(h)'
  BY <1>1, PlaceGone
<1> QED BY <1>1, <1>2, QuietMove

\* A new draft: nobody holds it.
LEMMA SaveDraftRows ==
  ASSUME RowsInv, NEW q \in Questions, NEW d \in Drafts, SaveDraft(q, d)
  PROVE  Placed' /\ RowsTellTheParent'
<1> USE PublicationAssumption
<1>1. Worker \in Handlers /\ TypeOK
  BY DEF Handlers, RowsInv, IndInv
<1>2. PICK to \in {"idle", "judge", "hold"} :
         /\ pc[Worker] = "idle"
         /\ pc' = [pc EXCEPT ![Worker] = to]
         /\ job' = [job EXCEPT ![Worker] =
                      IF to = "idle" THEN NoJob ELSE Task(d)]
  BY DEF SaveDraft, Goto
<1>3. /\ pc'[Worker] = to
      /\ job'[Worker] = IF to = "idle" THEN NoJob ELSE Task(d)
      /\ \A g \in Handlers \ {Worker} : pc'[g] = pc[g] /\ job'[g] = job[g]
  BY <1>1, <1>2, OthersStay
<1>4. PlaceOf(Worker)'
  BY <1>1, <1>3, PlaceGone, PlaceNone, TaskPlain
<1>5. \A g \in Handlers \ {Worker} : pc[g] # "remake"
  BY DEF RowsInv, Placed, PlaceOf
<1>6. /\ UNCHANGED <<record, notice, post>>
      /\ \A e \in Drafts :
           draft[e].state # "unsaved" => draft'[e].qna = draft[e].qna
  BY <1>1 DEF SaveDraft, TypeOK
<1> QED BY <1>1, <1>3, <1>4, <1>5, <1>6, QuietMove

\* A correction starts from an answer that is out, and is a draft later.
LEMMA CorrectionRows ==
  ASSUME RowsInv,
         \/ \E r \in Records, d \in Drafts : StartCorrection(r, d)
         \/ SaveCorrection
  PROVE  Placed' /\ RowsTellTheParent'
<1> USE PublicationAssumption
<1>1. Worker \in Handlers /\ TypeOK
  BY DEF Handlers, RowsInv, IndInv
<1>2. \A g \in Handlers \ {Worker} : pc[g] # "remake"
  BY DEF RowsInv, Placed, PlaceOf
<1>3. ASSUME NEW r \in Records, NEW d \in Drafts, StartCorrection(r, d)
      PROVE  Placed' /\ RowsTellTheParent'
  <2> DEFINE j == [Task(d) EXCEPT !.old = r]
  <2>1. /\ pc'[Worker] = "remake" /\ job'[Worker] = j
        /\ \A g \in Handlers \ {Worker} : pc'[g] = pc[g] /\ job'[g] = job[g]
    BY <1>1, <1>3, OthersStay DEF StartCorrection, Goto
  <2>2. j.draft = d /\ j.old = r /\ ~j.fills
    BY DEF Task, NoJob
  <2>3. draft[d].state = "unsaved" /\ UNCHANGED <<draft, record, notice, post>>
    BY <1>3 DEF StartCorrection
  <2>4. PlaceOf(Worker)'
    BY <2>1, <2>2, <2>3 DEF PlaceOf
  <2> QED BY <1>1, <1>2, <2>1, <2>3, <2>4, QuietMove
<1>4. CASE SaveCorrection
  <2>1. draft[job[Worker].draft].state = "unsaved"
    BY <1>4 DEF SaveCorrection, Return, Goto, RowsInv, Placed, PlaceOf,
       Handlers
  <2>2. /\ Return(Worker, "remake")
        /\ UNCHANGED <<record, notice, post>>
        /\ \A e \in Drafts :
             draft[e].state # "unsaved" => draft'[e].qna = draft[e].qna
    BY <1>1, <1>4, <2>1 DEF SaveCorrection, TypeOK
  <2> QED BY <1>1, <1>2, <2>2, ReturnRows
<1> QED BY <1>3, <1>4

\* Findings, and settlements that are not made.
LEMMA FindingRows ==
  ASSUME RowsInv, NEW r \in Records, OpenFinding(r) \/ IgnoreFinding(r)
  PROVE  Placed' /\ RowsTellTheParent'
BY DEF OpenFinding, IgnoreFinding, RowsInv, Placed, NoticesPlaced, PlaceOf,
   Answers, RowsTellTheParent, PublishedShowsAnswer, CorrectedHasSuccessor,
   FilledShowsAnswer

\* A handler with no place goes on, and judges a draft at most.
LEMMA GotoRows ==
  ASSUME RowsInv, NEW h \in Handlers,
         pc[h] \in {"judge", "approve", "publish", "hold"},
         NEW to \in {"approve", "publish", "insert", "hold_call"},
         pc' = [pc EXCEPT ![h] = to],
         UNCHANGED <<job, record, notice, post>>,
         \A g \in Handlers \ {h} :
           pc[g] = "remake" => draft'[job[g].draft] = draft[job[g].draft],
         \A d \in Drafts :
           draft[d].state # "unsaved" => draft'[d].qna = draft[d].qna
  PROVE  Placed' /\ RowsTellTheParent'
<1>1. TypeOK /\ PlaceOf(h)
  BY DEF RowsInv, IndInv, Placed
<1>2. /\ job[h] \in Job /\ job[h].old = None /\ ~job[h].fills
      /\ pc'[h] = to /\ job'[h] = job[h]
      /\ \A g \in Handlers \ {h} : pc'[g] = pc[g] /\ job'[g] = job[g]
  BY <1>1 DEF TypeOK, PlaceOf
<1>3. PlaceOf(h)'
  BY <1>2, PlaceNone
<1> QED BY <1>2, <1>3, QuietMove

\* The judgement of a draft leaves its question, and the other drafts.
LEMMA JudgeRows ==
  ASSUME RowsInv, NEW h \in Handlers, NEW s \in {"approved", "rejected"},
         pc[h] \notin {"idle", "remake"},
         draft' = [draft EXCEPT ![job[h].draft].state = s]
  PROVE  /\ \A g \in Handlers \ {h} :
              pc[g] = "remake" => draft'[job[g].draft] = draft[job[g].draft]
         /\ \A d \in Drafts :
              draft[d].state # "unsaved" => draft'[d].qna = draft[d].qna
<1>1. TypeOK /\ job[h].draft \in Drafts
  BY DEF RowsInv, IndInv, Shape
<1>2. s \in DraftState /\ s # "unsaved"
  BY DEF DraftState
<1>3. \A d \in Drafts : draft'[d].qna = draft[d].qna
  BY <1>1, <1>2, JudgedRow
<1>4. \A g \in Handlers : pc[g] = "remake" => job[g].draft # job[h].draft
  BY RemakeUntouched
<1>5. \A d : d # job[h].draft /\ d \in Drafts => draft'[d] = draft[d]
  BY <1>1 DEF TypeOK
<1>6. \A g \in Handlers : pc[g] = "remake" => job[g].draft \in Drafts
  BY DEF RowsInv, IndInv, Shape
<1> QED BY <1>3, <1>4, <1>5, <1>6

\* Judging.
LEMMA JudgingRows ==
  ASSUME RowsInv, NEW h \in Handlers,
         \/ h = Worker /\ JudgeAuto
         \/ \E d \in Drafts, approved \in BOOLEAN : Decide(h, d, approved)
         \/ Approve(h)
         \/ RejectDraft(h)
  PROVE  Placed' /\ RowsTellTheParent'
<1>1. TypeOK
  BY DEF RowsInv, IndInv
<1>2. CASE h = Worker /\ JudgeAuto
  <2>1. PICK to \in {"approve", "publish"} : Goto(h, "judge", to)
    BY <1>2 DEF JudgeAuto
  <2>2. UNCHANGED <<draft, job, record, notice, post>>
    BY <1>2 DEF JudgeAuto
  <2> QED BY <2>1, <2>2, GotoRows DEF Goto
<1>3. ASSUME NEW d \in Drafts, NEW approved \in BOOLEAN,
             Decide(h, d, approved)
      PROVE  Placed' /\ RowsTellTheParent'
  <2>1. PICK to \in {"publish", "approve", "reject"} : Goto(h, "idle", to)
    BY <1>3 DEF Decide
  <2>2. job' = [job EXCEPT ![h] = Task(d)]
    BY <1>3 DEF Decide
  <2>3. UNCHANGED <<draft, record, notice, post>>
    BY <1>3 DEF Decide
  <2>4. /\ pc'[h] = to /\ job'[h] = Task(d)
        /\ \A g \in Handlers \ {h} : pc'[g] = pc[g] /\ job'[g] = job[g]
    BY <1>1, <2>1, <2>2, OthersStay DEF Goto
  <2>5. PlaceOf(h)'
    BY <2>4, PlaceNone, TaskPlain
  <2> QED BY <2>3, <2>4, <2>5, QuietMove
<1>4. CASE Approve(h)
  <2>1. /\ pc[h] = "approve" /\ pc' = [pc EXCEPT ![h] = "publish"]
        /\ draft' = [draft EXCEPT ![job[h].draft].state = "approved"]
        /\ UNCHANGED <<job, record, notice, post>>
    BY <1>4 DEF Approve, Goto
  <2> QED BY <2>1, JudgeRows, GotoRows
<1>5. CASE RejectDraft(h)
  <2>1. /\ Return(h, "reject") /\ pc[h] = "reject"
        /\ draft' = [draft EXCEPT ![job[h].draft].state = "rejected"]
        /\ UNCHANGED <<record, notice, post>>
    BY <1>5 DEF RejectDraft, Return, Goto
  <2> QED BY <2>1, JudgeRows, ReturnRows
<1> QED BY <1>2, <1>3, <1>4, <1>5

\* The checks before the row, and the handlers that end.
LEMMA ReturningRows ==
  ASSUME RowsInv, NEW h \in Handlers,
         \/ CheckPublish(h) \/ InsertRefused(h) \/ Fail(h)
         \/ h = Worker /\ CheckHold
  PROVE  Placed' /\ RowsTellTheParent'
<1>1. UNCHANGED <<draft, record, notice, post>>
  BY DEF CheckPublish, InsertRefused, Fail, CheckHold
<1>2. \/ \E from : Return(h, from)
      \/ Goto(h, "publish", "insert") /\ UNCHANGED job
      \/ Goto(h, "hold", "hold_call") /\ UNCHANGED job
  BY DEF CheckPublish, InsertRefused, Fail, CheckHold
<1>3. CASE \E from : Return(h, from)
  BY <1>1, <1>3, ReturnRows
<1>4. CASE Goto(h, "publish", "insert") /\ UNCHANGED job
  BY <1>1, <1>4, GotoRows DEF Goto
<1>5. CASE Goto(h, "hold", "hold_call") /\ UNCHANGED job
  BY <1>1, <1>5, GotoRows DEF Goto
<1> QED BY <1>2, <1>3, <1>4, <1>5

\* The record of an attempt is not out yet.
LEMMA InsertRecordRows ==
  ASSUME RowsInv, NEW h \in Handlers, InsertRecord(h)
  PROVE  Placed' /\ RowsTellTheParent'
<1>1. TypeOK /\ PlaceOf(h) /\ NoticesPlaced
  BY DEF RowsInv, IndInv, Placed
<1>2. PICK r \in Records :
        /\ record[r].state = "unused"
        /\ record' = [record EXCEPT ![r] =
             [state |-> "in_flight", draft |-> job[h].draft, post |-> None]]
        /\ job' = [job EXCEPT ![h].record = r]
  BY DEF InsertRecord
<1> DEFINE j == [job[h] EXCEPT !.record = r]
<1>3. /\ pc[h] = "insert" /\ pc' = [pc EXCEPT ![h] = "choose"]
      /\ job' = [job EXCEPT ![h] = j]
      /\ UNCHANGED <<draft, notice, post>>
  BY <1>1, <1>2 DEF InsertRecord, Goto, TypeOK
<1>4. job[h] \in Job /\ job[h].old = None /\ ~job[h].fills
  BY <1>1, <1>3 DEF PlaceOf, TypeOK
<1>5. j \in Job /\ j.old = None /\ ~j.fills
  BY <1>4 DEF Job
<1> HIDE DEF j
<1>6. /\ pc'[h] = "choose" /\ job'[h] = j
      /\ \A g \in Handlers \ {h} : pc'[g] = pc[g] /\ job'[g] = job[g]
  BY <1>1, <1>3, OthersStay
<1>7. /\ record'[r].state = "in_flight"
      /\ \A s \in Records \ {r} : record'[s] = record[s]
  BY <1>1, <1>2 DEF TypeOK
<1>8. Kept
  BY <1>2, <1>3, <1>7 DEF Kept, Answers, OutState
<1>9. \A g \in Handlers : PlaceOf(g)'
  BY <1>3, <1>5, <1>6, <1>8, PlaceNone, PlaceStays
<1>10. RowsTellTheParent'
  BY <1>2, <1>3, <1>7, <1>8, RowsStay DEF OutState
<1> QED BY <1>1, <1>3, <1>9, <1>10 DEF Placed, NoticesPlaced

\* The place is chosen from the rows as they are.
LEMMA ChooseTargetRows ==
  ASSUME RowsInv, NEW h \in Handlers, ChooseTarget(h)
  PROVE  Placed' /\ RowsTellTheParent'
<1> USE PublicationAssumption
<1> DEFINE j == job[h]
           r == draft[j.draft].corrects
           q == draft[j.draft].qna
           to == IF r # None /\ record[r].state = "published"
                   THEN [j EXCEPT !.post = record[r].post, !.old = r]
                 ELSE IF notice[q].state = "open"
                   THEN [j EXCEPT !.post = notice[q].post, !.fills = TRUE]
                 ELSE j
<1>1. TypeOK /\ PlaceOf(h)
  BY DEF RowsInv, IndInv, Placed
<1>2. /\ pc[h] = "choose" /\ pc' = [pc EXCEPT ![h] = "call"]
      /\ job' = [job EXCEPT ![h] = to]
      /\ UNCHANGED <<draft, record, notice, post>>
  BY <1>1 DEF ChooseTarget, Goto, TypeOK
<1>3. j \in Job /\ j.old = None /\ ~j.fills
  BY <1>1, <1>2 DEF PlaceOf, TypeOK
<1>4. /\ to.draft = j.draft
      /\ to.old # None => to.post = record[to.old].post
      /\ to.fills => notice[q].state # "none" /\ to.post = notice[q].post
  BY <1>3 DEF Job
<1> HIDE DEF to
<1>5. /\ pc'[h] = "call" /\ job'[h] = to
      /\ \A g \in Handlers \ {h} : pc'[g] = pc[g] /\ job'[g] = job[g]
  BY <1>1, <1>2, OthersStay
<1>6. PlaceOf(h)'
  BY <1>2, <1>4, <1>5 DEF PlaceOf
<1> QED BY <1>2, <1>5, <1>6, QuietMove

\* What the parent system shows after the call: the answer at its place.
LEMMA ShownRows ==
  ASSUME RowsInv, NEW h \in Handlers, NEW p \in Posts, Shown(h, p),
         pc[h] = "call", UNCHANGED <<draft, record, notice>>
  PROVE  /\ Kept /\ Answers(p)' /\ RowsTellTheParent'
         /\ job[h].old # None => p = record[job[h].old].post
         /\ job[h].fills => p = notice[draft[job[h].draft].qna].post
<1> USE PublicationAssumption
<1> DEFINE j == job[h]
           q == draft[j.draft].qna
<1>1. TypeOK /\ PlaceOf(h) /\ NoticesPlaced /\ Shape
  BY DEF RowsInv, IndInv, Placed
<1>2. /\ j \in Job /\ j.draft \in Drafts /\ draft[j.draft].state # "unsaved"
      /\ j.old \in Records \union {None} /\ q \in Questions
  BY <1>1, RowFields DEF TypeOK, Shape
<1>3. post' = [post EXCEPT ![p].qna = q, ![p].body = j.draft]
  BY DEF Shown
<1>4. /\ post'[p].body = j.draft
      /\ \A s \in Posts \ {p} : post'[s] = post[s]
  <2>1. post \in [Posts -> PostRow] /\ post[p] \in PostRow
    BY <1>1 DEF TypeOK
  <2>2. [post[p] EXCEPT !.qna = q, !.body = j.draft].body = j.draft
    BY <2>1 DEF PostRow
  <2> QED BY <1>3, <2>1, <2>2
<1>5. Answers(p)'
  BY <1>2, <1>4 DEF Answers
<1>6. Kept
  BY <1>2, <1>4 DEF Kept, Answers
<1>7. RowsTellTheParent'
  BY <1>6, RowsStay
<1>8. j.old # None => p = record[j.old].post
  <2>1. j.old # None => record[j.old].post \in Posts
    BY <1>1, <1>2 DEF Shape, RowsInv, RowsTellTheParent, PublishedShowsAnswer
  <2> QED BY <1>1, <2>1 DEF PlaceOf, Shown
<1>9. j.fills => p = notice[q].post
  BY <1>1, <1>2 DEF PlaceOf, NoticesPlaced, Shown
<1> QED BY <1>5, <1>6, <1>7, <1>8, <1>9

\* The call, whether or not its reply comes back.
LEMMA CallRows ==
  ASSUME RowsInv, NEW h \in Handlers, CallParent(h) \/ CallLostReply(h)
  PROVE  Placed' /\ RowsTellTheParent'
<1>1. /\ pc[h] = "call" /\ UNCHANGED <<draft, record, notice>>
      /\ TypeOK /\ PlaceOf(h) /\ NoticesPlaced
  BY DEF CallParent, CallLostReply, Goto, Return, store, RowsInv, IndInv,
     Placed
<1>2. NoticesPlaced'
  BY <1>1 DEF NoticesPlaced
<1>3. CASE CallParent(h)
  <2>1. PICK p \in Posts : Shown(h, p) /\ job' = [job EXCEPT ![h].post = p]
    BY <1>3 DEF CallParent
  <2> DEFINE j == [job[h] EXCEPT !.post = p]
  <2>2. /\ pc' = [pc EXCEPT ![h] = "finish"]
        /\ job' = [job EXCEPT ![h] = j]
    BY <1>1, <1>3, <2>1 DEF CallParent, Goto, TypeOK
  <2>3. /\ j.post = p /\ j.draft = job[h].draft /\ j.old = job[h].old
        /\ j.fills = job[h].fills
    BY <1>1 DEF TypeOK, Job
  <2> HIDE DEF j
  <2>4. /\ pc'[h] = "finish" /\ job'[h] = j
        /\ \A g \in Handlers \ {h} : pc'[g] = pc[g] /\ job'[g] = job[g]
    BY <1>1, <2>2, OthersStay
  <2>5. /\ Kept /\ Answers(p)' /\ RowsTellTheParent'
        /\ j.old # None => p = record[j.old].post
        /\ j.fills => p = notice[draft[j.draft].qna].post
    BY <1>1, <2>1, <2>3, ShownRows
  <2>6. PlaceOf(h)'
    BY <1>1, <2>3, <2>4, <2>5 DEF PlaceOf
  <2>7. \A g \in Handlers : PlaceOf(g)'
    BY <1>1, <2>4, <2>5, <2>6, PlaceStays
  <2> QED BY <1>2, <2>5, <2>7 DEF Placed
<1>4. CASE CallLostReply(h)
  <2>1. PICK p \in Posts : Shown(h, p)
    BY <1>4 DEF CallLostReply
  <2>2. /\ pc'[h] = "idle" /\ job'[h] = NoJob
        /\ \A g \in Handlers \ {h} : pc'[g] = pc[g] /\ job'[g] = job[g]
    BY <1>1, <1>4, OthersStay DEF CallLostReply, Return, Goto
  <2>3. Kept /\ RowsTellTheParent'
    BY <1>1, <2>1, ShownRows
  <2>4. \A g \in Handlers : PlaceOf(g)'
    BY <1>1, <2>2, <2>3, PlaceGone, PlaceStays
  <2> QED BY <1>2, <2>3, <2>4 DEF Placed
<1> QED BY <1>3, <1>4

\* The closing transaction: the answer stands where the handler chose, and the
\* record that is corrected hands its post to the one that is published.
LEMMA FinishRows ==
  ASSUME RowsInv, NEW h \in Handlers, FinishPublish(h)
  PROVE  Placed' /\ RowsTellTheParent'
<1> USE PublicationAssumption
<1> DEFINE j == job[h]
           q == draft[j.draft].qna
<1>1. /\ TypeOK /\ PlaceOf(h) /\ NoticesPlaced
      /\ Shape /\ Attempts /\ OneLiveRecord
  BY DEF RowsInv, IndInv, Placed
<1>2. pc[h] = "finish" /\ UNCHANGED <<draft, post>>
  BY DEF FinishPublish, Return, Goto
<1>3. /\ j.draft \in Drafts /\ q \in Questions
      /\ j.record \in Records /\ record[j.record].state = "in_flight"
      /\ record[j.record].draft = j.draft
      /\ Answers(j.post)
      /\ j.old # None => /\ j.old \in Records
                         /\ record[j.old].state \in OutState
                         /\ record[j.old].post = j.post
      /\ j.fills => notice[q].state # "none" /\ notice[q].post = j.post
  <2>1. j.old \in Records \union {None}
    BY <1>1, RowFields DEF TypeOK
  <2> QED BY <1>1, <1>2, <2>1 DEF Shape, Attempts, PlaceOf, OutState
<1>4. /\ \A r \in Records :
           /\ record'[r].draft = record[r].draft
           /\ r = j.old => /\ record'[r].state = "corrected"
                           /\ record'[r].post = record[r].post
           /\ r = j.record => /\ record'[r].state = "published"
                              /\ record'[r].post = j.post
           /\ r \notin {j.old, j.record} => record'[r] = record[r]
  <2>1. j.old # j.record
    BY <1>3 DEF OutState
  <2>2. record' = [r \in Records |->
          IF r = j.old THEN [record[r] EXCEPT !.state = "corrected"]
          ELSE IF r = j.record
            THEN [record[r] EXCEPT !.state = "published", !.post = j.post]
          ELSE record[r]]
    BY DEF FinishPublish
  <2>3. \A r \in Records : record[r] \in RecordRow
    BY <1>1 DEF TypeOK
  <2> QED BY <2>1, <2>2, <2>3 DEF RecordRow
<1>5. \A k \in Questions :
        /\ notice'[k].post = notice[k].post
        /\ notice'[k].state # notice[k].state =>
             k = q /\ j.fills /\ notice'[k].state = "filled"
  <2>1. \A k \in Questions : notice[k] \in NoticeRow
    BY <1>1 DEF TypeOK
  <2>2. notice' = IF j.fills THEN [notice EXCEPT ![q].state = "filled"]
                  ELSE notice
    BY DEF FinishPublish
  <2> QED BY <1>1, <2>1, <2>2 DEF TypeOK, NoticeRow
<1>6. Kept
  BY <1>2, <1>3, <1>4, <1>5 DEF Kept, Answers, OutState
<1>7. \A g \in Handlers : PlaceOf(g)'
  <2>1. /\ pc'[h] = "idle" /\ job'[h] = NoJob
        /\ \A g \in Handlers \ {h} : pc'[g] = pc[g] /\ job'[g] = job[g]
    BY <1>1, OthersStay DEF FinishPublish, Return, Goto
  <2> QED BY <1>2, <1>6, <2>1, PlaceGone, PlaceStays
<1>8. NoticesPlaced'
  BY <1>1, <1>3, <1>5 DEF NoticesPlaced
<1>9. PublishedShowsAnswer'
  <2> SUFFICES ASSUME NEW r \in Records, record'[r].state \in OutState
               PROVE  /\ record'[r].post \in Posts
                      /\ post[record'[r].post].body \in Drafts
    BY <1>2 DEF PublishedShowsAnswer, OutState
  <2>1. CASE r \in {j.old, j.record}
    BY <1>3, <1>4, <2>1 DEF Answers
  <2>2. CASE r \notin {j.old, j.record}
    BY <1>4, <2>2 DEF OutState, RowsInv, RowsTellTheParent,
       PublishedShowsAnswer
  <2> QED BY <2>1, <2>2
<1>10. CorrectedHasSuccessor'
  <2> SUFFICES ASSUME NEW r \in Records, record'[r].state = "corrected"
               PROVE  \E s \in Records : /\ record'[s].state = "published"
                                         /\ record'[s].post = record'[r].post
                                         /\ record'[s].draft # record'[r].draft
    BY DEF CorrectedHasSuccessor
  <2>1. record'[r].post = record[r].post /\ record[r].state \in OutState
    BY <1>3, <1>4 DEF OutState
  <2>2. record[r].draft # j.draft
    BY <1>3, <2>1 DEF OutState, OneLiveRecord, IndInv, RowsInv
  <2>3. CASE record[r].post = j.post
    BY <1>3, <1>4, <2>1, <2>2, <2>3
  <2>4. CASE record[r].post # j.post
    <3>1. r # j.old /\ record[r].state = "corrected"
      BY <1>3, <1>4, <2>4
    <3>2. PICK s \in Records : /\ record[s].state = "published"
                               /\ record[s].post = record[r].post
                               /\ record[s].draft # record[r].draft
      BY <3>1 DEF RowsInv, RowsTellTheParent, CorrectedHasSuccessor
    <3>3. record'[s] = record[s]
      BY <1>3, <1>4, <2>4, <3>2
    <3> QED BY <1>4, <2>1, <3>2, <3>3
  <2> QED BY <2>3, <2>4
<1>11. FilledShowsAnswer'
  BY <1>2, <1>3, <1>5 DEF FilledShowsAnswer, RowsInv, RowsTellTheParent,
     Answers
<1> QED BY <1>7, <1>8, <1>9, <1>10, <1>11 DEF Placed, RowsTellTheParent

\* The notice keeps a new place, and its row is written after the call.
LEMMA HoldRows ==
  ASSUME RowsInv, CallHold \/ HoldLostReply \/ InsertHold
  PROVE  Placed' /\ RowsTellTheParent'
<1> USE PublicationAssumption
<1>1. /\ Worker \in Handlers
      /\ TypeOK /\ PlaceOf(Worker) /\ NoticesPlaced
  BY DEF Handlers, RowsInv, IndInv, Placed
<1>2. ASSUME NEW p \in Posts, PlaceHeld(p), UNCHANGED <<draft, record, notice>>
      PROVE  Kept
  <2>1. ASSUME NEW s \in Posts, Answers(s)
        PROVE  post'[s].body \in Drafts
    <3>1. s # p
      BY <1>2, <2>1 DEF PlaceHeld, Answers
    <3> QED BY <1>1, <1>2, <2>1, <3>1 DEF PlaceHeld, Answers, TypeOK
  <2> QED BY <1>2, <2>1 DEF Kept
<1>3. CASE CallHold
  <2>1. PICK p \in Posts :
          PlaceHeld(p) /\ job' = [job EXCEPT ![Worker].post = p]
    BY <1>3 DEF CallHold
  <2> DEFINE j == [job[Worker] EXCEPT !.post = p]
  <2>2. /\ pc[Worker] = "hold_call"
        /\ pc' = [pc EXCEPT ![Worker] = "hold_insert"]
        /\ UNCHANGED <<draft, record, notice>>
        /\ job' = [job EXCEPT ![Worker] = j]
    BY <1>1, <1>3, <2>1 DEF CallHold, Goto, TypeOK
  <2>3. j.post = p /\ j.old = None /\ ~j.fills
    BY <1>1, <2>2 DEF PlaceOf, TypeOK, Job
  <2> HIDE DEF j
  <2>4. /\ pc'[Worker] = "hold_insert" /\ job'[Worker] = j
        /\ \A g \in Handlers \ {Worker} : pc'[g] = pc[g] /\ job'[g] = job[g]
    BY <1>1, <2>2, OthersStay
  <2>5. Kept
    BY <1>2, <2>1, <2>2
  <2>6. PlaceOf(Worker)'
    BY <2>3, <2>4 DEF PlaceOf
  <2>7. \A g \in Handlers : PlaceOf(g)'
    BY <2>2, <2>4, <2>5, <2>6, PlaceStays
  <2>8. RowsTellTheParent'
    BY <2>2, <2>5, RowsStay
  <2> QED BY <1>1, <2>2, <2>7, <2>8 DEF Placed, NoticesPlaced
<1>4. CASE HoldLostReply
  <2>1. PICK p \in Posts : PlaceHeld(p)
    BY <1>4 DEF HoldLostReply
  <2>2. UNCHANGED <<draft, record, notice>>
    BY <1>4 DEF HoldLostReply, store
  <2>3. /\ pc'[Worker] = "idle" /\ job'[Worker] = NoJob
        /\ \A g \in Handlers \ {Worker} : pc'[g] = pc[g] /\ job'[g] = job[g]
    BY <1>1, <1>4, OthersStay DEF HoldLostReply, Return, Goto
  <2>4. Kept
    BY <1>2, <2>1, <2>2
  <2>5. \A g \in Handlers : PlaceOf(g)'
    BY <2>2, <2>3, <2>4, PlaceGone, PlaceStays
  <2>6. RowsTellTheParent'
    BY <2>2, <2>4, RowsStay
  <2> QED BY <1>1, <2>2, <2>5, <2>6 DEF Placed, NoticesPlaced
<1>5. CASE InsertHold
  <2> DEFINE q == draft[job[Worker].draft].qna
             row == [state |-> "open", post |-> job[Worker].post]
  <2>1. /\ pc[Worker] = "hold_insert" /\ job[Worker].post \in Posts
        /\ UNCHANGED <<draft, record, post>>
    BY <1>1, <1>5 DEF InsertHold, Return, Goto, PlaceOf
  <2>2. \A k \in Questions :
          \/ notice'[k] = notice[k]
          \/ notice[k].state = "none" /\ notice'[k] = row
    BY <1>1, <1>5 DEF InsertHold, TypeOK
  <2>3. Kept
    BY <2>1, <2>2 DEF Kept, Answers
  <2>4. /\ pc'[Worker] = "idle" /\ job'[Worker] = NoJob
        /\ \A g \in Handlers \ {Worker} : pc'[g] = pc[g] /\ job'[g] = job[g]
    BY <1>1, <1>5, OthersStay DEF InsertHold, Return, Goto
  <2>5. \A g \in Handlers : PlaceOf(g)'
    BY <2>1, <2>3, <2>4, PlaceGone, PlaceStays
  <2>6. RowsTellTheParent'
    BY <2>1, <2>2, <2>3, RowsStay
  <2>7. NoticesPlaced'
    BY <1>1, <2>1, <2>2 DEF NoticesPlaced
  <2> QED BY <2>5, <2>6, <2>7 DEF Placed
<1> QED BY <1>3, <1>4, <1>5

\* What the operator settles as out carries its draft in the parent system.
LEMMA SettleRows ==
  ASSUME RowsInv, NEW r \in Records,
         \/ \E p \in Posts : SettlePublished(r, p)
         \/ SettleAbandoned(r)
  PROVE  Placed' /\ RowsTellTheParent'
<1>1. /\ TypeOK /\ NoticesPlaced /\ Shape
      /\ record[r].state = "in_flight"
      /\ UNCHANGED <<draft, notice, post, pc, job>>
  BY DEF RowsInv, IndInv, Placed, SettlePublished, SettleAbandoned
<1>2. \A s \in Records \ {r} : record'[s] = record[s]
  BY <1>1 DEF SettlePublished, SettleAbandoned, TypeOK
<1>3. Kept
  BY <1>1, <1>2 DEF Kept, Answers, OutState
<1>4. \A g \in Handlers : PlaceOf(g)'
  BY <1>1, <1>3, PlaceStays
<1>5. ASSUME NEW p \in Posts, SettlePublished(r, p)
      PROVE  RowsTellTheParent'
  <2>1. /\ record'[r].state = "published" /\ record'[r].post = p
        /\ record[r].draft \in Drafts /\ post[p].body = record[r].draft
    <3>1. record[r].draft \in Drafts
      BY <1>1, RowFields DEF TypeOK, Shape
    <3>2. record'[r].state = "published" /\ record'[r].post = p
      <4>1. record \in [Records -> RecordRow] /\ record[r] \in RecordRow
        BY <1>1 DEF TypeOK
      <4> QED BY <1>5, <4>1 DEF SettlePublished, RecordRow
    <3> QED BY <1>5, <3>1, <3>2 DEF SettlePublished
  <2>2. PublishedShowsAnswer'
    BY <1>1, <1>2, <2>1 DEF RowsInv, RowsTellTheParent, PublishedShowsAnswer
  <2>3. CorrectedHasSuccessor'
    <3> SUFFICES ASSUME NEW s \in Records, record'[s].state = "corrected"
                 PROVE  \E t \in Records :
                          /\ record'[t].state = "published"
                          /\ record'[t].post = record'[s].post
                          /\ record'[t].draft # record'[s].draft
      BY DEF CorrectedHasSuccessor
    <3>1. record'[s] = record[s]
      BY <1>2, <2>1
    <3>2. PICK t \in Records : /\ record[t].state = "published"
                               /\ record[t].post = record[s].post
                               /\ record[t].draft # record[s].draft
      BY <3>1 DEF RowsInv, RowsTellTheParent, CorrectedHasSuccessor
    <3>3. record'[t] = record[t]
      BY <1>1, <1>2, <3>2
    <3> QED BY <3>1, <3>2, <3>3
  <2>4. FilledShowsAnswer'
    BY <1>1 DEF RowsInv, RowsTellTheParent, FilledShowsAnswer
  <2> QED BY <2>2, <2>3, <2>4 DEF RowsTellTheParent
<1>6. ASSUME SettleAbandoned(r)
      PROVE  RowsTellTheParent'
  <2>1. record'[r].state = "abandoned"
    BY <1>1, <1>6 DEF SettleAbandoned, TypeOK, RecordRow
  <2> QED BY <1>1, <1>2, <1>3, <2>1, RowsStay DEF OutState
<1> QED BY <1>1, <1>4, <1>5, <1>6 DEF Placed, NoticesPlaced

\* Every step keeps the rows true.
LEMMA RowsNext ==
  ASSUME RowsInv, ~SettleLive, [Next]_vars
  PROVE  RowsInv'
<1>0. IndInv'
  BY NextIndInv DEF RowsInv
<1>1. CASE WorkerNext
  BY <1>0, <1>1, SaveDraftRows, FindingRows, CorrectionRows, JudgingRows,
     ReturningRows, HoldRows DEF WorkerNext, RowsInv, Handlers
<1>2. CASE WebNext
  BY <1>0, <1>2, JudgingRows, FindingRows DEF WebNext, RowsInv, Handlers
<1>3. ASSUME NEW h \in Handlers, PublishNext(h)
      PROVE  RowsInv'
  BY <1>0, <1>3, JudgingRows, ReturningRows, InsertRecordRows,
     ChooseTargetRows,
     CallRows, FinishRows DEF PublishNext, RowsInv
<1>4. CASE OperatorNext
  BY <1>0, <1>4, SettleRows DEF OperatorNext, RowsInv
<1>5. CASE UNCHANGED vars
  BY <1>0, <1>5 DEF vars, RowsInv, Placed, NoticesPlaced, PlaceOf, Answers,
     RowsTellTheParent, PublishedShowsAnswer, CorrectedHasSuccessor,
     FilledShowsAnswer
<1> QED BY <1>1, <1>2, <1>3, <1>4, <1>5 DEF Next

\* Before any draft is saved no handler has a place.
LEMMA InitRows == Init => RowsInv
<1> SUFFICES ASSUME Init PROVE RowsInv
  OBVIOUS
<1>1. Placed
  BY DEF Init, Placed, NoticesPlaced, PlaceOf, NoJob
<1>2. RowsTellTheParent
  BY DEF Init, RowsTellTheParent, PublishedShowsAnswer, CorrectedHasSuccessor,
     FilledShowsAnswer
<1> QED BY <1>1, <1>2, InitIndInv DEF RowsInv

\* The rows are true in every reachable state.
THEOREM RowsInvariant == ~SettleLive => (Spec => []RowsInv)
<1> SUFFICES ASSUME ~SettleLive PROVE Spec => []RowsInv
  OBVIOUS
<1>1. RowsInv /\ [Next]_vars => RowsInv'
  BY RowsNext
<1> QED BY <1>1, InitRows, PTL DEF Spec

\* A record that is out names a post with an answer, a corrected one has
\* handed its post over, and a filled notice carries an answer: whatever
\* handlers chose their place before others filled or corrected it
\* (_correction_target, holding_of and the closing transaction of publish).
THEOREM RowsTell == ~SettleLive => (Spec => []RowsTellTheParent)
<1>1. RowsInv => RowsTellTheParent
  BY DEF RowsInv
<1> QED BY <1>1, RowsInvariant, PTL

-----------------------------------------------------------------------------
(* The exit implements the contract of AnswerExit *)

\* What the ledger says of a draft follows from any record of it.
LEMMA LedgerReads ==
  ASSUME OneLiveRecord, NEW d \in Drafts
  PROVE  /\ \A r \in Records :
              /\ record[r].draft = d /\ record[r].state = "in_flight" =>
                   Ledger[d] = "open"
              /\ record[r].draft = d /\ record[r].state \in OutState =>
                   Ledger[d] = "out"
         /\ (\A r \in Records :
               record[r].draft = d => record[r].state \notin LiveState) =>
              Ledger[d] = "none"
<1> USE PublicationAssumption
<1>1. Ledger[d] = CASE LiveRecords(d) = {} -> "none"
                    [] \E r \in LiveRecords(d) :
                         record[r].state = "in_flight" -> "open"
                    [] OTHER -> "out"
  BY DEF Ledger
<1>2. \A r, s \in LiveRecords(d) : r = s
  BY DEF LiveRecords, LiveState, OneLiveRecord
<1>3. ASSUME NEW r \in Records, record[r].draft = d,
             record[r].state = "in_flight"
      PROVE  Ledger[d] = "open"
  <2>1. r \in LiveRecords(d)
    BY <1>3 DEF LiveRecords, LiveState
  <2> QED BY <1>1, <1>3, <2>1
<1>4. ASSUME NEW r \in Records, record[r].draft = d,
             record[r].state \in OutState
      PROVE  Ledger[d] = "out"
  <2>1. r \in LiveRecords(d) /\ record[r].state # "in_flight"
    BY <1>4 DEF LiveRecords, LiveState, OutState
  <2> QED BY <1>1, <1>2, <2>1
<1>5. ASSUME \A r \in Records :
               record[r].draft = d => record[r].state \notin LiveState
      PROVE  Ledger[d] = "none"
  <2>1. LiveRecords(d) = {}
    BY <1>5 DEF LiveRecords
  <2> QED BY <1>1, <2>1
<1> QED BY <1>3, <1>4, <1>5

\* The same of the next state.
LEMMA LedgerReadsNext ==
  ASSUME OneLiveRecord', NEW d \in Drafts
  PROVE  /\ \A r \in Records :
              /\ record'[r].draft = d /\ record'[r].state = "in_flight" =>
                   Ledger'[d] = "open"
              /\ record'[r].draft = d /\ record'[r].state \in OutState =>
                   Ledger'[d] = "out"
         /\ (\A r \in Records :
               record'[r].draft = d => record'[r].state \notin LiveState) =>
              Ledger'[d] = "none"
<1> USE PublicationAssumption
<1>1. Ledger'[d] = CASE LiveRecords(d)' = {} -> "none"
                     [] \E r \in LiveRecords(d)' :
                          record'[r].state = "in_flight" -> "open"
                     [] OTHER -> "out"
  BY DEF Ledger
<1>2. \A r, s \in LiveRecords(d)' : r = s
  BY DEF LiveRecords, LiveState, OneLiveRecord
<1>3. ASSUME NEW r \in Records, record'[r].draft = d,
             record'[r].state = "in_flight"
      PROVE  Ledger'[d] = "open"
  <2>1. r \in LiveRecords(d)'
    BY <1>3 DEF LiveRecords, LiveState
  <2> QED BY <1>1, <1>3, <2>1
<1>4. ASSUME NEW r \in Records, record'[r].draft = d,
             record'[r].state \in OutState
      PROVE  Ledger'[d] = "out"
  <2>1. r \in LiveRecords(d)' /\ record'[r].state # "in_flight"
    BY <1>4 DEF LiveRecords, LiveState, OutState
  <2> QED BY <1>1, <1>2, <2>1
<1>5. ASSUME \A r \in Records :
               record'[r].draft = d => record'[r].state \notin LiveState
      PROVE  Ledger'[d] = "none"
  <2>1. LiveRecords(d)' = {}
    BY <1>5 DEF LiveRecords
  <2> QED BY <1>1, <2>1
<1> QED BY <1>3, <1>4, <1>5

\* A draft whose records mean what they meant keeps its entry.
LEMMA LedgerStays ==
  ASSUME NEW d \in Drafts,
         \A r \in Records :
           \/ record[r].draft # d /\ record'[r].draft # d
           \/ /\ record[r].draft = record'[r].draft
              /\ \/ record[r].state = record'[r].state
                 \/ {record[r].state, record'[r].state} \subseteq OutState
  PROVE  Ledger'[d] = Ledger[d]
<1>1. LiveRecords(d)' = LiveRecords(d)
  BY DEF LiveRecords, LiveState, OutState
<1>2. (\E r \in LiveRecords(d)' : record'[r].state = "in_flight")
        <=> \E r \in LiveRecords(d) : record[r].state = "in_flight"
  BY <1>1 DEF LiveRecords, OutState
<1> QED BY <1>1, <1>2 DEF Ledger

\* One entry of the ledger changes, and nothing at the parent system.
LEMMA LedgerChanges ==
  ASSUME NEW d \in Drafts, NEW v, Ledger'[d] = v,
         \A e \in Drafts \ {d} : Ledger'[e] = Ledger[e]
  PROVE  Ledger' = [Ledger EXCEPT ![d] = v]
BY ZenonT(40) DEF Ledger

\* A row for the draft: the contract tries.
LEMMA InsertTries ==
  ASSUME IndInv, IndInv', NEW h \in Handlers, InsertRecord(h)
  PROVE  Exit!Next
<1> USE PublicationAssumption
<1> DEFINE d == job[h].draft
<1>1. TypeOK /\ Shape /\ OneLiveRecord /\ OneLiveRecord'
  BY DEF IndInv
<1>2. /\ d \in Drafts /\ LiveRecords(d) = {}
      /\ UNCHANGED post
  BY <1>1 DEF InsertRecord, Goto, Shape
<1>3. PICK r \in Records :
        /\ record[r].state = "unused"
        /\ record' = [record EXCEPT ![r] =
             [state |-> "in_flight", draft |-> d, post |-> None]]
  BY DEF InsertRecord
<1>4. /\ record'[r].draft = d /\ record'[r].state = "in_flight"
      /\ record[r].draft = None
      /\ \A s \in Records \ {r} : record'[s] = record[s]
  BY <1>1, <1>3 DEF TypeOK, Shape
<1>5. Ledger[d] = "none"
  BY <1>2 DEF Ledger
<1>6. Ledger'[d] = "open"
  BY <1>1, <1>2, <1>4, LedgerReadsNext
<1>7. \A e \in Drafts \ {d} : Ledger'[e] = Ledger[e]
  BY <1>4, LedgerStays
<1>8. Ledger' = [Ledger EXCEPT ![d] = "open"]
  BY <1>2, <1>6, <1>7, LedgerChanges
<1>9. UNCHANGED Standing
  BY <1>2 DEF Standing
<1> QED BY <1>2, <1>5, <1>8, <1>9 DEF Exit!Next, Exit!Try

\* The call, whether or not its reply comes back: the contract puts the answer
\* up, where it stood nowhere.
LEMMA CallPutsUp ==
  ASSUME IndInv, NEW h \in Handlers, CallParent(h) \/ CallLostReply(h)
  PROVE  Exit!Next
<1> USE PublicationAssumption
<1> DEFINE d == job[h].draft
<1>1. TypeOK /\ Shape /\ Attempts /\ OneLiveRecord
  BY DEF IndInv
<1>2. pc[h] = "call" /\ UNCHANGED record
  BY DEF CallParent, CallLostReply, Goto, Return, store
<1>3. PICK p \in Posts : Shown(h, p)
  BY DEF CallParent, CallLostReply
<1>4. /\ d \in Drafts
      /\ job[h].record \in Records
      /\ record[job[h].record].state = "in_flight"
      /\ record[job[h].record].draft = d
      /\ \A s \in Posts : post[s].body # d
  BY <1>1, <1>2 DEF Shape, Attempts
<1>5. Ledger[d] = "open" /\ UNCHANGED Ledger
  BY <1>1, <1>2, <1>4, LedgerReads DEF Ledger, LiveRecords
<1>6. /\ post'[p].body = d
      /\ \A s \in Posts \ {p} : post'[s] = post[s]
  <2>1. post \in [Posts -> PostRow] /\ post[p] \in PostRow
    BY <1>1 DEF TypeOK
  <2>2. post' = [post EXCEPT ![p].qna = draft[d].qna, ![p].body = d]
    BY <1>3 DEF Shown
  <2>3. [post[p] EXCEPT !.qna = draft[d].qna, !.body = d].body = d
    BY <2>1 DEF PostRow
  <2> QED BY <2>1, <2>2, <2>3
<1>7. Standing' = [Standing EXCEPT ![p] = d]
  BY <1>4, <1>6 DEF Standing
<1>8. \A s \in Posts : Standing[s] # d
  BY <1>4 DEF Standing
<1> QED BY <1>4, <1>5, <1>7, <1>8 DEF Exit!Next, Exit!PutUp, Exit!StandsNowhere

\* The closing transaction: the contract confirms, and the answer that was
\* corrected stays out.
LEMMA FinishConfirms ==
  ASSUME IndInv, IndInv', NEW h \in Handlers, FinishPublish(h)
  PROVE  Exit!Next
<1> USE PublicationAssumption
<1> DEFINE j == job[h]
           d == j.draft
<1>1. TypeOK /\ Shape /\ Attempts /\ OneLiveRecord /\ OneLiveRecord'
  BY DEF IndInv
<1>2. pc[h] = "finish" /\ UNCHANGED post
  BY DEF FinishPublish, Return, Goto
<1>3. /\ d \in Drafts /\ j.record \in Records
      /\ record[j.record].state = "in_flight" /\ record[j.record].draft = d
      /\ j.old # None => /\ j.old \in Records
                         /\ record[j.old].state \in OutState
  <2>1. j.old \in Records \union {None}
    BY <1>1, RowFields DEF TypeOK
  <2> QED BY <1>1, <1>2, <2>1 DEF Shape, Attempts, OutState
<1>4. \A r \in Records :
        /\ record'[r].draft = record[r].draft
        /\ r = j.old => record'[r].state = "corrected"
        /\ r = j.record => record'[r].state = "published"
        /\ r \notin {j.old, j.record} => record'[r] = record[r]
  <2>1. j.old # j.record
    BY <1>3 DEF OutState
  <2>2. record' = [r \in Records |->
          IF r = j.old THEN [record[r] EXCEPT !.state = "corrected"]
          ELSE IF r = j.record
            THEN [record[r] EXCEPT !.state = "published", !.post = j.post]
          ELSE record[r]]
    BY DEF FinishPublish
  <2>3. \A r \in Records : record[r] \in RecordRow
    BY <1>1 DEF TypeOK
  <2> QED BY <2>1, <2>2, <2>3 DEF RecordRow
<1>5. Ledger[d] = "open"
  BY <1>1, <1>3, LedgerReads
<1>6. Ledger'[d] = "out"
  BY <1>1, <1>3, <1>4, LedgerReadsNext DEF OutState
<1>7. ASSUME NEW e \in Drafts \ {d} PROVE Ledger'[e] = Ledger[e]
  <2>1. \A r \in Records :
          r = j.old => {record[r].state, record'[r].state} \subseteq OutState
    BY <1>3, <1>4 DEF OutState
  <2>2. \A r \in Records : r = j.record => record[r].draft # e
    BY <1>3
  <2> QED BY <1>4, <2>1, <2>2, LedgerStays
<1>8. Ledger' = [Ledger EXCEPT ![d] = "out"]
  BY <1>3, <1>6, <1>7, LedgerChanges
<1>9. UNCHANGED Standing
  BY <1>2 DEF Standing
<1> QED BY <1>3, <1>5, <1>8, <1>9 DEF Exit!Next, Exit!Confirm

\* The operator's settlement confirms, or forgets what stands nowhere.
LEMMA SettleSettles ==
  ASSUME IndInv, IndInv', NEW r \in Records,
         \/ \E p \in Posts : SettlePublished(r, p)
         \/ SettleAbandoned(r)
  PROVE  Exit!Next
<1> USE PublicationAssumption
<1> DEFINE d == record[r].draft
<1>1. /\ TypeOK /\ Shape /\ OneLiveRecord /\ OneLiveRecord'
      /\ record[r].state = "in_flight" /\ UNCHANGED post
  BY DEF IndInv, SettlePublished, SettleAbandoned
<1>2. d \in Drafts
  BY <1>1, RowFields DEF TypeOK, Shape
<1>3. /\ record'[r].draft = d
      /\ \A s \in Records \ {r} : record'[s] = record[s]
      /\ \/ record'[r].state = "published"
         \/ /\ record'[r].state = "abandoned"
            /\ \A p \in Posts : post[p].body # d
  <2>1. record \in [Records -> RecordRow] /\ record[r] \in RecordRow
    BY <1>1 DEF TypeOK
  <2>2. ASSUME NEW p \in Posts, SettlePublished(r, p)
        PROVE  record' = [record EXCEPT ![r] =
                 [record[r] EXCEPT !.state = "published", !.post = p]]
    BY <2>1, <2>2 DEF SettlePublished
  <2>3. ASSUME SettleAbandoned(r)
        PROVE  /\ record' = [record EXCEPT ![r] =
                    [record[r] EXCEPT !.state = "abandoned"]]
               /\ \A p \in Posts : post[p].body # d
    BY <2>1, <2>3 DEF SettleAbandoned
  <2>4. /\ [record[r] EXCEPT !.state = "abandoned"].state = "abandoned"
        /\ [record[r] EXCEPT !.state = "abandoned"].draft = d
        /\ \A p : LET row == [record[r] EXCEPT !.state = "published",
                                              !.post = p]
                 IN  row.state = "published" /\ row.draft = d
    BY <2>1 DEF RecordRow
  <2> DEFINE out(p) == [record[r] EXCEPT !.state = "published", !.post = p]
  <2>5. ASSUME NEW p \in Posts, SettlePublished(r, p)
        PROVE  /\ record'[r].draft = d /\ record'[r].state = "published"
               /\ \A s \in Records \ {r} : record'[s] = record[s]
    <3>1. record' = [record EXCEPT ![r] = out(p)]
      BY <2>2, <2>5
    <3>2. out(p).draft = d /\ out(p).state = "published"
      BY <2>4
    <3> HIDE DEF out
    <3> QED BY <2>1, <3>1, <3>2
  <2>6. ASSUME SettleAbandoned(r)
        PROVE  /\ record'[r].draft = d /\ record'[r].state = "abandoned"
               /\ \A s \in Records \ {r} : record'[s] = record[s]
    BY <2>1, <2>3, <2>4, <2>6
  <2> QED BY <2>3, <2>5, <2>6
<1>4. Ledger[d] = "open"
  BY <1>1, <1>2, LedgerReads
<1>5. \A e \in Drafts \ {d} : Ledger'[e] = Ledger[e]
  BY <1>3, LedgerStays
<1>6. UNCHANGED Standing
  BY <1>1 DEF Standing
<1>7. CASE record'[r].state = "published"
  <2>1. Ledger'[d] = "out"
    BY <1>1, <1>2, <1>3, <1>7, LedgerReadsNext DEF OutState
  <2>2. Ledger' = [Ledger EXCEPT ![d] = "out"]
    BY <1>2, <1>5, <2>1, LedgerChanges
  <2> QED BY <1>2, <1>4, <1>6, <2>2 DEF Exit!Next, Exit!Confirm
<1>8. CASE /\ record'[r].state = "abandoned"
           /\ \A p \in Posts : post[p].body # d
  <2>1. ASSUME NEW s \in Records, record'[s].draft = d
        PROVE  record'[s].state \notin LiveState
    BY <1>1, <1>2, <1>3, <1>8, <2>1 DEF OneLiveRecord, LiveState
  <2>2. Ledger'[d] = "none"
    BY <1>1, <1>2, <2>1, LedgerReadsNext
  <2>3. Ledger' = [Ledger EXCEPT ![d] = "none"]
    BY <1>2, <1>5, <2>2, LedgerChanges
  <2>4. \A p \in Posts : Standing[p] # d
    BY <1>2, <1>8 DEF Standing
  <2> QED BY <1>2, <1>4, <1>6, <2>3, <2>4
          DEF Exit!Next, Exit!Forget, Exit!StandsNowhere
<1> QED BY <1>3, <1>7, <1>8

\* The "confirming" notice is no answer.
LEMMA HoldShowsNothing ==
  ASSUME TypeOK, NEW p \in Posts, PlaceHeld(p), UNCHANGED record
  PROVE  UNCHANGED <<Ledger, Standing>>
<1> USE PublicationAssumption
<1>1. /\ post[p].body = None /\ post'[p].body = Holding
      /\ \A s \in Posts \ {p} : post'[s] = post[s]
  BY DEF PlaceHeld, TypeOK
<1>2. \A s \in Posts : Standing'[s] = Standing[s]
  BY <1>1 DEF Standing
<1>3. UNCHANGED Standing
  BY <1>2 DEF Standing
<1> QED BY <1>3 DEF Ledger, LiveRecords

\* Every step of the exit is a step of the contract or is not seen by it.
LEMMA ExitNext ==
  ASSUME IndInv, IndInv', [Next]_vars
  PROVE  [Exit!Next]_<<Ledger, Standing>>
<1>1. ASSUME UNCHANGED <<record, post>>
      PROVE  UNCHANGED <<Ledger, Standing>>
  BY <1>1 DEF Ledger, LiveRecords, Standing
<1>2. CASE WorkerNext
  <2>1. CASE CallHold \/ HoldLostReply
    BY <2>1, HoldShowsNothing DEF CallHold, HoldLostReply, store, IndInv
  <2>2. CASE ~(CallHold \/ HoldLostReply)
    <3>1. UNCHANGED <<record, post>>
      BY <1>2, <2>2 DEF WorkerNext, SaveDraft, OpenFinding, StartCorrection,
         SaveCorrection, JudgeAuto, CheckHold, InsertHold
    <3> QED BY <1>1, <3>1
  <2> QED BY <2>1, <2>2
<1>3. CASE WebNext
  <2>1. UNCHANGED <<record, post>>
    BY <1>3 DEF WebNext, Decide, RejectDraft, IgnoreFinding
  <2> QED BY <1>1, <2>1
<1>4. ASSUME NEW h \in Handlers, PublishNext(h)
      PROVE  [Exit!Next]_<<Ledger, Standing>>
  <2>1. CASE \/ Approve(h) \/ CheckPublish(h) \/ InsertRefused(h)
             \/ ChooseTarget(h) \/ Fail(h)
    <3>1. UNCHANGED <<record, post>>
      BY <2>1 DEF Approve, CheckPublish, InsertRefused, ChooseTarget, Fail
    <3> QED BY <1>1, <3>1
  <2> QED BY <1>4, <2>1, InsertTries, CallPutsUp, FinishConfirms
          DEF PublishNext
<1>5. CASE OperatorNext
  BY <1>5, SettleSettles DEF OperatorNext
<1>6. CASE UNCHANGED vars
  BY <1>1, <1>6 DEF vars
<1> QED BY <1>2, <1>3, <1>4, <1>5, <1>6 DEF Next

\* Before any draft is saved the ledger is empty and nothing stands.
LEMMA ExitInit == Init => Exit!Init
<1> SUFFICES ASSUME Init PROVE Exit!Init
  OBVIOUS
<1>1. Ledger = [d \in Drafts |-> "none"]
  <2>1. \A d \in Drafts : LiveRecords(d) = {}
    BY DEF Init, LiveRecords, LiveState
  <2> QED BY <2>1 DEF Ledger
<1>2. Standing = [p \in Posts |-> None]
  BY DEF Init, Standing
<1> QED BY <1>1, <1>2 DEF Exit!Init

\* The handlers, the tables and the calls implement the contract: an answer is
\* put up only on an open attempt and where it stands nowhere, and the ledger
\* forgets only an attempt that left nothing (publish, hold and settle).
THEOREM ExitImplemented == ~SettleLive => (Spec => KeepsExitContract)
<1> SUFFICES ASSUME ~SettleLive PROVE Spec => KeepsExitContract
  OBVIOUS
<1>1. Init => Exit!Init
  BY ExitInit
<1>2. IndInv /\ IndInv' /\ [Next]_vars => [Exit!Next]_<<Ledger, Standing>>
  BY ExitNext
<1>3. Spec => []IndInv
  BY PublicationInvariant
<1> QED BY <1>1, <1>2, <1>3, PTL DEF Spec, KeepsExitContract, Exit!Spec

=============================================================================
