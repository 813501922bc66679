---------------------------- MODULE QnaTracking ----------------------------
(***************************************************************************)
(* A question from the parent system until it is closed: collection        *)
(* (ingest/qna.py), admission and processing (operations/intake.py),       *)
(* rerun, quiet settlement and explicit resolution                         *)
(* (operations/tracking.py), with the web threads that judge drafts (Q2)   *)
(* and confirm resolutions (Q6) beside the worker's tick.                  *)
(*                                                                         *)
(* Time is kept as the order of what was said: words[q] is the thread of q *)
(* at the parent system by creation time, and the first old[q] words are   *)
(* older than the quiet period.  A revised post keeps its creation time,   *)
(* so it keeps its place.  How a draft goes out is Publication's subject;  *)
(* here a delivery is one step.                                            *)
(***************************************************************************)
EXTENDS Integers, Sequences, FiniteSets

CONSTANTS
  Questions,   \* questions of the parent system
  MaxSaid,     \* bound: words the asker says about one question
  MaxWords,    \* bound: no draft is made once the thread is this long
  Faults       \* may processing, collection and deliveries fail?

ASSUME TrackingAssumption ==
  /\ MaxSaid \in Nat \ {0}
  /\ MaxWords \in Nat
  /\ Faults \in BOOLEAN

VARIABLES
  words,      \* the thread at the parent system
  old,        \* how many of its words are older than the quiet period
  marked,     \* the asker marked the question resolved
  raw,        \* Raw Layer: how many words are collected, and the mark
  item,       \* table qna_item: state and resolution grade
  pending,    \* drafts waiting in Q2: for an answer, for a correction
  judged,     \* the judgement a web thread has committed and not finished
  ticket,     \* is there a ticket, an open one
  notice,     \* place of the open notice (0 none yet, -1 filled)
  fresh,      \* was an answer given after everything people said?
  pc,         \* where the worker's tick is
  todo,       \* the list the current stage has read and not worked off
  doing       \* question in process, the stage to return to, ticket to issue

vars == <<words, old, marked, raw, item, pending, judged, ticket, notice,
          fresh, pc, todo, doing>>

parent == <<words, old, marked>>
worker == <<pc, todo, doing>>

Kind  == {"answer", "correction"}
Word  == {"ask", "followup", "person", "answer", "notice", "filled"}
State == {"none", "received", "published", "followup", "awaiting_human",
          "resolved", "unresolved_closed"}
Terminal == {"resolved", "unresolved_closed"}
Grade == {"none", "implicit", "explicit"}
PC == {"collect", "intake", "rerun_list", "rerun", "settle", "correct",
       "process", "route", "ticket", "mark"}
Nobody == [q |-> "nobody", back |-> "collect", open |-> FALSE]
NoJudgement == [act |-> "none", kind |-> "answer"]

TypeOK ==
  /\ words \in [Questions -> Seq(Word)]
  /\ \A q \in Questions : old[q] \in 0..Len(words[q])
  /\ marked \in [Questions -> BOOLEAN]
  /\ raw \in [Questions -> [seen : Nat, explicit : BOOLEAN]]
  /\ item \in [Questions -> [state : State, grade : Grade]]
  /\ pending \in [Questions -> SUBSET Kind]
  /\ judged \in [Questions -> [act : {"none", "send", "reopen"}, kind : Kind]]
  /\ ticket \in [Questions -> [any : BOOLEAN, open : BOOLEAN]]
  /\ notice \in [Questions -> Nat \union {-1}]
  /\ fresh \in [Questions -> BOOLEAN]
  /\ pc \in PC
  /\ todo \in SUBSET Questions
  /\ doing \in [q : Questions \union {"nobody"},
                back : {"collect", "intake", "rerun"}, open : BOOLEAN]

Init ==
  /\ words = [q \in Questions |-> <<>>]
  /\ old = [q \in Questions |-> 0]
  /\ marked = [q \in Questions |-> FALSE]
  /\ raw = [q \in Questions |-> [seen |-> 0, explicit |-> FALSE]]
  /\ item = [q \in Questions |-> [state |-> "none", grade |-> "none"]]
  /\ pending = [q \in Questions |-> {}]
  /\ judged = [q \in Questions |-> NoJudgement]
  /\ ticket = [q \in Questions |-> [any |-> FALSE, open |-> FALSE]]
  /\ notice = [q \in Questions |-> 0]
  /\ fresh = [q \in Questions |-> FALSE]
  /\ pc = "collect"
  /\ todo = {}
  /\ doing = Nobody

-----------------------------------------------------------------------------
(* The parent system: people talk, time passes *)

IsAnswer(w) == w \in {"person", "answer", "notice", "filled"}
Said(q) == Cardinality({i \in 1..Len(words[q]) :
                          words[q][i] \in {"ask", "followup"}})

\* Place of the last word of a kind among the first n, 0 if there is none.
LastPlace(q, n, Test(_)) ==
  LET places == {i \in 1..n : Test(words[q][i])}
  IN  IF places = {} THEN 0 ELSE CHOOSE i \in places : \A j \in places : j <= i

LastAnswer(q, n)   == LastPlace(q, n, IsAnswer)
LastFollowup(q, n) == LastPlace(q, n, LAMBDA w : w = "followup")

\* Did anybody answer, did we?
Answered(q)    == \E i \in 1..Len(words[q]) :
                    words[q][i] \in {"person", "answer", "filled"}
AnswerIsOut(q) == \E i \in 1..Len(words[q]) :
                    words[q][i] \in {"answer", "filled"}

Say(q, w) == words' = [words EXCEPT ![q] = Append(@, w)]

Ask(q) ==
  /\ Said(q) < MaxSaid
  /\ Say(q, IF words[q] = <<>> THEN "ask" ELSE "followup")
  /\ fresh' = [fresh EXCEPT ![q] = FALSE]
  /\ UNCHANGED <<old, marked, raw, item, pending, judged, ticket, notice, worker>>

\* A person answers in the thread (bound: only before anybody else did).
PersonAnswers(q) ==
  /\ words[q] # <<>>
  /\ ~Answered(q)
  /\ Say(q, "person")
  /\ fresh' = [fresh EXCEPT ![q] = TRUE]
  /\ UNCHANGED <<old, marked, raw, item, pending, judged, ticket, notice, worker>>

MarkResolved(q) ==
  /\ words[q] # <<>>
  /\ ~marked[q]
  /\ marked' = [marked EXCEPT ![q] = TRUE]
  /\ UNCHANGED <<words, old, raw, item, pending, judged, ticket, notice, fresh,
                 worker>>

QuietPasses(q) ==
  /\ old[q] < Len(words[q])
  /\ old' = [old EXCEPT ![q] = Len(words[q])]
  /\ UNCHANGED <<words, marked, raw, item, pending, judged, ticket, notice,
                 fresh, worker>>

-----------------------------------------------------------------------------
(* The tick: collect, intake, adopt, rerun, settle, correct *)

\* QnaCollector.collect: new questions, and every stored one that is not
\* explicitly resolved, are read again; one commit.
Recollected(q) == ~raw[q].explicit

Collect ==
  /\ pc = "collect"
  /\ raw' = [q \in Questions |->
              IF Recollected(q)
              THEN [seen |-> Len(words[q]), explicit |-> marked[q]]
              ELSE raw[q]]
  /\ todo' = {q \in Questions : raw'[q].seen > 0 /\ item[q].state = "none"}
  /\ pc' = "intake"
  /\ UNCHANGED <<parent, item, pending, judged, ticket, notice, fresh, doing>>

\* The parent system did not answer: nothing was committed, the tick goes on.
CollectFails ==
  /\ Faults
  /\ pc = "collect"
  /\ todo' = {q \in Questions : raw[q].seen > 0 /\ item[q].state = "none"}
  /\ pc' = "intake"
  /\ UNCHANGED <<parent, raw, item, pending, judged, ticket, notice, fresh,
                 doing>>

\* admit commits the item; a question that already has an answer needs none.
Admit(q) ==
  LET already == LastAnswer(q, raw[q].seen) # 0 IN
  /\ pc = "intake"
  /\ q \in todo
  /\ todo' = todo \ {q}
  /\ item' = [item EXCEPT ![q].state = "received"]
  /\ doing' = [q |-> q, back |-> "intake", open |-> FALSE]
  /\ pc' = IF already THEN "ticket" ELSE "process"
  /\ UNCHANGED <<parent, raw, pending, judged, ticket, notice, fresh>>

\* process: the pipeline halts without a draft, so a person must answer.
ProcessHalts ==
  /\ pc = "process"
  /\ doing' = [doing EXCEPT !.open = TRUE]
  /\ pc' = "ticket"
  /\ UNCHANGED <<parent, raw, item, pending, judged, ticket, notice, fresh,
                 todo>>

\* process: a draft is saved and is in Q2 from here on.
ProcessDrafts ==
  /\ pc = "process"
  /\ Len(words[doing.q]) < MaxWords
  /\ pending' = [pending EXCEPT ![doing.q] = @ \union {"answer"}]
  /\ pc' = "route"
  /\ UNCHANGED <<parent, raw, item, judged, ticket, notice, fresh, todo, doing>>

\* An exception: run and rerun note the failure and go to the next question.
\* The draft may have been approved by then and its record be in flight.
ProcessFails ==
  /\ Faults
  /\ pc \in {"process", "route", "ticket"}
  /\ pc' = doing.back
  /\ doing' = Nobody
  /\ \/ UNCHANGED pending
     \/ /\ pc = "route"
        /\ pending' = [pending EXCEPT ![doing.q] = @ \ {"answer"}]
  /\ UNCHANGED <<parent, raw, item, judged, ticket, notice, fresh, todo>>

\* A draft goes out: it fills the open notice, or is a new post; a correction
\* revises what is there.  The item becomes "published" whatever it was.
Deliver(q, kind) ==
  /\ words' = IF kind = "correction" THEN words
              ELSE IF notice[q] > 0
                THEN [words EXCEPT ![q][notice[q]] = "filled"]
              ELSE [words EXCEPT ![q] = Append(@, "answer")]
  /\ notice' = IF kind = "answer" /\ notice[q] > 0
               THEN [notice EXCEPT ![q] = -1] ELSE notice
  /\ fresh' = [fresh EXCEPT ![q] = TRUE]
  /\ item' = [item EXCEPT ![q].state = "published"]

\* _queue: the gate sends the draft out, if no operator judged it before.
RouteAuto ==
  /\ pc = "route"
  /\ IF "answer" \in pending[doing.q]
     THEN /\ pending' = [pending EXCEPT ![doing.q] = @ \ {"answer"}]
          /\ Deliver(doing.q, "answer")
     ELSE UNCHANGED <<words, item, pending, notice, fresh>>
  /\ pc' = "ticket"
  /\ UNCHANGED <<old, marked, raw, judged, ticket, todo, doing>>

\* _queue: a person must look; hold keeps the place.  After the notice was
\* filled once, hold posts another and its INSERT fails: processing ends here.
RouteHuman ==
  LET q == doing.q IN
  /\ pc = "route"
  /\ \/ /\ notice[q] > 0
        /\ pc' = "ticket"
        /\ UNCHANGED <<words, notice, doing>>
     \/ /\ notice[q] = 0
        /\ Say(q, "notice")
        /\ notice' = [notice EXCEPT ![q] = Len(words[q]) + 1]
        /\ pc' = "ticket"
        /\ UNCHANGED doing
     \/ /\ notice[q] = -1
        /\ Say(q, "notice")
        /\ pc' = doing.back
        /\ doing' = Nobody
        /\ UNCHANGED notice
  /\ UNCHANGED <<old, marked, raw, item, pending, judged, ticket, fresh, todo>>

\* _queue without a gate, or with a gate that has no exit for the draft.
RouteNowhere ==
  /\ pc = "route"
  /\ pc' = "ticket"
  /\ UNCHANGED <<parent, raw, item, pending, judged, ticket, notice, fresh,
                 todo, doing>>

\* Mutant: every ticket is issued closed.
IssueClosed(q, open) ==
  ticket' = [ticket EXCEPT ![q].any = TRUE]

Issue(q, open) ==
  ticket' = [ticket EXCEPT ![q] = [any |-> TRUE, open |-> @.open \/ open]]

IssueTicket ==
  /\ pc = "ticket"
  /\ Issue(doing.q, doing.open)
  /\ pc' = "mark"
  /\ UNCHANGED <<parent, raw, item, pending, judged, notice, fresh, todo, doing>>

\* The last commit of process, whatever happened to the item meanwhile.
MarkAwaiting ==
  /\ pc = "mark"
  /\ item' = [item EXCEPT ![doing.q].state = "awaiting_human"]
  /\ pc' = doing.back
  /\ doing' = Nobody
  /\ UNCHANGED <<parent, raw, pending, judged, ticket, notice, fresh, todo>>

\* When all are admitted: adopt_explicit.
AdoptExplicit ==
  /\ pc = "intake"
  /\ todo = {}
  /\ item' = [q \in Questions |->
               IF /\ raw[q].explicit
                  /\ item[q].state # "none"
                  /\ item[q].grade # "explicit"
               THEN [state |-> "resolved", grade |-> "explicit"]
               ELSE item[q]]
  /\ pc' = "rerun_list"
  /\ UNCHANGED <<parent, raw, pending, judged, ticket, notice, fresh, todo,
                 doing>>

\* awaiting_rerun: the last collected follow-up is later than the last
\* collected answer, and no draft waits.
AwaitingRerun(q) ==
  LET n == raw[q].seen IN
  /\ item[q].state \notin Terminal \union {"none"}
  /\ LastFollowup(q, n) > LastAnswer(q, n)
  /\ pending[q] = {}

ListReruns ==
  /\ pc = "rerun_list"
  /\ todo' = {q \in Questions : AwaitingRerun(q)}
  /\ pc' = "rerun"
  /\ UNCHANGED <<parent, raw, item, pending, judged, ticket, notice, fresh,
                 doing>>

Rerun(q) ==
  /\ pc = "rerun"
  /\ q \in todo
  /\ todo' = todo \ {q}
  /\ item' = [item EXCEPT ![q].state = "followup"]
  /\ doing' = [q |-> q, back |-> "rerun", open |-> FALSE]
  /\ pc' = "process"
  /\ UNCHANGED <<parent, raw, pending, judged, ticket, notice, fresh>>

\* Mutants: a draft in Q2, the asker's mark does not hold the
\* settlement back; an open ticket does.
QuietDrafted(q) ==
  /\ item[q].state \notin Terminal \union {"none"}
  /\ ~raw[q].explicit
  /\ raw[q].seen <= old[q]

QuietMarked(q) ==
  /\ item[q].state \notin Terminal \union {"none"}
  /\ pending[q] = {}
  /\ raw[q].seen <= old[q]

QuietTicketless(q) ==
  /\ item[q].state \notin Terminal \union {"none"}
  /\ ~raw[q].explicit
  /\ pending[q] = {}
  /\ raw[q].seen <= old[q]
  /\ ~ticket[q].open

\* When all are rerun: settle_quiet reads the open items that wait for nothing ...
Quiet(q) ==
  /\ item[q].state \notin Terminal \union {"none"}
  /\ ~raw[q].explicit
  /\ pending[q] = {}
  /\ raw[q].seen <= old[q]

ListQuiet ==
  /\ pc = "rerun"
  /\ todo = {}
  /\ todo' = {q \in Questions : Quiet(q)}
  /\ pc' = "settle"
  /\ UNCHANGED <<parent, raw, item, pending, judged, ticket, notice, fresh,
                 doing>>

\* Mutant: the grade is set always.
VerdictGraded(q) ==
  [state |-> IF LastAnswer(q, raw[q].seen) = raw[q].seen
             THEN "resolved" ELSE "unresolved_closed",
   grade |-> "implicit"]

\* ... and closes them by who spoke last.
Verdict(q) ==
  IF LastAnswer(q, raw[q].seen) = raw[q].seen
  THEN [state |-> "resolved", grade |-> "implicit"]
  ELSE [state |-> "unresolved_closed", grade |-> "none"]

SettleQuiet ==
  /\ pc = "settle"
  /\ item' = [q \in Questions |-> IF q \in todo THEN Verdict(q) ELSE item[q]]
  /\ todo' = {}
  /\ pc' = "correct"
  /\ UNCHANGED <<parent, raw, pending, judged, ticket, notice, fresh, doing>>

\* _draft_corrections: the ground of an answer that is out was renewed.
DraftCorrections ==
  /\ pc = "correct"
  /\ \E some \in SUBSET {q \in Questions :
                            AnswerIsOut(q) /\ "correction" \notin pending[q]} :
       pending' = [q \in Questions |->
                    IF q \in some THEN pending[q] \union {"correction"}
                    ELSE pending[q]]
  /\ pc' = "collect"
  /\ UNCHANGED <<parent, raw, item, judged, ticket, notice, fresh, todo, doing>>

-----------------------------------------------------------------------------
(* The web process *)

\* q2_decide commits the judgement (bound: one at a time for a question) ...
Judge(q, kind, act) ==
  /\ judged[q] = NoJudgement
  /\ kind \in pending[q]
  /\ pending' = [pending EXCEPT ![q] = @ \ {kind}]
  /\ judged' = [judged EXCEPT ![q] = [act |-> act, kind |-> kind]]
  /\ UNCHANGED <<parent, raw, item, ticket, notice, fresh, worker>>

\* ... then an approved draft goes out, or its record stays in flight ...
SendDraft(q) ==
  /\ judged[q].act = "send"
  /\ judged' = [judged EXCEPT ![q] = NoJudgement]
  /\ \/ Deliver(q, judged[q].kind)
     \/ Faults /\ UNCHANGED <<words, item, notice, fresh>>
  /\ UNCHANGED <<old, marked, raw, pending, ticket, worker>>

\* ... and for a rejected one a new ticket is opened, unless the process ends.
ReopenForRejected(q) ==
  /\ judged[q].act = "reopen"
  /\ judged' = [judged EXCEPT ![q] = NoJudgement]
  /\ \/ /\ Issue(q, TRUE)
        /\ item' = [item EXCEPT ![q].state = "awaiting_human"]
     \/ Faults /\ UNCHANGED <<ticket, item>>
  /\ UNCHANGED <<parent, raw, pending, notice, fresh, worker>>

\* q6_confirm: an operator confirms an implicit resolution.
Upgrade(q) ==
  /\ item[q].grade = "implicit"
  /\ item' = [item EXCEPT ![q] = [state |-> "resolved", grade |-> "explicit"]]
  /\ UNCHANGED <<parent, raw, pending, judged, ticket, notice, fresh, worker>>

-----------------------------------------------------------------------------

ParentNext ==
  \E q \in Questions :
    Ask(q) \/ PersonAnswers(q) \/ MarkResolved(q) \/ QuietPasses(q)

WorkerNext ==
  \/ Collect \/ CollectFails
  \/ \E q \in Questions : Admit(q) \/ Rerun(q)
  \/ ProcessHalts \/ ProcessDrafts \/ ProcessFails
  \/ RouteAuto \/ RouteHuman \/ RouteNowhere
  \/ IssueTicket \/ MarkAwaiting
  \/ AdoptExplicit \/ ListReruns \/ ListQuiet \/ SettleQuiet \/ DraftCorrections

WebNext ==
  \E q \in Questions :
    \/ \E kind \in Kind, act \in {"send", "reopen"} : Judge(q, kind, act)
    \/ SendDraft(q) \/ ReopenForRejected(q)
    \/ Upgrade(q)

Next == ParentNext \/ WorkerNext \/ WebNext

Spec == Init /\ [][Next]_vars

\* The worker keeps ticking and time keeps passing; a web handler that has
\* started goes on to its end.  Nobody has to judge, confirm, ask or answer.
Fairness ==
  /\ WF_vars(WorkerNext)
  /\ \A q \in Questions : WF_vars(QuietPasses(q))
  /\ \A q \in Questions : WF_vars(SendDraft(q)) /\ WF_vars(ReopenForRejected(q))

FairSpec == Spec /\ Fairness

-----------------------------------------------------------------------------
(* Properties *)

\* A question is counted as resolved exactly with a grade, and as a knowledge
\* gap exactly without one, whichever of settlement, the asker's mark, Q6, a
\* late delivery or a rejection wrote the row last.
GradeFitsState ==
  \A q \in Questions :
    /\ item[q].state = "resolved" => item[q].grade # "none"
    /\ item[q].state = "unresolved_closed" => item[q].grade = "none"

\* An admitted question nobody has answered is in some queue: a draft waits in
\* Q2, an open ticket was issued, a web thread is about to send the draft or
\* to open the ticket, or the worker is still on it (failure converges on the
\* operators' queues).
UnansweredIsSomeonesJob ==
  \A q \in Questions :
    \/ item[q].state \in Terminal \union {"none"}
    \/ Answered(q)
    \/ pending[q] # {} \/ judged[q] # NoJudgement
    \/ ticket[q].open
    \/ doing.q = q

\* The timeout never closes a question whose draft waits in Q2, though the
\* list of quiet questions was read before the closing UPDATEs.
ClosesOnlyIdle ==
  [][\A q \in Questions :
       pc = "settle" /\ pc' = "correct" /\ item'[q] # item[q] =>
         pending[q] = {}]_vars

\* The asker's mark is taken over as an explicit resolution and stays, also
\* against a settlement, a follow-up, a late answer or a rejection.
MarkIsNeverLost ==
  \A q \in Questions :
    marked[q] ~> [](item[q].grade = "explicit")

\* No question stays open for ever: again and again it is closed, or a draft
\* of it waits for an operator, or it is explicitly resolved.
SettlesOrWaits ==
  \A q \in Questions :
    []<>(\/ words[q] = <<>>
         \/ item[q].state \in Terminal
         \/ item[q].grade = "explicit"
         \/ pending[q] # {})

(* What the documents say and the code does not keep *)

\* "There is no downgrade": an explicit grade never goes away (upgrade,
\* settle_quiet and the requirements say so).
GradeNeverDropped ==
  [][\A q \in Questions :
       item[q].grade = "explicit" => item'[q].grade = "explicit"]_vars

\* tracking.py: "the last word is an answer -> resolved (implicit), an answer
\* went out": a question is implicitly resolved only if somebody answered it.
ImplicitMeansAnswered ==
  \A q \in Questions : item[q].grade = "implicit" => Answered(q)

\* tracking.py: "the last word is a question or a follow-up -> unresolved
\* closed, asked but no answer could go out": a question is closed so only if
\* no answer was given after all that people said, all of it collected.
GapMeansUnanswered ==
  [][\A q \in Questions :
       /\ item'[q].state = "unresolved_closed"
       /\ item[q].state # "unresolved_closed"
       /\ raw[q].seen = Len(words[q])
       => ~fresh[q]]_vars

\* intake.py: "every QnA issues a ticket": an admitted question the worker is
\* not on has one.
AdmittedHasTicket ==
  \A q \in Questions :
    item[q].state = "none" \/ ticket[q].any \/ doing.q = q

\* settle_quiet: "if not closed, the item stays open for ever": a question no
\* draft waits for in the end is closed in the end.
EventuallyClosed ==
  \A q \in Questions :
    <>[](words[q] # <<>> /\ pending[q] = {}) =>
      []<>(item[q].state \in Terminal)

\* awaiting_rerun: "questions that reached an end point are left out": the
\* worker does not process a question for ever that its asker marked resolved.
MarkedIsLeftAlone ==
  \A q \in Questions : <>[]marked[q] => <>[](doing.q # q)

\* qna_state: "awaiting human" means it went over to a ticket and waits for a
\* person: there is an open ticket or a draft to judge.
AwaitingMeansWork ==
  \A q \in Questions :
    item[q].state = "awaiting_human" =>
      \/ pending[q] # {} \/ judged[q] # NoJudgement
      \/ ticket[q].open

=============================================================================
