------------------------------ MODULE Tickets ------------------------------
(***************************************************************************)
(* Tickets, their resolutions and how a resolution becomes knowledge:      *)
(* operations/ticket.py, resolution.py, promotion.py, drafter.py and       *)
(* manual_entry.py, the screens Q1, Q7 and /entry (web/app.py), and the    *)
(* worker's stages promote, release and draft (worker/runner.py).          *)
(*                                                                         *)
(* Only tickets of questions are kept: the others are never promoted.      *)
(* What a resolution says is left out; it is confirmed or not, and its     *)
(* generalised question names the file it becomes.                         *)
(***************************************************************************)
EXTENDS Naturals, FiniteSets

CONSTANTS
  Tickets,
  Items,       \* QnA items
  Titles,      \* generalised questions
  Webs,        \* threads of the web process
  Worker,
  None,        \* no ticket
  ItemOf,      \* the item a ticket is for: an item may have several
  TitleOf,     \* the generalised question the model finds for a ticket
  MaxIds,      \* bound: ids of knowledge items that something refers to
  MaxAnswers,  \* bound: published answers of an item
  MaxFaults    \* bound: crashes, failed commits, failed calls of the model

ASSUME TicketsAssumption ==
  /\ Worker \notin Webs
  /\ None \notin Tickets
  /\ ItemOf \in [Tickets -> Items]
  /\ TitleOf \in [Tickets -> Titles]
  /\ MaxIds \in Nat /\ MaxAnswers \in Nat /\ MaxFaults \in Nat

VARIABLES
  ticket,    \* table ticket: the state of each
  reply,     \* tickets whose item had a follow-up after state_at
  entry,     \* table manual_entry: items somebody wrote an answer for
  byHand,    \* items that did not come from the parent system
  answers,   \* published answers of an item
  row,       \* table ticket_resolution: none, a draft, or confirmed
  item,      \* its promoted_item_id, 0 when there is none
  declined,  \* tickets whose row has promotion_declined_at
  kb,        \* the file of each title: the id of the item in it, 0 for none
  job,       \* what each handler is doing
  stage,     \* where the worker's tick is
  todo,      \* the list the stage works off: a ticket may be in it twice
  apart,     \* do handlers keep from working on one ticket at once?
  faults

vars == <<ticket, reply, entry, byHand, answers, row, item, declined, kb, job,
          stage, todo, apart, faults>>

inflow   == <<entry, byHand, answers>>
verdicts == <<item, declined>>
tick     == <<stage, todo>>

Procs == Webs \union {Worker}
Ids   == 1..MaxIds

Terminal     == {"closed", "auto_closed"}
QueueVisible == {"open", "in_progress"}
Live         == QueueVisible \union {"held"}
States       == Live \union Terminal

Stages == {"down", "promote", "promoting", "releasing", "drafting", "handling"}

Idle == [at |-> "idle", ticket |-> None, to |-> "none", id |-> 0]

Job == [at : {"idle", "issue", "read", "write", "check", "save", "record"},
        ticket : Tickets \union {None}, to : States \union {"none"},
        id : 0..MaxIds]

TypeOK ==
  /\ ticket \in [Tickets -> States \union {"none"}]
  /\ reply \subseteq Tickets
  /\ entry \subseteq Items
  /\ byHand \subseteq Items
  /\ answers \in [Items -> 0..MaxAnswers]
  /\ row \in [Tickets -> {"none", "draft", "confirmed"}]
  /\ item \in [Tickets -> 0..MaxIds]
  /\ declined \subseteq Tickets
  /\ kb \in [Titles -> 0..MaxIds]
  /\ job \in [Procs -> Job]
  /\ stage \in Stages
  /\ todo \subseteq Tickets \X (1..MaxAnswers \union {1})
  /\ apart \in BOOLEAN
  /\ faults \in 0..MaxFaults

Init ==
  /\ ticket = [t \in Tickets |-> "none"]
  /\ reply = {}
  /\ entry = {}
  /\ byHand = {}
  /\ answers = [q \in Items |-> 0]
  /\ row = [t \in Tickets |-> "none"]
  /\ item = [t \in Tickets |-> 0]
  /\ declined = {}
  /\ kb = [x \in Titles |-> 0]
  /\ job = [p \in Procs |-> Idle]
  /\ stage = "down"
  /\ todo = {}
  /\ apart \in BOOLEAN
  /\ faults = 0

Fault == faults < MaxFaults /\ faults' = faults + 1

\* A handler may begin with a ticket: when they keep apart, no other is at it.
Free(p, t) == apart => \A o \in Procs \ {p} : job[o].ticket # t

Start(p, t, there, to) ==
  job' = [job EXCEPT ![p] = [at |-> there, ticket |-> t, to |-> to, id |-> 0]]

Goto(p, there) == job' = [job EXCEPT ![p].at = there]

Finish(p) == job' = [job EXCEPT ![p] = Idle]

-----------------------------------------------------------------------------
(* What comes from elsewhere *)

\* Intake issues a ticket for what it answered or could not answer, and a
\* rejected draft another one.
IssueTicket(t) ==
  /\ ticket[t] = "none"
  /\ ItemOf[t] \notin byHand
  /\ \E s \in {"open", "auto_closed"} : ticket' = [ticket EXCEPT ![t] = s]
  /\ UNCHANGED <<reply, inflow, row, verdicts, kb, job, tick, apart, faults>>

\* An approved draft of the item goes out.
Publish(q) ==
  /\ answers[q] < MaxAnswers
  /\ \E t \in Tickets : ItemOf[t] = q /\ ticket[t] # "none"
  /\ q \notin byHand
  /\ answers' = [answers EXCEPT ![q] = @ + 1]
  /\ UNCHANGED <<ticket, reply, entry, byHand, row, verdicts, kb, job, tick,
                 apart, faults>>

\* The collection brings a follow-up of the asker: later than every state.
FollowUp(q) ==
  /\ q \notin byHand
  /\ reply' = reply \union {t \in Tickets : ItemOf[t] = q /\ ticket[t] # "none"}
  /\ reply' # reply
  /\ UNCHANGED <<ticket, inflow, row, verdicts, kb, job, tick, apart, faults>>

-----------------------------------------------------------------------------
(* Steps that the screens and the worker share *)

\* TRANSITIONS: from an end state nowhere.
Transitions(s) == IF s \in Live THEN (Live \union {"closed"}) \ {s} ELSE {}

\* has_resolution: somebody filled the invalidation in.
HasResolution(t) == row[t] = "confirmed"

\* transition reads the state, and the resolution when it is to close ...
ReadState(p) ==
  LET t == job[p].ticket  to == job[p].to IN
  /\ job[p].at = "read"
  /\ to \in Transitions(ticket[t])
  /\ to = "closed" => HasResolution(t)
  /\ Goto(p, "write")
  /\ UNCHANGED <<ticket, reply, inflow, row, verdicts, kb, tick, apart, faults>>

\* ... or refuses.  The screen ends; nothing in the worker catches it, and the
\* process ends.
Refused(p) ==
  LET t == job[p].ticket  to == job[p].to IN
  /\ job[p].at = "read"
  /\ \/ to \notin Transitions(ticket[t])
     \/ to = "closed" /\ ~HasResolution(t)
  /\ Finish(p)
  /\ IF p = Worker THEN stage' = "down" /\ todo' = {} ELSE UNCHANGED tick
  /\ UNCHANGED <<ticket, reply, inflow, row, verdicts, kb, apart, faults>>

\* The update goes by id alone.  A ticket that was closed is to be promoted.
WriteState(p) ==
  LET t == job[p].ticket IN
  /\ job[p].at = "write"
  /\ ticket' = [ticket EXCEPT ![t] = job[p].to]
  /\ reply' = reply \ {t}
  /\ IF job[p].to = "closed" THEN Goto(p, "check") ELSE Finish(p)
  /\ UNCHANGED <<inflow, row, verdicts, kb, tick, apart, faults>>

\* Mutant: what Q7 declined is promoted.
PromotableThoughDeclined(t) ==
  ticket[t] \in Terminal /\ row[t] = "confirmed" /\ item[t] = 0

\* The guards of promote.
Promotable(t) ==
  /\ ticket[t] \in Terminal
  /\ row[t] = "confirmed"
  /\ item[t] = 0
  /\ t \notin declined

CheckPromotable(p) ==
  /\ job[p].at = "check"
  /\ IF Promotable(job[p].ticket) THEN Goto(p, "save") ELSE Finish(p)
  /\ UNCHANGED <<ticket, reply, inflow, row, verdicts, kb, tick, apart, faults>>

\* Ids that something refers to.
InUse == {item[t] : t \in Tickets} \union {kb[x] : x \in Titles}
           \union {job[p].id : p \in Procs}

\* A new item is written to the file of its title, whatever is in it.
SaveItem(p) ==
  /\ job[p].at = "save"
  /\ \E i \in Ids \ InUse :
       /\ \A j \in Ids : j < i => j \in InUse
       /\ kb' = [kb EXCEPT ![TitleOf[job[p].ticket]] = i]
       /\ job' = [job EXCEPT ![p].at = "record", ![p].id = i]
  /\ UNCHANGED <<ticket, reply, inflow, row, verdicts, tick, apart, faults>>

\* It is committed, and the row says what it became.
RecordItem(p) ==
  /\ job[p].at = "record"
  /\ item' = [item EXCEPT ![job[p].ticket] = job[p].id]
  /\ Finish(p)
  /\ UNCHANGED <<ticket, reply, inflow, row, declined, kb, tick, apart, faults>>

\* The commit fails: the screen shows an error, run_auto goes on.
CommitFails(p) ==
  /\ job[p].at = "record"
  /\ Fault
  /\ Finish(p)
  /\ UNCHANGED <<ticket, reply, inflow, row, verdicts, kb, tick, apart>>

Step(p) ==
  \/ ReadState(p) \/ Refused(p) \/ WriteState(p)
  \/ CheckPromotable(p) \/ SaveItem(p) \/ RecordItem(p)

-----------------------------------------------------------------------------
(* The screens.  A form may be older than what it shows. *)

\* /entry: the question and its answer are committed ...
Register(w, q) ==
  /\ job[w] = Idle
  /\ q \notin entry
  /\ \A t \in Tickets : ItemOf[t] = q => ticket[t] = "none"
  /\ entry' = entry \union {q}
  /\ byHand' = byHand \union {q}
  /\ \E t \in Tickets : ItemOf[t] = q /\ Start(w, t, "issue", "none")
  /\ UNCHANGED <<ticket, reply, answers, row, verdicts, kb, tick, apart, faults>>

\* ... and then the ticket.
IssueRegistered(w) ==
  /\ job[w].at = "issue"
  /\ ticket' = [ticket EXCEPT ![job[w].ticket] = "open"]
  /\ Finish(w)
  /\ UNCHANGED <<reply, inflow, row, verdicts, kb, tick, apart, faults>>

\* q1_answer: what somebody answered elsewhere is attached.
AnswerByHand(t) ==
  /\ ticket[t] \in QueueVisible
  /\ ItemOf[t] \notin entry
  /\ row[t] = "none"
  /\ entry' = entry \union {ItemOf[t]}
  /\ UNCHANGED <<ticket, reply, byHand, answers, row, verdicts, kb, job, tick,
                 apart, faults>>

\* q1_state: the page offers every live state but the one it shows.
PressState(w, t, to) ==
  /\ job[w] = Idle
  /\ ticket[t] # "none"
  /\ Free(w, t)
  /\ Start(w, t, "read", to)
  /\ UNCHANGED <<ticket, reply, inflow, row, verdicts, kb, tick, apart, faults>>

\* q1_confirm: the invalidation is filled in, the ticket closes, the
\* resolution is promoted.
Confirm(w, t) ==
  /\ job[w] = Idle
  /\ row[t] # "none"
  /\ Free(w, t)
  /\ row' = [row EXCEPT ![t] = "confirmed"]
  /\ Start(w, t, "read", "closed")
  /\ UNCHANGED <<ticket, reply, inflow, verdicts, kb, tick, apart, faults>>

\* q7_promote: the same for a ticket that closed by itself.
PromoteByHand(w, t) ==
  /\ job[w] = Idle
  /\ ticket[t] = "auto_closed"
  /\ row[t] # "none"
  /\ Free(w, t)
  /\ row' = [row EXCEPT ![t] = "confirmed"]
  /\ Start(w, t, "check", "none")
  /\ UNCHANGED <<ticket, reply, inflow, verdicts, kb, tick, apart, faults>>

\* q7_decline, decline_promotion
Decline(w, t) ==
  /\ job[w] = Idle
  /\ ticket[t] = "auto_closed"
  /\ row[t] # "none"
  /\ item[t] = 0
  /\ t \notin declined
  /\ Free(w, t)
  /\ declined' = declined \union {t}
  /\ UNCHANGED <<ticket, reply, inflow, row, item, kb, job, tick, apart, faults>>

\* The web process dies under a handler.
Abandon(w) ==
  /\ job[w] # Idle
  /\ Fault
  /\ Finish(w)
  /\ UNCHANGED <<ticket, reply, inflow, row, verdicts, kb, tick, apart>>

-----------------------------------------------------------------------------
(* The worker: promote, release, draft, and round again *)

Boot ==
  /\ stage = "down"
  /\ stage' = "promote"
  /\ UNCHANGED <<ticket, reply, inflow, row, verdicts, kb, job, todo, apart,
                 faults>>

\* Nothing catches what a stage raises, and nothing starts the worker again.
Crash ==
  /\ stage # "down"
  /\ Fault
  /\ stage' = "down"
  /\ todo' = {}
  /\ Finish(Worker)
  /\ UNCHANGED <<ticket, reply, inflow, row, verdicts, kb, apart>>

\* The stage is through with its list; the next one has read its own.
Advance(from, to, list) ==
  /\ stage = from
  /\ todo = {}
  /\ job[Worker] = Idle
  /\ stage' = to
  /\ todo' = list
  /\ UNCHANGED <<ticket, reply, inflow, row, verdicts, kb, job, apart, faults>>

\* awaiting_decision
AwaitingDecision ==
  {t \in Tickets : /\ ticket[t] = "auto_closed"
                   /\ row[t] # "none"
                   /\ item[t] = 0
                   /\ t \notin declined}

\* run_auto: in phase 1 none of them, later the ones that meet the conditions.
ListEligible ==
  \E some \in SUBSET AwaitingDecision :
    Advance("promote", "promoting", some \X {1})

\* Mutant: replies are looked for at tickets somebody works on.
InProgressWithReply == {t \in Tickets : ticket[t] = "in_progress" /\ t \in reply}

\* release_held_with_response
HeldWithReply == {t \in Tickets : ticket[t] = "held" /\ t \in reply}

ListHeld == Advance("promoting", "releasing", HeldWithReply \X {1})

\* Mutants: drafted again though there is a row; only for open tickets.
AwaitingDraftAnyway ==
  {t \in Tickets : ItemOf[t] \in entry /\ ticket[t] \in Live}
AwaitingDraftOpen ==
  {t \in Tickets :
     ItemOf[t] \in entry /\ ticket[t] = "open" /\ row[t] = "none"}

\* manual_entry.awaiting_draft
AwaitingDraft ==
  {t \in Tickets : /\ ItemOf[t] \in entry
                   /\ ticket[t] \in Live
                   /\ row[t] = "none"}

ListEntries == Advance("releasing", "drafting", AwaitingDraft \X {1})

\* awaiting_resolution_draft: once for every published answer of the item.
AwaitingResolutionDraft ==
  {e \in Tickets \X (1..MaxAnswers) :
     /\ ticket[e[1]] = "auto_closed"
     /\ row[e[1]] = "none"
     /\ e[2] <= answers[ItemOf[e[1]]]}

ListHandled == Advance("drafting", "handling", AwaitingResolutionDraft)

NextTick == Advance("handling", "promote", {})

\* run_auto confirms what it derived from the code, and promotes.
PromoteByGate(t) ==
  /\ stage = "promoting"
  /\ job[Worker] = Idle
  /\ <<t, 1>> \in todo
  /\ Free(Worker, t)
  /\ row' = [row EXCEPT ![t] = "confirmed"]
  /\ todo' = todo \ {<<t, 1>>}
  /\ Start(Worker, t, "check", "none")
  /\ UNCHANGED <<ticket, reply, inflow, verdicts, kb, stage, apart, faults>>

Release(t) ==
  /\ stage = "releasing"
  /\ job[Worker] = Idle
  /\ <<t, 1>> \in todo
  /\ Free(Worker, t)
  /\ todo' = todo \ {<<t, 1>>}
  /\ Start(Worker, t, "read", "open")
  /\ UNCHANGED <<ticket, reply, inflow, row, verdicts, kb, stage, apart, faults>>

\* Mutant: a new draft is a new resolution, promoted nowhere yet.
DraftForgets(e) ==
  /\ stage \in {"drafting", "handling"}
  /\ e \in todo
  /\ Free(Worker, e[1])
  /\ row' = [row EXCEPT ![e[1]] = "draft"]
  /\ item' = [item EXCEPT ![e[1]] = 0]
  /\ todo' = todo \ {e}
  /\ UNCHANGED <<ticket, reply, inflow, declined, kb, job, stage, apart, faults>>

\* The model has answered: draft writes the row, whatever is in it, without
\* an invalidation.  promoted_item_id and promotion_declined_at stay.
DraftResolution(e) ==
  /\ stage \in {"drafting", "handling"}
  /\ e \in todo
  /\ Free(Worker, e[1])
  /\ row' = [row EXCEPT ![e[1]] = "draft"]
  /\ todo' = todo \ {e}
  /\ UNCHANGED <<ticket, reply, inflow, verdicts, kb, job, stage, apart, faults>>

\* The model fails, or nothing the answer rests on has a source any more.
SkipDraft(e) ==
  /\ e \in todo
  /\ \/ stage = "drafting" /\ Fault
     \/ stage = "handling" /\ UNCHANGED faults
  /\ todo' = todo \ {e}
  /\ UNCHANGED <<ticket, reply, inflow, row, verdicts, kb, job, stage, apart>>

Stage ==
  \/ ListEligible \/ ListHeld \/ ListEntries \/ ListHandled \/ NextTick
  \/ \E t \in Tickets : PromoteByGate(t) \/ Release(t)
  \/ \E e \in todo : DraftResolution(e) \/ SkipDraft(e)

-----------------------------------------------------------------------------

Screen(w) ==
  \/ \E q \in Items : Register(w, q)
  \/ \E t \in Tickets :
       \/ \E to \in Live : PressState(w, t, to)
       \/ Confirm(w, t) \/ PromoteByHand(w, t) \/ Decline(w, t)

Next ==
  \/ \E t \in Tickets : IssueTicket(t) \/ AnswerByHand(t)
  \/ \E q \in Items : Publish(q) \/ FollowUp(q)
  \/ \E w \in Webs : Screen(w) \/ IssueRegistered(w) \/ Abandon(w)
  \/ \E p \in Procs : Step(p) \/ CommitFails(p)
  \/ Boot \/ Crash \/ Stage

Spec == Init /\ [][Next]_vars

\* A worker that is up goes on, and so does a handler that has started.
Fairness ==
  /\ WF_vars(Stage \/ Step(Worker))
  /\ \A w \in Webs : WF_vars(Step(w) \/ IssueRegistered(w))

FairSpec == Spec /\ Fairness

-----------------------------------------------------------------------------
(* Properties *)

\* ticket.transition: "without a resolution the material is lost": a closed
\* ticket has a confirmed resolution, and keeps it however late a draft comes.
ClosedIsConfirmed ==
  \A t \in Tickets : ticket[t] = "closed" => row[t] = "confirmed"

\* Filling the invalidation in is the approval: with no crash and no failed
\* commit, a closed ticket became knowledge, or somebody is about to see to it.
ApprovedIsPromoted ==
  faults = 0 =>
    \A t \in Tickets :
      ticket[t] = "closed" =>
        \/ item[t] # 0
        \/ \E p \in Procs :
             /\ job[p].ticket = t
             /\ job[p].at \in {"check", "save", "record"}

\* Closing loses nothing: what is closed keeps its resolution, which becomes
\* knowledge.
ClosedBecomesKnowledge == ClosedIsConfirmed /\ ApprovedIsPromoted

\* What Q7 declined is not promoted as well, as long as handlers keep apart.
DeclinedStaysOut ==
  apart => \A t \in declined : item[t] = 0

\* promoted_item_id, "what the resolution became": it is in the knowledge base,
\* through crashes between the two stores and new attempts.
PromotedIsThere ==
  apart => \A t \in Tickets : item[t] # 0 => kb[TitleOf[t]] = item[t]

\* What people decided about a resolution is what the knowledge base has: the
\* declined ones stay out, the promoted ones are there.
PromotionHolds == DeclinedStaysOut /\ PromotedIsThere

\* What makes these inductive.  A handler's locals fit the tables: what it is
\* about to close is confirmed and did not close by itself; what it is about
\* to record has an id; a ticket to be issued is not there yet.
JobSound(p) ==
  LET t == job[p].ticket IN
  /\ IF job[p].at = "idle" THEN job[p] = Idle ELSE t \in Tickets
  /\ job[p].at \in {"read", "write"} => job[p].to \in Live \union {"closed"}
  /\ job[p].at = "write" => ticket[t] \in Live \union {"closed"}
  /\ job[p].at = "write" /\ job[p].to = "closed" => row[t] = "confirmed"
  /\ job[p].at = "record" => job[p].id # 0
  /\ job[p].at = "issue" =>
       ticket[t] = "none" /\ ItemOf[t] \in entry \intersect byHand

OneIssue ==
  \A p, o \in Procs :
    p # o /\ job[p].at = "issue" /\ job[o].at = "issue" =>
      job[p].ticket # job[o].ticket

\* What a list was read for still holds of what is left in it.
ListSound ==
  \A e \in todo :
    /\ stage = "promoting" => row[e[1]] # "none"
    /\ stage = "drafting" => row[e[1]] = "none" /\ e[2] = 1
    /\ stage = "handling" => ticket[e[1]] = "auto_closed"

DeclinedIsAuto == \A t \in declined : ticket[t] = "auto_closed"

\* Of handlers that keep apart one is at a ticket at a time, and what it has
\* read is still so.
Working == {"read", "write", "check", "save", "record"}

ApartSound ==
  /\ \A p, o \in Procs :
       p # o /\ job[p].at \in Working /\ job[o].at \in Working =>
         job[p].ticket # job[o].ticket
  /\ \A p \in Procs :
       LET t == job[p].ticket IN
       /\ job[p].at = "write" => ticket[t] \in Live
       /\ job[p].at \in {"save", "record"} => item[t] = 0 /\ t \notin declined

\* The item that is about to be recorded is in the file of its title.
SavedIsThere ==
  apart => \A p \in Procs :
             job[p].at = "record" => kb[TitleOf[job[p].ticket]] = job[p].id

IndInv ==
  /\ TypeOK
  /\ \A p \in Procs : JobSound(p)
  /\ OneIssue /\ ListSound /\ DeclinedIsAuto
  /\ ClosedIsConfirmed /\ ApprovedIsPromoted
  /\ apart => ApartSound
  /\ DeclinedStaysOut

\* Different resolutions have different generalised questions.
Distinct == \A t, u \in Tickets : TitleOf[t] = TitleOf[u] => t = u

\* One resolution, one item: drafting it again does not forget it.
PromotedOnce ==
  [][apart => \A t \in Tickets : item[t] # 0 => item'[t] = item[t]]_vars

\* TRANSITIONS: "closed and auto_closed are the end".
EndStatesAreFinal ==
  [][apart => \A t \in Tickets : ticket[t] \in Terminal =>
                                   ticket'[t] = ticket[t]]_vars

\* No step takes back what a ticket or a resolution became.
NothingIsUndone == EndStatesAreFinal /\ PromotedOnce

\* "When the response comes it opens by itself": a worker that stays up sees
\* to every held ticket with a reply, whatever the screens do meanwhile.
ReplyReopens ==
  ~apart /\ <>[](stage # "down") =>
    \A t \in Tickets :
      [](ticket[t] = "held" /\ t \in reply => <>(t \notin reply))

\* An answer that was written down gets its draft, or its ticket could never
\* be closed.
EntryIsDrafted ==
  ~apart /\ <>[](stage # "down") =>
    \A t \in Tickets :
      [](ticket[t] \in Live /\ ItemOf[t] \in entry => <>(row[t] # "none"))

=============================================================================
