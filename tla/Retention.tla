----------------------------- MODULE Retention -----------------------------
(* What happens to a question once it is answered: its raw text expires      *)
(* (operations/retention.py) and the approvals made on it are sampled and    *)
(* looked at again (operations/recheck.py), while the batch worker settles,  *)
(* promotes, drafts and ingests around them and the operators click.         *)
(*                                                                           *)
(* One item stands for a row of qna_item with its raw text, its one draft    *)
(* and review, its ticket and that ticket's resolution.  Time is abstracted  *)
(* to two facts: an item was closed longer ago than the retention period     *)
(* (old), and the sampling period is over (due).                             *)

EXTENDS Naturals, FiniteSets, Sequences

CONSTANTS
  Items,
  SampleSize    \* recheck_sample_size

ASSUME RetentionAssumption == SampleSize \in Nat \ {0}

VARIABLES
  item,     \* qna_item: state, grade, old, upgraded_at, asker_id present
  raw,      \* is the question with its answers in the Raw Layer?
  by,       \* who answered: nobody, the bot or a person
  mark,     \* the asker's mark of resolution: none, at the parent, collected
  entry,    \* is there a manual_entry?
  read,     \* is the answer in ingested_answer?
  draft,    \* answer_draft.state
  ticket,   \* ticket.state
  res,      \* the ticket_resolution, and what became of it
  sample,   \* recheck.state by point and subject
  due,      \* is the sampling period over?
  room,     \* places a draw just left after approvals of other questions
  step,     \* where the worker is in its tick
  targets,  \* the items expirable() listed
  left,     \* the answers the ingest of this tick left unread
  llm       \* "up", or "flaky": a call of the model may fail

texts == <<raw, by, mark, entry, read>>
work  == <<draft, ticket, res>>
audit == <<sample, due, room>>
vars  == <<item, texts, work, audit, step, targets, left, llm>>

\* The approvals recheck.py knows, and RISK: the lower is sampled first.
Risk == [auto_promotion |-> 0, promotion |-> 1, upgrade |-> 1,
         resolution |-> 2, answer_review |-> 3]
Points == DOMAIN Risk

Terminal == {"resolved", "unresolved_closed"}

\* A fault: the text expires before it is ingested.
StepsExpireEarly == <<"collect", "adopt", "settle", "promote", "sample",
                      "draft", "expire", "delete", "ingest">>

\* The order of the tick.
Steps == <<"collect", "adopt", "settle", "promote", "sample", "draft",
           "ingest", "expire", "delete">>

TypeOK ==
  /\ item \in [Items -> [state : {"open"} \union Terminal,
                         grade : {"none", "implicit", "explicit"},
                         old : BOOLEAN, upgraded : BOOLEAN, asker : BOOLEAN]]
  /\ raw \in [Items -> BOOLEAN]
  /\ by \in [Items -> {"nobody", "bot", "person"}]
  /\ mark \in [Items -> {"none", "parent", "collected"}]
  /\ entry \in [Items -> BOOLEAN]
  /\ read \in [Items -> BOOLEAN]
  /\ draft \in [Items -> {"none", "pending", "approved", "rejected"}]
  /\ ticket \in [Items -> {"open", "auto_closed", "closed"}]
  /\ res \in [Items -> {"none", "drafted", "confirmed", "declined",
                        "turned_down", "promoted", "gate"}]
  /\ sample \in [Points \X Items -> {"none", "pending", "decided"}]
  /\ due \in BOOLEAN
  /\ room \in 0 .. SampleSize
  /\ step \in {Steps[k] : k \in 1 .. Len(Steps)}
  /\ targets \subseteq Items
  /\ left \subseteq Items
  /\ llm \in {"up", "flaky"}

Init ==
  /\ item = [i \in Items |-> [state |-> "open", grade |-> "none", old |-> FALSE,
                              upgraded |-> FALSE, asker |-> TRUE]]
  /\ raw = [i \in Items |-> TRUE]
  /\ by = [i \in Items |-> "nobody"]
  /\ mark = [i \in Items |-> "none"]
  /\ entry = [i \in Items |-> FALSE]
  /\ read = [i \in Items |-> FALSE]
  /\ \/ draft = [i \in Items |-> "pending"]     \* the pipeline drafted ...
     \/ draft = [i \in Items |-> "none"]        \* ... or a person must answer
  /\ ticket = [i \in Items |-> "open"]
  /\ res = [i \in Items |-> "none"]
  /\ sample = [s \in Points \X Items |-> "none"]
  /\ due = TRUE
  /\ room = 0
  /\ step = "collect"
  /\ targets = {}
  /\ left = {}
  /\ llm \in {"up", "flaky"}

-----------------------------------------------------------------------------
(* Time, and the people at the parent system *)

GetsOld(i) ==
  /\ item[i].state \in Terminal
  /\ item' = [item EXCEPT ![i].old = TRUE]
  /\ UNCHANGED <<texts, work, audit, step, targets, left, llm>>

PeriodPasses ==
  /\ due' = TRUE
  /\ UNCHANGED <<item, texts, work, sample, room, step, targets, left, llm>>

MarkResolved(i) ==
  /\ mark[i] = "none"
  /\ mark' = [mark EXCEPT ![i] = "parent"]
  /\ UNCHANGED <<item, raw, by, entry, read, work, audit, step, targets, left, llm>>

-----------------------------------------------------------------------------
(* The operators' clicks *)

\* Q2: an approved draft goes out; the item is "published" even if it was
\* closed meanwhile, and keeps its grade and closing time.
ApproveDraft(i) ==
  /\ draft[i] = "pending"
  /\ draft' = [draft EXCEPT ![i] = "approved"]
  /\ ticket' = [ticket EXCEPT ![i] = "auto_closed"]
  /\ item' = [item EXCEPT ![i].state = "open"]
  /\ by' = [by EXCEPT ![i] = IF @ = "nobody" THEN "bot" ELSE @]
  /\ UNCHANGED <<raw, mark, entry, read, res, audit, step, targets, left, llm>>

RejectDraft(i) ==
  /\ draft[i] = "pending"
  /\ draft' = [draft EXCEPT ![i] = "rejected"]
  /\ item' = [item EXCEPT ![i].state = "open"]
  /\ UNCHANGED <<texts, ticket, res, audit, step, targets, left, llm>>

\* Q1: manual_entry.attach, the answer a person gave is pasted on the ticket.
Attach(i) ==
  /\ ticket[i] = "open"
  /\ entry' = [entry EXCEPT ![i] = TRUE]
  /\ UNCHANGED <<item, raw, by, mark, read, work, audit, step, targets, left, llm>>

\* Q6: tracking.upgrade; the closing time stays what it was.
Upgrade(i) ==
  /\ item[i].grade = "implicit"
  /\ item' = [item EXCEPT ![i].state = "resolved", ![i].grade = "explicit",
                          ![i].upgraded = TRUE]
  /\ UNCHANGED <<texts, work, audit, step, targets, left, llm>>

\* Q1 and Q7: the condition of invalidity is filled in, and the record is
\* promoted with it, unless that fails.
Confirm(i) ==
  /\ res[i] \in {"drafted", "confirmed"}
  /\ \E r \in {"confirmed", "promoted"} : res' = [res EXCEPT ![i] = r]
  /\ ticket' = [ticket EXCEPT ![i] = IF @ = "open" THEN "closed" ELSE @]
  /\ UNCHANGED <<item, texts, draft, audit, step, targets, left, llm>>

\* Q7 turns the knowledge down; a confirmation made before stays an approval.
Decline(i) ==
  /\ ticket[i] = "auto_closed"
  /\ res[i] \in {"drafted", "confirmed"}
  /\ res' = [res EXCEPT ![i] = IF @ = "confirmed" THEN "turned_down"
                               ELSE "declined"]
  /\ UNCHANGED <<item, texts, draft, ticket, audit, step, targets, left, llm>>

\* decide: only a pending sample; which verdict it is, the counts tell.
Decide(s) ==
  /\ sample[s] = "pending"
  /\ sample' = [sample EXCEPT ![s] = "decided"]
  /\ UNCHANGED <<item, texts, work, due, room, step, targets, left, llm>>

-----------------------------------------------------------------------------
(* The worker's tick, as far as it touches these rows *)

Runs(s) ==
  \E k \in 1 .. Len(Steps) :
    /\ s = Steps[k]
    /\ step = s
    /\ step' = Steps[(k % Len(Steps)) + 1]

\* _sync_qna: stored questions without an explicit mark are read again; one
\* whose text is gone is not among them.
Collect ==
  /\ Runs("collect")
  /\ mark' = [i \in Items |-> IF raw[i] /\ mark[i] = "parent"
                              THEN "collected" ELSE mark[i]]
  /\ \E answered \in SUBSET {i \in Items : raw[i] /\ by[i] = "nobody"} :
       by' = [i \in Items |-> IF i \in answered THEN "person" ELSE by[i]]
  /\ UNCHANGED <<item, raw, entry, read, work, audit, targets, left, llm>>

\* adopt_explicit: also for a closed item, whose closing time stays.
AdoptExplicit ==
  /\ Runs("adopt")
  /\ item' = [i \in Items |->
               IF raw[i] /\ mark[i] = "collected" /\ item[i].grade # "explicit"
               THEN [item[i] EXCEPT !.state = "resolved", !.grade = "explicit"]
               ELSE item[i]]
  /\ UNCHANGED <<texts, work, audit, targets, left, llm>>

\* settle_quiet: an open item that stayed quiet is closed, as resolved when
\* the last word was an answer.  It is closed now, whatever it was before.
Quiet(i) ==
  /\ raw[i]
  /\ item[i].state = "open"
  /\ mark[i] # "collected"
  /\ draft[i] # "pending"

SettleQuiet ==
  /\ Runs("settle")
  /\ \E silent \in SUBSET {i \in Items : Quiet(i)} :
     \E answered \in SUBSET {i \in silent : by[i] # "nobody"} :
       item' = [i \in Items |->
         IF i \in answered
           THEN [item[i] EXCEPT !.state = "resolved", !.grade = "implicit",
                                !.old = FALSE]
         ELSE IF i \in silent
           THEN [item[i] EXCEPT !.state = "unresolved_closed",
                                !.grade = "none", !.old = FALSE]
         ELSE item[i]]
  /\ UNCHANGED <<texts, work, audit, targets, left, llm>>

\* run_auto: a record of an explicitly resolved bot answer may pass the gate.
PromoteByGate ==
  /\ Runs("promote")
  /\ \E passed \in SUBSET {i \in Items : /\ res[i] = "drafted"
                                         /\ draft[i] = "approved"
                                         /\ item[i].grade = "explicit"} :
       res' = [i \in Items |-> IF i \in passed THEN "gate" ELSE res[i]]
  /\ UNCHANGED <<item, texts, draft, ticket, audit, targets, left, llm>>

\* candidates: every approval not sampled before at the same point.
Approved(s) ==
  LET i == s[2] IN
  CASE s[1] = "auto_promotion" -> res[i] = "gate"
    [] s[1] = "promotion"      -> res[i] = "promoted"
    [] s[1] = "resolution"     -> res[i] \in {"confirmed", "turned_down"}
    [] s[1] = "upgrade"        -> item[i].upgraded /\ item[i].grade = "explicit"
    [] s[1] = "answer_review"  -> draft[i] = "approved"

\* A fault: what was sampled before is a candidate again.
CandidatesAgain == {s \in Points \X Items : Approved(s)}

Candidates == {s \in Points \X Items : Approved(s) /\ sample[s] = "none"}

\* The first n of them by risk; among equals the latest, which may be any.
FirstByRisk(cands, n) ==
  {taken \in SUBSET cands :
     /\ \/ Cardinality(taken) = n
        \/ taken = cands /\ Cardinality(cands) < n
     /\ \A s \in taken, t \in cands \ taken : Risk[s[1]] <= Risk[t[1]]}

\* select: approvals of other questions that are riskier, or newer, take any
\* number of the places first, and leave the rest.  INSERT OR IGNORE; the
\* period starts again when something was inserted.
SampleRecheck ==
  /\ Runs("sample")
  /\ IF ~due THEN UNCHANGED audit
     ELSE \E places \in 0 .. SampleSize :
          \E taken \in FirstByRisk(Candidates, places) :
            /\ sample' = [s \in Points \X Items |->
                 IF s \in taken /\ sample[s] = "none" THEN "pending"
                 ELSE sample[s]]
            /\ room' = places
            /\ due' = (places = SampleSize /\ sample' = sample)
  /\ UNCHANGED <<item, texts, work, targets, left, llm>>

\* What the model is asked about comes out whole, or partly when it is flaky.
AskedAbout(S) == IF llm = "up" THEN {S} ELSE SUBSET S

\* Both sources of resolutions: a pasted answer, and an answer that went out.
AwaitsDraft(i) ==
  /\ res[i] = "none"
  /\ \/ entry[i] /\ ticket[i] = "open"
     \/ ticket[i] = "auto_closed" /\ draft[i] = "approved"

DraftResolutions ==
  /\ Runs("draft")
  /\ \E drafted \in AskedAbout({i \in Items : AwaitsDraft(i)}) :
       res' = [i \in Items |-> IF i \in drafted THEN "drafted" ELSE res[i]]
  /\ room' = 0
  /\ UNCHANGED <<item, texts, draft, ticket, sample, due, targets, left, llm>>

\* ingestible_answers: a person's answer, or the bot's with an explicit grade
\* on either side.
Ingestible(i) ==
  \/ by[i] = "person"
  \/ by[i] = "bot" /\ (item[i].grade = "explicit" \/ mark[i] = "collected")

\* _ingest: it does not run while the console has paused it or a setting is
\* missing, it ends at a stop or at an error of the harness or the repository,
\* and an answer the model failed on is left; the tick goes on all the same.
Ingest ==
  /\ Runs("ingest")
  /\ LET unread == {i \in Items : raw[i] /\ Ingestible(i) /\ ~read[i]} IN
     \E done \in SUBSET unread :
       /\ read' = [i \in Items |-> read[i] \/ i \in done]
       /\ left' = unread \ done
  /\ UNCHANGED <<item, raw, by, mark, entry, work, audit, targets, llm>>

\* A fault: a silent resolution counts as finished.
FinishedSilently(i) ==
  /\ item[i].state \in Terminal
  /\ item[i].old
  /\ draft[i] # "pending"
  /\ res[i] \notin {"drafted", "confirmed"}
  /\ sample[<<"upgrade", i>>] # "pending"

\* expirable: nobody has anything left to do with the item ...
Finished(i) ==
  /\ item[i].state \in Terminal
  /\ item[i].old
  /\ item[i].grade # "implicit"
  /\ draft[i] # "pending"
  /\ res[i] \notin {"drafted", "confirmed"}
  /\ sample[<<"upgrade", i>>] # "pending"

\* ... and something of it is still there.
HasTraces(i) == raw[i] \/ entry[i] \/ item[i].asker

Expirable == {i \in Items : Finished(i) /\ HasTraces(i)}

ListExpirable ==
  /\ Runs("expire")
  /\ targets' = Expirable
  /\ UNCHANGED <<item, texts, work, audit, left, llm>>

\* A fault: without a question in the Raw Layer nothing is deleted.
ExpireQuestions ==
  /\ Runs("delete")
  /\ raw' = [i \in Items |-> raw[i] /\ i \notin targets]
  /\ entry' = [i \in Items |-> entry[i] /\ ~(i \in targets /\ raw[i])]
  /\ item' = [i \in Items |-> IF i \in targets
                              THEN [item[i] EXCEPT !.asker = FALSE]
                              ELSE item[i]]
  /\ targets' = {}
  /\ left' = {}
  /\ UNCHANGED <<by, mark, read, work, audit, llm>>

\* expire: one transaction deletes the texts and the asker; the row stays.
Expire ==
  /\ Runs("delete")
  /\ raw' = [i \in Items |-> raw[i] /\ i \notin targets]
  /\ entry' = [i \in Items |-> entry[i] /\ i \notin targets]
  /\ item' = [i \in Items |-> IF i \in targets
                              THEN [item[i] EXCEPT !.asker = FALSE]
                              ELSE item[i]]
  /\ targets' = {}
  /\ left' = {}
  /\ UNCHANGED <<by, mark, read, work, audit, llm>>

-----------------------------------------------------------------------------

People ==
  \/ \E i \in Items :
       \/ MarkResolved(i) \/ ApproveDraft(i) \/ RejectDraft(i) \/ Attach(i)
       \/ Upgrade(i) \/ Confirm(i) \/ Decline(i)
  \/ \E s \in Points \X Items : Decide(s)

Tick ==
  \/ Collect \/ AdoptExplicit \/ SettleQuiet \/ PromoteByGate
  \/ SampleRecheck \/ DraftResolutions \/ Ingest \/ ListExpirable \/ Expire

Next == People \/ Tick \/ PeriodPasses \/ \E i \in Items : GetsOld(i)

\* The worker's loop goes on for ever, and so do the periods.
Fairness == WF_vars(Tick) /\ WF_vars(PeriodPasses)

Spec == Init /\ [][Next]_vars /\ Fairness

-----------------------------------------------------------------------------
(* Properties *)

\* What waits for a person still has its text: a silent resolution in Q6, a
\* draft in Q2 and, when drafting never fails, a resolution in Q1 or Q7
\* (retention.py: "what a person must still look at does not expire").
WaitingHasText ==
  \A i \in Items :
    /\ item[i].grade = "implicit" \/ draft[i] = "pending" => raw[i]
    /\ llm = "up" /\ res[i] \in {"drafted", "confirmed"} => raw[i] \/ entry[i]

\* The tick deletes last (runner.py: "after this tick's ... ingest has used the
\* text"): an answer that may become knowledge expires only read, or in a tick
\* whose own ingest had it before it and left it.  A late click in Q6 may open
\* an answer for reading after the ingest.
ReadBeforeExpired ==
  [][\A i \in Items :
       raw[i] /\ ~raw'[i] /\ Ingestible(i) /\ ~item[i].upgraded
         => read[i] \/ i \in left]_vars

\* A finished item loses its text and its asker in the end (FR-51), unless
\* somebody starts something new on it.
OldTextGoes ==
  \A i \in Items : Finished(i) ~> (~Finished(i) \/ ~HasTraces(i))

\* Also an approval of the least risky kind, that of a draft in Q2, is put
\* before a person again in the end, if the approvals of other questions leave
\* a place of the sample again and again: what was sampled once does not take
\* the place of the rest for ever (recheck.py).
ApprovalIsRechecked ==
  []<>(room > 0) =>
    \A i \in Items :
      draft[i] = "approved" ~> sample[<<"answer_review", i>>] # "none"

=============================================================================
