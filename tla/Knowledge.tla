----------------------------- MODULE Knowledge -----------------------------
(***************************************************************************)
(* The knowledge base over the source code: knowledge/repository.py,       *)
(* lint.py, contradiction.py and human_edit.py, what ingest/run.py writes, *)
(* and pipeline/correction.py, which carries a change of the code to the   *)
(* answers that rest on it.                                                *)
(*                                                                         *)
(* An item is a file in a git repository that the worker and people write. *)
(* A text is who wrote it last, a commit of the source is its number, and  *)
(* one path stands for the paths a condition lists.  BuildIngest has the   *)
(* cursor, the chunks and the crashes of a run, Publication the way of an  *)
(* answer to the parent system; both appear here only as far as an item    *)
(* and the answers on it see them.                                         *)
(***************************************************************************)
EXTENDS Naturals, FiniteSets, FiniteSetsExt

CONSTANTS
  Items,
  Answers,
  Grounds,     \* the items each answer rests on
  Paths,       \* paths of the source repository
  Unseen,      \* those that cannot appear in a diff: made up, or a directory
  Excluded,    \* those the configuration keeps ingest from reading
  Webs,        \* threads of the web process
  None,
  MaxCommits,  \* bound: commits of the source
  MaxEdits,    \* bound: edits of people
  MaxFaults    \* bound: crashes, failed runs

ASSUME KnowledgeAssumption ==
  /\ Grounds \in [Answers -> (SUBSET Items) \ {{}}]
  /\ Unseen \subseteq Paths /\ Excluded \subseteq Paths
  /\ None \notin Items \union Answers \union Paths \union Webs
  /\ IsFiniteSet(Webs)
  /\ MaxCommits \in Nat /\ MaxEdits \in Nat /\ MaxFaults \in Nat

VARIABLES
  concepts,  \* the items there is something to say about
  head,      \* the commit the mirror stands at, 0 for none
  touched,   \* the paths each commit changes
  cursor,    \* the commit ingest has read up to
  file,      \* the items in the working tree
  saved,     \* those at HEAD of the knowledge repository
  overdue,   \* items whose period has passed since they were committed last
  index,     \* what index.md says of each item
  open,      \* rows in state open: of lint_finding, and of contradiction
  detail,    \* the stale items a correction finding lists
  tickets,   \* open tickets issued for a row
  answer,    \* answer_record.state
  draft,     \* answers with a correction draft that waits in Q2
  stage,     \* where the worker's tick is
  snap,      \* the items the run or the check has read
  todo,      \* the list the stage works off
  wrote,     \* has the run, or its last chunk, written anything?
  clean,     \* has every call of the run's source part succeeded?
  job,       \* the row whose ticket a thread of the web process is closing
  apart,     \* do people edit only between the worker's ticks?
  edits, faults

vars == <<concepts, head, touched, cursor, file, saved, overdue, index, open, detail, tickets, answer,
          draft, stage, snap, todo, wrote, clean, job, apart, edits, faults>>

source == <<concepts, head, touched, cursor>>
repo   == <<file, saved, overdue, index>>
queues == <<open, detail, tickets, answer, draft>>
run    == <<snap, todo, wrote, clean>>
people == <<job, apart, edits>>

Commits == 1..MaxCommits

\* Without a condition on a path the period is the condition.
KnowledgeItem == [text : {"agent", "human"}, edited_by_human : BOOLEAN, stale : BOOLEAN,
                  provenance : SUBSET Commits, ref : Paths \union {None}]

Nothing == [text |-> "none"]
Files   == [Items -> KnowledgeItem \union {Nothing}]
Empty   == [i \in Items |-> Nothing]

\* A finding is its kind and its subject; an open contradiction is a row as well.
Keys == ({"stale_answer", "broken_link"} \X Answers)
        \union ({"dead_invalidation", "excluded_invalidation", "contradiction"} \X Items)

ASSUME NoneIsNoKey == None \notin Keys

Stages == {"down", "rest", "ingest", "source", "qna", "record", "cursor", "lint", "mark",
           "report", "propagate", "open", "ready", "draft"}

TypeOK ==
  /\ concepts \subseteq Items
  /\ head \in 0..MaxCommits /\ cursor \in 0..MaxCommits
  /\ touched \in [Commits -> SUBSET Paths]
  /\ file \in Files /\ saved \in Files /\ snap \in Files
  /\ overdue \subseteq Items
  /\ index \in [Items -> {"none", "fresh", "stale"}]
  /\ open \subseteq Keys
  /\ detail \in [Answers -> SUBSET Items]
  /\ tickets \in [Keys -> Nat]
  /\ answer \in [Answers -> {"none", "published", "corrected"}]
  /\ draft \subseteq Answers
  /\ stage \in Stages
  /\ todo \subseteq Items \union Keys \union Answers
  /\ wrote \in {"nothing", "before", "now"}
  /\ clean \in BOOLEAN
  /\ job \in [Webs -> Keys \union {None}]
  /\ apart \in BOOLEAN
  /\ edits \in 0..MaxEdits /\ faults \in 0..MaxFaults

Init ==
  /\ concepts \in SUBSET Items
  /\ head \in 0..MaxCommits /\ cursor \in 0..head
  /\ touched \in [Commits -> SUBSET (Paths \ Unseen)]
  /\ \A c \in Commits : c <= head <=> touched[c] # {}
  /\ file = Empty /\ saved = Empty /\ snap = Empty
  /\ overdue = {}
  /\ index = [i \in Items |-> "none"]
  /\ open = {} /\ detail = [a \in Answers |-> {}]
  /\ tickets = [k \in Keys |-> 0]
  /\ answer = [a \in Answers |-> "none"]
  /\ draft = {}
  /\ stage = "down" /\ todo = {} /\ wrote = "nothing" /\ clean = TRUE
  /\ job = [w \in Webs |-> None]
  /\ apart \in BOOLEAN
  /\ edits \in 0..MaxEdits /\ faults \in 0..MaxFaults

Fault == faults < MaxFaults /\ faults' = faults + 1
Edits == edits < MaxEdits /\ edits' = edits + 1

\* What a run has read ends with it.
Forget == todo' = {} /\ snap' = Empty /\ wrote' = "nothing" /\ clean' = TRUE

\* answer_grounding
Grounding(a) == Grounds[a] \cap concepts

There(f) == {i \in Items : f[i] # Nothing}
Stale(f) == {i \in There(f) : f[i].stale}

\* git add -A: whatever lies in the working tree goes into the commit.
Commit ==
  /\ saved' = file
  /\ overdue' = {i \in overdue : file[i] = saved[i]}

\* Mutant: what is open is not looked up.
IssueAgain(k) ==
  /\ open' = open \union {k}
  /\ tickets' = [tickets EXCEPT ![k] = @ + 1]

\* One ticket and one row, unless the row is open already.
Issue(k) ==
  /\ open' = open \union {k}
  /\ tickets' = IF k \in open THEN tickets ELSE [tickets EXCEPT ![k] = @ + 1]

-----------------------------------------------------------------------------
(* The start of a tick; the ingest run *)

Boot ==
  /\ stage = "down"
  /\ stage' = "rest"
  /\ UNCHANGED <<source, repo, queues, run, people, faults>>

\* The mirror is fetched once in a tick, and stands still for the rest of it.
Fetch ==
  /\ stage = "rest"
  /\ stage' = "ingest"
  /\ \/ UNCHANGED <<head, touched>>
     \/ /\ head < MaxCommits
        /\ head' = head + 1
        /\ \E ps \in (SUBSET (Paths \ Unseen)) \ {{}} :
             touched' = [touched EXCEPT ![head + 1] = ps]
  /\ UNCHANGED <<concepts, cursor, repo, queues, run, people, faults>>

StartIngest ==
  /\ stage = "ingest"
  /\ stage' = IF cursor = head THEN "qna" ELSE "source"
  /\ snap' = file /\ wrote' = "nothing" /\ clean' = TRUE
  /\ UNCHANGED <<source, repo, queues, todo, people, faults>>

\* No model is configured, or the console paused the build.
SkipIngest ==
  /\ stage = "ingest"
  /\ stage' = "lint"
  /\ UNCHANGED <<source, repo, queues, run, people, faults>>

Base(i) == snap[i]

ToItem(i, commits, ref) ==
  [text |-> "agent", edited_by_human |-> FALSE, stale |-> FALSE,
   provenance |-> commits \union (IF Base(i) = Nothing THEN {} ELSE Base(i).provenance),
   ref |-> ref]

HeldForHuman(i) == Base(i) # Nothing /\ Base(i).edited_by_human

\* What the run has read decides: an item edited since is written over.
Apply(i, commits, ref) ==
  /\ i \in concepts
  /\ IF HeldForHuman(i)
       THEN /\ Issue(<<"contradiction", i>>)
            /\ UNCHANGED <<file, snap, wrote, detail, answer, draft>>
       ELSE /\ Base(i) = Nothing => file[i] = Nothing
            /\ file' = [file EXCEPT ![i] = ToItem(i, commits, ref)]
            /\ snap' = [snap EXCEPT ![i] = ToItem(i, commits, ref)]
            /\ wrote' = "now"
            /\ UNCHANGED queues

\* What is left of a proposed condition: a path that can appear in a diff, or a period.
LiveRefs == (Paths \ Unseen) \union {None}

FromSource(i, ref) ==
  /\ stage = "source"
  /\ ref \in LiveRefs
  /\ Apply(i, {head}, ref)
  /\ UNCHANGED <<source, saved, overdue, index, stage, todo, clean, people, faults>>

CommitChunk ==
  /\ stage = "source" /\ wrote = "now"
  /\ Commit
  /\ wrote' = "before"
  /\ UNCHANGED <<source, file, index, queues, stage, snap, todo, clean, people, faults>>

FailChunk ==
  /\ stage = "source" /\ clean
  /\ Fault
  /\ clean' = FALSE
  /\ UNCHANGED <<source, repo, queues, stage, snap, todo, wrote, people>>

EndSource ==
  /\ stage = "source"
  /\ stage' = "qna"
  /\ UNCHANGED <<source, repo, queues, run, people, faults>>

\* The console's stop reaches the run between two chunks.
Stop ==
  /\ stage = "source"
  /\ stage' = "record"
  /\ clean' = FALSE
  /\ UNCHANGED <<source, repo, queues, snap, todo, wrote, people, faults>>

\* An answer has no commit, and nobody looks at the paths the model names.
FromQna(i, ref) ==
  /\ stage = "qna"
  /\ Apply(i, {}, ref)
  /\ UNCHANGED <<source, saved, overdue, index, stage, todo, clean, people, faults>>

EndQna ==
  /\ stage = "qna"
  /\ stage' = "record"
  /\ UNCHANGED <<source, repo, queues, run, people, faults>>

Record ==
  /\ stage = "record"
  /\ stage' = "cursor"
  /\ IF wrote = "nothing" THEN UNCHANGED <<saved, overdue>> ELSE Commit
  /\ UNCHANGED <<source, file, index, queues, run, people, faults>>

MoveCursor ==
  /\ stage = "cursor"
  /\ stage' = "lint"
  /\ cursor' = IF clean THEN head ELSE cursor
  /\ Forget
  /\ UNCHANGED <<concepts, head, touched, repo, queues, people, faults>>

\* git or the harness fails: what was written stays in the working tree.
FailIngest ==
  /\ stage \in {"source", "qna", "record"}
  /\ Fault
  /\ stage' = "lint" /\ Forget
  /\ UNCHANGED <<source, repo, queues, people>>

-----------------------------------------------------------------------------
(* Lint *)

LastCommit(f) == Max(f.provenance)

ChangedSince(c) == UNION {touched[d] : d \in (c + 1)..head}

\* Mutant: the first commit an item came from decides.
LinkedStaleFirst(f) == f.provenance # {} /\ f.ref \in ChangedSince(Min(f.provenance))

\* Mutant: the commits ingest has not read decide.
LinkedStaleUnread(f) == f.provenance # {} /\ f.ref \in ChangedSince(cursor)

\* The last commit the item was written from decides.
LinkedStale(f) == f.provenance # {} /\ f.ref \in ChangedSince(LastCommit(f))

StaleReason(i) ==
  IF file[i].ref # None THEN LinkedStale(file[i]) ELSE i \in overdue

StartLint ==
  /\ stage = "lint"
  /\ stage' = "mark"
  /\ snap' = file
  /\ todo' = {i \in There(file) : ~file[i].stale /\ StaleReason(i)}
  /\ wrote' = "nothing"
  /\ UNCHANGED <<source, repo, queues, clean, people, faults>>

\* The item goes back as it was read.
Mark(i) ==
  /\ stage = "mark" /\ i \in todo
  /\ LET marked == [snap[i] EXCEPT !.stale = TRUE]
     IN /\ file' = [file EXCEPT ![i] = marked]
        /\ snap' = [snap EXCEPT ![i] = marked]
  /\ todo' = todo \ {i}
  /\ wrote' = "now"
  /\ UNCHANGED <<source, saved, overdue, index, queues, stage, clean, people, faults>>

DeadInvalidation ==
  {i \in There(snap) : /\ snap[i].ref # None
                       /\ \/ snap[i].provenance = {}
                          \/ snap[i].ref \in Unseen \ Excluded}

BrokenLinks == {a \in Answers : answer[a] # "none" /\ ~(Grounding(a) \subseteq There(snap))}

Findings ==
  ({"excluded_invalidation"} \X {i \in There(snap) : snap[i].ref \in Excluded})
  \union ({"dead_invalidation"} \X DeadInvalidation)
  \union ({"broken_link"} \X BrokenLinks)

RebuildIndex ==
  /\ stage = "mark" /\ todo = {}
  /\ stage' = "report"
  /\ index' = [i \in Items |-> IF snap[i] = Nothing THEN "none"
                               ELSE IF snap[i].stale THEN "stale" ELSE "fresh"]
  /\ wrote' = IF index' # index THEN "now" ELSE wrote
  /\ todo' = Findings
  /\ UNCHANGED <<source, file, saved, overdue, queues, snap, clean, people, faults>>

OpenFinding(k) ==
  /\ stage = "report" /\ k \in todo
  /\ Issue(k)
  /\ todo' = todo \ {k}
  /\ UNCHANGED <<source, repo, detail, answer, draft, stage, snap, wrote, clean, people, faults>>

EndLint ==
  /\ stage = "report" /\ todo = {}
  /\ stage' = "propagate"
  /\ IF wrote = "nothing" THEN UNCHANGED <<saved, overdue>> ELSE Commit
  /\ Forget
  /\ UNCHANGED <<source, file, index, queues, people, faults>>

FailLint ==
  /\ stage \in {"lint", "mark", "report"}
  /\ Fault
  /\ stage' = "propagate" /\ Forget
  /\ UNCHANGED <<source, repo, queues, people>>

-----------------------------------------------------------------------------
(* From stale items to the answers that rest on them *)

AnsweredWith(items) == {a \in Answers : answer[a] = "published" /\ Grounding(a) \cap items # {}}

Propagate ==
  /\ stage = "propagate"
  /\ stage' = "open"
  /\ snap' = file
  /\ todo' = AnsweredWith(Stale(file))
  /\ UNCHANGED <<source, repo, queues, wrote, clean, people, faults>>

\* Mutant: an open candidate is left as it is.
ListedOnce(a) == IF <<"stale_answer", a>> \in open THEN detail[a] ELSE Grounding(a) \cap Stale(snap)

\* An open candidate keeps its ticket; the items it lists are today's.
Listed(a) == Grounding(a) \cap Stale(snap)

OpenCandidate(a) ==
  /\ stage = "open" /\ a \in todo
  /\ Issue(<<"stale_answer", a>>)
  /\ detail' = [detail EXCEPT ![a] = Listed(a)]
  /\ todo' = todo \ {a}
  /\ UNCHANGED <<source, repo, answer, draft, stage, snap, wrote, clean, people, faults>>

\* A correction is written once the knowledge has caught up.
Ready == {a \in Answers : /\ <<"stale_answer", a>> \in open
                          /\ detail[a] \cap Stale(file) = {}}

StartDrafts ==
  /\ stage = "open" /\ todo = {}
  /\ stage' = "draft"
  /\ todo' = Ready /\ snap' = Empty
  /\ UNCHANGED <<source, repo, queues, wrote, clean, people, faults>>

\* The pipeline may have no answer, which is a result too.
DraftCorrection(a) ==
  /\ stage = "draft" /\ a \in todo
  /\ todo' = todo \ {a}
  /\ \/ UNCHANGED draft
     \/ a \notin draft /\ draft' = draft \union {a}
  /\ UNCHANGED <<source, repo, open, detail, tickets, answer, stage, snap, wrote, clean,
                 people, faults>>

EndTick ==
  /\ stage = "draft" /\ todo = {}
  /\ stage' = "rest"
  /\ UNCHANGED <<source, repo, queues, run, people, faults>>

-----------------------------------------------------------------------------
(* People: the queues Q4, Q5 and Q2, and an editor *)

\* pin() asks whether the file is in HEAD, and finds no fault with a lost item.
Pinned(i) == file[i] # Nothing => saved[i] # Nothing

Publish(a) ==
  /\ answer[a] = "none"
  /\ \E i \in Items : saved[i] # Nothing
  /\ \A i \in Grounding(a) : Pinned(i)
  /\ Grounding(a) \cap There(file) # {}
  /\ answer' = [answer EXCEPT ![a] = "published"]
  /\ UNCHANGED <<source, repo, open, detail, tickets, draft, stage, run, people, faults>>

Close(w, k) ==
  /\ open' = open \ {k}
  /\ job' = IF k \in open THEN [job EXCEPT ![w] = k] ELSE job

\* The judgement on a contradiction, and the "still right" of Q5.
Resolve(w, k) ==
  /\ job[w] = None
  /\ k[1] \in {"contradiction", "stale_answer"} /\ k \in open
  /\ Close(w, k)
  /\ UNCHANGED <<source, repo, detail, tickets, answer, draft, stage, run, apart, edits, faults>>

PublishCorrection(w, a) ==
  /\ job[w] = None
  /\ a \in draft /\ answer[a] = "published"
  /\ draft' = draft \ {a}
  /\ answer' = [answer EXCEPT ![a] = "corrected"]
  /\ Close(w, <<"stale_answer", a>>)
  /\ UNCHANGED <<source, repo, detail, tickets, stage, run, apart, edits, faults>>

CloseTicket(w) ==
  /\ job[w] # None
  /\ tickets' = [tickets EXCEPT ![job[w]] = @ - 1]
  /\ job' = [job EXCEPT ![w] = None]
  /\ UNCHANGED <<source, repo, open, detail, answer, draft, stage, run, apart, edits, faults>>

\* Mutant: the flag is forgotten.
VerifyEditNoFlag(after, before) == before # Nothing => after.ref # before.ref

\* The hook's conditions; that the message gives a reason is left to people.
VerifyEdit(after, before) ==
  /\ before # Nothing => after.ref # before.ref
  /\ after.edited_by_human

Retouched(i, flag, ref) ==
  [text |-> "human", edited_by_human |-> flag,
   stale |-> IF file[i] = Nothing THEN FALSE ELSE file[i].stale,
   provenance |-> IF file[i] = Nothing THEN {} ELSE file[i].provenance, ref |-> ref]

Edited(i) == {Retouched(i, flag, ref) : flag \in BOOLEAN, ref \in Paths \union {None}}

\* An editor on the working tree, at any time, and git commit for some of the files.
Edit(i) ==
  /\ ~apart /\ i \in concepts
  /\ Edits
  /\ \E f \in Edited(i) \union {Nothing} : file' = [file EXCEPT ![i] = f]
  /\ UNCHANGED <<source, saved, overdue, index, queues, stage, run, job, apart, faults>>

HumanCommit(is) ==
  /\ ~apart
  /\ \A i \in is : file[i] # saved[i]
                   /\ (file[i] # Nothing => VerifyEdit(file[i], saved[i]))
  /\ saved' = [i \in Items |-> IF i \in is THEN file[i] ELSE saved[i]]
  /\ overdue' = overdue \ is
  /\ UNCHANGED <<source, file, index, queues, stage, run, people, faults>>

\* The same between two ticks, in one go; what the hook refuses is put back.
EditApart(i) ==
  /\ apart /\ stage = "rest" /\ i \in concepts
  /\ Edits
  /\ \E f \in Edited(i) : /\ VerifyEdit(f, saved[i])
                          /\ file' = [file EXCEPT ![i] = f]
                          /\ saved' = [saved EXCEPT ![i] = f]
  /\ overdue' = overdue \ {i}
  /\ UNCHANGED <<source, index, queues, stage, run, job, apart, faults>>

PeriodPasses(i) ==
  /\ saved[i] # Nothing /\ saved[i].ref = None
  /\ i \notin overdue
  /\ overdue' = overdue \union {i}
  /\ UNCHANGED <<source, file, saved, index, queues, stage, run, people, faults>>

-----------------------------------------------------------------------------
(* Crashes *)

Crash ==
  /\ stage # "down"
  /\ Fault
  /\ stage' = "down" /\ Forget
  /\ UNCHANGED <<source, repo, queues, people>>

\* The ticket is committed before its row is.
CrashOnTicket(k) ==
  /\ \/ stage = "report" /\ k \in todo
     \/ stage = "open" /\ \E a \in todo : k = <<"stale_answer", a>>
  /\ k \notin open
  /\ Fault
  /\ tickets' = [tickets EXCEPT ![k] = @ + 1]
  /\ stage' = "down" /\ Forget
  /\ UNCHANGED <<source, repo, open, detail, answer, draft, people>>

\* The request ends with the web process.
Abandon(w) ==
  /\ job[w] # None
  /\ Fault
  /\ job' = [job EXCEPT ![w] = None]
  /\ UNCHANGED <<source, repo, queues, stage, run, apart, edits>>

Advance ==
  \/ Boot \/ Fetch \/ StartIngest \/ EndSource \/ EndQna \/ Record \/ MoveCursor
  \/ StartLint \/ RebuildIndex \/ EndLint \/ Propagate \/ StartDrafts \/ EndTick
  \/ \E i \in Items : Mark(i)
  \/ \E k \in Keys : OpenFinding(k)
  \/ \E a \in Answers : OpenCandidate(a) \/ DraftCorrection(a)

Next ==
  \/ Advance
  \/ SkipIngest \/ CommitChunk \/ FailChunk \/ Stop \/ FailIngest \/ FailLint \/ Crash
  \/ \E i \in Items : \/ Edit(i) \/ EditApart(i) \/ PeriodPasses(i)
                      \/ \E ref \in Paths \union {None} : FromSource(i, ref) \/ FromQna(i, ref)
  \/ \E k \in Keys : CrashOnTicket(k)
  \/ \E is \in (SUBSET Items) \ {{}} : HumanCommit(is)
  \/ \E a \in Answers : Publish(a)
  \/ \E w \in Webs : \/ CloseTicket(w) \/ Abandon(w)
                     \/ \E k \in Keys : Resolve(w, k)
                     \/ \E a \in Answers : PublishCorrection(w, a)

\* The worker's loop goes on; whether the model proposes anything, and what
\* people do, is up to them.
Fairness == WF_vars(Advance)

Spec == Init /\ [][Next]_vars /\ Fairness

-----------------------------------------------------------------------------
(* What must hold *)

\* The code changed under an item after the last commit the item was written from.
Outdated(i) ==
  /\ file[i] # Nothing /\ file[i].ref \in Paths /\ file[i].provenance # {}
  /\ \E c \in Commits : /\ c <= head /\ file[i].ref \in touched[c]
                        /\ \A d \in file[i].provenance : d < c

\* An edit that was committed between two ticks is not written over by a run, by
\* Lint or by a crash in between: it took the hook to see that the mark is there.
CommittedEditIsKept ==
  [][apart => \A i \in Items :
       (saved[i] # Nothing /\ saved[i].text = "human")
          => file'[i].text = "human" /\ saved'[i].text = "human"]_vars

\* After Lint the marks are right: what the code left behind is marked, and an item
\* written again from the newest commit is not, however old its other commits are.
MarksAreRight ==
  (apart /\ stage = "report") =>
    \A i \in There(file) : file[i].ref # None =>
      /\ Outdated(i) => file[i].stale
      /\ file[i].stale => Outdated(i) \/ file[i].edited_by_human

\* A correction of an answer that is out is not written from an item that is stale:
\* it would say the same again and call it corrected.
CorrectedFromFresh ==
  [][\A a \in draft' \ draft :
       answer[a] = "published" => Grounding(a) \cap Stale(file) = {}]_vars

\* One open row, one open ticket, however often the worker finds it again; a
\* second one is there only while somebody is closing the first.
OneTicketEach ==
  faults = 0 => \A k \in Keys :
    tickets[k] = (IF k \in open THEN 1 ELSE 0) + Cardinality({w \in Webs : job[w] = k})

\* A change of the code reaches the answers that rest on it.
ChangeReachesAnswer ==
  \A a \in Answers, i \in Items : i \in Grounding(a) =>
    ((answer[a] = "published" /\ Outdated(i))
       ~> \/ <<"stale_answer", a>> \in open /\ i \in detail[a]
          \/ ~Outdated(i) \/ answer[a] # "published")

=============================================================================
