--------------------------- MODULE KnowledgeProofs ---------------------------
(* The marks on the knowledge, the edits of people and the corrections of     *)
(* answers, for every source, every order of runs and whatever is proposed.   *)
EXTENDS Knowledge, FiniteSetTheorems, TLAPS

-----------------------------------------------------------------------------
(* What is always so *)

\* The rows and the requests a ticket stands for.
Holders(k) == {w \in Webs : job[w] = k}

Held(k) == (IF k \in open THEN 1 ELSE 0) + Cardinality(Holders(k))

Counted ==
  \A k \in Keys : /\ tickets[k] >= Held(k)
                  /\ faults = 0 => tickets[k] = Held(k)

\* A run over the source has a commit to read, and what Lint marks is there.
HasRead ==
  /\ cursor <= head
  /\ stage = "source" => head > 0
  /\ stage = "mark" => todo \subseteq There(snap)

Sound == TypeOK /\ HasRead /\ Counted

-----------------------------------------------------------------------------
(* While people edit between the ticks *)

\* What people committed lies in the working tree, and all they wrote is flagged.
Flagged ==
  \A i \in Items : /\ file[i].text = "human" => file[i].edited_by_human
                   /\ saved[i].text = "human" => file[i].text = "human"

\* What a run or Lint has read is what lies there.
InStep == stage \in {"source", "qna", "mark", "report"} => snap = file

\* Of the commits an item was written from one is the last.
Dated ==
  \A i \in There(file) : file[i].provenance # {} =>
    \E m \in file[i].provenance :
      m <= head /\ \A d \in file[i].provenance : d <= m

\* What is marked was left behind by the code, or a person has changed it.
MarkedRight ==
  \A i \in There(file) : file[i].ref # None /\ file[i].stale =>
    Outdated(i) \/ file[i].edited_by_human

\* What the code left behind is marked, or Lint has it on its list.
ListRight ==
  /\ stage = "mark" =>
       \A i \in todo : /\ i \in There(file)
                       /\ file[i].ref # None => Outdated(i)
  /\ stage \in {"mark", "report"} =>
       \A i \in There(file) :
         file[i].ref # None /\ Outdated(i) =>
           file[i].stale \/ (stage = "mark" /\ i \in todo)

Kept == Flagged /\ InStep /\ Dated /\ MarkedRight /\ ListRight

Tidy == apart => Kept

-----------------------------------------------------------------------------
(* The answers on stale items *)

Candidate(a) == <<"stale_answer", a>>

Out(a) == a \in Answers /\ answer[a] # "none"

\* A candidate lists what its answer rests on and is stale.
Lists(a) == Grounding(a) \cap Stale(snap) \subseteq detail[a]

Propagated ==
  /\ \A a \in Answers : Candidate(a) \in open => Out(a)
  /\ stage = "report" => \A a \in Answers : Candidate(a) \notin todo
  /\ stage = "open" =>
       /\ \A a \in todo : Out(a)
       /\ Stale(file) \subseteq Stale(snap)
       /\ \A a \in Answers : Candidate(a) \in open /\ answer[a] = "published" =>
            a \in todo \/ Lists(a)
  /\ stage = "draft" =>
       \A a \in todo : Out(a) /\ (answer[a] = "published" =>
                                    Grounding(a) \cap Stale(file) = {})

-----------------------------------------------------------------------------
(* Types and tickets *)

LEMMA HoldersFinite ==
  ASSUME NEW k
  PROVE  IsFiniteSet(Holders(k)) /\ Cardinality(Holders(k)) \in Nat
BY KnowledgeAssumption, FS_Subset, FS_CardinalityType DEF Holders

\* Nobody opens, closes or takes a ticket.
LEMMA QuietCounts ==
  ASSUME Sound, UNCHANGED <<open, tickets, job>>, faults' \in {faults, faults + 1}
  PROVE  Counted'
BY DEF Sound, TypeOK, Counted, Held, Holders

LEMMA IssueCounts ==
  ASSUME Sound, NEW k \in Keys, Issue(k), UNCHANGED <<job, faults>>
  PROVE  Counted' /\ open' \subseteq Keys /\ tickets' \in [Keys -> Nat]
<1>1. \A l : Holders(l)' = Holders(l) /\ Cardinality(Holders(l)) \in Nat
  BY HoldersFinite DEF Holders
<1>2. open' \subseteq Keys /\ tickets' \in [Keys -> Nat]
  BY DEF Sound, TypeOK, Issue
<1>3. ASSUME NEW l \in Keys
      PROVE  tickets'[l] >= Held(l)' /\ (faults' = 0 => tickets'[l] = Held(l)')
  BY <1>1 DEF Sound, TypeOK, Issue, Counted, Held
<1> QED BY <1>2, <1>3 DEF Counted

LEMMA CloseCounts ==
  ASSUME Sound, NEW w \in Webs, NEW k \in Keys, job[w] = None, Close(w, k),
         UNCHANGED <<tickets, faults>>
  PROVE  /\ Counted' /\ open' \subseteq Keys
         /\ job' \in [Webs -> Keys \union {None}]
<1>1. open' \subseteq Keys /\ job' \in [Webs -> Keys \union {None}]
  BY DEF Sound, TypeOK, Close
<1>2. CASE k \notin open
  <2>1. open' = open /\ job' = job
    BY <1>2 DEF Close
  <2> QED BY <1>1, <2>1, QuietCounts
<1>3. CASE k \in open
  <2>1. job' = [job EXCEPT ![w] = k] /\ open' = open \ {k}
    BY <1>3 DEF Close
  <2>2. w \notin Holders(k) /\ Holders(k)' = Holders(k) \union {w}
    BY <2>1, NoneIsNoKey DEF Sound, TypeOK, Holders
  <2>3. Cardinality(Holders(k)') = Cardinality(Holders(k)) + 1
    BY <2>2, HoldersFinite, FS_AddElement
  <2>4. \A l \in Keys \ {k} : Holders(l)' = Holders(l)
    BY <2>1, NoneIsNoKey DEF Sound, TypeOK, Holders
  <2>5. Held(k)' = Held(k)
    BY <1>3, <2>1, <2>3, HoldersFinite DEF Held
  <2>6. \A l \in Keys \ {k} : Held(l)' = Held(l)
    BY <2>1, <2>4 DEF Held
  <2> QED BY <1>1, <2>5, <2>6 DEF Sound, Counted
<1> QED BY <1>2, <1>3

\* A request is over: the one it was about has a holder less.
LEMMA Released ==
  ASSUME Sound, NEW w \in Webs, job[w] # None,
         job' = [job EXCEPT ![w] = None], UNCHANGED open
  PROVE  /\ job[w] \in Keys /\ job' \in [Webs -> Keys \union {None}]
         /\ Held(job[w]) \in Nat \ {0}
         /\ \A l \in Keys : Held(l)' = IF l = job[w] THEN Held(l) - 1 ELSE Held(l)
<1> PICK k : k = job[w]
  OBVIOUS
<1>1. k \in Keys /\ job' \in [Webs -> Keys \union {None}]
  BY DEF Sound, TypeOK
<1>2. w \in Holders(k) /\ Holders(k)' = Holders(k) \ {w}
  BY <1>1, NoneIsNoKey DEF Sound, TypeOK, Holders
<1>3. /\ Cardinality(Holders(k)') = Cardinality(Holders(k)) - 1
      /\ Cardinality(Holders(k)) \in Nat \ {0}
  <2>1. Cardinality(Holders(k) \ {w}) = Cardinality(Holders(k)) - 1
    BY <1>2, HoldersFinite, FS_RemoveElement
  <2>2. Cardinality(Holders(k)) # 0
    BY <1>2, HoldersFinite, FS_EmptySet
  <2> QED BY <1>2, <2>1, <2>2, HoldersFinite
<1>4. \A l \in Keys \ {k} : Holders(l)' = Holders(l)
  BY <1>1, NoneIsNoKey DEF Sound, TypeOK, Holders
<1>5. Held(k)' = Held(k) - 1 /\ Held(k) \in Nat \ {0}
  BY <1>3 DEF Held
<1>6. \A l \in Keys \ {k} : Held(l)' = Held(l)
  BY <1>4 DEF Held
<1> QED BY <1>1, <1>5, <1>6

LEMMA HeldIsNat == \A k : Held(k) \in Nat
BY HoldersFinite DEF Held

LEMMA CloseTicketKeeps ==
  ASSUME Sound, NEW w \in Webs, CloseTicket(w)
  PROVE  Sound'
<1> PICK k : k = job[w]
  OBVIOUS
<1>1. /\ job[w] # None /\ job' = [job EXCEPT ![w] = None]
      /\ tickets' = [tickets EXCEPT ![k] = @ - 1]
      /\ UNCHANGED <<source, repo, open, detail, answer, draft, stage, run, apart,
                     edits, faults>>
  BY DEF CloseTicket
<1>2. /\ k \in Keys /\ job' \in [Webs -> Keys \union {None}]
      /\ Held(k) \in Nat \ {0}
      /\ \A l \in Keys : Held(l)' = IF l = k THEN Held(l) - 1 ELSE Held(l)
  BY <1>1, Released
<1>3. tickets \in [Keys -> Nat] /\ tickets[k] >= Held(k) /\ tickets[k] \in Nat
  BY <1>2 DEF Sound, Counted, TypeOK
<1>4. tickets' \in [Keys -> Nat]
  BY <1>1, <1>2, <1>3
<1>5. TypeOK'
  BY <1>1, <1>2, <1>4 DEF Sound, TypeOK, source, repo, run
<1>6. HasRead'
  BY <1>1 DEF Sound, HasRead, There, source, run
<1>7. Counted'
  BY <1>1, <1>2, <1>3, HeldIsNat DEF Sound, Counted
<1> QED BY <1>5, <1>6, <1>7 DEF Sound

LEMMA AbandonKeeps ==
  ASSUME Sound, NEW w \in Webs, Abandon(w)
  PROVE  Sound'
<1> PICK k : k = job[w]
  OBVIOUS
<1>1. /\ job[w] # None /\ job' = [job EXCEPT ![w] = None]
      /\ faults < MaxFaults /\ faults' = faults + 1
      /\ UNCHANGED <<source, repo, queues, stage, run, apart, edits>>
  BY DEF Abandon, Fault
<1>2. /\ k \in Keys /\ job' \in [Webs -> Keys \union {None}]
      /\ Held(k) \in Nat \ {0}
      /\ \A l \in Keys : Held(l)' = IF l = k THEN Held(l) - 1 ELSE Held(l)
  BY <1>1, Released DEF queues
<1>3. TypeOK'
  BY <1>1, <1>2, KnowledgeAssumption DEF Sound, TypeOK, source, repo, queues, run
<1>4. HasRead'
  BY <1>1 DEF Sound, HasRead, There, source, run
<1>5. Counted'
  <2>1. faults' # 0 /\ tickets' = tickets
    BY <1>1, KnowledgeAssumption DEF Sound, TypeOK, queues
  <2>2. \A l \in Keys : tickets[l] \in Nat /\ tickets[l] >= Held(l)
    BY DEF Sound, TypeOK, Counted
  <2> QED BY <1>2, <2>1, <2>2, HeldIsNat DEF Counted
<1> QED BY <1>3, <1>4, <1>5 DEF Sound

LEMMA CrashOnTicketKeeps ==
  ASSUME Sound, NEW k \in Keys, CrashOnTicket(k)
  PROVE  Sound'
<1>1. /\ tickets' = [tickets EXCEPT ![k] = @ + 1]
      /\ faults < MaxFaults /\ faults' = faults + 1
      /\ stage' = "down" /\ Forget
      /\ UNCHANGED <<source, repo, open, detail, answer, draft, people>>
  BY DEF CrashOnTicket, Fault
<1>2. tickets' \in [Keys -> Nat] /\ \A l \in Keys : tickets'[l] >= tickets[l]
  BY <1>1 DEF Sound, TypeOK
<1>3. Empty \in Files
  BY DEF Empty, Files
<1>4. TypeOK'
  BY <1>1, <1>2, <1>3, KnowledgeAssumption
  DEF Sound, TypeOK, Forget, source, repo, people, Stages
<1>5. HasRead'
  BY <1>1 DEF Sound, HasRead, source
<1>6. Counted'
  <2>1. faults' # 0 /\ \A l : Held(l)' = Held(l)
    BY <1>1, KnowledgeAssumption DEF Sound, TypeOK, Held, Holders, people
  <2>2. \A l \in Keys : tickets[l] \in Nat /\ tickets'[l] \in Nat /\ tickets[l] >= Held(l)
    BY <1>2 DEF Sound, TypeOK, Counted
  <2> QED BY <1>2, <2>1, <2>2, HeldIsNat DEF Counted
<1> QED BY <1>4, <1>5, <1>6 DEF Sound

-----------------------------------------------------------------------------
(* Types in every step *)

LEMMA WrittenItem ==
  ASSUME TypeOK, NEW i \in Items, NEW commits \in SUBSET Commits,
         NEW ref \in Paths \union {None}
  PROVE  ToItem(i, commits, ref) \in KnowledgeItem
<1>1. Base(i) # Nothing => Base(i).provenance \in SUBSET Commits
  BY DEF TypeOK, Files, KnowledgeItem, Base
<1> QED BY <1>1 DEF ToItem, KnowledgeItem

LEMMA EditedItem ==
  ASSUME TypeOK, NEW i \in Items, NEW f \in Edited(i)
  PROVE  f \in KnowledgeItem /\ f.text = "human"
<1>1. file[i] # Nothing => /\ file[i].provenance \in SUBSET Commits
                           /\ file[i].stale \in BOOLEAN
  BY DEF TypeOK, Files, KnowledgeItem
<1>2. PICK flag \in BOOLEAN, ref \in Paths \union {None} :
        f = Retouched(i, flag, ref)
  BY DEF Edited
<1>3. CASE file[i] = Nothing
  BY <1>2, <1>3 DEF Retouched, KnowledgeItem
<1>4. CASE file[i] # Nothing
  BY <1>1, <1>2, <1>4 DEF Retouched, KnowledgeItem
<1> QED BY <1>3, <1>4

\* An item with its mark.
LEMMA MarkedItem ==
  ASSUME NEW f \in KnowledgeItem, NEW g, g = [f EXCEPT !.stale = TRUE]
  PROVE  /\ g \in KnowledgeItem /\ g.stale /\ g.text = f.text /\ g.ref = f.ref
         /\ g.provenance = f.provenance
         /\ g.edited_by_human = f.edited_by_human
BY DEF KnowledgeItem

LEMMA NothingIsNoItem == Nothing \notin KnowledgeItem
BY DEF Nothing, KnowledgeItem

LEMMA MarkKeeps ==
  ASSUME Sound, NEW i \in Items, Mark(i)
  PROVE  Sound'
<1> PICK g : g = [snap[i] EXCEPT !.stale = TRUE]
  OBVIOUS
<1>1. /\ stage = "mark" /\ i \in todo /\ todo' = todo \ {i} /\ wrote' = "now"
      /\ file' = [file EXCEPT ![i] = g] /\ snap' = [snap EXCEPT ![i] = g]
      /\ UNCHANGED <<source, saved, overdue, index, queues, stage, clean, people, faults>>
  BY DEF Mark
<1>2. g \in KnowledgeItem
  BY <1>1, MarkedItem DEF Sound, TypeOK, HasRead, There, Files
<1>3. TypeOK'
  BY <1>1, <1>2 DEF Sound, TypeOK, Files, source, queues, people
<1>4. HasRead'
  BY <1>1, <1>2, NothingIsNoItem DEF Sound, TypeOK, HasRead, Files, There, source
<1>5. Counted'
  BY <1>1, QuietCounts DEF queues, people
<1> QED BY <1>3, <1>4, <1>5 DEF Sound

LEMMA ApplyKeeps ==
  ASSUME Sound, NEW i \in Items, NEW commits \in SUBSET Commits,
         NEW ref \in Paths \union {None}, Apply(i, commits, ref),
         UNCHANGED <<source, saved, overdue, index, stage, todo, clean, people, faults>>,
         stage \in {"source", "qna"}
  PROVE  Sound'
<1>1. HasRead'
  BY DEF Sound, HasRead, source
<1>2. CASE HeldForHuman(i)
  <2>1. /\ Issue(<<"contradiction", i>>) /\ <<"contradiction", i>> \in Keys
        /\ UNCHANGED <<file, snap, wrote, detail, answer, draft>>
    BY <1>2 DEF Apply, Keys
  <2>2. Counted' /\ open' \subseteq Keys /\ tickets' \in [Keys -> Nat]
    BY <2>1, IssueCounts DEF people
  <2>3. TypeOK'
    BY <2>1, <2>2 DEF Sound, TypeOK, source, people
  <2> QED BY <1>1, <2>2, <2>3 DEF Sound
<1>3. CASE ~HeldForHuman(i)
  <2> PICK g : g = ToItem(i, commits, ref)
    OBVIOUS
  <2>1. /\ file' = [file EXCEPT ![i] = g] /\ snap' = [snap EXCEPT ![i] = g]
        /\ wrote' = "now" /\ UNCHANGED queues
    BY <1>3 DEF Apply
  <2>2. g \in KnowledgeItem
    BY WrittenItem DEF Sound
  <2>3. TypeOK'
    BY <2>1, <2>2 DEF Sound, TypeOK, Files, source, queues, people
  <2>4. Counted'
    BY <2>1, QuietCounts DEF queues, people
  <2> QED BY <1>1, <2>3, <2>4 DEF Sound
<1> QED BY <1>2, <1>3

LEMMA IssuesKeep ==
  ASSUME Sound,
         \/ \E k \in Keys : OpenFinding(k)
         \/ \E a \in Answers : OpenCandidate(a)
  PROVE  Sound'
<1>1. ASSUME NEW k \in Keys, OpenFinding(k) PROVE Sound'
  <2>1. /\ Issue(k) /\ todo' = todo \ {k} /\ stage = "report"
        /\ UNCHANGED <<source, repo, detail, answer, draft, stage, snap, wrote, clean,
                       people, faults>>
    BY <1>1 DEF OpenFinding
  <2>2. Counted' /\ open' \subseteq Keys /\ tickets' \in [Keys -> Nat]
    BY <2>1, IssueCounts DEF people
  <2>3. TypeOK'
    BY <2>1, <2>2 DEF Sound, TypeOK, source, repo, people
  <2>4. HasRead'
    BY <2>1 DEF Sound, HasRead, source
  <2> QED BY <2>2, <2>3, <2>4 DEF Sound
<1>2. ASSUME NEW a \in Answers, OpenCandidate(a) PROVE Sound'
  <2>1. /\ Issue(<<"stale_answer", a>>) /\ todo' = todo \ {a} /\ stage = "open"
        /\ detail' = [detail EXCEPT ![a] = Listed(a)]
        /\ UNCHANGED <<source, repo, answer, draft, stage, snap, wrote, clean,
                       people, faults>>
    BY <1>2 DEF OpenCandidate
  <2>2. <<"stale_answer", a>> \in Keys
    BY DEF Keys
  <2>3. Counted' /\ open' \subseteq Keys /\ tickets' \in [Keys -> Nat]
    BY <2>1, <2>2, IssueCounts DEF people
  <2>4. Listed(a) \in SUBSET Items
    BY DEF Listed, Stale, There
  <2>5. detail' \in [Answers -> SUBSET Items]
    BY <2>1, <2>4 DEF Sound, TypeOK
  <2>6. TypeOK'
    BY <2>1, <2>3, <2>5 DEF Sound, TypeOK, source, repo, people
  <2>7. HasRead'
    BY <2>1 DEF Sound, HasRead, source
  <2> QED BY <2>3, <2>6, <2>7 DEF Sound
<1> QED BY <1>1, <1>2

LEMMA EditsKeep ==
  ASSUME Sound, NEW i \in Items, Edit(i) \/ EditApart(i)
  PROVE  Sound'
<1>1. PICK f \in Edited(i) \union {Nothing} :
        /\ file' = [file EXCEPT ![i] = f]
        /\ saved' = saved \/ saved' = [saved EXCEPT ![i] = f]
  BY DEF Edit, EditApart
<1>2. f \in KnowledgeItem \union {Nothing}
  BY EditedItem DEF Sound
<1>3. file' \in Files /\ saved' \in Files
  BY <1>1, <1>2 DEF Sound, TypeOK, Files
<1>4. /\ overdue' \subseteq Items /\ edits' \in 0 .. MaxEdits
      /\ UNCHANGED <<source, index, queues, stage, run, job, apart, faults>>
  BY KnowledgeAssumption DEF Edit, EditApart, Edits, Sound, TypeOK
<1>5. TypeOK'
  BY <1>3, <1>4 DEF Sound, TypeOK, source, queues, run
<1>6. HasRead'
  BY <1>4 DEF Sound, HasRead, There, source, run
<1>7. Counted'
  BY <1>4, QuietCounts DEF queues
<1> QED BY <1>5, <1>6, <1>7 DEF Sound

LEMMA CloseKeeps ==
  ASSUME Sound, NEW w \in Webs,
         \/ \E k \in Keys : Resolve(w, k)
         \/ \E a \in Answers : PublishCorrection(w, a)
  PROVE  Sound'
<1>1. PICK k \in Keys : Close(w, k)
  BY DEF Resolve, PublishCorrection, Keys
<1>2. /\ job[w] = None
      /\ UNCHANGED <<source, repo, detail, tickets, stage, run, apart, edits, faults>>
      /\ draft' \subseteq draft
      /\ answer' = answer \/ \E a \in Answers :
           answer' = [answer EXCEPT ![a] = "corrected"]
  BY DEF Resolve, PublishCorrection
<1>3. /\ Counted' /\ open' \subseteq Keys
      /\ job' \in [Webs -> Keys \union {None}]
  BY <1>1, <1>2, CloseCounts
<1>4. TypeOK'
  BY <1>2, <1>3 DEF Sound, TypeOK, source, repo, run
<1>5. HasRead'
  BY <1>2 DEF Sound, HasRead, There, source, run
<1> QED BY <1>3, <1>4, <1>5 DEF Sound

LEMMA EmptyTyped == Empty \in Files
BY DEF Empty, Files

LEMMA ListsTyped ==
  /\ \A f : There(f) \subseteq Items /\ Stale(f) \subseteq Items
  /\ Findings \subseteq Keys
  /\ Ready \subseteq Answers /\ \A is : AnsweredWith(is) \subseteq Answers
BY DEF There, Stale, Findings, DeadInvalidation, BrokenLinks, Keys, Ready,
       AnsweredWith

\* The ingest run, but for what it writes.
LEMMA RunKeeps ==
  ASSUME Sound,
         \/ Boot \/ Fetch \/ StartIngest \/ SkipIngest \/ CommitChunk \/ FailChunk
         \/ EndSource \/ Stop \/ EndQna \/ Record \/ MoveCursor \/ FailIngest \/ Crash
  PROVE  Sound'
<1>1. /\ UNCHANGED <<queues, people, concepts, file, index>>
      /\ faults' \in {faults, faults + 1}
  BY DEF Boot, Fetch, StartIngest, SkipIngest, CommitChunk, FailChunk, EndSource,
         Stop, EndQna, Record, MoveCursor, FailIngest, Crash, Fault, source, repo,
         queues, people, Commit
<1>2. Counted'
  BY <1>1, QuietCounts DEF queues, people
<1>3. faults' \in 0 .. MaxFaults
  BY KnowledgeAssumption
  DEF Sound, TypeOK, Boot, Fetch, StartIngest, SkipIngest, CommitChunk, FailChunk,
      EndSource, Stop, EndQna, Record, MoveCursor, FailIngest, Crash, Fault
<1>4. head' \in 0 .. MaxCommits /\ touched' \in [Commits -> SUBSET Paths]
  <2>1. CASE Fetch
    <3>1. UNCHANGED <<head, touched>>
          \/ /\ head < MaxCommits /\ head' = head + 1
             /\ \E ps \in SUBSET Paths : touched' = [touched EXCEPT ![head + 1] = ps]
      BY <2>1 DEF Fetch
    <3> QED BY <3>1, KnowledgeAssumption DEF Sound, TypeOK
  <2>2. CASE ~Fetch
    BY <2>2
    DEF Sound, TypeOK, Boot, StartIngest, SkipIngest, CommitChunk, FailChunk,
        EndSource, Stop, EndQna, Record, MoveCursor, FailIngest, Crash, source
  <2> QED BY <2>1, <2>2
<1>5. cursor' \in 0 .. MaxCommits /\ cursor' <= head'
  BY KnowledgeAssumption
  DEF Sound, TypeOK, HasRead, Boot, Fetch, StartIngest, SkipIngest, CommitChunk,
      FailChunk, EndSource, Stop, EndQna, Record, MoveCursor, FailIngest, Crash, source
<1>6. saved' \in Files /\ overdue' \subseteq Items
  BY DEF Sound, TypeOK, Boot, Fetch, StartIngest, SkipIngest, CommitChunk,
         FailChunk, EndSource, Stop, EndQna, Record, MoveCursor, FailIngest, Crash,
         repo, Commit
<1>7. /\ stage' \in Stages /\ snap' \in Files /\ clean' \in BOOLEAN
      /\ wrote' \in {"nothing", "before", "now"}
      /\ todo' \subseteq Items \union Keys \union Answers
  BY EmptyTyped
  DEF Sound, TypeOK, Boot, Fetch, StartIngest, SkipIngest, CommitChunk, FailChunk,
      EndSource, Stop, EndQna, Record, MoveCursor, FailIngest, Crash, run, Forget,
      Stages
<1>8. TypeOK'
  BY <1>1, <1>3, <1>4, <1>5, <1>6, <1>7 DEF Sound, TypeOK, queues, people
<1>9. stage' # "mark" /\ (stage' = "source" => head' > 0)
  BY DEF Sound, TypeOK, HasRead, Boot, Fetch, StartIngest, SkipIngest, CommitChunk,
         FailChunk, EndSource, Stop, EndQna, Record, MoveCursor, FailIngest, Crash,
         source
<1> QED BY <1>2, <1>5, <1>8, <1>9 DEF Sound, HasRead

\* Lint and what follows it, but for what it writes and opens.
LEMMA LintKeeps ==
  ASSUME Sound,
         \/ StartLint \/ RebuildIndex \/ EndLint \/ FailLint
         \/ Propagate \/ StartDrafts \/ EndTick
         \/ \E a \in Answers : DraftCorrection(a)
  PROVE  Sound'
<1>1. /\ UNCHANGED <<source, file, open, detail, tickets, answer, people>>
      /\ faults' \in {faults, faults + 1}
  BY DEF StartLint, RebuildIndex, EndLint, FailLint, Propagate, StartDrafts, EndTick,
         DraftCorrection, Fault, Commit, source, repo, queues, people
<1>2. Counted'
  BY <1>1, QuietCounts DEF people
<1>3. faults' \in 0 .. MaxFaults
  BY KnowledgeAssumption
  DEF Sound, TypeOK, StartLint, RebuildIndex, EndLint, FailLint, Propagate,
      StartDrafts, EndTick, DraftCorrection, Fault
<1>4. /\ saved' \in Files /\ overdue' \subseteq Items
      /\ index' \in [Items -> {"none", "fresh", "stale"}]
      /\ draft' \subseteq Answers
  BY DEF Sound, TypeOK, StartLint, RebuildIndex, EndLint, FailLint, Propagate,
         StartDrafts, EndTick, DraftCorrection, Commit, repo, queues
<1>5. /\ stage' \in Stages /\ snap' \in Files /\ clean' \in BOOLEAN
      /\ wrote' \in {"nothing", "before", "now"}
  BY EmptyTyped
  DEF Sound, TypeOK, StartLint, RebuildIndex, EndLint, FailLint, Propagate,
      StartDrafts, EndTick, DraftCorrection, run, Forget, Stages
<1>6. todo' \subseteq Items \union Keys \union Answers
  BY ListsTyped
  DEF Sound, TypeOK, StartLint, RebuildIndex, EndLint, FailLint, Propagate,
      StartDrafts, EndTick, DraftCorrection, run, Forget
<1>7. TypeOK'
  BY <1>1, <1>3, <1>4, <1>5, <1>6 DEF Sound, TypeOK, source, people
<1>8. HasRead'
  <2>1. stage' # "source" /\ UNCHANGED <<cursor, head>>
    BY <1>1
    DEF StartLint, RebuildIndex, EndLint, FailLint, Propagate, StartDrafts, EndTick,
        DraftCorrection, source
  <2>2. stage' = "mark" => StartLint
    BY DEF StartLint, RebuildIndex, EndLint, FailLint, Propagate, StartDrafts,
           EndTick, DraftCorrection
  <2>3. StartLint => todo' \subseteq There(snap')
    BY DEF StartLint, There
  <2> QED BY <2>1, <2>2, <2>3 DEF Sound, HasRead, There
<1> QED BY <1>2, <1>7, <1>8 DEF Sound

LEMMA OthersKeep ==
  ASSUME Sound,
         \/ \E i \in Items : PeriodPasses(i)
         \/ \E is \in (SUBSET Items) \ {{}} : HumanCommit(is)
         \/ \E a \in Answers : Publish(a)
         \/ UNCHANGED vars
  PROVE  Sound'
<1>1. /\ UNCHANGED <<source, file, index, open, detail, tickets, draft, stage, run,
                     people, faults>>
      /\ overdue' \subseteq Items
      /\ answer' \in [Answers -> {"none", "published", "corrected"}]
  BY DEF Sound, TypeOK, PeriodPasses, HumanCommit, Publish, vars, source, repo,
         queues, run, people
<1>2. saved' \in Files
  <2>1. \/ saved' = saved
        \/ \E is : saved' = [i \in Items |-> IF i \in is THEN file[i] ELSE saved[i]]
    BY DEF PeriodPasses, HumanCommit, Publish, vars, repo
  <2> QED BY <2>1 DEF Sound, TypeOK, Files
<1>3. TypeOK'
  BY <1>1, <1>2 DEF Sound, TypeOK, source, run, people
<1>4. HasRead'
  BY <1>1 DEF Sound, HasRead, There, source, run
<1>5. Counted'
  BY <1>1, QuietCounts DEF people
<1> QED BY <1>3, <1>4, <1>5 DEF Sound

LEMMA WritesKeep ==
  ASSUME Sound, NEW i \in Items, NEW ref \in Paths \union {None},
         FromSource(i, ref) \/ FromQna(i, ref)
  PROVE  Sound'
<1>1. CASE FromSource(i, ref)
  <2>1. {head} \in SUBSET Commits
    BY <1>1, KnowledgeAssumption DEF FromSource, Sound, TypeOK, HasRead, Commits
  <2> QED BY <1>1, <2>1, ApplyKeeps DEF FromSource
<1>2. CASE FromQna(i, ref)
  <2>1. {} \in SUBSET Commits
    OBVIOUS
  <2> QED BY <1>2, <2>1, ApplyKeeps DEF FromQna
<1> QED BY <1>1, <1>2

LEMMA SoundInit == Init => Sound
<1> SUFFICES ASSUME Init PROVE Sound
  OBVIOUS
<1>1. TypeOK
  BY EmptyTyped, KnowledgeAssumption DEF Init, TypeOK, Stages
<1>2. HasRead
  BY DEF Init, HasRead
<1>3. Counted
  <2>1. ASSUME NEW k \in Keys PROVE Cardinality(Holders(k)) = 0
    <3>1. Holders(k) = {}
      BY NoneIsNoKey DEF Init, Holders
    <3> QED BY <3>1, FS_EmptySet
  <2> QED BY <2>1 DEF Init, Counted, Held
<1> QED BY <1>1, <1>2, <1>3 DEF Sound

LEMMA SoundNext == Sound /\ [Next]_vars => Sound'
<1> SUFFICES ASSUME Sound, [Next]_vars PROVE Sound'
  OBVIOUS
<1>1. CASE Advance
  BY <1>1, RunKeeps, LintKeeps, MarkKeeps, IssuesKeep DEF Advance
<1>2. CASE SkipIngest \/ CommitChunk \/ FailChunk \/ Stop \/ FailIngest \/ FailLint \/ Crash
  BY <1>2, RunKeeps, LintKeeps
<1>3. CASE \E i \in Items : \/ Edit(i) \/ EditApart(i) \/ PeriodPasses(i)
                            \/ \E ref \in Paths \union {None} :
                                 FromSource(i, ref) \/ FromQna(i, ref)
  BY <1>3, EditsKeep, OthersKeep, WritesKeep
<1>4. CASE \/ \E k \in Keys : CrashOnTicket(k)
           \/ \E is \in (SUBSET Items) \ {{}} : HumanCommit(is)
           \/ \E a \in Answers : Publish(a)
  BY <1>4, CrashOnTicketKeeps, OthersKeep
<1>5. CASE \E w \in Webs : \/ CloseTicket(w) \/ Abandon(w)
                           \/ \E k \in Keys : Resolve(w, k)
                           \/ \E a \in Answers : PublishCorrection(w, a)
  BY <1>5, CloseTicketKeeps, AbandonKeeps, CloseKeeps
<1>6. CASE UNCHANGED vars
  BY <1>6, OthersKeep
<1> QED BY <1>1, <1>2, <1>3, <1>4, <1>5, <1>6 DEF Next

\* Every variable has its type, and a ticket is issued for each row and each
\* request that is about to close one.
THEOREM KnowledgeInvariant == Spec => []Sound
BY SoundInit, SoundNext, PTL DEF Spec

\* One open row has one open ticket, as long as nothing fails between the ticket
\* and its row (issue_gate.py, lint.py, contradiction.py).
THEOREM RowsHaveOneTicket == Spec => []OneTicketEach
<1>1. Sound => OneTicketEach
  BY DEF Sound, Counted, Held, Holders, OneTicketEach
<1> QED BY <1>1, KnowledgeInvariant, PTL

-----------------------------------------------------------------------------
(* From stale items to answers *)

LEMMA GroundsStay == [Next]_vars => \A a : Grounding(a)' = Grounding(a)
<1> SUFFICES ASSUME [Next]_vars PROVE concepts' = concepts
  BY DEF Grounding
<1>1. CASE UNCHANGED vars
  BY <1>1 DEF vars
<1>2. CASE Advance
  BY <1>2
  DEF Advance, Boot, Fetch, StartIngest, EndSource, EndQna, Record, MoveCursor,
      StartLint, RebuildIndex, EndLint, Propagate, StartDrafts, EndTick, Mark,
      OpenFinding, OpenCandidate, DraftCorrection, source
<1>3. CASE Next /\ ~Advance
  BY <1>3
  DEF Next, SkipIngest, CommitChunk, FailChunk, Stop, FailIngest, FailLint, Crash,
      Edit, EditApart, PeriodPasses, FromSource, FromQna, CrashOnTicket, HumanCommit,
      Publish, CloseTicket, Abandon, Resolve, PublishCorrection, source
<1> QED BY <1>1, <1>2, <1>3

\* An answer that is out stays out, and a corrected one stays corrected.
LEMMA AnswersMove ==
  ASSUME Sound, [Next]_vars, NEW a \in Answers, Out(a)
  PROVE  Out(a)' /\ (answer'[a] = "published" => answer[a] = "published")
<1>1. CASE UNCHANGED answer
  BY <1>1 DEF Out
<1>2. CASE \E b \in Answers : Publish(b)
  BY <1>2 DEF Publish, Sound, TypeOK, Out
<1>3. CASE \E w \in Webs, b \in Answers : PublishCorrection(w, b)
  BY <1>3 DEF PublishCorrection, Sound, TypeOK, Out
<1>4. ASSUME ~(\E b \in Answers : Publish(b)),
             ~(\E w \in Webs, b \in Answers : PublishCorrection(w, b))
      PROVE  UNCHANGED answer
  <2>1. CASE UNCHANGED vars
    BY <2>1 DEF vars
  <2>2. CASE Advance
    BY <2>2
    DEF Advance, Boot, Fetch, StartIngest, EndSource, EndQna, Record, MoveCursor,
        StartLint, RebuildIndex, EndLint, Propagate, StartDrafts, EndTick, Mark,
        OpenFinding, OpenCandidate, DraftCorrection, queues
  <2>3. CASE Next /\ ~Advance
    BY <1>4, <2>3
    DEF Next, SkipIngest, CommitChunk, FailChunk, Stop, FailIngest, FailLint, Crash,
        Edit, EditApart, PeriodPasses, FromSource, FromQna, Apply, CrashOnTicket,
        HumanCommit, CloseTicket, Abandon, Resolve, queues
  <2> QED BY <2>1, <2>2, <2>3
<1> QED BY <1>1, <1>2, <1>3, <1>4

\* What an editor saves is not stale where it was not.
LEMMA EditIsNoMark ==
  ASSUME Sound, NEW i \in Items, Edit(i)
  PROVE  Stale(file)' \subseteq Stale(file)
<1>1. PICK f \in Edited(i) \union {Nothing} : file' = [file EXCEPT ![i] = f]
  BY DEF Edit
<1>2. f # Nothing /\ f.stale => file[i] # Nothing /\ file[i].stale
  <2> SUFFICES ASSUME f # Nothing, f.stale PROVE file[i] # Nothing /\ file[i].stale
    OBVIOUS
  <2>1. PICK flag, ref : f = Retouched(i, flag, ref)
    BY DEF Edited
  <2>2. CASE file[i] = Nothing
    BY <2>1, <2>2 DEF Retouched
  <2>3. CASE file[i] # Nothing
    BY <2>1, <2>3 DEF Retouched
  <2> QED BY <2>2, <2>3
<1>3. \A j \in Items : file'[j] = IF j = i THEN f ELSE file[j]
  BY <1>1 DEF Sound, TypeOK, Files
<1> QED BY <1>2, <1>3 DEF Stale, There

\* After Lint no step marks an item.
LEMMA NoNewMark ==
  ASSUME Sound, [Next]_vars, stage \in {"open", "draft"}
  PROVE  Stale(file)' \subseteq Stale(file)
<1>1. CASE \E i \in Items : Edit(i)
  BY <1>1, EditIsNoMark
<1>2. CASE UNCHANGED vars
  BY <1>2 DEF vars, Stale, There
<1>3. CASE Advance
  <2>1. file' = file
    BY <1>3
    DEF Advance, Boot, Fetch, StartIngest, EndSource, EndQna, Record, MoveCursor,
        StartLint, RebuildIndex, EndLint, Propagate, StartDrafts, EndTick, Mark,
        OpenFinding, OpenCandidate, DraftCorrection, repo
  <2> QED BY <2>1 DEF Stale, There
<1>4. CASE Next /\ ~Advance /\ ~\E i \in Items : Edit(i)
  <2>1. file' = file
    BY <1>4
    DEF Next, SkipIngest, CommitChunk, FailChunk, Stop, FailIngest, FailLint, Crash,
        EditApart, PeriodPasses, FromSource, FromQna, CrashOnTicket,
        HumanCommit, Publish, CloseTicket, Abandon, Resolve, PublishCorrection, repo
  <2> QED BY <2>1 DEF Stale, There
<1> QED BY <1>1, <1>2, <1>3, <1>4

\* How a list of the tick comes to be what it is.
LEMMA ListsArise ==
  ASSUME Sound, [Next]_vars
  PROVE  /\ stage' = "report" =>
              RebuildIndex \/ (stage = "report" /\ todo' \subseteq todo)
         /\ stage' = "open" =>
              \/ Propagate
              \/ \E a \in Answers : OpenCandidate(a)
              \/ stage = "open" /\ UNCHANGED <<snap, todo, detail>>
         /\ stage' = "draft" =>
              StartDrafts \/ (stage = "draft" /\ todo' \subseteq todo)
<1>1. CASE UNCHANGED vars
  BY <1>1 DEF vars
<1>2. CASE Advance
  BY <1>2
  DEF Advance, Boot, Fetch, StartIngest, EndSource, EndQna, Record, MoveCursor,
      StartLint, RebuildIndex, EndLint, Propagate, StartDrafts, EndTick, Mark,
      OpenFinding, OpenCandidate, DraftCorrection, run
<1>3. CASE Next /\ ~Advance
  BY <1>3
  DEF Next, SkipIngest, CommitChunk, FailChunk, Stop, FailIngest, FailLint, Crash,
      Edit, EditApart, PeriodPasses, FromSource, FromQna, CrashOnTicket, HumanCommit,
      Publish, CloseTicket, Abandon, Resolve, PublishCorrection, run, queues
<1> QED BY <1>1, <1>2, <1>3

\* A candidate is opened from the list of Propagate.
LEMMA CandidateOpened ==
  ASSUME Sound, Propagated, [Next]_vars, NEW a \in Answers,
         Candidate(a) \in open', Candidate(a) \notin open
  PROVE  OpenCandidate(a)
<1>1. CASE UNCHANGED vars
  BY <1>1 DEF vars
<1>2. CASE Advance
  <2>1. \/ \E k \in Keys : OpenFinding(k)
        \/ \E b \in Answers : OpenCandidate(b)
    BY <1>2
    DEF Advance, Boot, Fetch, StartIngest, EndSource, EndQna, Record, MoveCursor,
        StartLint, RebuildIndex, EndLint, Propagate, StartDrafts, EndTick, Mark,
        DraftCorrection, queues
  <2>2. ASSUME NEW k \in Keys, OpenFinding(k) PROVE FALSE
    BY <2>2 DEF OpenFinding, Issue, Propagated
  <2>3. ASSUME NEW b \in Answers, OpenCandidate(b) PROVE a = b
    BY <2>3 DEF OpenCandidate, Issue, Candidate
  <2> QED BY <2>1, <2>2, <2>3
<1>3. CASE Next /\ ~Advance
  <2>1. ASSUME NEW i \in Items, NEW ref, FromSource(i, ref) \/ FromQna(i, ref)
        PROVE  FALSE
    BY <2>1 DEF FromSource, FromQna, Apply, Issue, Candidate, queues
  <2>2. open' \subseteq open
    BY <1>3, <2>1
    DEF Next, SkipIngest, CommitChunk, FailChunk, Stop, FailIngest, FailLint, Crash,
        Edit, EditApart, PeriodPasses, CrashOnTicket, HumanCommit, Publish,
        CloseTicket, Abandon, Resolve, PublishCorrection, Close, queues
  <2> QED BY <2>2
<1> QED BY <1>1, <1>2, <1>3

LEMMA PropagatedInit == Init => Propagated
BY DEF Init, Propagated

LEMMA PropagatedNext == Sound /\ Propagated /\ [Next]_vars => Propagated'
<1> SUFFICES ASSUME Sound, Propagated, [Next]_vars PROVE Propagated'
  OBVIOUS
<1>1. \A a \in Answers : Candidate(a) \in open' => Out(a)'
  <2> SUFFICES ASSUME NEW a \in Answers, Candidate(a) \in open' PROVE Out(a)'
    OBVIOUS
  <2>1. CASE Candidate(a) \in open
    BY <2>1, AnswersMove DEF Propagated
  <2>2. CASE Candidate(a) \notin open
    <3>1. OpenCandidate(a)
      BY <2>2, CandidateOpened
    <3> QED BY <3>1, AnswersMove DEF OpenCandidate, Propagated
  <2> QED BY <2>1, <2>2
<1>2. ASSUME stage' = "report" PROVE \A a \in Answers : Candidate(a) \notin todo'
  <2>1. CASE RebuildIndex
    BY <2>1
    DEF RebuildIndex, Findings, DeadInvalidation, BrokenLinks, There, Candidate
  <2>2. CASE stage = "report" /\ todo' \subseteq todo
    BY <2>2 DEF Propagated
  <2> QED BY <1>2, <2>1, <2>2, ListsArise
<1>3. ASSUME stage' = "open"
      PROVE  /\ \A a \in todo' : Out(a)'
             /\ Stale(file)' \subseteq Stale(snap)'
             /\ \A a \in Answers : Candidate(a) \in open' /\ answer'[a] = "published" =>
                  a \in todo' \/ Lists(a)'
  <2>1. CASE Propagate
    <3>1. /\ stage = "propagate" /\ snap' = file
          /\ todo' = AnsweredWith(Stale(file))
          /\ UNCHANGED <<source, repo, queues>>
      BY <2>1 DEF Propagate
    <3>2. Stale(file)' = Stale(file) /\ Stale(snap)' = Stale(file)
      BY <3>1 DEF repo, Stale, There
    <3>3. \A a \in todo' : Out(a)'
      BY <3>1 DEF AnsweredWith, Out, queues
    <3>4. \A a \in Answers : answer'[a] = "published" => a \in todo' \/ Lists(a)'
      BY <3>1, <3>2, GroundsStay DEF AnsweredWith, Lists, queues
    <3> QED BY <3>2, <3>3, <3>4
  <2>2. CASE \E b \in Answers : OpenCandidate(b)
    <3>1. PICK b \in Answers : OpenCandidate(b)
      BY <2>2
    <3>2. /\ stage = "open" /\ b \in todo /\ todo' = todo \ {b}
          /\ detail' = [detail EXCEPT ![b] = Grounding(b) \cap Stale(snap)]
          /\ UNCHANGED <<source, repo, answer, snap>>
      BY <3>1 DEF OpenCandidate, Listed
    <3>3. Stale(file)' = Stale(file) /\ Stale(snap)' = Stale(snap)
      BY <3>2 DEF repo, Stale, There
    <3>4. \A a \in todo' : Out(a)'
      BY <3>2 DEF Propagated, Out
    <3>5. Lists(b)'
      BY <3>2, <3>3, GroundsStay DEF Lists, Sound, TypeOK
    <3>6. ASSUME NEW a \in Answers \ {b}, Candidate(a) \in open',
                 answer'[a] = "published"
          PROVE  a \in todo' \/ Lists(a)'
      <4>1. Candidate(a) \in open
        BY <3>1, <3>6 DEF OpenCandidate, Issue, Candidate
      <4>2. a \in todo \/ Lists(a)
        BY <3>2, <3>6, <4>1 DEF Propagated
      <4> QED BY <3>2, <3>3, <4>2, GroundsStay DEF Lists, Sound, TypeOK
    <3> QED BY <3>2, <3>3, <3>4, <3>5, <3>6 DEF Propagated
  <2>3. CASE stage = "open" /\ UNCHANGED <<snap, todo, detail>>
    <3>1. Stale(file)' \subseteq Stale(file) /\ Stale(snap)' = Stale(snap)
      BY <2>3, NoNewMark DEF Stale, There
    <3>2. \A a \in todo' : Out(a)'
      BY <2>3, AnswersMove DEF Propagated, Out
    <3>3. ASSUME NEW a \in Answers, Candidate(a) \in open', answer'[a] = "published"
          PROVE  a \in todo' \/ Lists(a)'
      <4>1. CASE Candidate(a) \in open
        <5>1. answer[a] = "published"
          BY <3>3, <4>1, AnswersMove DEF Propagated
        <5>2. a \in todo \/ Lists(a)
          BY <2>3, <4>1, <5>1 DEF Propagated
        <5> QED BY <2>3, <3>1, <5>2, GroundsStay DEF Lists
      <4>2. CASE Candidate(a) \notin open
        <5>1. OpenCandidate(a)
          BY <3>3, <4>2, CandidateOpened
        <5> QED BY <2>3, <5>1 DEF OpenCandidate
      <4> QED BY <4>1, <4>2
    <3> QED BY <2>3, <3>1, <3>2, <3>3 DEF Propagated
  <2> QED BY <1>3, <2>1, <2>2, <2>3, ListsArise
<1>4. ASSUME stage' = "draft"
      PROVE  \A a \in todo' : Out(a)' /\ (answer'[a] = "published" =>
                                            Grounding(a)' \cap Stale(file)' = {})
  <2>1. CASE StartDrafts
    <3>1. /\ stage = "open" /\ todo = {} /\ todo' = Ready
          /\ UNCHANGED <<source, repo, queues>>
      BY <2>1 DEF StartDrafts
    <3>2. Stale(file)' = Stale(file)
      BY <3>1 DEF repo, Stale, There
    <3>3. ASSUME NEW a \in todo'
          PROVE  Out(a)' /\ (answer'[a] = "published" =>
                               Grounding(a)' \cap Stale(file)' = {})
      <4>1. /\ a \in Answers /\ Candidate(a) \in open
            /\ detail[a] \cap Stale(file) = {}
        BY <3>1, <3>3 DEF Ready, Candidate
      <4>2. Out(a) /\ (answer[a] = "published" => Lists(a))
        BY <3>1, <4>1 DEF Propagated
      <4>3. Stale(file) \subseteq Stale(snap)
        BY <3>1 DEF Propagated
      <4> QED BY <3>1, <3>2, <4>1, <4>2, <4>3, GroundsStay DEF Lists, Out, queues
    <3> QED BY <3>3
  <2>2. CASE stage = "draft" /\ todo' \subseteq todo
    <3>1. Stale(file)' \subseteq Stale(file)
      BY <2>2, NoNewMark
    <3> QED BY <2>2, <3>1, AnswersMove, GroundsStay DEF Propagated, Out
  <2> QED BY <1>4, <2>1, <2>2, ListsArise
<1> QED BY <1>1, <1>2, <1>3, <1>4 DEF Propagated

\* A correction of an answer that is out is drafted only where all it rests on
\* has caught up, also where people edit meanwhile (correction.py).
THEOREM CorrectionsAreFresh == Spec => CorrectedFromFresh
<1>1. Spec => [](Sound /\ Propagated)
  BY SoundInit, SoundNext, PropagatedInit, PropagatedNext, PTL DEF Spec
<1>2. ASSUME Sound, Propagated, [Next]_vars
      PROVE  \A a \in draft' \ draft :
               answer[a] = "published" => Grounding(a) \cap Stale(file) = {}
  <2> SUFFICES ASSUME NEW a \in draft' \ draft, answer[a] = "published"
               PROVE  Grounding(a) \cap Stale(file) = {}
    OBVIOUS
  <2>1. CASE UNCHANGED vars
    BY <2>1 DEF vars
  <2>2. CASE Advance
    <3>1. DraftCorrection(a)
      BY <2>2
      DEF Advance, Boot, Fetch, StartIngest, EndSource, EndQna, Record, MoveCursor,
          StartLint, RebuildIndex, EndLint, Propagate, StartDrafts, EndTick, Mark,
          OpenFinding, OpenCandidate, DraftCorrection, queues
    <3> QED BY <1>2, <3>1 DEF DraftCorrection, Propagated
  <2>3. CASE Next /\ ~Advance
    BY <2>3
    DEF Next, SkipIngest, CommitChunk, FailChunk, Stop, FailIngest, FailLint, Crash,
        Edit, EditApart, PeriodPasses, FromSource, FromQna, Apply, CrashOnTicket,
        HumanCommit, Publish, CloseTicket, Abandon, Resolve, PublishCorrection, queues
  <2> QED BY <1>2, <2>1, <2>2, <2>3
<1>3. Sound /\ Propagated /\ [Next]_vars =>
        [\A a \in draft' \ draft :
           answer[a] = "published" => Grounding(a) \cap Stale(file) = {}]_vars
  BY <1>2
<1> QED BY <1>1, <1>3, PTL DEF Spec, CorrectedFromFresh

-----------------------------------------------------------------------------
(* While people edit between the ticks *)

\* Any step but those that write an item and the one that fetches the source.
Elsewhere ==
  /\ UNCHANGED <<file, head, touched>>
  /\ saved' = saved \/ saved' = file

LEMMA StepsApart ==
  ASSUME Sound, [Next]_vars, apart
  PROVE  /\ apart'
         /\ \/ Fetch \/ Elsewhere
            \/ \E i \in Items : \/ Mark(i) \/ EditApart(i)
                                \/ \E ref \in Paths \union {None} :
                                     FromSource(i, ref) \/ FromQna(i, ref)
<1>1. CASE UNCHANGED vars
  BY <1>1 DEF vars, Elsewhere
<1>2. CASE Advance
  BY <1>2
  DEF Advance, Elsewhere, Boot, Fetch, StartIngest, EndSource, EndQna, Record,
      MoveCursor, StartLint, RebuildIndex, EndLint, Propagate, StartDrafts, EndTick,
      Mark, OpenFinding, OpenCandidate, DraftCorrection, Commit, source, repo, people
<1>3. CASE Next /\ ~Advance
  BY <1>3
  DEF Next, Elsewhere, SkipIngest, CommitChunk, FailChunk, Stop, FailIngest, FailLint,
      Crash, Edit, EditApart, PeriodPasses, FromSource, FromQna, CrashOnTicket,
      HumanCommit, Publish, CloseTicket, Abandon, Resolve, PublishCorrection, Commit,
      source, repo, people
<1> QED BY <1>1, <1>2, <1>3

LEMMA ApartNever == [Next]_vars => apart' = apart
<1> SUFFICES ASSUME [Next]_vars PROVE apart' = apart
  OBVIOUS
<1>1. CASE UNCHANGED vars
  BY <1>1 DEF vars
<1>2. CASE Advance
  BY <1>2
  DEF Advance, Boot, Fetch, StartIngest, EndSource, EndQna, Record, MoveCursor,
      StartLint, RebuildIndex, EndLint, Propagate, StartDrafts, EndTick, Mark,
      OpenFinding, OpenCandidate, DraftCorrection, people
<1>3. CASE Next /\ ~Advance
  BY <1>3
  DEF Next, SkipIngest, CommitChunk, FailChunk, Stop, FailIngest, FailLint, Crash,
      Edit, EditApart, PeriodPasses, FromSource, FromQna, CrashOnTicket, HumanCommit,
      Publish, CloseTicket, Abandon, Resolve, PublishCorrection, people
<1> QED BY <1>1, <1>2, <1>3

\* How a stage of the tick comes to be, where nothing is written.
LEMMA StagesElsewhere ==
  ASSUME Sound, [Next]_vars, Elsewhere
  PROVE  /\ stage' \in {"source", "qna", "mark", "report"} =>
              \/ snap' = file
              \/ stage \in {"source", "qna", "mark", "report"} /\ snap' = snap
              \/ \E i \in Items : \/ Mark(i) \/ \E ref \in Paths \union {None} :
                                                  FromSource(i, ref) \/ FromQna(i, ref)
         /\ stage' = "mark" =>
              StartLint \/ (\E i \in Items : Mark(i)) \/ (stage = "mark" /\ todo' = todo)
         /\ stage' = "report" => (stage = "mark" /\ todo = {}) \/ stage = "report"
<1>1. CASE UNCHANGED vars
  BY <1>1 DEF vars
<1>2. CASE Advance
  BY <1>2
  DEF Advance, Boot, Fetch, StartIngest, EndSource, EndQna, Record, MoveCursor,
      StartLint, RebuildIndex, EndLint, Propagate, StartDrafts, EndTick, Mark,
      OpenFinding, OpenCandidate, DraftCorrection, run
<1>3. CASE Next /\ ~Advance
  BY <1>3
  DEF Next, SkipIngest, CommitChunk, FailChunk, Stop, FailIngest, FailLint, Crash,
      Edit, EditApart, PeriodPasses, FromSource, FromQna, CrashOnTicket, HumanCommit,
      Publish, CloseTicket, Abandon, Resolve, PublishCorrection, run, Forget
<1> QED BY <1>1, <1>2, <1>3

LEMMA ThereIs ==
  ASSUME Sound, NEW i \in There(file)
  PROVE  i \in Items /\ file[i] \in KnowledgeItem /\ file[i] # Nothing
BY DEF Sound, TypeOK, Files, There

LEMMA WrittenByHand ==
  ASSUME Sound, NEW i \in Items, file[i].text = "human"
  PROVE  i \in There(file)
BY DEF There, Nothing

\* The code changed after the last commit an item comes from: the path is among
\* those Lint looks at.
LEMMA OutdatedIsLinked ==
  ASSUME Sound, Dated, NEW i \in There(file), file[i].ref # None
  PROVE  Outdated(i) <=> LinkedStale(file[i])
<1> PICK f : f = file[i]
  OBVIOUS
<1>1. /\ f \in KnowledgeItem /\ f # Nothing /\ f.ref \in Paths
      /\ f.provenance \subseteq Commits
      /\ head \in 0 .. MaxCommits
  BY ThereIs DEF Sound, TypeOK, KnowledgeItem
<1>2. CASE f.provenance = {}
  BY <1>2 DEF Outdated, LinkedStale
<1>3. CASE f.provenance # {}
  <2>1. PICK m \in f.provenance : \A d \in f.provenance : m >= d
    BY <1>1, <1>3, KnowledgeAssumption DEF Dated, Commits
  <2> PICK l : l = LastCommit(f)
    OBVIOUS
  <2>2. l \in f.provenance /\ \A d \in f.provenance : l >= d
    BY <2>1 DEF LastCommit, Max
  <2>3. Outdated(i) <=>
          \E c \in Commits : /\ c <= head /\ f.ref \in touched[c]
                             /\ \A d \in f.provenance : d < c
    BY <1>1, <1>3 DEF Outdated
  <2>4. LinkedStale(f) <=> \E c \in (l + 1) .. head : f.ref \in touched[c]
    BY <1>3 DEF LinkedStale, ChangedSince
  <2>5. \A c \in Commits : c <= head /\ (\A d \in f.provenance : d < c)
                             <=> c \in (l + 1) .. head
    BY <1>1, <2>2, KnowledgeAssumption DEF Commits
  <2>6. (l + 1) .. head \subseteq Commits
    BY <1>1, <2>2, KnowledgeAssumption DEF Commits
  <2> QED BY <2>3, <2>4, <2>5, <2>6
<1> QED BY <1>2, <1>3

\* What decides whether an item is outdated.
LEMMA OutdatedSame ==
  ASSUME NEW i, UNCHANGED <<head, touched>>, file[i] # Nothing, file'[i] # Nothing,
         file'[i].ref = file[i].ref, file'[i].provenance = file[i].provenance
  PROVE  Outdated(i)' <=> Outdated(i)
BY DEF Outdated

LEMMA ElsewhereTidy ==
  ASSUME Sound, Kept, [Next]_vars, Elsewhere, apart,
         ~\E i \in Items : \/ Mark(i) \/ \E ref \in Paths \union {None} :
                                           FromSource(i, ref) \/ FromQna(i, ref)
  PROVE  Kept'
<1>1. There(file)' = There(file) /\ \A i \in There(file) : Outdated(i)' <=> Outdated(i)
  BY OutdatedSame DEF Elsewhere, There
<1>2. Flagged'
  BY DEF Kept, Flagged, Elsewhere
<1>3. InStep'
  BY StagesElsewhere DEF Kept, InStep, Elsewhere
<1>4. Dated' /\ MarkedRight'
  BY <1>1 DEF Kept, Dated, MarkedRight, Elsewhere
<1>5. stage' = "mark" => /\ \A i \in todo' : /\ i \in There(file)
                                             /\ file[i].ref # None => Outdated(i)
                         /\ \A i \in There(file) : file[i].ref # None /\ Outdated(i) =>
                              file[i].stale \/ i \in todo'
  <2>1. CASE StartLint
    <3>1. todo' = {i \in There(file) : ~file[i].stale /\ StaleReason(i)}
      BY <2>1 DEF StartLint
    <3>2. \A i \in There(file) : file[i].ref # None =>
            (StaleReason(i) <=> Outdated(i))
      BY OutdatedIsLinked DEF Kept, StaleReason
    <3> QED BY <3>1, <3>2
  <2>2. CASE stage = "mark" /\ todo' = todo
    BY <2>2 DEF Kept, ListRight
  <2> QED BY <2>1, <2>2, StagesElsewhere
<1>6. stage' = "report" =>
        \A i \in There(file) : file[i].ref # None /\ Outdated(i) => file[i].stale
  BY StagesElsewhere DEF Kept, ListRight
<1>7. ListRight'
  <2>1. \A i \in There(file) : file'[i] = file[i]
    BY DEF Elsewhere
  <2>2. stage' = "mark" =>
          \A i \in todo' : /\ i \in There(file)'
                           /\ file'[i].ref # None => Outdated(i)'
    BY <1>1, <1>5, <2>1
  <2>3. stage' \in {"mark", "report"} =>
          \A i \in There(file)' : file'[i].ref # None /\ Outdated(i)' =>
            file'[i].stale \/ (stage' = "mark" /\ i \in todo')
    BY <1>1, <1>5, <1>6, <2>1
  <2> QED BY <2>2, <2>3 DEF ListRight
<1> QED BY <1>2, <1>3, <1>4, <1>7 DEF Kept

LEMMA FetchTidy ==
  ASSUME Sound, Kept, Fetch
  PROVE  Kept'
<1>1. /\ UNCHANGED <<file, saved>> /\ stage' = "ingest" /\ head' \in {head, head + 1}
      /\ \A c \in Commits : c <= head => touched'[c] = touched[c]
  <2>1. UNCHANGED <<file, saved>> /\ stage' = "ingest"
    BY DEF Fetch, repo
  <2>2. \/ UNCHANGED <<head, touched>>
        \/ /\ head' = head + 1
           /\ \E ps : touched' = [touched EXCEPT ![head + 1] = ps]
    BY DEF Fetch
  <2>3. head \in Nat /\ DOMAIN touched = Commits
    BY KnowledgeAssumption DEF Sound, TypeOK
  <2>4. \A c \in Commits : c <= head => c # head + 1
    BY <2>3, KnowledgeAssumption DEF Commits
  <2> QED BY <2>1, <2>2, <2>3, <2>4
<1>2. There(file)' = There(file) /\ head \in Nat
  BY <1>1, KnowledgeAssumption DEF There, Sound, TypeOK
<1>3. \A i \in There(file) : Outdated(i) => Outdated(i)'
  <2> SUFFICES ASSUME NEW i \in There(file), Outdated(i) PROVE Outdated(i)'
    OBVIOUS
  <2>1. PICK c \in Commits : /\ c <= head /\ file[i].ref \in touched[c]
                             /\ \A d \in file[i].provenance : d < c
    BY DEF Outdated
  <2>2. c <= head'
    BY <1>1, <1>2, <2>1, KnowledgeAssumption DEF Commits
  <2> QED BY <1>1, <2>1, <2>2 DEF Outdated
<1>4. Dated'
  <2> SUFFICES ASSUME NEW i \in There(file), file[i].provenance # {}
               PROVE  \E m \in file[i].provenance :
                        m <= head' /\ \A d \in file[i].provenance : d <= m
    BY <1>1, <1>2 DEF Dated
  <2>1. PICK m \in file[i].provenance :
               m <= head /\ \A d \in file[i].provenance : d <= m
    BY DEF Kept, Dated
  <2>2. m \in Nat
    BY <2>1, ThereIs, KnowledgeAssumption DEF KnowledgeItem, Commits
  <2> QED BY <1>1, <1>2, <2>1, <2>2
<1> QED
  BY <1>1, <1>2, <1>3, <1>4
  DEF Kept, Flagged, InStep, MarkedRight, ListRight

\* One item is written: nothing else changes in the working tree.
LEMMA OneWritten ==
  ASSUME Sound, NEW i \in Items, NEW g \in KnowledgeItem,
         file' = [file EXCEPT ![i] = g], UNCHANGED <<head, touched>>
  PROVE  /\ There(file)' = There(file) \union {i}
         /\ file'[i] = g /\ \A j \in Items \ {i} : file'[j] = file[j]
         /\ \A j \in There(file)' \ {i} :
              j \in There(file) /\ file'[j] = file[j] /\ (Outdated(j)' <=> Outdated(j))
<1>1. file'[i] = g /\ \A j \in Items \ {i} : file'[j] = file[j]
  BY DEF Sound, TypeOK, Files
<1>2. There(file)' = There(file) \union {i}
  BY <1>1, NothingIsNoItem DEF There
<1>3. \A j \in There(file)' \ {i} : j \in There(file) /\ file'[j] = file[j]
  BY <1>1 DEF There
<1> QED BY <1>1, <1>2, <1>3, OutdatedSame DEF There

\* Ingest writes an item that no person has changed.
LEMMA ApplyTidy ==
  ASSUME Sound, Kept, NEW i \in Items, NEW ref \in Paths \union {None},
         FromSource(i, ref) \/ FromQna(i, ref)
  PROVE  /\ Kept'
         /\ \A j \in Items : saved[j].text = "human" =>
              file'[j].text = "human" /\ saved'[j].text = "human"
<1>1. PICK commits \in SUBSET Commits :
        /\ commits = {head} \/ commits = {}
        /\ Apply(i, commits, ref)
        /\ stage \in {"source", "qna"}
        /\ UNCHANGED <<source, saved, overdue, index, stage, todo, clean, people, faults>>
  <2>1. FromSource(i, ref) => {head} \in SUBSET Commits
    BY KnowledgeAssumption DEF FromSource, Sound, TypeOK, HasRead, Commits
  <2> QED BY <2>1 DEF FromSource, FromQna
<1>2. snap = file
  BY <1>1 DEF Kept, InStep
<1>3. CASE HeldForHuman(i)
  <2>1. UNCHANGED <<file, snap, head, touched, stage, todo, saved>>
    BY <1>1, <1>3 DEF Apply, source
  <2>2. There(file)' = There(file) /\ \A j \in There(file) : Outdated(j)' <=> Outdated(j)
    BY <2>1, OutdatedSame DEF There
  <2>3. Kept'
    BY <1>1, <2>1, <2>2
    DEF Kept, Flagged, InStep, Dated, MarkedRight, ListRight
  <2> QED BY <2>1, <2>3 DEF Kept, Flagged
<1>4. CASE ~HeldForHuman(i)
  <2> PICK g : g = ToItem(i, commits, ref)
    OBVIOUS
  <2>1. /\ file' = [file EXCEPT ![i] = g] /\ snap' = [snap EXCEPT ![i] = g]
        /\ UNCHANGED <<head, touched, stage, saved>>
    BY <1>1, <1>4 DEF Apply, source
  <2>2. g \in KnowledgeItem
    BY WrittenItem DEF Sound
  <2>3. /\ g.text = "agent" /\ ~g.stale
        /\ g.provenance = commits \union
             (IF file[i] = Nothing THEN {} ELSE file[i].provenance)
    BY <1>2 DEF ToItem, Base
  <2>4. /\ There(file)' = There(file) \union {i}
        /\ file'[i] = g /\ \A j \in Items \ {i} : file'[j] = file[j]
        /\ \A j \in There(file)' \ {i} :
             j \in There(file) /\ file'[j] = file[j] /\ (Outdated(j)' <=> Outdated(j))
    BY <2>1, <2>2, OneWritten
  <2>5. file[i].text # "human" /\ saved[i].text # "human"
    BY <1>2, <1>4, WrittenByHand DEF HeldForHuman, Base, Kept, Flagged, There
  <2>6. Flagged'
    BY <2>1, <2>3, <2>4, <2>5 DEF Kept, Flagged
  <2>7. InStep'
    BY <1>2, <2>1 DEF InStep
  <2>8. g.provenance # {} =>
          \E m \in g.provenance : m <= head /\ \A d \in g.provenance : d <= m
    <3>1. head \in Nat /\ (file[i] # Nothing => file[i].provenance \subseteq Nat)
      BY ThereIs, KnowledgeAssumption
      DEF Sound, TypeOK, There, KnowledgeItem, Commits
    <3>2. CASE file[i] = Nothing \/ file[i].provenance = {}
      BY <1>1, <2>3, <3>1, <3>2
    <3>3. CASE file[i] # Nothing /\ file[i].provenance # {}
      <4>1. PICK m \in file[i].provenance :
                   m <= head /\ \A d \in file[i].provenance : d <= m
        BY <3>3 DEF Kept, Dated, There
      <4>2. CASE commits = {head}
        <5>1. head \in g.provenance /\ \A d \in g.provenance : d <= head
          BY <2>3, <3>1, <3>3, <4>1, <4>2
        <5> QED BY <3>1, <5>1
      <4>3. CASE commits = {}
        BY <2>3, <3>3, <4>1, <4>3
      <4> QED BY <1>1, <4>2, <4>3
    <3> QED BY <3>2, <3>3
  <2>9. Dated' /\ MarkedRight'
    BY ZenonT(40), <2>1, <2>3, <2>4, <2>8 DEF Kept, Dated, MarkedRight
  <2>10. ListRight'
    BY <1>1, <2>1 DEF ListRight
  <2> QED BY <2>1, <2>4, <2>5, <2>6, <2>7, <2>9, <2>10 DEF Kept, Flagged
<1> QED BY <1>3, <1>4

LEMMA MarkTidy ==
  ASSUME Sound, Kept, NEW i \in Items, Mark(i)
  PROVE  /\ Kept'
         /\ \A j \in Items : saved[j].text = "human" =>
              file'[j].text = "human" /\ saved'[j].text = "human"
<1> PICK g : g = [snap[i] EXCEPT !.stale = TRUE]
  OBVIOUS
<1>1. /\ stage = "mark" /\ i \in todo /\ todo' = todo \ {i}
      /\ file' = [file EXCEPT ![i] = g] /\ snap' = [snap EXCEPT ![i] = g]
      /\ UNCHANGED <<head, touched, saved, stage>>
  BY DEF Mark, source
<1>2. snap = file /\ i \in There(file)
  BY <1>1 DEF Kept, InStep, ListRight
<1>3. /\ g \in KnowledgeItem /\ g.stale /\ g.text = file[i].text
      /\ g.ref = file[i].ref /\ g.provenance = file[i].provenance
      /\ g.edited_by_human = file[i].edited_by_human
  BY <1>2, ThereIs, MarkedItem
<1>4. /\ There(file)' = There(file) \union {i}
      /\ file'[i] = g /\ \A j \in Items \ {i} : file'[j] = file[j]
      /\ \A j \in There(file)' \ {i} :
           j \in There(file) /\ file'[j] = file[j] /\ (Outdated(j)' <=> Outdated(j))
  BY <1>1, <1>3, OneWritten
<1>5. Outdated(i)' <=> Outdated(i)
  BY <1>1, <1>2, <1>3, <1>4, NothingIsNoItem, ThereIs, OutdatedSame
<1>6. Flagged'
  BY <1>1, <1>3, <1>4 DEF Kept, Flagged
<1>7. InStep' /\ Dated'
  <2>1. InStep'
    BY <1>1, <1>2 DEF InStep
  <2>2. Dated'
    <3> SUFFICES ASSUME NEW j \in There(file)', file'[j].provenance # {}
                 PROVE  \E m \in file'[j].provenance :
                          m <= head /\ \A d \in file'[j].provenance : d <= m
      BY <1>1 DEF Dated
    <3>1. j \in There(file) /\ file'[j].provenance = file[j].provenance
      BY <1>2, <1>3, <1>4
    <3> QED BY <3>1 DEF Kept, Dated
  <2> QED BY <2>1, <2>2
<1>8. MarkedRight'
  <2> SUFFICES ASSUME NEW j \in There(file)', file'[j].ref # None, file'[j].stale
               PROVE  Outdated(j)' \/ file'[j].edited_by_human
    BY DEF MarkedRight
  <2>1. CASE j = i
    BY <1>1, <1>2, <1>3, <1>4, <1>5, <2>1 DEF Kept, ListRight
  <2>2. CASE j # i
    BY <1>4, <2>2 DEF Kept, MarkedRight
  <2> QED BY <2>1, <2>2
<1>9. ListRight'
  <2>1. ASSUME NEW j \in todo'
        PROVE  j \in There(file)' /\ (file'[j].ref # None => Outdated(j)')
    <3>1. j \in todo \ {i}
      BY <1>1, <2>1
    <3>2. j \in There(file) /\ (file[j].ref # None => Outdated(j))
      BY <1>1, <3>1 DEF Kept, ListRight
    <3> QED BY <1>4, <3>1, <3>2
  <2>2. ASSUME NEW j \in There(file)', file'[j].ref # None, Outdated(j)'
        PROVE  file'[j].stale \/ j \in todo'
    <3>1. CASE j = i
      BY <1>3, <1>4, <3>1
    <3>2. CASE j # i
      <4>1. file[j].stale \/ j \in todo
        BY <1>1, <1>4, <2>2, <3>2 DEF Kept, ListRight
      <4> QED BY <1>1, <1>4, <2>2, <3>2, <4>1
    <3> QED BY <3>1, <3>2
  <2> QED BY <1>1, <2>1, <2>2 DEF ListRight
<1> QED BY <1>1, <1>3, <1>4, <1>6, <1>7, <1>8, <1>9 DEF Kept, Flagged

LEMMA EditTidy ==
  ASSUME Sound, Kept, NEW i \in Items, EditApart(i)
  PROVE  /\ Kept'
         /\ \A j \in Items : saved[j].text = "human" =>
              file'[j].text = "human" /\ saved'[j].text = "human"
<1>1. PICK f \in Edited(i) : /\ f.edited_by_human
                             /\ file' = [file EXCEPT ![i] = f]
                             /\ saved' = [saved EXCEPT ![i] = f]
  BY DEF EditApart, VerifyEdit
<1>2. stage' = "rest" /\ UNCHANGED <<head, touched>>
  BY DEF EditApart, source
<1>3. f \in KnowledgeItem /\ f.text = "human"
  BY EditedItem DEF Sound
<1>4. f.provenance = IF file[i] = Nothing THEN {} ELSE file[i].provenance
  <2>1. PICK flag, ref : f = Retouched(i, flag, ref)
    BY DEF Edited
  <2>2. CASE file[i] = Nothing
    BY <2>1, <2>2 DEF Retouched
  <2>3. CASE file[i] # Nothing
    BY <2>1, <2>3 DEF Retouched
  <2> QED BY <2>2, <2>3
<1>5. /\ There(file)' = There(file) \union {i}
      /\ file'[i] = f /\ \A j \in Items \ {i} : file'[j] = file[j]
      /\ \A j \in There(file)' \ {i} :
           j \in There(file) /\ file'[j] = file[j] /\ (Outdated(j)' <=> Outdated(j))
  BY <1>1, <1>2, <1>3, OneWritten
<1>6. saved'[i] = f /\ \A j \in Items \ {i} : saved'[j] = saved[j]
  BY <1>1 DEF Sound, TypeOK, Files
<1>7. Flagged'
  BY <1>1, <1>3, <1>5, <1>6 DEF Kept, Flagged
<1>8. Dated'
  <2>1. f.provenance # {} => i \in There(file) /\ f.provenance = file[i].provenance
    BY <1>4 DEF There
  <2> QED BY <1>2, <1>5, <2>1 DEF Kept, Dated
<1>9. MarkedRight' /\ InStep' /\ ListRight'
  BY <1>1, <1>2, <1>5 DEF Kept, MarkedRight, InStep, ListRight
<1> QED BY <1>3, <1>5, <1>6, <1>7, <1>8, <1>9 DEF Kept, Flagged

\* What people committed stays in the tree and in the repository.
LEMMA ApartKept ==
  ASSUME Sound, Tidy, [Next]_vars, apart
  PROVE  /\ apart' /\ Kept'
         /\ \A j \in Items : saved[j].text = "human" =>
              file'[j].text = "human" /\ saved'[j].text = "human"
<1>1. Kept
  BY DEF Tidy
<1>2. CASE \E i \in Items : \/ Mark(i) \/ EditApart(i)
                            \/ \E ref \in Paths \union {None} :
                                 FromSource(i, ref) \/ FromQna(i, ref)
  BY <1>1, <1>2, StepsApart, MarkTidy, EditTidy, ApplyTidy
<1>3. CASE Fetch
  <2>1. UNCHANGED <<file, saved>>
    BY <1>3 DEF Fetch, repo
  <2> QED BY <1>1, <1>3, <2>1, StepsApart, FetchTidy DEF Kept, Flagged
<1>4. CASE Elsewhere /\ ~(\E i \in Items : \/ Mark(i) \/ \E ref \in Paths \union {None} :
                                             FromSource(i, ref) \/ FromQna(i, ref))
  BY <1>1, <1>4, StepsApart, ElsewhereTidy DEF Kept, Flagged, Elsewhere
<1> QED BY <1>2, <1>3, <1>4, StepsApart

LEMMA TidyInit == Init => Tidy
<1> SUFFICES ASSUME Init PROVE Kept
  BY DEF Tidy
<1>1. There(file) = {} /\ \A i \in Items : file[i].text = "none" /\ saved[i].text = "none"
  BY DEF Init, Empty, There, Nothing
<1> QED BY <1>1
  DEF Init, Kept, Flagged, InStep, Dated, MarkedRight, ListRight

LEMMA TidyNext == Sound /\ Tidy /\ [Next]_vars => Tidy'
<1> SUFFICES ASSUME Sound, Tidy, [Next]_vars, apart' PROVE Kept'
  BY DEF Tidy
<1>1. apart
  BY ApartNever
<1> QED BY <1>1, ApartKept

LEMMA TidyAlways == Spec => [](Sound /\ Tidy)
BY SoundInit, SoundNext, TidyInit, TidyNext, PTL DEF Spec

\* Where people edit between the ticks, Lint leaves marked what the code has left
\* behind and nothing else, whatever was written from whichever commits before
\* (lint.py _stale_reason, last_commit).
THEOREM LintMarksRightly == Spec => []MarksAreRight
<1>1. Sound /\ Tidy => MarksAreRight
  <2> SUFFICES ASSUME Sound, Tidy, apart, stage = "report",
                      NEW i \in There(file), file[i].ref # None
               PROVE  /\ Outdated(i) => file[i].stale
                      /\ file[i].stale => Outdated(i) \/ file[i].edited_by_human
    BY DEF MarksAreRight
  <2> QED BY DEF Tidy, Kept, MarkedRight, ListRight
<1> QED BY <1>1, TidyAlways, PTL

\* What a person has committed between two ticks is there after each later step,
\* in the working tree and in the repository (ingest/run.py, lint.py, verify_edit).
THEOREM EditsAreKept == Spec => CommittedEditIsKept
<1>1. ASSUME Sound, Tidy, [Next]_vars
      PROVE  apart => \A i \in Items :
               (saved[i] # Nothing /\ saved[i].text = "human")
                  => file'[i].text = "human" /\ saved'[i].text = "human"
  BY <1>1, ApartKept
<1>2. Sound /\ Tidy /\ [Next]_vars =>
        [apart => \A i \in Items :
           (saved[i] # Nothing /\ saved[i].text = "human")
              => file'[i].text = "human" /\ saved'[i].text = "human"]_vars
  BY <1>1
<1> QED BY <1>2, TidyAlways, PTL DEF Spec, CommittedEditIsKept

=============================================================================
