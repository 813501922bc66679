------------------------- MODULE QnaTrackingProofs -------------------------
(***************************************************************************)
(* For any number of questions and any thread: grades fit states, the      *)
(* timeout closes only what waits for nothing, and while nothing fails an  *)
(* admitted question nobody has answered is in some queue.                 *)
(***************************************************************************)
EXTENDS QnaTracking, SequenceTheorems, TLAPS

Busy == {"process", "route", "ticket", "mark"}

\* Nobody but people has said anything.
Bare(q) == \A i \in 1..Len(words[q]) :
             words[q][i] \in {"ask", "followup", "person"}

\* Types, with the one TypeOK leaves to the bound of each place.
Types == TypeOK /\ old \in [Questions -> Nat]

\* Notices and collected words are places of the thread.
Places == \A q \in Questions : /\ notice[q] <= Len(words[q])
                               /\ raw[q].seen <= Len(words[q])

\* Only an answer that is out is corrected.
Corrections ==
  \A q \in Questions :
    \/ "correction" \in pending[q]
    \/ judged[q] # NoJudgement /\ judged[q].kind = "correction"
    => AnswerIsOut(q)

\* The bot has not touched a question that is not admitted.
NewIsUntouched ==
  \A q \in Questions : item[q].state = "none" =>
    /\ Bare(q) /\ item[q].grade = "none"
    /\ pending[q] = {} /\ judged[q] = NoJudgement

\* While intake works its list off, the questions on it are not admitted.
Admitting ==
  pc = "intake" \/ (pc \in Busy /\ doing.back = "intake") =>
    \A q \in todo : item[q].state = "none"

\* The worker has a question in hand exactly while it processes it.
InHand ==
  IF pc \in Busy
  THEN /\ doing.q \in Questions /\ item[doing.q].state # "none"
       /\ doing.back \in {"intake", "rerun"}
  ELSE doing = Nobody

\* No draft waits for a question on the settlement's list.
Listed == pc = "settle" => \A q \in todo : pending[q] = {}

IndInv ==
  /\ Types
  /\ Places
  /\ Corrections
  /\ NewIsUntouched
  /\ Admitting
  /\ InHand
  /\ Listed
  /\ GradeFitsState

\* Somebody has answered, or the question is in a queue of the operators.
InQueue(q) ==
  \/ Answered(q)
  \/ pending[q] # {} \/ judged[q] # NoJudgement
  \/ ticket[q].open

\* From the draft to the ticket the question in hand is in a queue, or the
\* ticket about to be issued is open.
Cared ==
  /\ pc \in {"route", "mark"} => InQueue(doing.q)
  /\ pc = "ticket" => doing.open \/ InQueue(doing.q)

\* Every other question is in a queue, or closed, or not admitted.
Excused ==
  \A q \in Questions :
    \/ item[q].state \in Terminal \union {"none"}
    \/ InQueue(q)
    \/ pc \in Busy /\ doing.q = q

JobInv == IndInv /\ Cared /\ Excused

-----------------------------------------------------------------------------
(* What the threads keep *)

\* No step shortens a thread or takes an answer back.
WordsGrow ==
  \A q \in Questions :
    /\ Len(words[q]) \in Nat /\ Len(words'[q]) \in Nat
    /\ Len(words[q]) <= Len(words'[q])
    /\ Answered(q) => Answered(q)'
    /\ AnswerIsOut(q) => AnswerIsOut(q)'

\* The same threads.
LEMMA SameWords ==
  ASSUME Types, UNCHANGED words
  PROVE  WordsGrow /\ \A q \in Questions : Bare(q)' = Bare(q)
<1>1. \A q \in Questions : words[q] \in Seq(Word)
  BY DEF Types, TypeOK
<1>2. \A q \in Questions : Len(words[q]) \in Nat
  BY <1>1, LenProperties
<1> QED BY <1>2 DEF WordsGrow, Answered, AnswerIsOut, Bare

\* One thread changed, keeping its length at least, and its answers.
LEMMA ThreadGrows ==
  ASSUME Types, NEW q \in Questions, NEW s \in Seq(Word),
         words' = [words EXCEPT ![q] = s],
         Len(words[q]) <= Len(s),
         \A i \in 1..Len(words[q]) : s[i] = words[q][i] \/ s[i] = "filled"
  PROVE  /\ words' \in [Questions -> Seq(Word)]
         /\ words'[q] = s
         /\ \A k \in Questions \ {q} :
              words'[k] = words[k] /\ Bare(k)' = Bare(k)
         /\ WordsGrow
<1>1. /\ words \in [Questions -> Seq(Word)]
      /\ words' \in [Questions -> Seq(Word)] /\ words'[q] = s
      /\ \A k \in Questions \ {q} : words'[k] = words[k]
  BY DEF Types, TypeOK
<1>2. \A k \in Questions : Len(words[k]) \in Nat /\ Len(words'[k]) \in Nat
  BY <1>1, LenProperties
<1>3. ASSUME NEW k \in Questions \ {q}
      PROVE  /\ Bare(k)' = Bare(k)
             /\ Answered(k)' = Answered(k) /\ AnswerIsOut(k)' = AnswerIsOut(k)
  BY <1>1 DEF Bare, Answered, AnswerIsOut
<1>4. \A i \in 1..Len(words[q]) : i \in 1..Len(s)
  BY <1>1, <1>2
<1>5. Answered(q) => Answered(q)'
  BY <1>1, <1>4 DEF Answered
<1>6. AnswerIsOut(q) => AnswerIsOut(q)'
  BY <1>1, <1>4 DEF AnswerIsOut
<1>7. WordsGrow
  BY <1>1, <1>2, <1>3, <1>5, <1>6 DEF WordsGrow
<1> QED BY <1>1, <1>3, <1>7

\* A word is said.
LEMMA SayGrows ==
  ASSUME Types, NEW q \in Questions, NEW w \in Word, Say(q, w)
  PROVE  /\ words' \in [Questions -> Seq(Word)]
         /\ Len(words'[q]) = Len(words[q]) + 1
         /\ \A k \in Questions \ {q} :
              words'[k] = words[k] /\ Bare(k)' = Bare(k)
         /\ w \in {"ask", "followup", "person"} /\ Bare(q) => Bare(q)'
         /\ w \in {"person", "answer", "filled"} => Answered(q)'
         /\ w \in {"answer", "filled"} => AnswerIsOut(q)'
         /\ WordsGrow
<1> DEFINE s == Append(words[q], w)
<1>1. words[q] \in Seq(Word) /\ Len(words[q]) \in Nat
  BY LenProperties DEF Types, TypeOK
<1>2. /\ s \in Seq(Word) /\ Len(s) = Len(words[q]) + 1
      /\ \A i \in 1..Len(words[q]) : s[i] = words[q][i]
      /\ s[Len(words[q]) + 1] = w
  BY <1>1, AppendProperties
<1>3. words' = [words EXCEPT ![q] = s]
  BY DEF Say
<1> HIDE DEF s
<1>a. /\ Len(words[q]) <= Len(s)
      /\ \A i \in 1..Len(words[q]) : s[i] = words[q][i] \/ s[i] = "filled"
  BY <1>1, <1>2
<1>4. /\ words' \in [Questions -> Seq(Word)] /\ words'[q] = s
      /\ \A k \in Questions \ {q} :
           words'[k] = words[k] /\ Bare(k)' = Bare(k)
      /\ WordsGrow
  BY <1>2, <1>3, <1>a, ThreadGrows
<1>5. Len(s) \in 1..Len(s)
  BY <1>1, <1>2
<1>6. w \in {"ask", "followup", "person"} /\ Bare(q) => Bare(q)'
  <2>1. \A i \in 1..Len(s) : i \in 1..Len(words[q]) \/ i = Len(words[q]) + 1
    BY <1>1, <1>2
  <2> QED BY <1>2, <1>4, <2>1 DEF Bare
<1> QED BY <1>2, <1>4, <1>5, <1>6 DEF Answered, AnswerIsOut

\* The rows of items.
LEMMA ItemSet ==
  ASSUME Types, NEW q \in Questions, NEW s \in State,
         item' = [item EXCEPT ![q].state = s]
  PROVE  /\ item' \in [Questions -> [state : State, grade : Grade]]
         /\ item'[q].state = s /\ item'[q].grade = item[q].grade
         /\ \A k \in Questions \ {q} : item'[k] = item[k]
<1> DEFINE row == [item[q] EXCEPT !.state = s]
<1>1. /\ item \in [Questions -> [state : State, grade : Grade]]
      /\ item[q] \in [state : State, grade : Grade]
  BY DEF Types, TypeOK
<1>2. /\ row \in [state : State, grade : Grade]
      /\ row.state = s /\ row.grade = item[q].grade
  BY <1>1
<1>3. item' = [item EXCEPT ![q] = row]
  BY <1>1
<1> HIDE DEF row
<1> QED BY <1>1, <1>2, <1>3

\* A draft goes out: the question is answered, unless it is a correction.
LEMMA DeliverGrows ==
  ASSUME Types, Places, NEW q \in Questions, NEW kind \in Kind,
         Deliver(q, kind)
  PROVE  /\ words' \in [Questions -> Seq(Word)]
         /\ notice' \in [Questions -> Nat \union {-1}]
         /\ fresh' \in [Questions -> BOOLEAN]
         /\ item' \in [Questions -> [state : State, grade : Grade]]
         /\ item'[q].state = "published" /\ item'[q].grade = item[q].grade
         /\ \A k \in Questions \ {q} :
              item'[k] = item[k] /\ words'[k] = words[k] /\ Bare(k)' = Bare(k)
         /\ \A k \in Questions : notice'[k] <= notice[k]
         /\ kind = "answer" => Answered(q)'
         /\ WordsGrow
<1>1. /\ words[q] \in Seq(Word) /\ Len(words[q]) \in Nat
      /\ notice \in [Questions -> Nat \union {-1}]
      /\ fresh \in [Questions -> BOOLEAN]
  BY LenProperties DEF Types, TypeOK
<1>2. /\ notice' \in [Questions -> Nat \union {-1}]
      /\ \A k \in Questions : notice'[k] <= notice[k]
      /\ fresh' \in [Questions -> BOOLEAN]
  BY <1>1 DEF Deliver
<1>3. /\ item' \in [Questions -> [state : State, grade : Grade]]
      /\ item'[q].state = "published" /\ item'[q].grade = item[q].grade
      /\ \A k \in Questions \ {q} : item'[k] = item[k]
  <2>1. "published" \in State
    BY DEF State
  <2> QED BY <2>1, ItemSet DEF Deliver
<1>4. /\ words' \in [Questions -> Seq(Word)]
      /\ \A k \in Questions \ {q} :
           words'[k] = words[k] /\ Bare(k)' = Bare(k)
      /\ kind = "answer" => Answered(q)'
      /\ WordsGrow
  <2>1. CASE kind = "correction"
    BY <2>1, SameWords DEF Deliver, Types, TypeOK
  <2>2. CASE kind # "correction" /\ notice[q] > 0
    <3> DEFINE s == [words[q] EXCEPT ![notice[q]] = "filled"]
    <3>1. notice[q] \in 1..Len(words[q])
      BY <1>1, <2>2 DEF Places
    <3>2. "filled" \in Word
      BY DEF Word
    <3>3. /\ s \in Seq(Word) /\ Len(s) = Len(words[q])
          /\ \A i \in 1..Len(words[q]) :
               s[i] = IF i = notice[q] THEN "filled" ELSE words[q][i]
      BY <1>1, <3>1, <3>2, ExceptSeq
    <3>4. words' = [words EXCEPT ![q] = s]
      BY <2>2 DEF Deliver
    <3> HIDE DEF s
    <3>a. /\ Len(words[q]) <= Len(s)
          /\ \A i \in 1..Len(words[q]) : s[i] = words[q][i] \/ s[i] = "filled"
      BY <1>1, <3>3
    <3>5. /\ words' \in [Questions -> Seq(Word)] /\ words'[q] = s
          /\ \A k \in Questions \ {q} :
               words'[k] = words[k] /\ Bare(k)' = Bare(k)
          /\ WordsGrow
      BY <3>3, <3>4, <3>a, ThreadGrows
    <3>6. Answered(q)'
      BY <3>1, <3>3, <3>5 DEF Answered
    <3> QED BY <3>5, <3>6
  <2>3. CASE kind # "correction" /\ ~(notice[q] > 0)
    <3>1. Say(q, "answer")
      BY <2>3 DEF Deliver, Say
    <3>2. "answer" \in Word
      BY DEF Word
    <3> QED BY <3>1, <3>2, SayGrows
  <2> QED BY <2>1, <2>2, <2>3
<1> QED BY <1>2, <1>3, <1>4

\* Places of a thread stay places of it.
LEMMA PlacesStay ==
  ASSUME Types, Places, WordsGrow
  PROVE  \A q \in Questions :
           /\ old[q] \in 0..Len(words'[q])
           /\ raw[q].seen <= Len(words'[q])
           /\ notice[q] <= Len(words'[q])
           /\ \A n \in Nat \union {-1} : n <= notice[q] => n <= Len(words'[q])
<1> SUFFICES ASSUME NEW q \in Questions
             PROVE  /\ old[q] \in 0..Len(words'[q])
                    /\ raw[q].seen <= Len(words'[q])
                    /\ notice[q] <= Len(words'[q])
                    /\ \A n \in Nat \union {-1} :
                         n <= notice[q] => n <= Len(words'[q])
  OBVIOUS
<1>1. /\ Len(words[q]) \in Nat /\ Len(words'[q]) \in Nat
      /\ Len(words[q]) <= Len(words'[q])
  BY DEF WordsGrow
<1>2. /\ old[q] \in 0..Len(words[q])
      /\ raw[q].seen \in Nat /\ raw[q].seen <= Len(words[q])
      /\ notice[q] \in Nat \union {-1} /\ notice[q] <= Len(words[q])
  BY DEF Types, TypeOK, Places
<1> QED BY SMTT(30), <1>1, <1>2

\* Admission: the question is in hand from here on.
LEMMA AdmitStep ==
  ASSUME IndInv, NEW q \in Questions, Admit(q)
  PROVE  IndInv'
<1>1. UNCHANGED words
  BY DEF Admit, parent
<1>2. WordsGrow /\ \A k \in Questions : Bare(k)' = Bare(k)
  BY <1>1, SameWords DEF IndInv
<1>a. /\ item' \in [Questions -> [state : State, grade : Grade]]
      /\ item'[q].state = "received" /\ item'[q].grade = item[q].grade
      /\ \A k \in Questions \ {q} : item'[k] = item[k]
  <2>1. "received" \in State /\ q \in Questions
    BY DEF Admit, State, IndInv, InHand, Busy
  <2> QED BY <2>1, ItemSet DEF Admit, IndInv
<1>3. Types'
  BY <1>1, <1>a DEF Admit, parent, worker, IndInv, Types, TypeOK, InHand,
     State,
     Grade, PC, Kind, Nobody, NoJudgement, Terminal, Busy
<1>4. /\ Places' /\ Corrections' /\ NewIsUntouched' /\ Admitting' /\ InHand'
      /\ Listed' /\ GradeFitsState'
  BY <1>1, <1>2, <1>a DEF Admit, parent, worker, IndInv, Types, TypeOK, Places,
     Corrections, NewIsUntouched, Admitting, InHand, Listed, GradeFitsState,
     Busy, Nobody, NoJudgement, WordsGrow
<1> QED BY <1>3, <1>4 DEF IndInv

\* A rerun takes the question in hand.
LEMMA RerunStep ==
  ASSUME IndInv, NEW q \in Questions, Rerun(q)
  PROVE  IndInv'
<1>1. UNCHANGED words
  BY DEF Rerun, parent
<1>2. WordsGrow /\ \A k \in Questions : Bare(k)' = Bare(k)
  BY <1>1, SameWords DEF IndInv
<1>a. /\ item' \in [Questions -> [state : State, grade : Grade]]
      /\ item'[q].state = "followup" /\ item'[q].grade = item[q].grade
      /\ \A k \in Questions \ {q} : item'[k] = item[k]
  <2>1. "followup" \in State /\ q \in Questions
    BY DEF Rerun, State, IndInv, InHand, Busy
  <2> QED BY <2>1, ItemSet DEF Rerun, IndInv
<1>3. Types'
  BY <1>1, <1>a DEF Rerun, parent, worker, IndInv, Types, TypeOK, InHand,
     State,
     Grade, PC, Kind, Nobody, NoJudgement, Terminal, Busy
<1>4. /\ Places' /\ Corrections' /\ NewIsUntouched' /\ Admitting' /\ InHand'
      /\ Listed' /\ GradeFitsState'
  BY <1>1, <1>2, <1>a DEF Rerun, parent, worker, IndInv, Types, TypeOK, Places,
     Corrections, NewIsUntouched, Admitting, InHand, Listed, GradeFitsState,
     Busy, Nobody, NoJudgement, WordsGrow
<1> QED BY <1>3, <1>4 DEF IndInv

\* No draft: the ticket will be open.
LEMMA ProcessHaltsStep ==
  ASSUME IndInv, ProcessHalts
  PROVE  IndInv'
<1>1. UNCHANGED words
  BY DEF ProcessHalts, parent
<1>2. WordsGrow /\ \A k \in Questions : Bare(k)' = Bare(k)
  BY <1>1, SameWords DEF IndInv
<1>3. Types'
  BY <1>1 DEF ProcessHalts, parent, worker, IndInv, Types, TypeOK, InHand,
     State,
     Grade, PC, Kind, Nobody, NoJudgement, Terminal, Busy
<1>4. /\ Places' /\ Corrections' /\ NewIsUntouched' /\ Admitting' /\ InHand'
      /\ Listed' /\ GradeFitsState'
  BY <1>1, <1>2 DEF ProcessHalts, parent, worker, IndInv, Types, TypeOK,
     Places,
     Corrections, NewIsUntouched, Admitting, InHand, Listed, GradeFitsState,
     Busy, Nobody, NoJudgement, WordsGrow
<1> QED BY <1>3, <1>4 DEF IndInv

\* The draft waits from here on.
LEMMA ProcessDraftsStep ==
  ASSUME IndInv, ProcessDrafts
  PROVE  IndInv'
<1>1. UNCHANGED words
  BY DEF ProcessDrafts, parent
<1>2. WordsGrow /\ \A k \in Questions : Bare(k)' = Bare(k)
  BY <1>1, SameWords DEF IndInv
<1>3. Types'
  BY <1>1 DEF ProcessDrafts, parent, worker, IndInv, Types, TypeOK, InHand,
     State,
     Grade, PC, Kind, Nobody, NoJudgement, Terminal, Busy
<1>4. /\ Places' /\ Corrections' /\ NewIsUntouched' /\ Admitting' /\ InHand'
      /\ Listed' /\ GradeFitsState'
  BY <1>1, <1>2 DEF ProcessDrafts, parent, worker, IndInv, Types, TypeOK,
     Places,
     Corrections, NewIsUntouched, Admitting, InHand, Listed, GradeFitsState,
     Busy, Nobody, NoJudgement, WordsGrow
<1> QED BY <1>3, <1>4 DEF IndInv

\* No exit for the draft: it waits.
LEMMA RouteNowhereStep ==
  ASSUME IndInv, RouteNowhere
  PROVE  IndInv'
<1>1. UNCHANGED words
  BY DEF RouteNowhere, parent
<1>2. WordsGrow /\ \A k \in Questions : Bare(k)' = Bare(k)
  BY <1>1, SameWords DEF IndInv
<1>3. Types'
  BY <1>1 DEF RouteNowhere, parent, worker, IndInv, Types, TypeOK, InHand,
     State,
     Grade, PC, Kind, Nobody, NoJudgement, Terminal, Busy
<1>4. /\ Places' /\ Corrections' /\ NewIsUntouched' /\ Admitting' /\ InHand'
      /\ Listed' /\ GradeFitsState'
  BY <1>1, <1>2 DEF RouteNowhere, parent, worker, IndInv, Types, TypeOK,
     Places,
     Corrections, NewIsUntouched, Admitting, InHand, Listed, GradeFitsState,
     Busy, Nobody, NoJudgement, WordsGrow
<1> QED BY <1>3, <1>4 DEF IndInv

\* The ticket of the question in hand.
LEMMA IssueTicketStep ==
  ASSUME IndInv, IssueTicket
  PROVE  IndInv'
<1>1. UNCHANGED words
  BY DEF IssueTicket, parent
<1>2. WordsGrow /\ \A k \in Questions : Bare(k)' = Bare(k)
  BY <1>1, SameWords DEF IndInv
<1>3. Types'
  BY <1>1 DEF IssueTicket, parent, worker, IndInv, Types, TypeOK, InHand,
     State,
     Grade, PC, Kind, Nobody, NoJudgement, Terminal, Busy, Issue
<1>4. /\ Places' /\ Corrections' /\ NewIsUntouched' /\ Admitting' /\ InHand'
      /\ Listed' /\ GradeFitsState'
  BY <1>1, <1>2 DEF IssueTicket, parent, worker, IndInv, Types, TypeOK, Places,
     Corrections, NewIsUntouched, Admitting, InHand, Listed, GradeFitsState,
     Busy, Nobody, NoJudgement, WordsGrow, Issue
<1> QED BY <1>3, <1>4 DEF IndInv

\* The question in hand is let go.
LEMMA MarkAwaitingStep ==
  ASSUME IndInv, MarkAwaiting
  PROVE  IndInv'
<1>1. UNCHANGED words
  BY DEF MarkAwaiting, parent
<1>2. WordsGrow /\ \A k \in Questions : Bare(k)' = Bare(k)
  BY <1>1, SameWords DEF IndInv
<1>a. /\ item' \in [Questions -> [state : State, grade : Grade]]
      /\ item'[doing.q].state = "awaiting_human" /\ item'[doing.q].grade = item[doing.q].grade
      /\ \A k \in Questions \ {doing.q} : item'[k] = item[k]
  <2>1. "awaiting_human" \in State /\ doing.q \in Questions
    BY DEF MarkAwaiting, State, IndInv, InHand, Busy
  <2> QED BY <2>1, ItemSet DEF MarkAwaiting, IndInv
<1>3. Types'
  BY <1>1, <1>a DEF MarkAwaiting, parent, worker, IndInv, Types, TypeOK,
     InHand, State,
     Grade, PC, Kind, Nobody, NoJudgement, Terminal, Busy
<1>4. /\ Places' /\ Corrections' /\ NewIsUntouched' /\ Admitting' /\ InHand'
      /\ Listed' /\ GradeFitsState'
  BY <1>1, <1>2, <1>a DEF MarkAwaiting, parent, worker, IndInv, Types, TypeOK,
     Places,
     Corrections, NewIsUntouched, Admitting, InHand, Listed, GradeFitsState,
     Busy, Nobody, NoJudgement, WordsGrow
<1> QED BY <1>3, <1>4 DEF IndInv

\* The list of the reruns.
LEMMA ListRerunsStep ==
  ASSUME IndInv, ListReruns
  PROVE  IndInv'
<1>1. UNCHANGED words
  BY DEF ListReruns, parent
<1>2. WordsGrow /\ \A k \in Questions : Bare(k)' = Bare(k)
  BY <1>1, SameWords DEF IndInv
<1>3. Types'
  BY <1>1 DEF ListReruns, parent, worker, IndInv, Types, TypeOK, InHand, State,
     Grade, PC, Kind, Nobody, NoJudgement, Terminal, Busy
<1>4. /\ Places' /\ Corrections' /\ NewIsUntouched' /\ Admitting' /\ InHand'
      /\ Listed' /\ GradeFitsState'
  BY <1>1, <1>2 DEF ListReruns, parent, worker, IndInv, Types, TypeOK, Places,
     Corrections, NewIsUntouched, Admitting, InHand, Listed, GradeFitsState,
     Busy, Nobody, NoJudgement, WordsGrow
<1> QED BY <1>3, <1>4 DEF IndInv

\* The list of the settlement holds no question a draft waits for.
LEMMA ListQuietStep ==
  ASSUME IndInv, ListQuiet
  PROVE  IndInv'
<1>1. UNCHANGED words
  BY DEF ListQuiet, parent
<1>2. WordsGrow /\ \A k \in Questions : Bare(k)' = Bare(k)
  BY <1>1, SameWords DEF IndInv
<1>3. Types'
  BY <1>1 DEF ListQuiet, parent, worker, IndInv, Types, TypeOK, InHand, State,
     Grade, PC, Kind, Nobody, NoJudgement, Terminal, Busy, Quiet
<1>4. /\ Places' /\ Corrections' /\ NewIsUntouched' /\ Admitting' /\ InHand'
      /\ Listed' /\ GradeFitsState'
  BY <1>1, <1>2 DEF ListQuiet, parent, worker, IndInv, Types, TypeOK, Places,
     Corrections, NewIsUntouched, Admitting, InHand, Listed, GradeFitsState,
     Busy, Nobody, NoJudgement, WordsGrow, Quiet
<1> QED BY <1>3, <1>4 DEF IndInv

\* The settlement closes with the grade of the last word.
LEMMA SettleQuietStep ==
  ASSUME IndInv, SettleQuiet
  PROVE  IndInv'
<1>1. UNCHANGED words
  BY DEF SettleQuiet, parent
<1>2. WordsGrow /\ \A k \in Questions : Bare(k)' = Bare(k)
  BY <1>1, SameWords DEF IndInv
<1>3. Types'
  BY <1>1 DEF SettleQuiet, parent, worker, IndInv, Types, TypeOK, InHand,
     State,
     Grade, PC, Kind, Nobody, NoJudgement, Terminal, Busy, Verdict
<1>4. /\ Places' /\ Corrections' /\ NewIsUntouched' /\ Admitting' /\ InHand'
      /\ Listed' /\ GradeFitsState'
  BY <1>1, <1>2 DEF SettleQuiet, parent, worker, IndInv, Types, TypeOK, Places,
     Corrections, NewIsUntouched, Admitting, InHand, Listed, GradeFitsState,
     Busy, Nobody, NoJudgement, WordsGrow, Verdict
<1> QED BY <1>3, <1>4 DEF IndInv

\* The mark of the asker is taken over.
LEMMA AdoptExplicitStep ==
  ASSUME IndInv, AdoptExplicit
  PROVE  IndInv'
<1>1. UNCHANGED words
  BY DEF AdoptExplicit, parent
<1>2. WordsGrow /\ \A k \in Questions : Bare(k)' = Bare(k)
  BY <1>1, SameWords DEF IndInv
<1>3. Types'
  BY <1>1 DEF AdoptExplicit, parent, worker, IndInv, Types, TypeOK, InHand,
     State,
     Grade, PC, Kind, Nobody, NoJudgement, Terminal, Busy
<1>4. /\ Places' /\ Corrections' /\ NewIsUntouched' /\ Admitting' /\ InHand'
      /\ Listed' /\ GradeFitsState'
  BY <1>1, <1>2 DEF AdoptExplicit, parent, worker, IndInv, Types, TypeOK,
     Places,
     Corrections, NewIsUntouched, Admitting, InHand, Listed, GradeFitsState,
     Busy, Nobody, NoJudgement, WordsGrow
<1> QED BY <1>3, <1>4 DEF IndInv

\* The list of intake, from what was collected before.
LEMMA CollectFailsStep ==
  ASSUME IndInv, CollectFails
  PROVE  IndInv'
<1>1. UNCHANGED words
  BY DEF CollectFails, parent
<1>2. WordsGrow /\ \A k \in Questions : Bare(k)' = Bare(k)
  BY <1>1, SameWords DEF IndInv
<1>3. Types'
  BY <1>1 DEF CollectFails, parent, worker, IndInv, Types, TypeOK, InHand,
     State,
     Grade, PC, Kind, Nobody, NoJudgement, Terminal, Busy
<1>4. /\ Places' /\ Corrections' /\ NewIsUntouched' /\ Admitting' /\ InHand'
      /\ Listed' /\ GradeFitsState'
  BY <1>1, <1>2 DEF CollectFails, parent, worker, IndInv, Types, TypeOK,
     Places,
     Corrections, NewIsUntouched, Admitting, InHand, Listed, GradeFitsState,
     Busy, Nobody, NoJudgement, WordsGrow
<1> QED BY <1>3, <1>4 DEF IndInv

\* The judgement takes the draft out of Q2.
LEMMA JudgeStep ==
  ASSUME IndInv, NEW q \in Questions, NEW kind \in Kind, NEW act \in {"send", "reopen"}, Judge(q, kind, act)
  PROVE  IndInv'
<1>1. UNCHANGED words
  BY DEF Judge, parent
<1>2. WordsGrow /\ \A k \in Questions : Bare(k)' = Bare(k)
  BY <1>1, SameWords DEF IndInv
<1>3. Types'
  BY <1>1 DEF Judge, parent, worker, IndInv, Types, TypeOK, InHand, State,
     Grade, PC, Kind, Nobody, NoJudgement, Terminal, Busy
<1>4. /\ Places' /\ Corrections' /\ NewIsUntouched' /\ Admitting' /\ InHand'
      /\ Listed' /\ GradeFitsState'
  BY <1>1, <1>2 DEF Judge, parent, worker, IndInv, Types, TypeOK, Places,
     Corrections, NewIsUntouched, Admitting, InHand, Listed, GradeFitsState,
     Busy, Nobody, NoJudgement, WordsGrow
<1> QED BY <1>3, <1>4 DEF IndInv

\* Only a resolved question is confirmed.
LEMMA UpgradeStep ==
  ASSUME IndInv, NEW q \in Questions, Upgrade(q)
  PROVE  IndInv'
<1>1. UNCHANGED words
  BY DEF Upgrade, parent
<1>2. WordsGrow /\ \A k \in Questions : Bare(k)' = Bare(k)
  BY <1>1, SameWords DEF IndInv
<1>3. Types'
  BY <1>1 DEF Upgrade, parent, worker, IndInv, Types, TypeOK, InHand, State,
     Grade, PC, Kind, Nobody, NoJudgement, Terminal, Busy
<1>4. /\ Places' /\ Corrections' /\ NewIsUntouched' /\ Admitting' /\ InHand'
      /\ Listed' /\ GradeFitsState'
  BY <1>1, <1>2 DEF Upgrade, parent, worker, IndInv, Types, TypeOK, Places,
     Corrections, NewIsUntouched, Admitting, InHand, Listed, GradeFitsState,
     Busy, Nobody, NoJudgement, WordsGrow
<1> QED BY <1>3, <1>4 DEF IndInv

\* The asker's mark is not collected yet.
LEMMA MarkResolvedStep ==
  ASSUME IndInv, NEW q \in Questions, MarkResolved(q)
  PROVE  IndInv'
<1>1. UNCHANGED words
  BY DEF MarkResolved, parent
<1>2. WordsGrow /\ \A k \in Questions : Bare(k)' = Bare(k)
  BY <1>1, SameWords DEF IndInv
<1>3. Types'
  BY <1>1 DEF MarkResolved, parent, worker, IndInv, Types, TypeOK, InHand,
     State,
     Grade, PC, Kind, Nobody, NoJudgement, Terminal, Busy
<1>4. /\ Places' /\ Corrections' /\ NewIsUntouched' /\ Admitting' /\ InHand'
      /\ Listed' /\ GradeFitsState'
  BY <1>1, <1>2 DEF MarkResolved, parent, worker, IndInv, Types, TypeOK,
     Places,
     Corrections, NewIsUntouched, Admitting, InHand, Listed, GradeFitsState,
     Busy, Nobody, NoJudgement, WordsGrow
<1> QED BY <1>3, <1>4 DEF IndInv

\* Time passes over what was said.
LEMMA QuietPassesStep ==
  ASSUME IndInv, NEW q \in Questions, QuietPasses(q)
  PROVE  IndInv'
<1>1. UNCHANGED words
  BY DEF QuietPasses, parent
<1>2. WordsGrow /\ \A k \in Questions : Bare(k)' = Bare(k)
  BY <1>1, SameWords DEF IndInv
<1>3. Types'
  BY <1>1 DEF QuietPasses, parent, worker, IndInv, Types, TypeOK, InHand,
     State,
     Grade, PC, Kind, Nobody, NoJudgement, Terminal, Busy
<1>4. /\ Places' /\ Corrections' /\ NewIsUntouched' /\ Admitting' /\ InHand'
      /\ Listed' /\ GradeFitsState'
  BY <1>1, <1>2 DEF QuietPasses, parent, worker, IndInv, Types, TypeOK, Places,
     Corrections, NewIsUntouched, Admitting, InHand, Listed, GradeFitsState,
     Busy, Nobody, NoJudgement, WordsGrow
<1> QED BY <1>3, <1>4 DEF IndInv

\* A failure: the question is let go.
LEMMA ProcessFailsStep ==
  ASSUME IndInv, ProcessFails
  PROVE  IndInv'
<1>1. /\ UNCHANGED <<words, old, marked, raw, item, judged, ticket, notice,
                     fresh, todo>>
      /\ doing' = Nobody /\ pc \in Busy
  BY DEF ProcessFails, parent, Busy
<1>2. WordsGrow /\ \A k \in Questions : Bare(k)' = Bare(k)
  BY <1>1, SameWords DEF IndInv
<1>3. pc' = doing.back /\ doing.back \in {"intake", "rerun"}
  BY <1>1 DEF ProcessFails, IndInv, InHand
<1>4. /\ pending' \in [Questions -> SUBSET Kind]
      /\ \A k \in Questions : pending'[k] \subseteq pending[k]
  <2>1. pending \in [Questions -> SUBSET Kind]
    BY DEF IndInv, Types, TypeOK
  <2>2. \/ UNCHANGED pending
        \/ pending' = [pending EXCEPT ![doing.q] = pending[doing.q] \ {"answer"}]
    BY <1>1, <2>1 DEF ProcessFails, IndInv, InHand
  <2> QED BY <2>1, <2>2
<1>5. Types'
  BY <1>1, <1>3, <1>4 DEF IndInv, Types, TypeOK, PC, Nobody
<1>6. Places' /\ GradeFitsState' /\ Corrections' /\ NewIsUntouched'
  BY <1>1, <1>2, <1>4 DEF IndInv, Places, GradeFitsState, Corrections,
     NewIsUntouched, WordsGrow
<1>7. Admitting' /\ InHand' /\ Listed'
  BY <1>1, <1>3 DEF IndInv, Admitting, InHand, Listed, Busy
<1> QED BY <1>5, <1>6, <1>7 DEF IndInv

\* Corrections of answers that are out.
LEMMA DraftCorrectionsStep ==
  ASSUME IndInv, DraftCorrections
  PROVE  IndInv'
<1>1. /\ UNCHANGED <<words, old, marked, raw, item, judged, ticket, notice,
                     fresh, todo, doing>>
      /\ pc = "correct" /\ pc' = "collect"
  BY DEF DraftCorrections, parent
<1>2. WordsGrow /\ \A k \in Questions : Bare(k)' = Bare(k)
  BY <1>1, SameWords DEF IndInv
<1>3. /\ pending' \in [Questions -> SUBSET Kind]
      /\ \A k \in Questions :
           \/ pending'[k] = pending[k]
           \/ AnswerIsOut(k) /\ pending'[k] = pending[k] \union {"correction"}
  BY DEF DraftCorrections, IndInv, Types, TypeOK, Kind
<1>4. \A k \in Questions : Bare(k) => ~AnswerIsOut(k)
  BY DEF Bare, AnswerIsOut
<1>5. Types'
  BY <1>1, <1>3 DEF IndInv, Types, TypeOK, PC
<1>6. Places' /\ GradeFitsState' /\ Corrections' /\ NewIsUntouched'
  BY <1>1, <1>2, <1>3, <1>4 DEF IndInv, Places, GradeFitsState, Corrections,
     NewIsUntouched, WordsGrow
<1>7. Admitting' /\ InHand' /\ Listed'
  BY <1>1 DEF IndInv, Admitting, InHand, Listed, Busy
<1> QED BY <1>5, <1>6, <1>7 DEF IndInv

\* A rejected draft goes to a new ticket, and the item waits for a person.
LEMMA ReopenStep ==
  ASSUME IndInv, NEW q \in Questions, ReopenForRejected(q)
  PROVE  IndInv'
<1>1. /\ UNCHANGED <<words, old, marked, raw, pending, notice, fresh, pc, todo,
                     doing>>
      /\ judged[q] # NoJudgement
      /\ judged' = [judged EXCEPT ![q] = NoJudgement]
  BY DEF ReopenForRejected, parent, worker, NoJudgement
<1>2. WordsGrow /\ \A k \in Questions : Bare(k)' = Bare(k)
  BY <1>1, SameWords DEF IndInv
<1>3. /\ item' \in [Questions -> [state : State, grade : Grade]]
      /\ item[q].state # "none"
      /\ \/ item' = item
         \/ /\ item'[q].state = "awaiting_human"
            /\ item'[q].grade = item[q].grade
            /\ \A k \in Questions \ {q} : item'[k] = item[k]
  <2>1. item \in [Questions -> [state : State, grade : Grade]]
    BY DEF IndInv, Types, TypeOK
  <2>2. item' = item \/ item' = [item EXCEPT ![q].state = "awaiting_human"]
    BY DEF ReopenForRejected
  <2>3. "awaiting_human" \in State
    BY DEF State
  <2>4. item[q].state # "none"
    BY <1>1 DEF IndInv, NewIsUntouched
  <2> QED BY <2>1, <2>2, <2>3, <2>4, ItemSet DEF IndInv
<1>4. ticket' \in [Questions -> [any : BOOLEAN, open : BOOLEAN]]
  <2>1. ticket \in [Questions -> [any : BOOLEAN, open : BOOLEAN]]
    BY DEF IndInv, Types, TypeOK
  <2>2. \/ ticket' = ticket
        \/ ticket' = [ticket EXCEPT ![q] = [any |-> TRUE, open |-> TRUE]]
    <3>1. (ticket[q].open \/ TRUE) = TRUE
      OBVIOUS
    <3>2. Issue(q, TRUE) \/ UNCHANGED ticket
      BY DEF ReopenForRejected
    <3> QED BY <2>1, <3>1, <3>2 DEF Issue
  <2>3. [any |-> TRUE, open |-> TRUE] \in [any : BOOLEAN, open : BOOLEAN]
    OBVIOUS
  <2> QED BY <2>1, <2>2, <2>3
<1>5. Types'
  BY <1>1, <1>3, <1>4 DEF IndInv, Types, TypeOK, NoJudgement, Kind
<1>6. Places' /\ GradeFitsState' /\ Corrections' /\ NewIsUntouched'
  BY ZenonT(40), <1>1, <1>2, <1>3 DEF IndInv, Places, GradeFitsState, Corrections,
     NewIsUntouched, WordsGrow, Types, TypeOK
<1>7. Admitting' /\ InHand' /\ Listed'
  BY <1>1, <1>3 DEF IndInv, Admitting, InHand, Listed, Types, TypeOK
<1> QED BY <1>5, <1>6, <1>7 DEF IndInv

\* People speak.
LEMMA PeopleStep ==
  ASSUME IndInv, NEW q \in Questions, Ask(q) \/ PersonAnswers(q)
  PROVE  IndInv'
<1>1. PICK w \in {"ask", "followup", "person"} : Say(q, w)
  BY DEF Ask, PersonAnswers
<1>2. /\ words' \in [Questions -> Seq(Word)]
      /\ WordsGrow
      /\ \A k \in Questions : Bare(k) => Bare(k)'
  BY <1>1, SayGrows DEF IndInv, Word
<1>3. /\ UNCHANGED <<old, marked, raw, item, pending, judged, ticket, notice,
                     pc, todo, doing>>
      /\ fresh' \in [Questions -> BOOLEAN]
  BY DEF Ask, PersonAnswers, worker, IndInv, Types, TypeOK
<1>a. \A k \in Questions : /\ old[k] \in 0..Len(words'[k])
                            /\ raw[k].seen <= Len(words'[k])
                            /\ notice[k] <= Len(words'[k])
  BY <1>2, PlacesStay DEF IndInv, Types, TypeOK
<1>4. Types'
  BY <1>2, <1>3, <1>a DEF IndInv, Types, TypeOK
<1>5. Places' /\ GradeFitsState' /\ Corrections' /\ NewIsUntouched'
  BY <1>2, <1>3, <1>a DEF IndInv, Places, GradeFitsState, Corrections,
     NewIsUntouched, WordsGrow
<1>6. Admitting' /\ InHand' /\ Listed'
  BY <1>3 DEF IndInv, Admitting, InHand, Listed
<1> QED BY <1>4, <1>5, <1>6 DEF IndInv

\* Collection reads every question again whose mark is not known.
LEMMA CollectStep ==
  ASSUME IndInv, Collect
  PROVE  IndInv'
<1>1. /\ UNCHANGED <<words, old, marked, item, pending, judged, ticket, notice,
                     fresh, doing>>
      /\ pc = "collect" /\ pc' = "intake"
      /\ todo' \in SUBSET Questions
      /\ \A q \in todo' : item[q].state = "none"
  BY DEF Collect, parent
<1>2. WordsGrow /\ \A k \in Questions : Bare(k)' = Bare(k)
  BY <1>1, SameWords DEF IndInv
<1>3. /\ raw' \in [Questions -> [seen : Nat, explicit : BOOLEAN]]
      /\ \A q \in Questions : raw'[q].seen <= Len(words[q])
  <2> DEFINE new(q) == [seen |-> Len(words[q]), explicit |-> marked[q]]
  <2>1. \A q \in Questions : /\ new(q) \in [seen : Nat, explicit : BOOLEAN]
                             /\ new(q).seen <= Len(words[q])
    BY <1>2 DEF WordsGrow, IndInv, Types, TypeOK
  <2>2. /\ raw \in [Questions -> [seen : Nat, explicit : BOOLEAN]]
        /\ \A q \in Questions : raw[q].seen <= Len(words[q])
    BY DEF IndInv, Types, TypeOK, Places
  <2>3. raw' = [q \in Questions |-> IF Recollected(q) THEN new(q) ELSE raw[q]]
    BY DEF Collect
  <2> HIDE DEF new
  <2> QED BY <2>1, <2>2, <2>3
<1>4. Types'
  BY <1>1, <1>3 DEF IndInv, Types, TypeOK, PC
<1>5. Places' /\ GradeFitsState' /\ Corrections' /\ NewIsUntouched'
  BY <1>1, <1>2, <1>3 DEF IndInv, Places, GradeFitsState, Corrections,
     NewIsUntouched, WordsGrow
<1>6. Admitting' /\ InHand' /\ Listed'
  BY <1>1 DEF IndInv, Admitting, InHand, Listed, Busy
<1> QED BY <1>4, <1>5, <1>6 DEF IndInv

\* A delivery touches only a question that is admitted.
LEMMA DeliveredStep ==
  ASSUME IndInv, NEW q \in Questions, NEW kind \in Kind, Deliver(q, kind),
         item[q].state # "none",
         UNCHANGED <<old, marked, raw, ticket, todo>>,
         pending' \in [Questions -> SUBSET Kind],
         \A k \in Questions : pending'[k] \subseteq pending[k],
         \/ UNCHANGED <<judged, pc, doing>>
         \/ UNCHANGED <<pc, doing>> /\ judged' = [judged EXCEPT ![q] = NoJudgement]
         \/ UNCHANGED <<judged, doing>> /\ pc = "route" /\ pc' = "ticket"
  PROVE  IndInv'
<1>1. /\ words' \in [Questions -> Seq(Word)]
      /\ notice' \in [Questions -> Nat \union {-1}]
      /\ fresh' \in [Questions -> BOOLEAN]
      /\ item' \in [Questions -> [state : State, grade : Grade]]
      /\ item'[q].state = "published" /\ item'[q].grade = item[q].grade
      /\ \A k \in Questions \ {q} : item'[k] = item[k] /\ Bare(k)' = Bare(k)
      /\ \A k \in Questions : notice'[k] <= notice[k]
      /\ WordsGrow
  BY DeliverGrows DEF IndInv
<1>a. \A k \in Questions : /\ old[k] \in 0..Len(words'[k])
                            /\ raw[k].seen <= Len(words'[k])
                            /\ notice'[k] <= Len(words'[k])
  BY <1>1, PlacesStay DEF IndInv
<1>b. /\ judged' \in [Questions -> [act : {"none", "send", "reopen"}, kind : Kind]]
      /\ \A k \in Questions : judged'[k] \in {judged[k], NoJudgement}
  <2> DEFINE J == [act : {"none", "send", "reopen"}, kind : Kind]
  <2>1. judged \in [Questions -> J]
    BY DEF IndInv, Types, TypeOK
  <2>2. NoJudgement \in J
    BY DEF NoJudgement, Kind
  <2>3. UNCHANGED judged \/ judged' = [judged EXCEPT ![q] = NoJudgement]
    OBVIOUS
  <2> HIDE DEF J
  <2>4. /\ judged' \in [Questions -> J]
        /\ \A k \in Questions : judged'[k] \in {judged[k], NoJudgement}
    BY <2>1, <2>2, <2>3
  <2> QED BY <2>4 DEF J
<1>c. /\ UNCHANGED doing
      /\ UNCHANGED pc \/ (pc = "route" /\ pc' = "ticket")
  OBVIOUS
<1>2. Types'
  BY <1>1, <1>a, <1>b, <1>c DEF IndInv, Types, TypeOK, PC
<1>3. Places'
  BY <1>a DEF Places
<1>4. GradeFitsState' /\ Corrections' /\ NewIsUntouched'
  <2>1. GradeFitsState'
    BY <1>1 DEF IndInv, GradeFitsState
  <2>2. Corrections'
    BY <1>1, <1>b DEF IndInv, Corrections, WordsGrow
  <2>3. NewIsUntouched'
    BY <1>1, <1>b DEF IndInv, NewIsUntouched
  <2> QED BY <2>1, <2>2, <2>3
<1>5. Admitting' /\ InHand' /\ Listed'
  <2>1. \A k \in Questions : item'[k].state = "none" <=> item[k].state = "none"
    BY <1>1
  <2>2. todo \subseteq Questions
    BY DEF IndInv, Types, TypeOK
  <2> QED BY <1>c, <2>1, <2>2 DEF IndInv, Admitting, InHand, Listed, Busy
<1> QED BY <1>2, <1>3, <1>4, <1>5 DEF IndInv

\* The gate sends the draft out.
LEMMA RouteAutoStep ==
  ASSUME IndInv, RouteAuto
  PROVE  IndInv'
<1>1. /\ pc = "route" /\ pc' = "ticket"
      /\ UNCHANGED <<old, marked, raw, judged, ticket, todo, doing>>
      /\ doing.q \in Questions /\ item[doing.q].state # "none"
  BY DEF RouteAuto, IndInv, InHand, Busy
<1>2. CASE "answer" \in pending[doing.q]
  <2>1. /\ Deliver(doing.q, "answer")
        /\ pending' = [pending EXCEPT ![doing.q] = @ \ {"answer"}]
    BY <1>2 DEF RouteAuto
  <2>2. /\ pending' \in [Questions -> SUBSET Kind]
        /\ \A k \in Questions : pending'[k] \subseteq pending[k]
    BY <2>1 DEF IndInv, Types, TypeOK
  <2>3. "answer" \in Kind
    BY DEF Kind
  <2> QED BY <1>1, <2>1, <2>2, <2>3, DeliveredStep
<1>3. CASE "answer" \notin pending[doing.q]
  <2>1. UNCHANGED <<words, item, pending, notice, fresh>>
    BY <1>3 DEF RouteAuto
  <2>2. WordsGrow /\ \A k \in Questions : Bare(k)' = Bare(k)
    BY <2>1, SameWords DEF IndInv
  <2>3. Types'
    BY <1>1, <2>1 DEF IndInv, Types, TypeOK, PC
  <2>4. Places' /\ GradeFitsState' /\ Corrections' /\ NewIsUntouched'
    BY <1>1, <2>1, <2>2 DEF IndInv, Places, GradeFitsState, Corrections,
       NewIsUntouched, WordsGrow
  <2>5. Admitting' /\ InHand' /\ Listed'
    BY <1>1, <2>1 DEF IndInv, Admitting, InHand, Listed, Busy
  <2> QED BY <2>3, <2>4, <2>5 DEF IndInv
<1> QED BY <1>2, <1>3

\* The approved draft goes out, or its record stays in flight.
LEMMA SendDraftStep ==
  ASSUME IndInv, NEW q \in Questions, SendDraft(q)
  PROVE  IndInv'
<1>1. /\ UNCHANGED <<old, marked, raw, pending, ticket, pc, todo, doing>>
      /\ judged[q] # NoJudgement /\ judged[q].kind \in Kind
      /\ judged' = [judged EXCEPT ![q] = NoJudgement]
      /\ \/ Deliver(q, judged[q].kind)
         \/ UNCHANGED <<words, item, notice, fresh>>
  BY DEF SendDraft, worker, NoJudgement, IndInv, Types, TypeOK
<1>2. item[q].state # "none"
  BY <1>1 DEF IndInv, NewIsUntouched
<1>3. CASE Deliver(q, judged[q].kind)
  BY <1>1, <1>2, <1>3, DeliveredStep DEF IndInv, Types, TypeOK
<1>4. CASE UNCHANGED <<words, item, notice, fresh>>
  <2>1. WordsGrow /\ \A k \in Questions : Bare(k)' = Bare(k)
    BY <1>4, SameWords DEF IndInv
  <2>2. Types'
    BY <1>1, <1>4 DEF IndInv, Types, TypeOK, NoJudgement, Kind
  <2>3. Places' /\ GradeFitsState' /\ Corrections' /\ NewIsUntouched'
    BY <1>1, <1>4, <2>1 DEF IndInv, Places, GradeFitsState, Corrections,
       NewIsUntouched, WordsGrow, Types, TypeOK
  <2>4. Admitting' /\ InHand' /\ Listed'
    BY <1>1, <1>4 DEF IndInv, Admitting, InHand, Listed
  <2> QED BY <2>2, <2>3, <2>4 DEF IndInv
<1> QED BY <1>1, <1>3, <1>4

\* A person must look: hold keeps the place, or fails on its second notice.
LEMMA RouteHumanStep ==
  ASSUME IndInv, RouteHuman
  PROVE  IndInv'
<1> DEFINE q == doing.q
<1>1. /\ pc = "route" /\ q \in Questions /\ item[q].state # "none"
      /\ UNCHANGED <<old, marked, raw, item, pending, judged, ticket, fresh,
                     todo>>
      /\ \/ pc' = "ticket" /\ UNCHANGED doing
         \/ pc' \in {"intake", "rerun"} /\ pc' = doing.back /\ doing' = Nobody
  BY DEF RouteHuman, IndInv, InHand, Busy
<1>2. /\ words' \in [Questions -> Seq(Word)]
      /\ WordsGrow
      /\ \A k \in Questions \ {q} : Bare(k)' = Bare(k)
      /\ UNCHANGED words \/ Len(words'[q]) = Len(words[q]) + 1
  <2>1. UNCHANGED words \/ Say(q, "notice")
    BY DEF RouteHuman
  <2>2. words \in [Questions -> Seq(Word)] /\ "notice" \in Word
    BY DEF IndInv, Types, TypeOK, Word
  <2> QED BY <1>1, <2>1, <2>2, SameWords, SayGrows DEF IndInv
<1>3. /\ notice' \in [Questions -> Nat \union {-1}]
      /\ \A k \in Questions : notice'[k] <= Len(words'[k])
  <2>1. /\ notice \in [Questions -> Nat \union {-1}]
        /\ \A k \in Questions : notice[k] <= Len(words[k])
    BY DEF IndInv, Types, TypeOK, Places
  <2>2. CASE UNCHANGED notice
    BY <1>2, <2>1, <2>2, PlacesStay DEF IndInv
  <2>3. CASE /\ notice' = [notice EXCEPT ![q] = Len(words[q]) + 1]
             /\ Say(q, "notice")
    <3>1. Len(words'[q]) = Len(words[q]) + 1
      BY <1>1, <2>3, SayGrows DEF IndInv, Word
    <3>2. /\ \A k \in Questions : notice[k] <= Len(words'[k])
          /\ Len(words[q]) \in Nat
      BY <1>1, <1>2, <2>1, PlacesStay DEF IndInv, WordsGrow
    <3>3. /\ \A k \in Questions \ {q} : notice'[k] = notice[k]
          /\ notice'[q] = Len(words[q]) + 1
          /\ notice' \in [Questions -> Nat \union {-1}]
      BY <1>1, <2>1, <2>3, <3>2
    <3> QED BY <3>1, <3>2, <3>3
  <2> QED BY <2>2, <2>3 DEF RouteHuman
<1>a. \A k \in Questions : /\ old[k] \in 0..Len(words'[k])
                            /\ raw[k].seen <= Len(words'[k])
  BY <1>2, PlacesStay DEF IndInv
<1>b. pc' \in PC /\ doing' \in [q : Questions \union {"nobody"},
                      back : {"collect", "intake", "rerun"}, open : BOOLEAN]
  <2> DEFINE D == [q : Questions \union {"nobody"},
                   back : {"collect", "intake", "rerun"}, open : BOOLEAN]
  <2>1. doing \in D /\ Nobody \in D
    BY DEF IndInv, Types, TypeOK, Nobody
  <2>2. pc' \in PC
    BY <1>1 DEF PC
  <2> QED BY <1>1, <2>1, <2>2
<1>4. Types'
  BY <1>1, <1>2, <1>3, <1>a, <1>b DEF IndInv, Types, TypeOK
<1>5. Places'
  BY <1>1, <1>3, <1>a DEF Places
<1>6. GradeFitsState' /\ Corrections' /\ NewIsUntouched'
  BY <1>1, <1>2 DEF IndInv, GradeFitsState, Corrections, NewIsUntouched,
     WordsGrow
<1>7. Admitting' /\ InHand' /\ Listed'
  BY <1>1 DEF IndInv, Admitting, InHand, Listed, Busy
<1> QED BY <1>4, <1>5, <1>6, <1>7 DEF IndInv

-----------------------------------------------------------------------------
(* Every step *)

\* Nothing is said, collected or admitted before the first tick.
LEMMA InitIndInv == Init => IndInv
<1> SUFFICES ASSUME Init PROVE IndInv
  OBVIOUS
<1>1. <<>> \in Seq(Word) /\ Len(<<>>) = 0
  BY EmptySeq
<1>2. Types
  BY <1>1 DEF Init, Types, TypeOK, State, Grade, Kind, NoJudgement, PC, Nobody
<1>3. Places /\ Corrections /\ GradeFitsState
  BY <1>1 DEF Init, Places, Corrections, GradeFitsState, NoJudgement
<1>4. NewIsUntouched /\ Admitting /\ InHand /\ Listed
  BY <1>1 DEF Init, NewIsUntouched, Bare, Admitting, InHand, Listed, Busy
<1> QED BY <1>2, <1>3, <1>4 DEF IndInv

LEMMA NextIndInv ==
  ASSUME IndInv, [Next]_vars
  PROVE  IndInv'
<1>1. CASE ParentNext
  BY <1>1, PeopleStep, MarkResolvedStep, QuietPassesStep DEF ParentNext
<1>2. CASE WorkerNext
  BY <1>2, CollectStep, CollectFailsStep, AdmitStep, RerunStep,
     ProcessHaltsStep, ProcessDraftsStep, ProcessFailsStep, RouteAutoStep,
     RouteHumanStep, RouteNowhereStep, IssueTicketStep, MarkAwaitingStep,
     AdoptExplicitStep, ListRerunsStep, ListQuietStep, SettleQuietStep,
     DraftCorrectionsStep DEF WorkerNext
<1>3. CASE WebNext
  BY <1>3, JudgeStep, SendDraftStep, ReopenStep, UpgradeStep DEF WebNext
<1>4. CASE UNCHANGED vars
  BY <1>4 DEF vars, IndInv, Types, TypeOK, Places, Corrections, AnswerIsOut,
     NewIsUntouched, Bare, Admitting, InHand, Listed, GradeFitsState
<1> QED BY <1>1, <1>2, <1>3, <1>4 DEF Next

\* In every reachable state grades fit states, lists and the question in hand
\* are what the tables still say, and only answers that are out are corrected.
THEOREM TrackingInvariant == Spec => []IndInv
BY InitIndInv, NextIndInv, PTL DEF Spec

\* Resolved means a grade and a gap means none, whichever of the settlement, the
\* asker's mark, Q6, a late delivery or a rejection wrote the row last
\* (tracking.settle_quiet, adopt_explicit and upgrade; publish; q2_decide).
THEOREM GradesFit == Spec => []GradeFitsState
<1>1. IndInv => GradeFitsState
  BY DEF IndInv
<1> QED BY <1>1, TrackingInvariant, PTL

\* The timeout closes no question a draft waits for: between the list and the
\* UPDATEs of settle_quiet only judgements are made, and no drafts.
THEOREM ClosesIdle == Spec => ClosesOnlyIdle
<1> DEFINE Idle == \A q \in Questions :
                     pc = "settle" /\ pc' = "correct" /\ item'[q] # item[q] =>
                       pending[q] = {}
<1>1. IndInv /\ [Next]_vars => [Idle]_vars
  <2> SUFFICES ASSUME IndInv, Next, NEW q \in Questions, pc = "settle",
                      pc' = "correct", item'[q] # item[q]
               PROVE  pending[q] = {}
    OBVIOUS
  <2>1. SettleQuiet
    BY DEF Next, ParentNext, WorkerNext, WebNext, Ask, PersonAnswers,
       MarkResolved, QuietPasses, worker, Collect, CollectFails, Admit, Rerun,
       ProcessHalts, ProcessDrafts, ProcessFails, RouteAuto, RouteHuman,
       RouteNowhere, IssueTicket, MarkAwaiting, AdoptExplicit, ListReruns,
       ListQuiet, DraftCorrections, Judge, SendDraft, ReopenForRejected,
       Upgrade
  <2>2. q \in todo
    BY <2>1 DEF SettleQuiet, IndInv, Types, TypeOK
  <2> QED BY <2>2 DEF IndInv, Listed
<1> HIDE DEF Idle
<1>2. Spec => [][Idle]_vars
  BY <1>1, TrackingInvariant, PTL DEF Spec
<1> QED BY <1>2 DEF ClosesOnlyIdle, Idle

-----------------------------------------------------------------------------
(* While nothing fails *)

\* An answer that is out answers.
LEMMA OutAnswers ==
  ASSUME NEW q \in Questions, AnswerIsOut(q)
  PROVE  Answered(q)
BY DEF AnswerIsOut, Answered

\* Nothing but the threads and the worker's place changed.
LEMMA QueueSame ==
  ASSUME WordsGrow, UNCHANGED <<judged, ticket>>,
         \A k \in Questions : pending[k] \subseteq pending'[k],
         NEW q \in Questions, InQueue(q)
  PROVE  InQueue(q)'
BY DEF InQueue, WordsGrow

\* A delivered question is answered.
LEMMA DeliveredQueue ==
  ASSUME IndInv, NEW q \in Questions, NEW kind \in Kind, Deliver(q, kind),
         kind = "correction" => AnswerIsOut(q),
         \A k \in Questions \ {q} : judged'[k] = judged[k] /\ pending'[k] = pending[k],
         UNCHANGED ticket
  PROVE  InQueue(q)' /\ \A k \in Questions : InQueue(k) => InQueue(k)'
<1>1. WordsGrow /\ (kind = "answer" => Answered(q)')
  BY DeliverGrows DEF IndInv
<1>2. Answered(q)'
  BY <1>1, OutAnswers DEF WordsGrow, Kind
<1> QED BY <1>1, <1>2 DEF InQueue, WordsGrow

\* A question stays in a queue until it is answered.
LEMMA QueueKept ==
  ASSUME IndInv, ~Faults, Next
  PROVE  \A k \in Questions : InQueue(k) => InQueue(k)'
<1>0. Types /\ Places
  BY DEF IndInv
<1>1. ASSUME UNCHANGED words PROVE WordsGrow
  BY <1>0, <1>1, SameWords
<1>2. CASE ParentNext
  <2>1. PICK q \in Questions :
          Ask(q) \/ PersonAnswers(q) \/ MarkResolved(q) \/ QuietPasses(q)
    BY <1>2 DEF ParentNext
  <2>2. WordsGrow
    <3>1. CASE Ask(q) \/ PersonAnswers(q)
      BY <1>0, <3>1, SayGrows DEF Ask, PersonAnswers, Word
    <3>2. CASE MarkResolved(q) \/ QuietPasses(q)
      BY <1>1, <3>2 DEF MarkResolved, QuietPasses
    <3> QED BY <2>1, <3>1, <3>2
  <2>3. UNCHANGED <<pending, judged, ticket>>
    BY <2>1 DEF Ask, PersonAnswers, MarkResolved, QuietPasses
  <2> QED BY <2>2, <2>3, QueueSame
<1>3. CASE WorkerNext
  <2>1. CASE RouteAuto
    <3>1. CASE "answer" \in pending[doing.q]
      <4>1. doing.q \in Questions /\ "answer" \in Kind
        BY <2>1 DEF RouteAuto, IndInv, InHand, Busy, Kind
      <4> QED BY <2>1, <3>1, <4>1, DeliveredQueue
              DEF RouteAuto, IndInv, Types, TypeOK
    <3>2. CASE "answer" \notin pending[doing.q]
      BY <1>1, <2>1, <3>2, QueueSame DEF RouteAuto
    <3> QED BY <3>1, <3>2
  <2>2. CASE RouteHuman
    <3>1. WordsGrow
      <4>1. doing.q \in Questions /\ "notice" \in Word
        BY <2>2 DEF RouteHuman, IndInv, InHand, Busy, Word
      <4> QED BY <1>0, <1>1, <2>2, <4>1, SayGrows DEF RouteHuman
    <3> QED BY <2>2, <3>1, QueueSame DEF RouteHuman
  <2>3. CASE IssueTicket
    <3>1. doing.q \in Questions
      BY <2>3 DEF IssueTicket, IndInv, InHand, Busy
    <3>2. \A k \in Questions : ticket[k].open => ticket'[k].open
      BY <1>0, <2>3, <3>1 DEF IssueTicket, Issue, Types, TypeOK
    <3> QED BY <2>3, <3>2 DEF InQueue, IssueTicket, parent, Answered
  <2>4. CASE ProcessDrafts
    <3>1. \A k \in Questions : pending[k] \subseteq pending'[k]
      BY <1>0, <2>4 DEF ProcessDrafts, Types, TypeOK
    <3> QED BY <1>1, <2>4, <3>1, QueueSame DEF ProcessDrafts, parent
  <2>5. CASE DraftCorrections
    <3>1. \A k \in Questions : pending[k] \subseteq pending'[k]
      BY <2>5 DEF DraftCorrections
    <3> QED BY <1>1, <2>5, <3>1, QueueSame DEF DraftCorrections, parent
  <2>6. CASE ~(RouteAuto \/ RouteHuman \/ IssueTicket \/ ProcessDrafts
               \/ DraftCorrections)
    <3>1. UNCHANGED <<words, pending, judged, ticket>>
      BY <1>3, <2>6 DEF WorkerNext, parent, Collect, CollectFails, Admit,
         Rerun,
         ProcessHalts, ProcessFails, RouteNowhere, MarkAwaiting, AdoptExplicit,
         ListReruns, ListQuiet, SettleQuiet
    <3> QED BY <1>1, <3>1, QueueSame
  <2> QED BY <2>1, <2>2, <2>3, <2>4, <2>5, <2>6
<1>4. CASE WebNext
  <2>1. ASSUME NEW q \in Questions, NEW kind \in Kind,
               NEW act \in {"send", "reopen"}, Judge(q, kind, act)
        PROVE  \A k \in Questions : InQueue(k) => InQueue(k)'
    <3>1. judged'[q] # NoJudgement
      BY <1>0, <2>1 DEF Judge, NoJudgement, Types, TypeOK
    <3>2. /\ \A k \in Questions \ {q} :
               judged'[k] = judged[k] /\ pending'[k] = pending[k]
          /\ UNCHANGED <<words, ticket>>
      BY <1>0, <2>1 DEF Judge, parent, Types, TypeOK
    <3> QED BY <3>1, <3>2 DEF InQueue, Answered
  <2>2. ASSUME NEW q \in Questions, SendDraft(q)
        PROVE  \A k \in Questions : InQueue(k) => InQueue(k)'
    <3>1. /\ judged[q] # NoJudgement /\ judged[q].kind \in Kind
          /\ judged' = [judged EXCEPT ![q] = NoJudgement]
          /\ Deliver(q, judged[q].kind)
          /\ UNCHANGED <<pending, ticket>>
      BY <1>0, <2>2 DEF SendDraft, NoJudgement, Types, TypeOK
    <3>2. judged[q].kind = "correction" => AnswerIsOut(q)
      BY <3>1 DEF IndInv, Corrections
    <3>3. \A k \in Questions \ {q} :
            judged'[k] = judged[k] /\ pending'[k] = pending[k]
      BY <1>0, <3>1 DEF Types, TypeOK
    <3> QED BY <3>1, <3>2, <3>3, DeliveredQueue
  <2>3. ASSUME NEW q \in Questions, ReopenForRejected(q)
        PROVE  \A k \in Questions : InQueue(k) => InQueue(k)'
    <3>1. /\ ticket'[q].open
          /\ \A k \in Questions \ {q} :
               judged'[k] = judged[k] /\ ticket'[k] = ticket[k]
          /\ UNCHANGED <<words, pending>>
      <4>1. (ticket[q].open \/ TRUE) = TRUE
        OBVIOUS
      <4>2. /\ ticket' = [ticket EXCEPT ![q] = [any |-> TRUE, open |-> TRUE]]
            /\ judged' = [judged EXCEPT ![q] = NoJudgement]
            /\ UNCHANGED <<words, pending>>
        BY <1>0, <2>3, <4>1
           DEF ReopenForRejected, Issue, parent, Types, TypeOK
      <4> QED BY <1>0, <4>2 DEF Types, TypeOK
    <3> QED BY <3>1 DEF InQueue, Answered
  <2>4. ASSUME NEW q \in Questions, Upgrade(q)
        PROVE  \A k \in Questions : InQueue(k) => InQueue(k)'
    BY <1>1, <2>4, QueueSame DEF Upgrade, parent
  <2> QED BY <1>4, <2>1, <2>2, <2>3, <2>4 DEF WebNext
<1> QED BY <1>2, <1>3, <1>4 DEF Next

\* The worker takes a question in hand, or goes on without one.
LEMMA TakesUp ==
  ASSUME JobInv, ~Faults,
         \/ \E q \in Questions : Admit(q) \/ Rerun(q)
         \/ Collect \/ CollectFails \/ AdoptExplicit \/ ListReruns \/ ListQuiet
         \/ SettleQuiet \/ DraftCorrections
  PROVE  Cared' /\ Excused'
<1>0. /\ IndInv /\ Types /\ Excused
      /\ \A k \in Questions : InQueue(k) => InQueue(k)'
  BY QueueKept DEF JobInv, IndInv, Next, WorkerNext
<1>1. ASSUME NEW q \in Questions, Admit(q)
      PROVE  Cared' /\ Excused'
  <2>1. /\ pc = "intake" /\ pc' \in {"ticket", "process"} /\ doing'.q = q
        /\ UNCHANGED words
        /\ \A k \in Questions \ {q} : item'[k] = item[k]
        /\ q \in todo
    BY <1>0, <1>1 DEF Admit, parent, Types, TypeOK
  <2>2. pc' = "ticket" => Answered(q)
    <3> SUFFICES ASSUME pc' = "ticket" PROVE Answered(q)
      OBVIOUS
    <3>1. LastAnswer(q, raw[q].seen) # 0
      BY <1>1 DEF Admit
    <3>2. PICK i \in 1..raw[q].seen : IsAnswer(words[q][i])
      BY <3>1 DEF LastAnswer, LastPlace
    <3>3. i \in 1..Len(words[q])
      <4>1. Len(words[q]) \in Nat
        BY LenProperties DEF IndInv, Types, TypeOK, JobInv
      <4>2. raw[q].seen \in Nat /\ raw[q].seen <= Len(words[q])
        BY <1>0 DEF IndInv, Types, TypeOK, Places
      <4> QED BY <4>1, <4>2
    <3>4. Bare(q)
      BY <1>0, <2>1 DEF IndInv, Admitting, NewIsUntouched
    <3> QED BY <3>2, <3>3, <3>4 DEF Bare, IsAnswer, Answered
  <2>3. pc' = "ticket" => InQueue(q)'
    BY <2>1, <2>2 DEF InQueue, Answered
  <2>4. Cared'
    BY <2>1, <2>3 DEF Cared
  <2>5. Excused'
    BY <1>0, <2>1 DEF Excused, Busy
  <2> QED BY <2>4, <2>5
<1>2. ASSUME NEW q \in Questions, Rerun(q)
      PROVE  Cared' /\ Excused'
  <2>1. /\ pc = "rerun" /\ pc' = "process" /\ doing'.q = q
        /\ \A k \in Questions \ {q} : item'[k] = item[k]
    BY <1>0, <1>2 DEF Rerun, Types, TypeOK
  <2> QED BY <1>0, <2>1 DEF Cared, Excused, Busy
<1>3. CASE \/ Collect \/ CollectFails \/ AdoptExplicit \/ ListReruns \/ ListQuiet
           \/ SettleQuiet \/ DraftCorrections
  <2>1. pc \notin Busy /\ pc' \notin Busy
    BY <1>3 DEF Collect, CollectFails, AdoptExplicit, ListReruns, ListQuiet,
       SettleQuiet, DraftCorrections, Busy
  <2>2. \A k \in Questions :
          item'[k] = item[k] \/ item'[k].state \in Terminal
    BY <1>0, <1>3 DEF Collect, CollectFails, AdoptExplicit, ListReruns,
       ListQuiet, SettleQuiet, DraftCorrections, Verdict, Terminal, Types,
       TypeOK
  <2> QED BY <1>0, <2>1, <2>2 DEF Cared, Excused, Busy
<1> QED BY <1>1, <1>2, <1>3

\* The question in hand, from the pipeline to its ticket.
LEMMA InHandGoesOn ==
  ASSUME JobInv, ~Faults,
         \/ ProcessHalts \/ ProcessDrafts \/ ProcessFails \/ RouteAuto
         \/ RouteHuman \/ RouteNowhere \/ IssueTicket \/ MarkAwaiting
  PROVE  Cared' /\ Excused'
<1> DEFINE q == doing.q
<1>0. /\ IndInv /\ Types /\ Places /\ Excused /\ Cared
      /\ \A k \in Questions : InQueue(k) => InQueue(k)'
  BY QueueKept DEF JobInv, IndInv, Next, WorkerNext
<1>1. pc \in Busy /\ q \in Questions
  BY <1>0 DEF ProcessHalts, ProcessDrafts, ProcessFails, RouteAuto, RouteHuman,
     RouteNowhere, IssueTicket, MarkAwaiting, Busy, IndInv, InHand
<1>2. ASSUME UNCHANGED doing, pc' \in Busy,
             \A k \in Questions \ {q} : item'[k] = item[k]
      PROVE  Excused'
  BY <1>0, <1>2 DEF Excused
<1>3. CASE ProcessHalts
  <2>1. doing'.open /\ doing'.q = q
    BY <1>0, <1>3 DEF ProcessHalts, Types, TypeOK
  <2>2. pc' = "ticket" /\ UNCHANGED item
    BY <1>3 DEF ProcessHalts
  <2> QED BY <1>0, <1>1, <2>1, <2>2 DEF Cared, Excused, Busy
<1>4. CASE ProcessDrafts
  <2>1. "answer" \in pending'[q]
    BY <1>0, <1>1, <1>4 DEF ProcessDrafts, Types, TypeOK
  <2>2. pc' = "route" /\ UNCHANGED <<item, doing>>
    BY <1>4 DEF ProcessDrafts
  <2>3. Cared'
    BY <2>1, <2>2 DEF Cared, InQueue
  <2> QED BY <1>2, <2>2, <2>3 DEF Busy
<1>5. CASE RouteAuto
  <2>1. /\ pc = "route" /\ pc' = "ticket" /\ UNCHANGED doing
        /\ \A k \in Questions \ {q} : item'[k] = item[k]
    BY <1>0, <1>5, <1>1 DEF RouteAuto, Deliver, Types, TypeOK
  <2>2. Cared'
    BY <1>0, <1>1, <2>1 DEF Cared
  <2> QED BY <1>2, <2>1, <2>2 DEF Busy
<1>6. CASE RouteNowhere
  <2>1. pc = "route" /\ pc' = "ticket" /\ UNCHANGED <<doing, item>>
    BY <1>6 DEF RouteNowhere
  <2>2. Cared'
    BY <1>0, <1>1, <2>1 DEF Cared
  <2> QED BY <1>2, <2>1, <2>2 DEF Busy
<1>7. CASE RouteHuman
  <2>1. /\ pc = "route" /\ UNCHANGED item
        /\ \/ pc' = "ticket" /\ UNCHANGED doing
           \/ pc' \in {"intake", "rerun"}
    BY <1>0, <1>7 DEF RouteHuman, IndInv, InHand, Busy
  <2>2. PICK k \in Questions : k = q
    BY <1>1
  <2>3. InQueue(k)'
    BY <1>0, <2>1, <2>2 DEF Cared
  <2> QED BY <1>0, <1>1, <2>1, <2>2, <2>3 DEF Cared, Excused, Busy
<1>8. CASE IssueTicket
  <2>1. pc = "ticket" /\ pc' = "mark" /\ UNCHANGED <<doing, item>>
    BY <1>8 DEF IssueTicket
  <2>2. doing.open => ticket'[q].open
    BY <1>0, <1>1, <1>8 DEF IssueTicket, Issue, Types, TypeOK
  <2>3. InQueue(q)'
    BY <1>0, <1>1, <2>1, <2>2 DEF Cared, InQueue
  <2>4. Cared'
    BY <2>1, <2>3 DEF Cared
  <2> QED BY <1>2, <2>1, <2>4 DEF Busy
<1>9. CASE MarkAwaiting
  <2>1. /\ pc = "mark" /\ pc' \in {"intake", "rerun"}
        /\ \A k \in Questions \ {q} : item'[k] = item[k]
    BY <1>0, <1>9 DEF MarkAwaiting, IndInv, InHand, Busy, Types, TypeOK
  <2>2. PICK k \in Questions : k = q
    BY <1>1
  <2>3. InQueue(k)'
    BY <1>0, <2>1, <2>2 DEF Cared
  <2> QED BY <1>0, <1>1, <2>1, <2>2, <2>3 DEF Cared, Excused, Busy
<1> QED BY <1>3, <1>4, <1>5, <1>6, <1>7, <1>8, <1>9 DEF ProcessFails

\* The others leave the worker where it is, and what they reopen is in a queue.
LEMMA OthersJob ==
  ASSUME JobInv, ~Faults, ParentNext \/ WebNext
  PROVE  Cared' /\ Excused'
<1>0. /\ IndInv /\ Types /\ Places /\ Excused /\ Cared /\ InHand
      /\ \A k \in Questions : InQueue(k) => InQueue(k)'
  BY QueueKept DEF JobInv, IndInv, Next
<1>1. UNCHANGED worker
  BY DEF ParentNext, WebNext, Ask, PersonAnswers, MarkResolved, QuietPasses,
     Judge, SendDraft, ReopenForRejected, Upgrade
<1>2. Cared'
  <2>1. pc \in Busy => doing.q \in Questions
    BY <1>0 DEF InHand
  <2> QED BY <1>0, <1>1, <2>1 DEF Cared, worker, Busy
<1>3. \A k \in Questions :
        \/ item'[k] = item[k]
        \/ item'[k].state \in Terminal
        \/ InQueue(k)'
  <2>1. CASE ParentNext
    BY <2>1 DEF ParentNext, Ask, PersonAnswers, MarkResolved, QuietPasses
  <2>2. ASSUME NEW q \in Questions, SendDraft(q)
        PROVE  InQueue(q)' /\ \A k \in Questions \ {q} : item'[k] = item[k]
    <3>1. /\ judged[q] # NoJudgement /\ judged[q].kind \in Kind
          /\ judged' = [judged EXCEPT ![q] = NoJudgement]
          /\ Deliver(q, judged[q].kind)
          /\ UNCHANGED <<pending, ticket>>
      BY <1>0, <2>2 DEF SendDraft, NoJudgement, Types, TypeOK
    <3>2. judged[q].kind = "correction" => AnswerIsOut(q)
      BY <1>0, <3>1 DEF IndInv, Corrections
    <3>3. \A k \in Questions \ {q} :
            judged'[k] = judged[k] /\ pending'[k] = pending[k]
      BY <1>0, <3>1 DEF Types, TypeOK
    <3> QED BY <1>0, <3>1, <3>2, <3>3, DeliveredQueue, DeliverGrows
  <2>3. ASSUME NEW q \in Questions, ReopenForRejected(q)
        PROVE  InQueue(q)' /\ \A k \in Questions \ {q} : item'[k] = item[k]
    <3>1. (ticket[q].open \/ TRUE) = TRUE
      OBVIOUS
    <3>2. /\ ticket' = [ticket EXCEPT ![q] = [any |-> TRUE, open |-> TRUE]]
          /\ item' = [item EXCEPT ![q].state = "awaiting_human"]
      BY <1>0, <2>3, <3>1 DEF ReopenForRejected, Issue, Types, TypeOK
    <3> QED BY <1>0, <3>2 DEF InQueue, Types, TypeOK
  <2>4. ASSUME NEW q \in Questions, Upgrade(q)
        PROVE  /\ item'[q].state \in Terminal
               /\ \A k \in Questions \ {q} : item'[k] = item[k]
    BY <1>0, <2>4 DEF Upgrade, Terminal, Types, TypeOK
  <2>5. ASSUME NEW q \in Questions, NEW kind \in Kind,
               NEW act \in {"send", "reopen"}, Judge(q, kind, act)
        PROVE  UNCHANGED item
    BY <2>5 DEF Judge
  <2> QED BY <2>1, <2>2, <2>3, <2>4, <2>5 DEF WebNext
<1>4. Excused'
  BY <1>0, <1>1, <1>3 DEF Excused, worker
<1> QED BY <1>2, <1>4

\* Every step leaves every question somebody's job.
LEMMA NextJobInv ==
  ASSUME JobInv, ~Faults, [Next]_vars
  PROVE  JobInv'
<1>1. IndInv'
  BY NextIndInv DEF JobInv
<1>2. CASE ParentNext \/ WebNext
  BY <1>1, <1>2, OthersJob DEF JobInv
<1>3. CASE WorkerNext
  BY <1>1, <1>3, TakesUp, InHandGoesOn DEF WorkerNext, JobInv
<1>4. CASE UNCHANGED vars
  BY <1>1, <1>4 DEF JobInv, vars, Cared, Excused, InQueue, Answered
<1> QED BY <1>2, <1>3, <1>4 DEF Next

\* While no collection, processing or delivery fails, an admitted question that
\* nobody has answered is in some queue: a draft in Q2, an open ticket, a web
\* thread at it, or the worker (intake.process and rerun, q2_decide).
THEOREM SomeonesJob == ~Faults => (Spec => []UnansweredIsSomeonesJob)
<1> SUFFICES ASSUME ~Faults PROVE Spec => []UnansweredIsSomeonesJob
  OBVIOUS
<1>1. Init => JobInv
  <2> SUFFICES ASSUME Init PROVE JobInv
    OBVIOUS
  <2> QED BY InitIndInv DEF JobInv, Init, Cared, Excused
<1>2. JobInv /\ [Next]_vars => JobInv'
  BY NextJobInv
<1>3. JobInv => UnansweredIsSomeonesJob
  BY DEF JobInv, Excused, InQueue, UnansweredIsSomeonesJob
<1> QED BY <1>1, <1>2, <1>3, PTL DEF Spec

=============================================================================
