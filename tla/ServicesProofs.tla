--------------------------- MODULE ServicesProofs ---------------------------
(* Four parts that stand beside the others: retention, the alerts, the screen *)
(* of the endpoint and the way of one question.                               *)
(*                                                                            *)
(* What waits for a person keeps its text, and what may become knowledge was  *)
(* read before its text went.  The webhook is told of a situation once.  The  *)
(* file of the harness agrees with the row of the screen or the page said     *)
(* that it does not.  What goes out by itself is backed by what was found,    *)
(* and a question is turned away only where nothing is known about it.        *)
EXTENDS Retention, Alerts, Endpoint, Answer,
        FiniteSetTheorems, SequenceTheorems, TLAPS

-----------------------------------------------------------------------------
(* Retention *)

-----------------------------------------------------------------------------
(* The order of the tick *)

After == [collect |-> "adopt", adopt |-> "settle", settle |-> "promote",
          promote |-> "sample", sample |-> "draft", draft |-> "ingest",
          ingest |-> "expire", expire |-> "delete", delete |-> "collect"]

\* The tick has nine places, in this order.
LEMMA StepsAre ==
  /\ Len(Steps) = 9
  /\ Steps[1] = "collect" /\ Steps[2] = "adopt" /\ Steps[3] = "settle"
  /\ Steps[4] = "promote" /\ Steps[5] = "sample" /\ Steps[6] = "draft"
  /\ Steps[7] = "ingest" /\ Steps[8] = "expire" /\ Steps[9] = "delete"
  BY DEF Steps

\* A step of the worker is taken at its place and leads to the next one.
LEMMA StepFollows ==
  ASSUME NEW s \in DOMAIN After, Runs(s)
  PROVE  step = s /\ step' = After[s]
<1>1. PICK k \in 1 .. 9 : s = Steps[k] /\ step = s /\ step' = Steps[(k % 9) + 1]
  BY StepsAre DEF Runs
<1>2. k \in {1, 2, 3, 4, 5, 6, 7, 8, 9}
  BY <1>1
<1>3. (k % 9) + 1 = IF k = 9 THEN 1 ELSE k + 1
  BY <1>2
<1>4. QED
  BY <1>1, <1>2, <1>3, StepsAre DEF After

-----------------------------------------------------------------------------
(* The inductive invariant *)

\* What is silently resolved was closed without a draft that waits, and is not
\* opened again; what was upgraded is explicit.
Silent ==
  \A i \in Items :
    /\ item[i].upgraded => item[i].grade = "explicit"
    /\ item[i].grade = "implicit" \/ item[i].upgraded
         => item[i].state = "resolved" /\ draft[i] # "pending"

\* An answer that went out and has no resolution yet.
Undrafted(i) == draft[i] = "approved" /\ res[i] = "none"

\* When the model answers, an undrafted answer has its text: once the tick has
\* drafted, only answers that went out since, on items open again, are left.
DraftedInTime ==
  llm = "up" => \A i \in Items : Undrafted(i) =>
    /\ raw[i]
    /\ ticket[i] = "auto_closed"
    /\ step \in {"ingest", "expire", "delete", "collect"} => item[i].state = "open"

\* Once the ingest of the tick is over, what may be read was read, or left by
\* it, or is open again.
ReadInTime ==
  \A i \in Items :
    raw[i] /\ Ingestible(i) /\ ~item[i].upgraded /\ step \in {"expire", "delete"}
      => read[i] \/ i \in left \/ item[i].state = "open"

\* Nothing that happens between the list and the deletion makes an item one
\* that is still needed.
TargetsAreDone ==
  /\ step # "delete" => targets = {}
  /\ \A i \in targets :
       /\ item[i].grade # "implicit"
       /\ draft[i] # "pending"
       /\ res[i] \notin {"drafted", "confirmed"}
       /\ llm = "up" => ~Undrafted(i)
       /\ raw[i] /\ Ingestible(i) /\ ~item[i].upgraded
            => read[i] \/ i \in left

IndInv ==
  /\ TypeOK /\ Silent /\ DraftedInTime /\ ReadInTime /\ TargetsAreDone
  /\ WaitingHasText

\* The rows of qna_item.
Row == [state : {"open"} \union Terminal,
        grade : {"none", "implicit", "explicit"},
        old : BOOLEAN, upgraded : BOOLEAN, asker : BOOLEAN]

\* The places of the tick are those with a next one.
LEMMA StepsRange == {Steps[k] : k \in 1 .. Len(Steps)} = DOMAIN After
<1>1. 1 .. 9 = {1, 2, 3, 4, 5, 6, 7, 8, 9}
  OBVIOUS
<1>2. QED
  BY <1>1, StepsAre DEF After

\* At the start everything has its text.
LEMMA InitHolds == Init => IndInv
<1> SUFFICES ASSUME Init PROVE IndInv
  OBVIOUS
<1>1. TypeOK
  <2>1. room \in 0 .. SampleSize
    BY RetentionAssumption DEF Init
  <2>2. step \in {Steps[k] : k \in 1 .. Len(Steps)}
    BY StepsRange DEF Init, After
  <2>3. QED
    BY <2>1, <2>2 DEF Init, TypeOK
<1>2. Silent /\ DraftedInTime /\ ReadInTime /\ TargetsAreDone
  BY DEF Init, Silent, DraftedInTime, Undrafted, ReadInTime, TargetsAreDone
<1>3. WaitingHasText
  BY DEF Init, WaitingHasText
<1>4. QED
  BY <1>1, <1>2, <1>3 DEF IndInv

-----------------------------------------------------------------------------

\* Time only makes what is closed old.
LEMMA GetsOldKeeps ==
  ASSUME IndInv, NEW i \in Items, GetsOld(i)
  PROVE  IndInv'
<1>1. TypeOK'
  <2>1. item \in [Items -> Row]
    BY DEF IndInv, TypeOK, Row
  <2>2. item' \in [Items -> Row]
    BY <2>1 DEF GetsOld, Row, Terminal
  <2>3. QED
    BY <2>2, StepsRange DEF GetsOld, IndInv, texts, work, audit, TypeOK,
       Row, After
<1>2. Silent'
  BY DEF GetsOld, IndInv, texts, work, audit, TypeOK, Silent
<1>3. DraftedInTime'
  BY DEF GetsOld, IndInv, texts, work, audit, TypeOK, Silent, DraftedInTime,
     Undrafted, WaitingHasText
<1>4. ReadInTime'
  BY DEF GetsOld, IndInv, texts, work, audit, TypeOK, Silent, ReadInTime,
     Ingestible
<1>5. TargetsAreDone'
  BY DEF GetsOld, IndInv, texts, work, audit, TypeOK, Silent, TargetsAreDone,
     Undrafted, Ingestible
<1>6. WaitingHasText'
  BY DEF GetsOld, IndInv, texts, work, audit, TypeOK, Silent, WaitingHasText,
     DraftedInTime, Undrafted, TargetsAreDone
<1>7. QED
  BY <1>1, <1>2, <1>3, <1>4, <1>5, <1>6 DEF IndInv

\* The mark counts only once it was collected.
LEMMA MarkResolvedKeeps ==
  ASSUME IndInv, NEW i \in Items, MarkResolved(i)
  PROVE  IndInv'
<1>1. TypeOK'
  BY StepsRange DEF MarkResolved, IndInv, work, audit, TypeOK, After
<1>2. Silent'
  BY DEF MarkResolved, IndInv, work, audit, TypeOK, Silent
<1>3. DraftedInTime'
  BY DEF MarkResolved, IndInv, work, audit, TypeOK, Silent, DraftedInTime,
     Undrafted, WaitingHasText
<1>4. ReadInTime'
  BY DEF MarkResolved, IndInv, work, audit, TypeOK, Silent, ReadInTime,
     Ingestible
<1>5. TargetsAreDone'
  BY DEF MarkResolved, IndInv, work, audit, TypeOK, Silent, TargetsAreDone,
     Undrafted, Ingestible
<1>6. WaitingHasText'
  BY DEF MarkResolved, IndInv, work, audit, TypeOK, Silent, WaitingHasText,
     DraftedInTime, Undrafted, TargetsAreDone
<1>7. QED
  BY <1>1, <1>2, <1>3, <1>4, <1>5, <1>6 DEF IndInv

\* What waited has its text, and is open again when it goes out.
LEMMA ApproveDraftKeeps ==
  ASSUME IndInv, NEW i \in Items, ApproveDraft(i)
  PROVE  IndInv'
<1>1. TypeOK'
  <2>1. item \in [Items -> Row]
    BY DEF IndInv, TypeOK, Row
  <2>2. item' \in [Items -> Row]
    BY <2>1 DEF ApproveDraft, Row, Terminal
  <2>3. QED
    BY <2>2, StepsRange DEF ApproveDraft, IndInv, audit, TypeOK, Row, After
<1>2. Silent'
  BY DEF ApproveDraft, IndInv, audit, TypeOK, Silent
<1>3. DraftedInTime'
  BY DEF ApproveDraft, IndInv, audit, TypeOK, Silent, DraftedInTime,
     Undrafted, WaitingHasText
<1>4. ReadInTime'
  BY DEF ApproveDraft, IndInv, audit, TypeOK, Silent, ReadInTime, Ingestible
<1>5. TargetsAreDone'
  BY DEF ApproveDraft, IndInv, audit, TypeOK, Silent, TargetsAreDone,
     Undrafted, Ingestible
<1>6. WaitingHasText'
  BY DEF ApproveDraft, IndInv, audit, TypeOK, Silent, WaitingHasText,
     DraftedInTime, Undrafted, TargetsAreDone
<1>7. QED
  BY <1>1, <1>2, <1>3, <1>4, <1>5, <1>6 DEF IndInv

\* Rejected, it is open again and never went out.
LEMMA RejectDraftKeeps ==
  ASSUME IndInv, NEW i \in Items, RejectDraft(i)
  PROVE  IndInv'
<1>1. TypeOK'
  <2>1. item \in [Items -> Row]
    BY DEF IndInv, TypeOK, Row
  <2>2. item' \in [Items -> Row]
    BY <2>1 DEF RejectDraft, Row, Terminal
  <2>3. QED
    BY <2>2, StepsRange DEF RejectDraft, IndInv, texts, audit, TypeOK, Row,
       After
<1>2. Silent'
  BY DEF RejectDraft, IndInv, texts, audit, TypeOK, Silent
<1>3. DraftedInTime'
  BY DEF RejectDraft, IndInv, texts, audit, TypeOK, Silent, DraftedInTime,
     Undrafted, WaitingHasText
<1>4. ReadInTime'
  BY DEF RejectDraft, IndInv, texts, audit, TypeOK, Silent, ReadInTime,
     Ingestible
<1>5. TargetsAreDone'
  BY DEF RejectDraft, IndInv, texts, audit, TypeOK, Silent, TargetsAreDone,
     Undrafted, Ingestible
<1>6. WaitingHasText'
  BY DEF RejectDraft, IndInv, texts, audit, TypeOK, Silent, WaitingHasText,
     DraftedInTime, Undrafted, TargetsAreDone
<1>7. QED
  BY <1>1, <1>2, <1>3, <1>4, <1>5, <1>6 DEF IndInv

\* A pasted answer only adds text.
LEMMA AttachKeeps ==
  ASSUME IndInv, NEW i \in Items, Attach(i)
  PROVE  IndInv'
<1>1. TypeOK'
  BY StepsRange DEF Attach, IndInv, work, audit, TypeOK, After
<1>2. Silent'
  BY DEF Attach, IndInv, work, audit, TypeOK, Silent
<1>3. DraftedInTime'
  BY DEF Attach, IndInv, work, audit, TypeOK, Silent, DraftedInTime,
     Undrafted, WaitingHasText
<1>4. ReadInTime'
  BY DEF Attach, IndInv, work, audit, TypeOK, Silent, ReadInTime, Ingestible
<1>5. TargetsAreDone'
  BY DEF Attach, IndInv, work, audit, TypeOK, Silent, TargetsAreDone,
     Undrafted, Ingestible
<1>6. WaitingHasText'
  BY DEF Attach, IndInv, work, audit, TypeOK, Silent, WaitingHasText,
     DraftedInTime, Undrafted, TargetsAreDone
<1>7. QED
  BY <1>1, <1>2, <1>3, <1>4, <1>5, <1>6 DEF IndInv

\* What was silent has its text; upgraded, it is not read in time for sure.
LEMMA UpgradeKeeps ==
  ASSUME IndInv, NEW i \in Items, Upgrade(i)
  PROVE  IndInv'
<1>1. TypeOK'
  <2>1. item \in [Items -> Row]
    BY DEF IndInv, TypeOK, Row
  <2>2. item' \in [Items -> Row]
    BY <2>1 DEF Upgrade, Row, Terminal
  <2>3. QED
    BY <2>2, StepsRange DEF Upgrade, IndInv, texts, work, audit, TypeOK,
       Row, After
<1>2. Silent'
  BY DEF Upgrade, IndInv, texts, work, audit, TypeOK, Silent
<1>3. DraftedInTime'
  BY DEF Upgrade, IndInv, texts, work, audit, TypeOK, Silent, DraftedInTime,
     Undrafted, WaitingHasText
<1>4. ReadInTime'
  BY DEF Upgrade, IndInv, texts, work, audit, TypeOK, Silent, ReadInTime,
     Ingestible
<1>5. TargetsAreDone'
  BY DEF Upgrade, IndInv, texts, work, audit, TypeOK, Silent, TargetsAreDone,
     Undrafted, Ingestible
<1>6. WaitingHasText'
  BY DEF Upgrade, IndInv, texts, work, audit, TypeOK, Silent, WaitingHasText,
     DraftedInTime, Undrafted, TargetsAreDone
<1>7. QED
  BY <1>1, <1>2, <1>3, <1>4, <1>5, <1>6 DEF IndInv

\* What waits in Q1 or Q7 waited before; a target waits nowhere.
LEMMA ConfirmKeeps ==
  ASSUME IndInv, NEW i \in Items, Confirm(i)
  PROVE  IndInv'
<1>1. TypeOK'
  BY StepsRange DEF Confirm, IndInv, texts, audit, TypeOK, After
<1>2. Silent'
  BY DEF Confirm, IndInv, texts, audit, TypeOK, Silent
<1>3. DraftedInTime'
  BY DEF Confirm, IndInv, texts, audit, TypeOK, Silent, DraftedInTime,
     Undrafted, WaitingHasText
<1>4. ReadInTime'
  BY DEF Confirm, IndInv, texts, audit, TypeOK, Silent, ReadInTime, Ingestible
<1>5. TargetsAreDone'
  BY DEF Confirm, IndInv, texts, audit, TypeOK, Silent, TargetsAreDone,
     Undrafted, Ingestible
<1>6. WaitingHasText'
  BY DEF Confirm, IndInv, texts, audit, TypeOK, Silent, WaitingHasText,
     DraftedInTime, Undrafted, TargetsAreDone
<1>7. QED
  BY <1>1, <1>2, <1>3, <1>4, <1>5, <1>6 DEF IndInv

\* Declined, it waits no more.
LEMMA DeclineKeeps ==
  ASSUME IndInv, NEW i \in Items, Decline(i)
  PROVE  IndInv'
<1>1. TypeOK'
  BY StepsRange DEF Decline, IndInv, texts, audit, TypeOK, After
<1>2. Silent'
  BY DEF Decline, IndInv, texts, audit, TypeOK, Silent
<1>3. DraftedInTime'
  BY DEF Decline, IndInv, texts, audit, TypeOK, Silent, DraftedInTime,
     Undrafted, WaitingHasText
<1>4. ReadInTime'
  BY DEF Decline, IndInv, texts, audit, TypeOK, Silent, ReadInTime, Ingestible
<1>5. TargetsAreDone'
  BY DEF Decline, IndInv, texts, audit, TypeOK, Silent, TargetsAreDone,
     Undrafted, Ingestible
<1>6. WaitingHasText'
  BY DEF Decline, IndInv, texts, audit, TypeOK, Silent, WaitingHasText,
     DraftedInTime, Undrafted, TargetsAreDone
<1>7. QED
  BY <1>1, <1>2, <1>3, <1>4, <1>5, <1>6 DEF IndInv

\* A sample says nothing of texts.
LEMMA DecideKeeps ==
  ASSUME IndInv, NEW s \in Points \X Items, Decide(s)
  PROVE  IndInv'
<1>1. TypeOK'
  BY StepsRange DEF Decide, IndInv, texts, work, TypeOK, After
<1>2. Silent'
  BY DEF Decide, IndInv, texts, work, TypeOK, Silent
<1>3. DraftedInTime'
  BY DEF Decide, IndInv, texts, work, TypeOK, Silent, DraftedInTime,
     Undrafted, WaitingHasText
<1>4. ReadInTime'
  BY DEF Decide, IndInv, texts, work, TypeOK, Silent, ReadInTime, Ingestible
<1>5. TargetsAreDone'
  BY DEF Decide, IndInv, texts, work, TypeOK, Silent, TargetsAreDone,
     Undrafted, Ingestible
<1>6. WaitingHasText'
  BY DEF Decide, IndInv, texts, work, TypeOK, Silent, WaitingHasText,
     DraftedInTime, Undrafted, TargetsAreDone
<1>7. QED
  BY <1>1, <1>2, <1>3, <1>4, <1>5, <1>6 DEF IndInv

\* Nor does the period.
LEMMA PeriodPassesKeeps ==
  ASSUME IndInv, PeriodPasses
  PROVE  IndInv'
<1>1. TypeOK'
  BY StepsRange DEF PeriodPasses, IndInv, texts, work, TypeOK, After
<1>2. Silent'
  BY DEF PeriodPasses, IndInv, texts, work, TypeOK, Silent
<1>3. DraftedInTime'
  BY DEF PeriodPasses, IndInv, texts, work, TypeOK, Silent, DraftedInTime,
     Undrafted, WaitingHasText
<1>4. ReadInTime'
  BY DEF PeriodPasses, IndInv, texts, work, TypeOK, Silent, ReadInTime,
     Ingestible
<1>5. TargetsAreDone'
  BY DEF PeriodPasses, IndInv, texts, work, TypeOK, Silent, TargetsAreDone,
     Undrafted, Ingestible
<1>6. WaitingHasText'
  BY DEF PeriodPasses, IndInv, texts, work, TypeOK, Silent, WaitingHasText,
     DraftedInTime, Undrafted, TargetsAreDone
<1>7. QED
  BY <1>1, <1>2, <1>3, <1>4, <1>5, <1>6 DEF IndInv

\* What is collected from has its text, and the tick has still to read.
LEMMA CollectKeeps ==
  ASSUME IndInv, Collect
  PROVE  IndInv'
<1> step = "collect" /\ step' = "adopt"
  BY StepFollows DEF Collect, After
<1>1. TypeOK'
  <2>1. step' \in {Steps[k] : k \in 1 .. Len(Steps)}
    BY StepsRange DEF After
  <2>2. QED
    BY <2>1 DEF Collect, IndInv, work, audit, TypeOK
<1>2. Silent'
  BY DEF Collect, IndInv, work, audit, TypeOK, Silent
<1>3. DraftedInTime'
  BY DEF Collect, IndInv, work, audit, TypeOK, Silent, DraftedInTime,
     Undrafted, WaitingHasText
<1>4. ReadInTime'
  BY DEF Collect, IndInv, work, audit, TypeOK, Silent, ReadInTime, Ingestible
<1>5. TargetsAreDone'
  BY DEF Collect, IndInv, work, audit, TypeOK, Silent, TargetsAreDone,
     Undrafted, Ingestible
<1>6. WaitingHasText'
  BY DEF Collect, IndInv, work, audit, TypeOK, Silent, WaitingHasText,
     DraftedInTime, Undrafted, TargetsAreDone
<1>7. QED
  BY <1>1, <1>2, <1>3, <1>4, <1>5, <1>6 DEF IndInv

\* The asker closes the item, and the tick has still to draft and to read.
LEMMA AdoptExplicitKeeps ==
  ASSUME IndInv, AdoptExplicit
  PROVE  IndInv'
<1> step = "adopt" /\ step' = "settle"
  BY StepFollows DEF AdoptExplicit, After
<1>1. TypeOK'
  <2>1. item \in [Items -> Row]
    BY DEF IndInv, TypeOK, Row
  <2>2. item' \in [Items -> Row]
    BY <2>1 DEF AdoptExplicit, Row, Terminal
  <2>3. step' \in {Steps[k] : k \in 1 .. Len(Steps)}
    BY StepsRange DEF After
  <2>4. QED
    BY <2>2, <2>3 DEF AdoptExplicit, IndInv, texts, work, audit, TypeOK, Row
<1>2. Silent'
  <2> SUFFICES ASSUME NEW j \in Items
               PROVE  /\ item'[j].upgraded => item'[j].grade = "explicit"
                      /\ item'[j].grade = "implicit" \/ item'[j].upgraded
                           => item'[j].state = "resolved" /\ draft'[j] # "pending"
    BY DEF Silent
  <2>1. item[j] \in Row
    BY DEF IndInv, TypeOK, Row
  <2>2. \/ item'[j] = item[j]
        \/ item'[j] = [item[j] EXCEPT !.state = "resolved", !.grade = "explicit"]
    BY DEF AdoptExplicit
  <2>3. QED
    BY <2>1, <2>2 DEF AdoptExplicit, IndInv, Silent, work, Row
<1>3. DraftedInTime'
  BY DEF AdoptExplicit, IndInv, texts, work, audit, TypeOK, Silent,
     DraftedInTime, Undrafted, WaitingHasText
<1>4. ReadInTime'
  BY DEF AdoptExplicit, IndInv, texts, work, audit, TypeOK, Silent,
     ReadInTime, Ingestible
<1>5. TargetsAreDone'
  BY DEF AdoptExplicit, IndInv, texts, work, audit, TypeOK, Silent,
     TargetsAreDone, Undrafted, Ingestible
<1>6. WaitingHasText'
  BY DEF AdoptExplicit, IndInv, texts, work, audit, TypeOK, Silent,
     WaitingHasText, DraftedInTime, Undrafted, TargetsAreDone
<1>7. QED
  BY <1>1, <1>2, <1>3, <1>4, <1>5, <1>6 DEF IndInv

\* So it is with silence, which closes only what has its text.
LEMMA SettleQuietKeeps ==
  ASSUME IndInv, SettleQuiet
  PROVE  IndInv'
<1> step = "settle" /\ step' = "promote"
  BY StepFollows DEF SettleQuiet, After
<1> DEFINE Resolved(j) == [item[j] EXCEPT !.state = "resolved",
                                          !.grade = "implicit", !.old = FALSE]
           Closed(j) == [item[j] EXCEPT !.state = "unresolved_closed",
                                        !.grade = "none", !.old = FALSE]
<1>0. /\ item' = [j \in Items |-> item'[j]]
      /\ \A j \in Items : \/ item'[j] = item[j]
                          \/ Quiet(j) /\ item'[j] \in {Resolved(j), Closed(j)}
  BY DEF SettleQuiet
<1>1. TypeOK'
  <2>1. item \in [Items -> Row]
    BY DEF IndInv, TypeOK, Row
  <2>2. item' \in [Items -> Row]
    <3>1. ASSUME NEW j \in Items PROVE item'[j] \in Row
      <4>1. item[j] \in Row
        BY <2>1
      <4>2. Resolved(j) \in Row /\ Closed(j) \in Row
        BY <4>1 DEF Row, Terminal
      <4>3. QED
        BY <4>1, <4>2, <1>0
    <3>2. QED
      BY <3>1, <1>0
  <2>3. step' \in {Steps[k] : k \in 1 .. Len(Steps)}
    BY StepsRange DEF After
  <2>4. QED
    BY <2>2, <2>3 DEF SettleQuiet, IndInv, texts, work, audit, TypeOK, Row
<1>2. Silent'
  <2> SUFFICES ASSUME NEW j \in Items
               PROVE  /\ item'[j].upgraded => item'[j].grade = "explicit"
                      /\ item'[j].grade = "implicit" \/ item'[j].upgraded
                           => item'[j].state = "resolved" /\ draft'[j] # "pending"
    BY DEF Silent
  <2>1. item[j] \in Row
    BY DEF IndInv, TypeOK, Row
  <2>2. Quiet(j) => ~item[j].upgraded
    BY DEF Quiet, IndInv, Silent
  <2>3. QED
    <3>1. CASE item'[j] = item[j]
      BY <3>1 DEF SettleQuiet, IndInv, Silent, work
    <3>2. CASE Quiet(j) /\ item'[j] = Resolved(j)
      BY <3>2, <2>1, <2>2 DEF SettleQuiet, Quiet, work, Row
    <3>3. CASE Quiet(j) /\ item'[j] = Closed(j)
      BY <3>3, <2>1, <2>2 DEF Row
    <3>4. QED
      BY <3>1, <3>2, <3>3, <1>0
<1>3. DraftedInTime'
  BY DEF SettleQuiet, IndInv, texts, work, audit, TypeOK, Silent,
     DraftedInTime, Undrafted, WaitingHasText, Quiet
<1>4. ReadInTime'
  BY DEF SettleQuiet, IndInv, texts, work, audit, TypeOK, Silent, ReadInTime,
     Ingestible, Quiet
<1>5. TargetsAreDone'
  BY DEF SettleQuiet, IndInv, texts, work, audit, TypeOK, Silent,
     TargetsAreDone, Undrafted, Ingestible, Quiet
<1>6. WaitingHasText'
  <2>1. \A j \in Items : item'[j].grade = "implicit" => raw[j]
    BY ZenonT(40), <1>0 DEF Quiet, IndInv, TypeOK, WaitingHasText
  <2>2. QED
    BY <2>1 DEF SettleQuiet, IndInv, texts, work, audit, TypeOK, WaitingHasText
<1>7. QED
  BY <1>1, <1>2, <1>3, <1>4, <1>5, <1>6 DEF IndInv

\* The gate takes resolutions from the queue.
LEMMA PromoteByGateKeeps ==
  ASSUME IndInv, PromoteByGate
  PROVE  IndInv'
<1> step = "promote" /\ step' = "sample"
  BY StepFollows DEF PromoteByGate, After
<1>1. TypeOK'
  <2>1. step' \in {Steps[k] : k \in 1 .. Len(Steps)}
    BY StepsRange DEF After
  <2>2. QED
    BY <2>1 DEF PromoteByGate, IndInv, texts, audit, TypeOK
<1>2. Silent'
  BY DEF PromoteByGate, IndInv, texts, audit, TypeOK, Silent
<1>3. DraftedInTime'
  BY DEF PromoteByGate, IndInv, texts, audit, TypeOK, Silent, DraftedInTime,
     Undrafted, WaitingHasText
<1>4. ReadInTime'
  BY DEF PromoteByGate, IndInv, texts, audit, TypeOK, Silent, ReadInTime,
     Ingestible
<1>5. TargetsAreDone'
  BY DEF PromoteByGate, IndInv, texts, audit, TypeOK, Silent,
     TargetsAreDone, Undrafted, Ingestible
<1>6. WaitingHasText'
  BY DEF PromoteByGate, IndInv, texts, audit, TypeOK, Silent,
     WaitingHasText, DraftedInTime, Undrafted, TargetsAreDone
<1>7. QED
  BY <1>1, <1>2, <1>3, <1>4, <1>5, <1>6 DEF IndInv

\* The sample says nothing of texts.
LEMMA SampleRecheckKeeps ==
  ASSUME IndInv, SampleRecheck
  PROVE  IndInv'
<1> step = "sample" /\ step' = "draft"
  BY StepFollows DEF SampleRecheck, After
<1>1. TypeOK'
  <2>1. step' \in {Steps[k] : k \in 1 .. Len(Steps)}
    BY StepsRange DEF After
  <2>2. sample' \in [Points \X Items -> {"none", "pending", "decided"}]
    BY DEF SampleRecheck, IndInv, audit, TypeOK
  <2>3. due' \in BOOLEAN /\ room' \in 0 .. SampleSize
    BY DEF SampleRecheck, IndInv, audit, TypeOK
  <2>4. QED
    BY <2>1, <2>2, <2>3 DEF SampleRecheck, IndInv, texts, work, TypeOK
<1>2. Silent'
  BY DEF SampleRecheck, IndInv, texts, work, TypeOK, Silent, FirstByRisk
<1>3. DraftedInTime'
  BY DEF SampleRecheck, IndInv, texts, work, TypeOK, Silent, DraftedInTime,
     Undrafted, WaitingHasText, FirstByRisk
<1>4. ReadInTime'
  BY DEF SampleRecheck, IndInv, texts, work, TypeOK, Silent, ReadInTime,
     Ingestible, FirstByRisk
<1>5. TargetsAreDone'
  BY DEF SampleRecheck, IndInv, texts, work, TypeOK, Silent, TargetsAreDone,
     Undrafted, Ingestible, FirstByRisk
<1>6. WaitingHasText'
  BY DEF SampleRecheck, IndInv, texts, work, TypeOK, Silent, WaitingHasText,
     DraftedInTime, Undrafted, TargetsAreDone, FirstByRisk
<1>7. QED
  BY <1>1, <1>2, <1>3, <1>4, <1>5, <1>6 DEF IndInv

\* With a model that answers nothing is left undrafted.
LEMMA DraftResolutionsKeeps ==
  ASSUME IndInv, DraftResolutions
  PROVE  IndInv'
<1> step = "draft" /\ step' = "ingest"
  BY StepFollows DEF DraftResolutions, After
<1>1. TypeOK'
  <2>1. step' \in {Steps[k] : k \in 1 .. Len(Steps)}
    BY StepsRange DEF After
  <2>2. QED
    BY <2>1, RetentionAssumption
    DEF DraftResolutions, IndInv, texts, audit, TypeOK, AskedAbout
<1>2. Silent'
  BY DEF DraftResolutions, IndInv, texts, audit, TypeOK, Silent, AskedAbout,
     AwaitsDraft
<1>3. DraftedInTime'
  BY DEF DraftResolutions, IndInv, texts, audit, TypeOK, Silent,
     DraftedInTime, Undrafted, WaitingHasText, AskedAbout, AwaitsDraft
<1>4. ReadInTime'
  BY DEF DraftResolutions, IndInv, texts, audit, TypeOK, Silent, ReadInTime,
     Ingestible, AskedAbout, AwaitsDraft
<1>5. TargetsAreDone'
  BY DEF DraftResolutions, IndInv, texts, audit, TypeOK, Silent,
     TargetsAreDone, Undrafted, Ingestible, AskedAbout, AwaitsDraft
<1>6. WaitingHasText'
  BY DEF DraftResolutions, IndInv, texts, audit, TypeOK, Silent,
     WaitingHasText, DraftedInTime, Undrafted, TargetsAreDone, AskedAbout,
     AwaitsDraft
<1>7. QED
  BY <1>1, <1>2, <1>3, <1>4, <1>5, <1>6 DEF IndInv

\* What could be read was read or left.
LEMMA IngestKeeps ==
  ASSUME IndInv, Ingest
  PROVE  IndInv'
<1> step = "ingest" /\ step' = "expire"
  BY StepFollows DEF Ingest, After
<1>1. TypeOK'
  <2>1. step' \in {Steps[k] : k \in 1 .. Len(Steps)}
    BY StepsRange DEF After
  <2>2. QED
    BY <2>1 DEF Ingest, IndInv, work, audit, TypeOK
<1>2. Silent'
  BY DEF Ingest, IndInv, work, audit, TypeOK, Silent
<1>3. DraftedInTime'
  BY DEF Ingest, IndInv, work, audit, TypeOK, Silent, DraftedInTime,
     Undrafted, WaitingHasText
<1>4. ReadInTime'
  BY DEF Ingest, IndInv, work, audit, TypeOK, Silent, ReadInTime,
     Ingestible
<1>5. TargetsAreDone'
  BY DEF Ingest, IndInv, work, audit, TypeOK, Silent, TargetsAreDone,
     Undrafted, Ingestible
<1>6. WaitingHasText'
  BY DEF Ingest, IndInv, work, audit, TypeOK, Silent, WaitingHasText,
     DraftedInTime, Undrafted, TargetsAreDone
<1>7. QED
  BY <1>1, <1>2, <1>3, <1>4, <1>5, <1>6 DEF IndInv

\* What is listed is closed: drafted, read, and waits nowhere.
LEMMA ListExpirableKeeps ==
  ASSUME IndInv, ListExpirable
  PROVE  IndInv'
<1> step = "expire" /\ step' = "delete"
  BY StepFollows DEF ListExpirable, After
<1>1. TypeOK'
  <2>1. step' \in {Steps[k] : k \in 1 .. Len(Steps)}
    BY StepsRange DEF After
  <2>2. QED
    BY <2>1 DEF ListExpirable, IndInv, texts, work, audit, TypeOK, Expirable
<1>2. Silent'
  BY DEF ListExpirable, IndInv, texts, work, audit, TypeOK, Silent,
     Expirable, Finished, Terminal
<1>3. DraftedInTime'
  BY DEF ListExpirable, IndInv, texts, work, audit, TypeOK, Silent,
     DraftedInTime, Undrafted, WaitingHasText, Expirable, Finished, Terminal
<1>4. ReadInTime'
  BY DEF ListExpirable, IndInv, texts, work, audit, TypeOK, Silent,
     ReadInTime, Ingestible, Expirable, Finished, Terminal
<1>5. TargetsAreDone'
  BY DEF ListExpirable, IndInv, texts, work, audit, TypeOK, DraftedInTime,
     ReadInTime, TargetsAreDone, Undrafted, Ingestible, Expirable, Finished,
     Terminal
<1>6. WaitingHasText'
  BY DEF ListExpirable, IndInv, texts, work, audit, TypeOK, Silent,
     WaitingHasText, DraftedInTime, Undrafted, TargetsAreDone, Expirable,
     Finished, Terminal
<1>7. QED
  BY <1>1, <1>2, <1>3, <1>4, <1>5, <1>6 DEF IndInv

\* What was listed is still so when its texts are deleted.
LEMMA ExpireKeeps ==
  ASSUME IndInv, Expire
  PROVE  IndInv'
<1> step = "delete" /\ step' = "collect"
  BY StepFollows DEF Expire, After
<1>1. TypeOK'
  <2>1. item \in [Items -> Row]
    BY DEF IndInv, TypeOK, Row
  <2>2. item' \in [Items -> Row]
    BY <2>1 DEF Expire, Row, Terminal
  <2>3. step' \in {Steps[k] : k \in 1 .. Len(Steps)}
    BY StepsRange DEF After
  <2>4. QED
    BY <2>2, <2>3 DEF Expire, IndInv, work, audit, TypeOK, Row
<1>2. Silent'
  BY DEF Expire, IndInv, work, audit, TypeOK, Silent
<1>3. DraftedInTime'
  BY DEF Expire, IndInv, work, audit, TypeOK, TargetsAreDone, DraftedInTime,
     Undrafted, WaitingHasText
<1>4. ReadInTime'
  BY DEF Expire, IndInv, work, audit, TypeOK, Silent, ReadInTime, Ingestible
<1>5. TargetsAreDone'
  BY DEF Expire, IndInv, work, audit, TypeOK, Silent, TargetsAreDone,
     Undrafted, Ingestible
<1>6. WaitingHasText'
  BY DEF Expire, IndInv, work, audit, TypeOK, Silent, WaitingHasText,
     DraftedInTime, Undrafted, TargetsAreDone
<1>7. QED
  BY <1>1, <1>2, <1>3, <1>4, <1>5, <1>6 DEF IndInv

\* Every step of people, of the worker and of time keeps the invariant.
LEMMA NextKeeps == IndInv /\ [Next]_vars => IndInv'
<1> SUFFICES ASSUME IndInv, [Next]_vars
             PROVE  IndInv'
  OBVIOUS
<1>1. CASE People
  BY <1>1, MarkResolvedKeeps, ApproveDraftKeeps, RejectDraftKeeps,
     AttachKeeps, UpgradeKeeps, ConfirmKeeps, DeclineKeeps, DecideKeeps DEF
     People
<1>2. CASE Tick
  BY <1>2, CollectKeeps, AdoptExplicitKeeps, SettleQuietKeeps,
     PromoteByGateKeeps, SampleRecheckKeeps, DraftResolutionsKeeps,
     IngestKeeps, ListExpirableKeeps, ExpireKeeps DEF Tick
<1>3. CASE PeriodPasses \/ \E i \in Items : GetsOld(i)
  BY <1>3, PeriodPassesKeeps, GetsOldKeeps
<1>4. CASE UNCHANGED vars
  BY <1>4 DEF vars, texts, work, audit, IndInv, TypeOK, Silent,
     DraftedInTime, Undrafted, ReadInTime, Ingestible, TargetsAreDone,
     WaitingHasText
<1>5. QED
  BY <1>1, <1>2, <1>3, <1>4 DEF Next

\* The facts above hold whatever people click and the model leaves undone.
THEOREM RetentionInvariant == Spec => []IndInv
  BY InitHolds, NextKeeps, PTL DEF Spec

\* What waits for a person still has its text (retention.py expirable).
THEOREM TextWaits == Spec => []WaitingHasText
<1>1. IndInv => WaitingHasText
  BY DEF IndInv
<1>2. QED
  BY <1>1, RetentionInvariant, PTL

\* Only the deletion takes a text away.
LEMMA OnlyExpireDeletes ==
  ASSUME Next, NEW i \in Items, raw[i], ~raw'[i]
  PROVE  Expire
<1>1. ~(People \/ PeriodPasses \/ \E j \in Items : GetsOld(j))
  BY DEF People, MarkResolved, ApproveDraft, RejectDraft, Attach, Upgrade,
     Confirm, Decline, Decide, PeriodPasses, GetsOld, texts
<1>2. Tick
  BY <1>1 DEF Next
<1>3. QED
  BY <1>2 DEF Tick, Collect, AdoptExplicit, SettleQuiet, PromoteByGate,
     SampleRecheck, DraftResolutions, Ingest, ListExpirable, texts

\* An answer that may become knowledge expires only read, or left by the
\* ingest of the very tick that deletes it, whatever stopped that ingest (the
\* order of the tick, runner.py).
THEOREM ReadFirst == Spec => ReadBeforeExpired
<1>1. IndInv /\ [Next]_vars =>
        [\A i \in Items :
           raw[i] /\ ~raw'[i] /\ Ingestible(i) /\ ~item[i].upgraded
             => read[i] \/ i \in left]_vars
  <2>1. SUFFICES ASSUME IndInv, Next, NEW i \in Items,
                        raw[i], ~raw'[i], Ingestible(i), ~item[i].upgraded
                 PROVE  read[i] \/ i \in left
    OBVIOUS
  <2>2. Expire
    BY <2>1, OnlyExpireDeletes
  <2>3. i \in targets
    BY <2>1, <2>2 DEF Expire, IndInv, TypeOK
  <2>4. QED
    BY <2>1, <2>3 DEF IndInv, TargetsAreDone
<1>2. QED
  BY <1>1, RetentionInvariant, PTL DEF Spec, ReadBeforeExpired

-----------------------------------------------------------------------------
(* The alerts *)

\* At most two alerts wait, each of its kind.
Waiting ==
  \/ waiting = <<>>
  \/ \E a : waiting = <<a>>
  \/ \E a, b : a # b /\ waiting = <<a, b>>

Waits(a) == \E k \in 1 .. Len(waiting) : waiting[k] = a

\* Nothing waits that is marked or about to be, and what was told is marked, or
\* is about to be, or the worker died in between.
AlertsInv ==
  /\ crashes \in Nat
  /\ told \in [AllAlerts -> Nat]
  /\ Waiting
  /\ \A a \in sent \union posted : ~Waits(a)
  /\ \A a \in AllAlerts :
       told[a] <= crashes + IF a \in sent \union posted THEN 1 ELSE 0

\* The first of what waits, and the others.
LEMMA WaitingParts ==
  ASSUME Waiting, waiting # <<>>
  PROVE  /\ Waits(Head(waiting))
         /\ \/ Tail(waiting) = <<>>
            \/ \E b : b # Head(waiting) /\ Waits(b) /\ Tail(waiting) = <<b>>
<1>1. CASE \E a : waiting = <<a>>
  BY <1>1 DEF Waits
<1>2. CASE \E a, b : a # b /\ waiting = <<a, b>>
  BY <1>2 DEF Waits
<1> QED BY <1>1, <1>2 DEF Waiting

\* Where the first one is taken off, the others go on waiting.
LEMMA TakenOff ==
  ASSUME Waiting, waiting # <<>>, waiting' = Tail(waiting)
  PROVE  /\ Waiting' /\ Waits(Head(waiting))
         /\ \A a : Waits(a)' => Waits(a) /\ a # Head(waiting)
<1>1. CASE Tail(waiting) = <<>>
  BY <1>1, WaitingParts DEF Waiting, Waits
<1>2. CASE \E b : b # Head(waiting) /\ Waits(b) /\ Tail(waiting) = <<b>>
  BY <1>2, WaitingParts DEF Waiting, Waits
<1> QED BY <1>1, <1>2, WaitingParts

\* What is looked up is at most one alert of each kind, not marked yet.
LEMMA UnsentIs ==
  ASSUME waiting' = Unsent
  PROVE  Waiting' /\ \A a \in sent : ~Waits(a)'
<1> PICK a : a = RiskAlert(open[1])
  OBVIOUS
<1> PICK b : b = RegressionAlert(Len(decisions))
  OBVIOUS
<1>1. a # b
  BY DEF RiskAlert, RegressionAlert
<1>2. \/ Left(RiskPending) = <<>>
      \/ Left(RiskPending) = <<a>> /\ a \notin sent
  BY DEF Left, RiskPending
<1>3. \/ Left(RegressionPending) = <<>>
      \/ Left(RegressionPending) = <<b>> /\ b \notin sent
  BY DEF Left, RegressionPending
<1>4. \/ Unsent = <<>>
      \/ Unsent = <<a>> /\ a \notin sent
      \/ Unsent = <<b>> /\ b \notin sent
      \/ Unsent = <<a, b>> /\ a \notin sent /\ b \notin sent
  <2>1. <<>> \o <<>> = <<>>
    OBVIOUS
  <2>2. <<a>> \o <<>> = <<a>>
    OBVIOUS
  <2>3. <<>> \o <<b>> = <<b>>
    OBVIOUS
  <2>4. <<a>> \o <<b>> = <<a, b>>
    <3> DEFINE both == <<a>> \o <<b>>
    <3>1. both \in Seq({a, b}) /\ Len(both) = 2 /\ both[1] = a /\ both[2] = b
      BY ConcatProperties
    <3>2. both = [k \in 1 .. 2 |-> both[k]]
      BY <3>1
    <3>3. <<a, b>> = [k \in 1 .. 2 |-> IF k = 1 THEN a ELSE b]
      OBVIOUS
    <3>4. \A k \in 1 .. 2 : both[k] = IF k = 1 THEN a ELSE b
      BY <3>1
    <3> HIDE DEF both
    <3>5. both = [k \in 1 .. 2 |-> IF k = 1 THEN a ELSE b]
      BY <3>2, <3>4
    <3> QED BY <3>3, <3>5 DEF both
  <2> QED BY <1>2, <1>3, <2>1, <2>2, <2>3, <2>4 DEF Unsent
<1> QED BY <1>1, <1>4 DEF Waiting, Waits

\* Everything but the post itself, its mark and a crash.
LEMMA AlertsInvNext == AlertsInv /\ [AlertsNext]_alertVars => AlertsInv'
<1> SUFFICES ASSUME AlertsInv, [AlertsNext]_alertVars PROVE AlertsInv'
  OBVIOUS
<1>1. ASSUME UNCHANGED outbox PROVE AlertsInv'
  BY <1>1 DEF AlertsInv, Waiting, Waits, outbox
<1>2. CASE Situation \/ UNCHANGED alertVars
  BY <1>1, <1>2
  DEF Situation, Detect, Ages, Handle, DecidePhase, WeekPasses, alertVars
<1>3. CASE Notify
  <2>1. /\ waiting' = Unsent /\ posted = {}
        /\ UNCHANGED <<sent, posted, told, crashes>>
    BY <1>3 DEF Notify
  <2> QED BY <2>1, UnsentIs DEF AlertsInv
<1>4. CASE Accepts
  <2> PICK h : h = Head(waiting)
    OBVIOUS
  <2>1. /\ waiting # <<>> /\ waiting' = Tail(waiting)
        /\ posted = {} /\ posted' = {h}
        /\ told' = [told EXCEPT ![h] = @ + 1]
        /\ UNCHANGED <<sent, crashes>>
    BY <1>4 DEF Accepts
  <2>2. /\ Waiting' /\ Waits(h) /\ \A a : Waits(a)' => Waits(a) /\ a # h
    BY <2>1, TakenOff DEF AlertsInv
  <2>3. h \notin sent
    BY <2>2 DEF AlertsInv
  <2>4. \A a \in sent' \union posted' : ~Waits(a)'
    BY <2>1, <2>2 DEF AlertsInv
  <2>5. \A a \in AllAlerts : told'[a] <= crashes' + IF a \in sent' \union posted' THEN 1 ELSE 0
    BY <2>1, <2>3 DEF AlertsInv
  <2>6. told' \in [AllAlerts -> Nat]
    <3>1. told \in [AllAlerts -> Nat]
      BY DEF AlertsInv
    <3>2. CASE h \in AllAlerts
      BY <2>1, <3>1, <3>2
    <3>3. CASE h \notin AllAlerts
      BY <2>1, <3>1, <3>3
    <3> QED BY <3>2, <3>3
  <2>7. crashes' \in Nat
    BY <2>1 DEF AlertsInv
  <2> QED BY <2>2, <2>4, <2>5, <2>6, <2>7 DEF AlertsInv
<1>5. CASE MarkSent
  BY <1>5 DEF MarkSent, AlertsInv, Waiting, Waits
<1>6. CASE Refuses
  <2>1. /\ waiting # <<>> /\ waiting' = Tail(waiting)
        /\ UNCHANGED <<sent, posted, told, crashes>>
    BY <1>6 DEF Refuses
  <2> QED BY <2>1, TakenOff DEF AlertsInv
<1>7. CASE Crash
  <2>1. /\ waiting' = <<>> /\ posted' = {} /\ crashes' = crashes + 1
        /\ UNCHANGED <<sent, told>>
    BY <1>7 DEF Crash
  <2>2. Waiting' /\ \A a : ~Waits(a)'
    BY <2>1 DEF Waiting, Waits
  <2>3. \A a \in AllAlerts : told[a] <= crashes + 1
    BY DEF AlertsInv
  <2> QED BY <2>1, <2>2, <2>3 DEF AlertsInv
<1> QED BY <1>2, <1>3, <1>4, <1>5, <1>6, <1>7 DEF AlertsNext, Worker

\* The webhook is told of one situation once, and once more for each time the
\* worker died between a post and its mark at most (alert.py unsent, mark_sent).
THEOREM SituationToldOnce == AlertsSpec => []ToldOnce
<1>1. AlertsInit => AlertsInv
  BY DEF AlertsInit, AlertsInv, Waiting, Waits
<1>2. AlertsInv => ToldOnce
  BY DEF AlertsInv, ToldOnce
<1> QED BY <1>1, <1>2, AlertsInvNext, PTL DEF AlertsSpec

-----------------------------------------------------------------------------
(* The endpoint *)

Known == Endpoints \union {None}

\* What is being saved passed the policy; while the last save is one that began
\* alone, nobody else is saving, and it is what the row says until its file is
\* written.
Saving ==
  /\ row \in Known /\ file \in Known
  /\ saving \in [Webs -> Known]
  /\ \A w \in Webs : saving[w] # None => Allowed(saving[w])
  /\ orderly => \A w \in Webs : saving[w] # None => row = saving[w]

EndpointInv == Saving /\ OldFileIsSaid

LEMMA EndpointInvInit == EndpointInit => EndpointInv
  BY EndpointAssumption
  DEF EndpointInit, EndpointInv, Saving, OldFileIsSaid, Known

\* The row is committed: a file is still to be written.
LEMMA SaveRowKeeps ==
  ASSUME EndpointInv, NEW w \in Webs, NEW e \in Endpoints, SaveRow(w, e)
  PROVE  EndpointInv'
<1>1. saving'[w] = e /\ e # None
  BY EndpointAssumption DEF SaveRow, EndpointInv, Saving, Known
<1>2. \A v \in Webs \ {w} : saving'[v] = saving[v]
  BY DEF SaveRow, EndpointInv, Saving, Known
<1>3. Saving'
  BY <1>1, <1>2 DEF SaveRow, EndpointInv, Saving, Known, Allowed
<1>4. OldFileIsSaid'
  BY <1>1 DEF SaveRow, EndpointInv, OldFileIsSaid, Allowed
<1>5. QED
  BY <1>3, <1>4 DEF EndpointInv

\* The file is written, or left alone: after an orderly beginning what it should
\* hold is what the row says.
LEMMA WriteFileKeeps ==
  ASSUME EndpointInv, NEW w \in Webs, WriteFile(w)
  PROVE  EndpointInv'
<1>1. saving'[w] = None /\ \A v \in Webs \ {w} : saving'[v] = saving[v]
  BY DEF WriteFile, EndpointInv, Saving, Known
<1>2. saving[w] \in Endpoints /\ Allowed(saving[w])
  BY DEF WriteFile, EndpointInv, Saving, Known
<1>3. orderly => row = saving[w]
  BY <1>2 DEF WriteFile, EndpointInv, Saving
<1>4. Saving'
  BY <1>1, <1>2 DEF WriteFile, EndpointInv, Saving, Known, Allowed
<1>5. OldFileIsSaid'
  BY <1>1, <1>2, <1>3 DEF WriteFile, EndpointInv, OldFileIsSaid, Allowed
<1>6. QED
  BY <1>4, <1>5 DEF EndpointInv

LEMMA EndpointInvNext == EndpointInv /\ [EndpointNext]_endpointVars => EndpointInv'
<1> SUFFICES ASSUME EndpointInv, [EndpointNext]_endpointVars
             PROVE  EndpointInv'
  OBVIOUS
<1>1. ASSUME NEW w \in Webs, NEW e \in Endpoints, SaveRow(w, e)
      PROVE  EndpointInv'
  BY <1>1, SaveRowKeeps
<1>2. ASSUME NEW w \in Webs, WriteFile(w)
      PROVE  EndpointInv'
  BY <1>2, WriteFileKeeps
<1>3. ASSUME NEW w \in Webs, CutOff(w)
      PROVE  EndpointInv'
  BY <1>3 DEF CutOff, EndpointInv, Saving, OldFileIsSaid, Known, Allowed
<1>4. CASE SyncHarness
  BY <1>4, EndpointAssumption
  DEF SyncHarness, EndpointInv, Saving, OldFileIsSaid, Known, Allowed
<1>5. CASE RefreshEndpoint
  BY <1>5 DEF RefreshEndpoint, EndpointInv, Saving, OldFileIsSaid, Known, Allowed
<1>6. CASE UNCHANGED endpointVars
  BY <1>6 DEF endpointVars, EndpointInv, Saving, OldFileIsSaid, Known, Allowed
<1>7. QED
  BY <1>1, <1>2, <1>3, <1>4, <1>5, <1>6 DEF EndpointNext

\* The harness is never given what the policy refuses, however saves overlap or
\* are cut off; and whatever they left behind, after a save that ran alone an old
\* file is always said (llm_endpoint.py save, SaveResult).
THEOREM OldFileNeverSilent == EndpointSpec => []OldFileIsSaid
<1>1. EndpointSpec => []EndpointInv
  BY EndpointInvInit, EndpointInvNext, PTL DEF EndpointSpec
<1>2. EndpointInv => OldFileIsSaid
  BY DEF EndpointInv
<1>3. QED
  BY <1>1, <1>2, PTL

-----------------------------------------------------------------------------
(* The way of a question *)

\* The draft rests on hits once there is one to render.
DraftRests ==
  pc \in {"render", "review", "gate"} \/ route = "auto" =>
    Grounding # {} /\ Grounding \subseteq hits

\* A passed draft was found in order, as it is now.
PassedInOrder ==
  verdict = "passed" =>
    /\ pc \in {"gate", "done"}
    /\ \A g \in Grounding : ~base[g].stale
    /\ Ungrounded(Body) = {}

AutoPassed == route = "auto" => pc = "done" /\ verdict = "passed"

AnswerInv == DraftRests /\ PassedInOrder /\ AutoPassed

LEMMA AnswerInvHolds ==
  AnswerInv => AutoIsBacked
BY DEF AnswerInv, DraftRests, PassedInOrder, AutoPassed, AutoIsBacked, Ungrounded

LEMMA AnswerInvInit ==
  AnswerInit => AnswerInv
BY DEF AnswerInit, AnswerInv, DraftRests, PassedInOrder, AutoPassed

\* A step that leaves draft, knowledge and exit alone and is not yet, or no
\* longer, on the way from the rendering to the gate.
LEMMA EarlyStep ==
  ASSUME AnswerInv, UNCHANGED <<asked, made, exit>>,
         pc \in {"analyze", "find", "rerank", "generate"},
         pc' \in {"find", "rerank", "generate", "done"}
  PROVE  AnswerInv'
<1>1. route # "auto" /\ verdict # "passed"
  BY DEF AnswerInv, AutoPassed, PassedInOrder
<1>2. route' # "auto" /\ verdict' # "passed"
  BY <1>1 DEF exit
<1> QED
  BY <1>2 DEF AnswerInv, DraftRests, PassedInOrder, AutoPassed

LEMMA GenerateStep ==
  ASSUME AnswerInv, Generate
  PROVE  AnswerInv'
<1>1. route' # "auto" /\ verdict' # "passed" /\ hits' = hits
  BY DEF Generate, AnswerInv, AutoPassed, PassedInOrder, exit
<1>2. PICK s \in Sayings, t \in Sayings :
        LET taken == {Taken(s), Taken(t)}
        IN  IF \A r \in taken : r.grounding = {}
              THEN /\ halted' = "core unknown" /\ pc' = "done"
                   /\ UNCHANGED statements
              ELSE /\ statements' = taken /\ pc' = "render"
                   /\ UNCHANGED halted
  BY DEF Generate
<1>3. CASE pc' = "done"
  BY <1>1, <1>3 DEF AnswerInv, DraftRests, PassedInOrder, AutoPassed
<1>4. CASE pc' # "done"
  <2>1. statements' = {Taken(s), Taken(t)}
    BY <1>2, <1>4
  <2>2. \E r \in {Taken(s), Taken(t)} : r.grounding # {}
    BY <1>2, <1>4
  <2>3. Taken(s).grounding \subseteq hits /\ Taken(t).grounding \subseteq hits
    BY DEF Taken
  <2>4. Grounding' # {} /\ Grounding' \subseteq hits'
    BY <1>1, <2>1, <2>2, <2>3 DEF Grounding
  <2> QED
    BY <1>1, <2>4 DEF AnswerInv, DraftRests, PassedInOrder, AutoPassed
<1> QED
  BY <1>3, <1>4

LEMMA RenderStep ==
  ASSUME AnswerInv, Render
  PROVE  AnswerInv'
<1>1. route' # "auto" /\ verdict' # "passed"
  BY DEF Render, AnswerInv, AutoPassed, PassedInOrder, exit
<1>2. Grounding' = Grounding /\ hits' = hits
  BY DEF Render, Grounding
<1>3. Grounding # {} /\ Grounding \subseteq hits
  BY DEF Render, AnswerInv, DraftRests
<1> QED
  BY <1>1, <1>2, <1>3 DEF AnswerInv, DraftRests, PassedInOrder, AutoPassed

LEMMA ReviewStep ==
  ASSUME AnswerInv, Review
  PROVE  AnswerInv'
<1>1. UNCHANGED <<base, statements, rendered, hits, route>> /\ pc' = "gate"
  BY DEF Review, asked, made
<1>2. Grounding' = Grounding /\ Ungrounded(Body)' = Ungrounded(Body)
  BY <1>1 DEF Grounding, Ungrounded, Body, SourceOf
<1>3. Grounding # {} /\ Grounding \subseteq hits /\ route # "auto"
  BY DEF Review, AnswerInv, DraftRests, AutoPassed
<1>4. verdict' = "passed" =>
        (\A g \in Grounding : ~base[g].stale) /\ Ungrounded(Body) = {}
  BY DEF Review, Reviewed
<1> QED
  BY <1>1, <1>2, <1>3, <1>4
  DEF AnswerInv, DraftRests, PassedInOrder, AutoPassed

\* In every phase the gate lets a draft go by itself only if it was passed.
LEMMA ByItselfPassed ==
  ASSUME NEW p \in 1 .. 3, NEW sampled \in BOOLEAN, ByItself(p, sampled)
  PROVE  verdict = "passed"
<1>1. CASE p >= 3
  BY <1>1 DEF ByItself
<1>2. CASE ~(p >= 3)
  <2>1. "unreviewed" \notin Signals
    BY <1>2 DEF ByItself
  <2> QED
    BY <2>1 DEF Signals
<1> QED
  BY <1>1, <1>2

LEMMA GateStep ==
  ASSUME AnswerInv, NEW stage \in BOOLEAN, NEW p \in 1 .. 3,
         NEW sampled \in BOOLEAN, Gate(stage, p, sampled)
  PROVE  AnswerInv'
<1>1. UNCHANGED <<base, statements, rendered, hits, verdict>> /\ pc' = "done"
  BY DEF Gate, asked, made
<1>2. Grounding' = Grounding /\ Ungrounded(Body)' = Ungrounded(Body)
  BY <1>1 DEF Grounding, Ungrounded, Body, SourceOf
<1>3. Grounding # {} /\ Grounding \subseteq hits
  BY DEF Gate, AnswerInv, DraftRests
<1>4. route' = "auto" => verdict = "passed"
  BY ByItselfPassed DEF Gate
<1> QED
  BY <1>1, <1>2, <1>3, <1>4
  DEF AnswerInv, DraftRests, PassedInOrder, AutoPassed

LEMMA AnswerInvNext ==
  AnswerInv /\ [AnswerNext]_answerVars => AnswerInv'
<1> SUFFICES ASSUME AnswerInv, [AnswerNext]_answerVars
             PROVE  AnswerInv'
  OBVIOUS
<1>1. CASE Analyze \/ Find \/ Rerank \/ GenerateNothing
  BY <1>1, EarlyStep DEF Analyze, Find, Rerank, GenerateNothing, made, exit
<1>2. CASE Generate
  BY <1>2, GenerateStep
<1>3. CASE Render
  BY <1>3, RenderStep
<1>4. CASE Review
  BY <1>4, ReviewStep
<1>5. CASE \E stage, sampled \in BOOLEAN, p \in 1 .. 3 :
             Gate(stage, p, sampled)
  BY <1>5, GateStep
<1>6. CASE UNCHANGED answerVars
  <2>1. UNCHANGED <<base, statements, rendered, hits, verdict, route, pc>>
    BY <1>6 DEF answerVars, asked, made, exit
  <2>2. Grounding' = Grounding /\ Ungrounded(Body)' = Ungrounded(Body)
    BY <2>1 DEF Grounding, Ungrounded, Body, SourceOf
  <2> QED
    BY <2>1, <2>2 DEF AnswerInv, DraftRests, PassedInOrder, AutoPassed
<1> QED
  BY <1>1, <1>2, <1>3, <1>4, <1>5, <1>6 DEF AnswerNext

\* Whatever is asked, known and said by the model: what goes out by itself has
\* only numbers of its grounding, rests on fresh items that were found, and
\* was passed as it goes out (answer.py, review.py, gating.py).
THEOREM OnlyBackedGoesOut ==
  AnswerSpec => []AutoIsBacked
<1>1. AnswerSpec => []AnswerInv
  BY AnswerInvInit, AnswerInvNext, PTL DEF AnswerSpec
<1> QED
  BY <1>1, AnswerInvHolds, PTL

\* Nothing that is known shares a word with the question.
NoneMatches ==
  \A i \in Entries, w \in question :
    ~Matches(w, base[i].title \union base[i].body)

SearchInv ==
  /\ question \in Questions /\ base \in Bases
  /\ pc = "rerank" /\ hits = {} => NoneMatches
  /\ SilenceIsJustified

\* One word in the title or the body is enough to be found.
LEMMA MatchScores ==
  ASSUME question \in Questions, base \in Bases, NEW embedded \in BOOLEAN,
         NEW i \in Entries, NEW w \in question,
         Matches(w, base[i].title \union base[i].body)
  PROVE  Score(i, embedded) > 0
<1> DEFINE inTitle == {v \in question : Matches(v, base[i].title)}
           inBody  == {v \in question : Matches(v, base[i].body)}
           called  == {v \in question : Matches(v, Distinct(i))}
<1>1. IsFiniteSet(question)
  BY AnswerAssumption, FS_Subset
<1>2. /\ IsFiniteSet(inTitle) /\ IsFiniteSet(inBody \ inTitle)
      /\ IsFiniteSet(called)
  BY <1>1, FS_Subset
<1>3. w \in inTitle \/ w \in inBody \ inTitle
  BY DEF Matches
<1> HIDE DEF inTitle, inBody, called
<1>4. /\ Cardinality(inTitle) \in Nat /\ Cardinality(inBody \ inTitle) \in Nat
      /\ Cardinality(called) \in Nat
  BY <1>2, FS_CardinalityType
<1>5. Cardinality(inTitle) # 0 \/ Cardinality(inBody \ inTitle) # 0
  BY <1>2, <1>3, FS_EmptySet
<1>6. ByKeyword(i) = 3 * Cardinality(inTitle) + Cardinality(inBody \ inTitle)
  BY DEF ByKeyword, inTitle, inBody
<1>7. ByKeyword(i) \in Nat /\ ByKeyword(i) > 0
  BY <1>4, <1>5, <1>6
<1>8. ByVocabulary(i) \in Nat
  <2>1. ByVocabulary(i) = IF Cardinality(called) >= 2
                            THEN 2 * Cardinality(called) ELSE 0
    BY DEF ByVocabulary, called
  <2> QED BY <1>4, <2>1
<1>9. base[i].near \in Nat
  BY AnswerAssumption
<1> QED BY <1>7, <1>8, <1>9 DEF Score

\* A search that finds nothing has nothing to find.
LEMMA NothingBest ==
  ASSUME question \in Questions, base \in Bases, NEW embedded \in BOOLEAN,
         IsBest({}, embedded)
  PROVE  NoneMatches
<1>1. Cardinality({}) = 0
  BY FS_EmptySet
<1>2. {i \in Entries : Score(i, embedded) > 0} = {}
  BY <1>1, AnswerAssumption DEF IsBest
<1> QED BY <1>2, MatchScores DEF NoneMatches

LEMMA SearchInvNext ==
  SearchInv /\ [AnswerNext]_answerVars => SearchInv'
<1> SUFFICES ASSUME SearchInv, [AnswerNext]_answerVars
             PROVE  SearchInv'
  OBVIOUS
<1>1. UNCHANGED <<question, base>>
  BY DEF AnswerNext, answerVars, asked, Analyze, Find, Rerank, Generate,
         GenerateNothing, Render, Review, Gate
<1>2. NoneMatches' <=> NoneMatches
  BY <1>1 DEF NoneMatches
<1>3. SilenceIsJustified <=> (halted = "no grounding" => NoneMatches)
  BY DEF SilenceIsJustified, NoneMatches
<1>4. SilenceIsJustified' <=> (halted' = "no grounding" => NoneMatches')
  BY DEF SilenceIsJustified, NoneMatches
<1>5. CASE Find
  <2>1. hits' = {} => NoneMatches
    BY <1>5, NothingBest DEF Find, SearchInv
  <2> QED BY <1>1, <1>2, <1>3, <1>4, <1>5, <2>1 DEF Find, SearchInv
<1>6. CASE Rerank
  <2>1. hits' = hits /\ pc = "rerank" /\ pc' # "rerank"
    BY <1>6 DEF Rerank, Reranked
  <2>2. halted' = "no grounding" => hits = {} \/ halted = "no grounding"
    BY <1>6, <2>1 DEF Rerank
  <2> QED BY <1>1, <1>2, <1>3, <1>4, <2>1, <2>2 DEF SearchInv
<1>7. CASE Analyze \/ Generate \/ GenerateNothing \/ Render \/ Review
           \/ \E stage, sampled \in BOOLEAN, p \in 1 .. 3 :
                Gate(stage, p, sampled)
  <2>1. /\ pc' # "rerank"
        /\ halted' \in {halted, "core unknown", "generation failed"}
    BY <1>7 DEF Analyze, Generate, GenerateNothing, Render, Review, Gate
  <2> QED BY <1>1, <1>2, <1>3, <1>4, <2>1 DEF SearchInv
<1>8. CASE UNCHANGED answerVars
  BY <1>1, <1>2, <1>3, <1>4, <1>8 DEF SearchInv, answerVars
<1> QED BY <1>5, <1>6, <1>7, <1>8 DEF AnswerNext

\* A question is turned away for want of grounding only where no item shares a
\* word with it, whatever the embeddings and the model say (search.py, answer.py).
THEOREM SilenceHasAReason == AnswerSpec => []SilenceIsJustified
<1>1. AnswerInit => SearchInv
  BY DEF AnswerInit, SearchInv, SilenceIsJustified
<1>2. SearchInv => SilenceIsJustified
  BY DEF SearchInv
<1> QED BY <1>1, <1>2, SearchInvNext, PTL DEF AnswerSpec

=============================================================================
