--------------------------- MODULE ContentProofs ---------------------------
(* What the service publishes was approved and is on record, what people      *)
(* judged stays as they judged it, one draft of a type waits at a time and     *)
(* shows the version it changes, and documents are shown in the order in which *)
(* they were approved.                                                         *)
EXTENDS Content, FiniteSetTheorems, TLAPS

\* The version a draft is written on is chosen among approved ones and matters
\* to none of this: B stands for whatever was chosen.
JobOn(B) ==
  [at : {"idle", "model", "save", "record", "findings", "close", "check",
         "open", "call", "mark"},
   draft : 0..MaxDrafts, yes : BOOLEAN, type : Types \union {None}, base : B]

Typed(B) ==
  /\ made \in 0..MaxDrafts
  /\ state \in [Drafts -> {"none", "pending", "approved", "rejected"}]
  /\ findings \in [Drafts -> BOOLEAN]
  /\ row \in [Drafts -> {"none", "in_flight", "published"}]
  /\ sent \in [Drafts -> 0..2]
  /\ job \in [Procs -> JobOn(B)]

\* A draft that is not written yet was not judged, and there is room for the
\* one whose ticket was issued.
Fresh ==
  /\ \A d \in Drafts : d > made => state[d] = "none"
  /\ job[Worker].at = "save" => made < MaxDrafts

\* Who is about to publish holds an approved draft, who is about to call one on
\* record, and who is about to mark one the parent system has accepted.
JobSound(p) ==
  /\ job[p].at \in {"findings", "close", "check", "open", "call", "mark"}
       => job[p].draft \in Drafts
  /\ job[p].at \in {"open", "call", "mark"} => state[job[p].draft] = "approved"
  /\ job[p].at \in {"call", "mark"} => Recorded(job[p].draft)
  /\ job[p].at = "mark" => sent[job[p].draft] # 0

Inv(B) ==
  /\ 0 \in B /\ Typed(B) /\ Fresh /\ OnlyApprovedIsOut
  /\ \A p \in Procs : JobSound(p)

IndInv == \E B : Inv(B)

\* A step does not touch what was judged.
Frozen == \A d \in Drafts : state[d] \in {"approved", "rejected"} =>
            state'[d] = state[d] /\ findings'[d] = findings[d]

\* A process with nothing to do is typed whatever versions were chosen.
LEMMA IdleIs == ASSUME NEW B, 0 \in B PROVE Idle \in JobOn(B)
  BY ContentAssumption DEF Idle, JobOn

\* What the handlers start with.
LEMMA StartIs ==
  ASSUME NEW B, 0 \in B, NEW d \in Drafts, NEW yes \in BOOLEAN,
         NEW a \in {"findings", "close", "check"}
  PROVE  /\ [Idle EXCEPT !.at = a, !.draft = d] \in JobOn(B)
         /\ [Idle EXCEPT !.at = a, !.draft = d, !.yes = yes] \in JobOn(B)
<1>1. Idle \in JobOn(B)
  BY IdleIs
<1>2. d \in 0..MaxDrafts
  BY ContentAssumption DEF Drafts
<1>3. QED
  BY <1>1, <1>2 DEF JobOn

\* The worker and the requests of the operators are the processes.
LEMMA WorkerIs == Worker \in Procs /\ Webs \subseteq Procs
  BY DEF Procs

\* Nothing was written, judged or published at first.
LEMMA InitHolds == Init => IndInv
<1> SUFFICES ASSUME Init PROVE Inv({0})
  BY DEF IndInv
<1>1. Typed({0})
  BY IdleIs, ContentAssumption DEF Init, Typed
<1>2. Fresh /\ OnlyApprovedIsOut /\ \A p \in Procs : JobSound(p)
  BY WorkerIs DEF Init, Fresh, OnlyApprovedIsOut, JobSound, Idle, Recorded, Out
<1>3. QED
  BY <1>1, <1>2 DEF Inv

\* The model finds nothing to change and no draft is written.
LEMMA UnchangedKeeps ==
  ASSUME NEW B, Inv(B), Unchanged
  PROVE  Inv(B)' /\ Frozen
<1>1. Typed(B)'
  BY WorkerIs, IdleIs, ContentAssumption DEF Inv, Unchanged, Typed, drafts,
     parent, sources, tick, Finish, JobOn
<1>2. Fresh'
  BY WorkerIs DEF Inv, Unchanged, Typed, drafts, parent, sources, tick,
     Finish, JobOn, Idle, Fresh
<1>3. OnlyApprovedIsOut'
  BY WorkerIs DEF Inv, Unchanged, Typed, drafts, parent, sources, tick,
     JobOn, OnlyApprovedIsOut, JobSound, Recorded, Out
<1>4. \A o \in Procs : JobSound(o)'
  BY WorkerIs DEF Inv, Unchanged, Typed, drafts, parent, sources, tick,
     Finish, JobOn, Idle, JobSound, Recorded
<1>5. Frozen
  BY WorkerIs DEF Inv, Unchanged, Typed, drafts, parent, sources, tick, Frozen
<1>6. QED
  BY <1>1, <1>2, <1>3, <1>4, <1>5 DEF Inv

\* The model failed and no draft was written.
LEMMA NotGeneratedKeeps ==
  ASSUME NEW B, Inv(B), NotGenerated
  PROVE  Inv(B)' /\ Frozen
<1>1. Typed(B)'
  BY WorkerIs, IdleIs, ContentAssumption DEF Inv, NotGenerated, Typed,
     drafts, parent, runs, sources, tick, Finish, JobOn
<1>2. Fresh'
  BY WorkerIs DEF Inv, NotGenerated, Typed, drafts, parent, runs, sources,
     tick, Finish, JobOn, Idle, Fresh
<1>3. OnlyApprovedIsOut'
  BY WorkerIs DEF Inv, NotGenerated, Typed, drafts, parent, runs, sources,
     tick, JobOn, OnlyApprovedIsOut, JobSound, Recorded, Out
<1>4. \A o \in Procs : JobSound(o)'
  BY WorkerIs DEF Inv, NotGenerated, Typed, drafts, parent, runs, sources,
     tick, Finish, JobOn, Idle, JobSound, Recorded
<1>5. Frozen
  BY WorkerIs DEF Inv, NotGenerated, Typed, drafts, parent, runs, sources,
     tick, Frozen
<1>6. QED
  BY <1>1, <1>2, <1>3, <1>4, <1>5 DEF Inv

\* The ticket of the new draft is issued before the draft is saved.
LEMMA IssueTicketKeeps ==
  ASSUME NEW B, Inv(B), IssueTicket
  PROVE  Inv(B)' /\ Frozen
<1>1. Typed(B)'
  BY WorkerIs, IdleIs, ContentAssumption DEF Inv, IssueTicket, Typed, drafts,
     parent, runs, sources, tick, Goto, JobOn
<1>2. Fresh'
  BY WorkerIs DEF Inv, IssueTicket, Typed, drafts, parent, runs, sources,
     tick, JobOn, Fresh
<1>3. OnlyApprovedIsOut'
  BY WorkerIs DEF Inv, IssueTicket, Typed, drafts, parent, runs, sources,
     tick, JobOn, OnlyApprovedIsOut, JobSound, Recorded, Out
<1>4. \A o \in Procs : JobSound(o)'
  BY WorkerIs DEF Inv, IssueTicket, Typed, drafts, parent, runs, sources,
     tick, Goto, JobOn, JobSound, Recorded
<1>5. Frozen
  BY WorkerIs DEF Inv, IssueTicket, Typed, drafts, parent, runs, sources,
     tick, Frozen
<1>6. QED
  BY <1>1, <1>2, <1>3, <1>4, <1>5 DEF Inv

\* The draft is saved: pending, unpublished and not judged.
LEMMA SaveDraftKeeps ==
  ASSUME NEW B, Inv(B), SaveDraft
  PROVE  Inv(B)' /\ Frozen
<1>1. Typed(B)'
  <2>1. made < MaxDrafts
    BY DEF Inv, SaveDraft, Fresh
  <2>2. made' \in 0..MaxDrafts /\ made + 1 \in Drafts
    BY <2>1, ContentAssumption DEF Inv, SaveDraft, Typed, Drafts
  <2>3. state' \in [Drafts -> {"none", "pending", "approved", "rejected"}]
    BY <2>2 DEF Inv, SaveDraft, Typed
  <2>4. job' \in [Procs -> JobOn(B)]
    BY WorkerIs DEF Inv, SaveDraft, Goto, Typed, JobOn
  <2>5. QED
    BY <2>2, <2>3, <2>4 DEF Inv, SaveDraft, Typed, parent, sources, tick
<1>2. Fresh'
  BY WorkerIs DEF Inv, SaveDraft, Typed, parent, sources, tick, Goto, JobOn,
     Fresh, Drafts
<1>3. OnlyApprovedIsOut'
  BY WorkerIs DEF Inv, SaveDraft, Typed, parent, sources, tick, JobOn, Fresh,
     OnlyApprovedIsOut, JobSound, Recorded, Out
<1>4. \A o \in Procs : JobSound(o)'
  BY WorkerIs DEF Inv, SaveDraft, Typed, parent, sources, tick, Goto, JobOn,
     Fresh, JobSound, Recorded
<1>5. Frozen
  BY WorkerIs DEF Inv, SaveDraft, Typed, parent, sources, tick, Fresh, Frozen
<1>6. QED
  BY <1>1, <1>2, <1>3, <1>4, <1>5 DEF Inv

\* The run is recorded after its draft.
LEMMA RecordRunKeeps ==
  ASSUME NEW B, Inv(B), RecordRun
  PROVE  Inv(B)' /\ Frozen
<1>1. Typed(B)'
  BY WorkerIs, IdleIs, ContentAssumption DEF Inv, RecordRun, Typed, drafts,
     parent, sources, tick, Finish, JobOn
<1>2. Fresh'
  BY WorkerIs DEF Inv, RecordRun, Typed, drafts, parent, sources, tick,
     Finish, JobOn, Idle, Fresh
<1>3. OnlyApprovedIsOut'
  BY WorkerIs DEF Inv, RecordRun, Typed, drafts, parent, sources, tick,
     JobOn, OnlyApprovedIsOut, JobSound, Recorded, Out
<1>4. \A o \in Procs : JobSound(o)'
  BY WorkerIs DEF Inv, RecordRun, Typed, drafts, parent, sources, tick,
     Finish, JobOn, Idle, JobSound, Recorded
<1>5. Frozen
  BY WorkerIs DEF Inv, RecordRun, Typed, drafts, parent, sources, tick, Frozen
<1>6. QED
  BY <1>1, <1>2, <1>3, <1>4, <1>5 DEF Inv

\* The worker asks the model about a pending draft.
LEMMA InspectKeeps ==
  ASSUME NEW B, Inv(B), NEW d \in Drafts, Inspect(d)
  PROVE  Inv(B)' /\ Frozen
<1>1. Typed(B)'
  <2>1. [Idle EXCEPT !.at = "findings", !.draft = d] \in JobOn(B)
    BY StartIs DEF Inv
  <2>2. job' \in [Procs -> JobOn(B)]
    BY <2>1, WorkerIs DEF Inv, Inspect, Typed
  <2>3. QED
    BY <2>2 DEF Inv, Inspect, Typed, drafts, parent, runs, sources
<1>2. Fresh'
  BY WorkerIs DEF Inv, Inspect, Typed, drafts, parent, runs, sources, JobOn,
     Fresh
<1>3. OnlyApprovedIsOut'
  BY WorkerIs DEF Inv, Inspect, Typed, drafts, parent, runs, sources, JobOn,
     OnlyApprovedIsOut, JobSound, Recorded, Out
<1>4. \A o \in Procs : JobSound(o)'
  BY WorkerIs DEF Inv, Inspect, Typed, drafts, parent, runs, sources, JobOn,
     JobSound, Recorded
<1>5. Frozen
  BY WorkerIs DEF Inv, Inspect, Typed, drafts, parent, runs, sources, Frozen
<1>6. QED
  BY <1>1, <1>2, <1>3, <1>4, <1>5 DEF Inv

\* Findings are written only on a draft still waiting to be judged.
LEMMA RecordFindingsKeeps ==
  ASSUME NEW B, Inv(B), RecordFindings
  PROVE  Inv(B)' /\ Frozen
<1>1. Typed(B)'
  BY WorkerIs, IdleIs, ContentAssumption DEF Inv, RecordFindings, Typed,
     parent, runs, sources, tick, Finish, Judgeable, JobOn
<1>2. Fresh'
  BY WorkerIs DEF Inv, RecordFindings, Typed, parent, runs, sources, tick,
     Finish, Judgeable, JobOn, Idle, Fresh
<1>3. OnlyApprovedIsOut'
  BY WorkerIs DEF Inv, RecordFindings, Typed, parent, runs, sources, tick,
     Judgeable, JobOn, OnlyApprovedIsOut, JobSound, Recorded, Out
<1>4. \A o \in Procs : JobSound(o)'
  BY WorkerIs DEF Inv, RecordFindings, Typed, parent, runs, sources, tick,
     Finish, Judgeable, JobOn, Idle, JobSound, Recorded
<1>5. Frozen
  BY WorkerIs DEF Inv, RecordFindings, Typed, parent, runs, sources, tick,
     Judgeable, Frozen
<1>6. QED
  BY <1>1, <1>2, <1>3, <1>4, <1>5 DEF Inv

\* The model had nothing to say of the draft.
LEMMA NoFindingsKeeps ==
  ASSUME NEW B, Inv(B), NoFindings
  PROVE  Inv(B)' /\ Frozen
<1>1. Typed(B)'
  BY WorkerIs, IdleIs, ContentAssumption DEF Inv, NoFindings, Typed, drafts,
     parent, runs, sources, tick, Finish, JobOn
<1>2. Fresh'
  BY WorkerIs DEF Inv, NoFindings, Typed, drafts, parent, runs, sources,
     tick, Finish, JobOn, Idle, Fresh
<1>3. OnlyApprovedIsOut'
  BY WorkerIs DEF Inv, NoFindings, Typed, drafts, parent, runs, sources,
     tick, JobOn, OnlyApprovedIsOut, JobSound, Recorded, Out
<1>4. \A o \in Procs : JobSound(o)'
  BY WorkerIs DEF Inv, NoFindings, Typed, drafts, parent, runs, sources,
     tick, Finish, JobOn, Idle, JobSound, Recorded
<1>5. Frozen
  BY WorkerIs DEF Inv, NoFindings, Typed, drafts, parent, runs, sources,
     tick, Frozen
<1>6. QED
  BY <1>1, <1>2, <1>3, <1>4, <1>5 DEF Inv

\* A decision is written on a draft still waiting.
LEMMA DecideKeeps ==
  ASSUME NEW B, Inv(B), NEW w \in Webs, NEW d \in Drafts,
         NEW yes \in BOOLEAN, Decide(w, d, yes)
  PROVE  Inv(B)' /\ Frozen
<1>1. Typed(B)'
  <2>1. [Idle EXCEPT !.at = "close", !.draft = d, !.yes = yes] \in JobOn(B)
    BY StartIs DEF Inv
  <2>2. job' \in [Procs -> JobOn(B)]
    BY <2>1, WorkerIs DEF Inv, Decide, Typed
  <2>3. QED
    BY <2>2 DEF Inv, Decide, Typed, parent, runs, sources, tick, Judgeable
<1>2. Fresh'
  BY WorkerIs DEF Inv, Decide, Typed, parent, runs, sources, tick, Judgeable,
     JobOn, Fresh
<1>3. OnlyApprovedIsOut'
  BY WorkerIs DEF Inv, Decide, Typed, parent, runs, sources, tick, Judgeable,
     JobOn, OnlyApprovedIsOut, JobSound, Recorded, Out
<1>4. \A o \in Procs : JobSound(o)'
  BY WorkerIs DEF Inv, Decide, Typed, parent, runs, sources, tick, Judgeable,
     JobOn, JobSound, Recorded
<1>5. Frozen
  BY WorkerIs DEF Inv, Decide, Typed, parent, runs, sources, tick, Judgeable,
     Frozen
<1>6. QED
  BY <1>1, <1>2, <1>3, <1>4, <1>5 DEF Inv

\* The ticket is closed after the decision.
LEMMA CloseTicketKeeps ==
  ASSUME NEW B, Inv(B), NEW w \in Webs, CloseTicket(w)
  PROVE  Inv(B)' /\ Frozen
<1>1. Typed(B)'
  <2>1. job[w] \in JobOn(B) /\ Idle \in JobOn(B)
    BY WorkerIs, IdleIs DEF Inv, Typed
  <2>2. [job[w] EXCEPT !.at = "check", !.yes = FALSE] \in JobOn(B)
    BY <2>1 DEF JobOn
  <2>3. job' \in [Procs -> JobOn(B)]
    BY <2>1, <2>2, WorkerIs DEF Inv, CloseTicket, Finish, Typed
  <2>4. QED
    BY <2>3 DEF Inv, CloseTicket, Typed, parent, runs, sources, tick
<1>2. Fresh'
  BY WorkerIs DEF Inv, CloseTicket, Typed, parent, runs, sources, tick,
     Finish, JobOn, Idle, Fresh
<1>3. OnlyApprovedIsOut'
  BY WorkerIs DEF Inv, CloseTicket, Typed, parent, runs, sources, tick,
     JobOn, OnlyApprovedIsOut, JobSound, Recorded, Out
<1>4. \A o \in Procs : JobSound(o)'
  BY WorkerIs DEF Inv, CloseTicket, Typed, parent, runs, sources, tick,
     Finish, JobOn, Idle, JobSound, Recorded
<1>5. Frozen
  BY WorkerIs DEF Inv, CloseTicket, Typed, parent, runs, sources, tick, Frozen
<1>6. QED
  BY <1>1, <1>2, <1>3, <1>4, <1>5 DEF Inv

\* A person presses publish on an approved draft.
LEMMA ConfirmKeeps ==
  ASSUME NEW B, Inv(B), NEW w \in Webs, NEW d \in Drafts, Confirm(w, d)
  PROVE  Inv(B)' /\ Frozen
<1>1. Typed(B)'
  <2>1. [Idle EXCEPT !.at = "check", !.draft = d, !.yes = TRUE] \in JobOn(B)
    BY StartIs DEF Inv
  <2>2. job' \in [Procs -> JobOn(B)]
    BY <2>1, WorkerIs DEF Inv, Confirm, Typed
  <2>3. QED
    BY <2>2 DEF Inv, Confirm, Typed, drafts, parent, runs, sources, tick
<1>2. Fresh'
  BY WorkerIs DEF Inv, Confirm, Typed, drafts, parent, runs, sources, tick,
     JobOn, Fresh
<1>3. OnlyApprovedIsOut'
  BY WorkerIs DEF Inv, Confirm, Typed, drafts, parent, runs, sources, tick,
     JobOn, OnlyApprovedIsOut, JobSound, Recorded, Out
<1>4. \A o \in Procs : JobSound(o)'
  BY WorkerIs DEF Inv, Confirm, Typed, drafts, parent, runs, sources, tick,
     JobOn, JobSound, Recorded
<1>5. Frozen
  BY WorkerIs DEF Inv, Confirm, Typed, drafts, parent, runs, sources, tick,
     Frozen
<1>6. QED
  BY <1>1, <1>2, <1>3, <1>4, <1>5 DEF Inv

\* The draft is not approved or not of a type that may go out.
LEMMA RefusedKeeps ==
  ASSUME NEW B, Inv(B), NEW p \in Procs, Refused(p)
  PROVE  Inv(B)' /\ Frozen
<1>1. Typed(B)'
  BY WorkerIs, IdleIs, ContentAssumption DEF Inv, Refused, Typed, drafts,
     parent, runs, sources, tick, Finish, JobOn
<1>2. Fresh'
  BY WorkerIs DEF Inv, Refused, Typed, drafts, parent, runs, sources, tick,
     Finish, JobOn, Idle, Fresh
<1>3. OnlyApprovedIsOut'
  BY WorkerIs DEF Inv, Refused, Typed, drafts, parent, runs, sources, tick,
     JobOn, OnlyApprovedIsOut, JobSound, Recorded, Out
<1>4. \A o \in Procs : JobSound(o)'
  BY WorkerIs DEF Inv, Refused, Typed, drafts, parent, runs, sources, tick,
     Finish, JobOn, Idle, JobSound, Recorded, Out
<1>5. Frozen
  BY WorkerIs DEF Inv, Refused, Typed, drafts, parent, runs, sources, tick,
     Frozen
<1>6. QED
  BY <1>1, <1>2, <1>3, <1>4, <1>5 DEF Inv

\* Nothing is on record of this draft so far: the record comes before the call.
LEMMA NoRowYetKeeps ==
  ASSUME NEW B, Inv(B), NEW p \in Procs, NoRowYet(p)
  PROVE  Inv(B)' /\ Frozen
<1>1. Typed(B)'
  BY WorkerIs, IdleIs, ContentAssumption DEF Inv, NoRowYet, Typed, drafts,
     parent, runs, sources, tick, Goto, MayGoOut, JobOn
<1>2. Fresh'
  BY WorkerIs DEF Inv, NoRowYet, Typed, drafts, parent, runs, sources, tick,
     Goto, MayGoOut, JobOn, Fresh
<1>3. OnlyApprovedIsOut'
  BY WorkerIs DEF Inv, NoRowYet, Typed, drafts, parent, runs, sources, tick,
     MayGoOut, JobOn, OnlyApprovedIsOut, JobSound, Recorded, Out
<1>4. \A o \in Procs : JobSound(o)'
  BY WorkerIs DEF Inv, NoRowYet, Typed, drafts, parent, runs, sources, tick,
     Goto, MayGoOut, JobOn, JobSound, Recorded
<1>5. Frozen
  BY WorkerIs DEF Inv, NoRowYet, Typed, drafts, parent, runs, sources, tick,
     MayGoOut, Frozen
<1>6. QED
  BY <1>1, <1>2, <1>3, <1>4, <1>5 DEF Inv

\* An attempt that did not end is taken up again.
LEMMA TakeUpKeeps ==
  ASSUME NEW B, Inv(B), NEW p \in Procs, TakeUp(p)
  PROVE  Inv(B)' /\ Frozen
<1>1. Typed(B)'
  BY WorkerIs, IdleIs, ContentAssumption DEF Inv, TakeUp, Typed, drafts,
     parent, runs, sources, tick, Goto, MayGoOut, JobOn
<1>2. Fresh'
  BY WorkerIs DEF Inv, TakeUp, Typed, drafts, parent, runs, sources, tick,
     Goto, MayGoOut, JobOn, Fresh
<1>3. OnlyApprovedIsOut'
  BY WorkerIs DEF Inv, TakeUp, Typed, drafts, parent, runs, sources, tick,
     MayGoOut, JobOn, OnlyApprovedIsOut, JobSound, Recorded, Out
<1>4. \A o \in Procs : JobSound(o)'
  BY WorkerIs DEF Inv, TakeUp, Typed, drafts, parent, runs, sources, tick,
     Goto, MayGoOut, JobOn, JobSound, Recorded
<1>5. Frozen
  BY WorkerIs DEF Inv, TakeUp, Typed, drafts, parent, runs, sources, tick,
     MayGoOut, Frozen
<1>6. QED
  BY <1>1, <1>2, <1>3, <1>4, <1>5 DEF Inv

\* The record is opened before the parent system is called.
LEMMA OpenRowKeeps ==
  ASSUME NEW B, Inv(B), NEW p \in Procs, OpenRow(p)
  PROVE  Inv(B)' /\ Frozen
<1>1. CASE Recorded(job[p].draft)
  <2>1. Typed(B)'
    BY <1>1, WorkerIs, IdleIs, ContentAssumption DEF Inv, OpenRow, Typed,
       drafts, parent, runs, sources, tick, Finish, JobOn
  <2>2. Fresh'
    BY <1>1, WorkerIs DEF Inv, OpenRow, Typed, drafts, parent, runs,
       sources, tick, Finish, JobOn, Idle, Fresh
  <2>3. OnlyApprovedIsOut'
    BY <1>1, WorkerIs DEF Inv, OpenRow, Typed, drafts, parent, runs,
       sources, tick, JobOn, OnlyApprovedIsOut, JobSound, Recorded, Out
  <2>4. \A o \in Procs : JobSound(o)'
    BY <1>1, WorkerIs DEF Inv, OpenRow, Typed, drafts, parent, runs,
       sources, tick, Finish, JobOn, Idle, JobSound, Recorded
  <2>5. Frozen
    BY <1>1, WorkerIs DEF Inv, OpenRow, Typed, drafts, parent, runs,
       sources, tick, Frozen
  <2>6. QED
    BY <2>1, <2>2, <2>3, <2>4, <2>5 DEF Inv
<1>2. CASE ~Recorded(job[p].draft)
  <2>1. Typed(B)'
    <3>0. job[p] \in JobOn(B) /\ Idle \in JobOn(B) /\ job[p].draft \in Drafts
      BY WorkerIs, IdleIs DEF Inv, OpenRow, Typed, JobSound
    <3>1. job' = [job EXCEPT ![p].at = "call"]
      BY <1>2 DEF OpenRow, Goto
    <3>2. [job[p] EXCEPT !.at = "call"] \in JobOn(B)
      BY <3>0 DEF JobOn
    <3>3. job' \in [Procs -> JobOn(B)]
      BY <3>1, <3>2 DEF Inv, Typed
    <3>4. row' \in [Drafts -> {"none", "in_flight", "published"}]
      BY <1>2, <3>0 DEF Inv, OpenRow, Typed
    <3>5. QED
      BY <3>3, <3>4 DEF Inv, OpenRow, Typed, drafts, parent, runs,
         sources, tick
  <2>2. Fresh'
    BY <1>2, WorkerIs DEF Inv, OpenRow, Typed, drafts, parent, runs,
       sources, tick, Goto, JobOn, Fresh
  <2>3. OnlyApprovedIsOut'
    BY <1>2, WorkerIs DEF Inv, OpenRow, Typed, drafts, parent, runs,
       sources, tick, JobOn, OnlyApprovedIsOut, JobSound, Recorded, Out
  <2>4. \A o \in Procs : JobSound(o)'
    <3>1. job' = [job EXCEPT ![p].at = "call"]
      BY <1>2 DEF OpenRow, Goto
    <3>2. row' = [row EXCEPT ![job[p].draft] = "in_flight"]
      BY <1>2 DEF OpenRow
    <3>3. \A d \in Drafts : row[d] # "none" => row'[d] # "none"
      BY <3>2 DEF Inv, Typed
    <3>4. row'[job[p].draft] # "none"
      BY <3>2 DEF Inv, OpenRow, Typed, JobSound
    <3>5. ASSUME NEW o \in Procs PROVE JobSound(o)'
      <4>1. CASE o = p
        BY <3>1, <3>4, <4>1 DEF Inv, OpenRow, Typed, JobOn, JobSound,
           Recorded, drafts, parent, runs, sources, tick
      <4>2. CASE o # p
        BY <3>1, <3>3, <4>2 DEF Inv, OpenRow, Typed, JobOn, JobSound,
           Recorded, drafts, parent, runs, sources, tick
      <4>3. QED
        BY <4>1, <4>2
    <3>6. QED
      BY <3>5
  <2>5. Frozen
    BY <1>2, WorkerIs DEF Inv, OpenRow, Typed, drafts, parent, runs,
       sources, tick, Frozen
  <2>6. QED
    BY <2>1, <2>2, <2>3, <2>4, <2>5 DEF Inv
<1>3. QED
  BY <1>1, <1>2 DEF OpenRow

\* The parent system is called with what is on record.
LEMMA SendKeeps ==
  ASSUME NEW B, Inv(B), NEW p \in Procs, Send(p)
  PROVE  Inv(B)' /\ Frozen
<1>1. CASE Accept(job[p].draft) /\ Goto(p, "mark")
  <2>1. Typed(B)'
    <3>0. job[p] \in JobOn(B) /\ Idle \in JobOn(B) /\ job[p].draft \in Drafts
      BY WorkerIs, IdleIs DEF Inv, Send, Typed, JobSound
    <3>1. job' = [job EXCEPT ![p].at = "mark"]
      BY <1>1 DEF Goto
    <3>2. [job[p] EXCEPT !.at = "mark"] \in JobOn(B)
      BY <3>0 DEF JobOn
    <3>3. job' \in [Procs -> JobOn(B)]
      BY <3>1, <3>2 DEF Inv, Typed
    <3>4. sent' \in [Drafts -> 0..2]
      BY <1>1, <3>0 DEF Inv, Accept, Typed
    <3>5. QED
      BY <3>3, <3>4 DEF Inv, Send, Typed, drafts, parent, runs, sources, tick
  <2>2. Fresh'
    BY <1>1, WorkerIs DEF Inv, Send, Typed, drafts, parent, runs, sources,
       tick, Goto, JobOn, Fresh
  <2>3. OnlyApprovedIsOut'
    BY <1>1, WorkerIs DEF Inv, Send, Typed, drafts, parent, runs, sources,
       tick, Accept, JobOn, OnlyApprovedIsOut, JobSound, Recorded, Out
  <2>4. \A o \in Procs : JobSound(o)'
    BY <1>1, WorkerIs DEF Inv, Send, Typed, drafts, parent, runs, sources,
       tick, Goto, Accept, JobOn, JobSound, Recorded
  <2>5. Frozen
    BY <1>1, WorkerIs DEF Inv, Send, Typed, drafts, parent, runs, sources,
       tick, Frozen
  <2>6. QED
    BY <2>1, <2>2, <2>3, <2>4, <2>5 DEF Inv
<1>2. CASE Accept(job[p].draft) /\ Finish(p)
  <2>1. Typed(B)'
    <3>0. job[p] \in JobOn(B) /\ Idle \in JobOn(B) /\ job[p].draft \in Drafts
      BY WorkerIs, IdleIs DEF Inv, Send, Typed, JobSound
    <3>1. job' = [job EXCEPT ![p] = Idle]
      BY <1>2 DEF Finish
    <3>2. Idle \in JobOn(B)
      BY <3>0 DEF JobOn
    <3>3. job' \in [Procs -> JobOn(B)]
      BY <3>1, <3>2 DEF Inv, Typed
    <3>4. sent' \in [Drafts -> 0..2]
      BY <1>2, <3>0 DEF Inv, Accept, Typed
    <3>5. QED
      BY <3>3, <3>4 DEF Inv, Send, Typed, drafts, parent, runs, sources, tick
  <2>2. Fresh'
    BY <1>2, WorkerIs DEF Inv, Send, Typed, drafts, parent, runs, sources,
       tick, Finish, JobOn, Idle, Fresh
  <2>3. OnlyApprovedIsOut'
    BY <1>2, WorkerIs DEF Inv, Send, Typed, drafts, parent, runs, sources,
       tick, Accept, JobOn, OnlyApprovedIsOut, JobSound, Recorded, Out
  <2>4. \A o \in Procs : JobSound(o)'
    BY <1>2, WorkerIs DEF Inv, Send, Typed, drafts, parent, runs, sources,
       tick, Finish, Accept, JobOn, Idle, JobSound, Recorded
  <2>5. Frozen
    BY <1>2, WorkerIs DEF Inv, Send, Typed, drafts, parent, runs, sources,
       tick, Frozen
  <2>6. QED
    BY <2>1, <2>2, <2>3, <2>4, <2>5 DEF Inv
<1>3. CASE Finish(p) /\ UNCHANGED parent
  <2>1. Typed(B)'
    BY <1>3, WorkerIs, IdleIs, ContentAssumption DEF Inv, Send, Typed,
       drafts, parent, runs, sources, tick, Finish, JobOn
  <2>2. Fresh'
    BY <1>3, WorkerIs DEF Inv, Send, Typed, drafts, parent, runs, sources,
       tick, Finish, JobOn, Idle, Fresh
  <2>3. OnlyApprovedIsOut'
    BY <1>3, WorkerIs DEF Inv, Send, Typed, drafts, parent, runs, sources,
       tick, JobOn, OnlyApprovedIsOut, JobSound, Recorded, Out
  <2>4. \A o \in Procs : JobSound(o)'
    BY <1>3, WorkerIs DEF Inv, Send, Typed, drafts, parent, runs, sources,
       tick, Finish, JobOn, Idle, JobSound, Recorded
  <2>5. Frozen
    BY <1>3, WorkerIs DEF Inv, Send, Typed, drafts, parent, runs, sources,
       tick, Frozen
  <2>6. QED
    BY <2>1, <2>2, <2>3, <2>4, <2>5 DEF Inv
<1>4. QED
  BY <1>1, <1>2, <1>3 DEF Send

\* The record is marked once the parent system has accepted.
LEMMA MarkPublishedKeeps ==
  ASSUME NEW B, Inv(B), NEW p \in Procs, MarkPublished(p)
  PROVE  Inv(B)' /\ Frozen
<1>1. Typed(B)'
  BY WorkerIs, IdleIs, ContentAssumption DEF Inv, MarkPublished, Typed,
     drafts, parent, runs, sources, tick, Finish, JobOn
<1>2. Fresh'
  BY WorkerIs DEF Inv, MarkPublished, Typed, drafts, parent, runs, sources,
     tick, Finish, JobOn, Idle, Fresh
<1>3. OnlyApprovedIsOut'
  BY WorkerIs DEF Inv, MarkPublished, Typed, drafts, parent, runs, sources,
     tick, JobOn, OnlyApprovedIsOut, JobSound, Recorded, Out
<1>4. \A o \in Procs : JobSound(o)'
  BY WorkerIs DEF Inv, MarkPublished, Typed, drafts, parent, runs, sources,
     tick, Finish, JobOn, Idle, JobSound, Recorded
<1>5. Frozen
  BY WorkerIs DEF Inv, MarkPublished, Typed, drafts, parent, runs, sources,
     tick, Frozen
<1>6. QED
  BY <1>1, <1>2, <1>3, <1>4, <1>5 DEF Inv

\* The worker publishes the next version by itself.
LEMMA RepublishKeeps ==
  ASSUME NEW B, Inv(B), NEW d \in Drafts, Republish(d)
  PROVE  Inv(B)' /\ Frozen
<1>1. Typed(B)'
  <2>1. [Idle EXCEPT !.at = "check", !.draft = d] \in JobOn(B)
    BY StartIs DEF Inv
  <2>2. job' \in [Procs -> JobOn(B)]
    BY <2>1, WorkerIs DEF Inv, Republish, Typed
  <2>3. QED
    BY <2>2 DEF Inv, Republish, Typed, drafts, parent, runs, sources
<1>2. Fresh'
  BY WorkerIs DEF Inv, Republish, Typed, drafts, parent, runs, sources,
     JobOn, Fresh
<1>3. OnlyApprovedIsOut'
  BY WorkerIs DEF Inv, Republish, Typed, drafts, parent, runs, sources,
     JobOn, OnlyApprovedIsOut, JobSound, Recorded, Out
<1>4. \A o \in Procs : JobSound(o)'
  BY WorkerIs DEF Inv, Republish, Typed, drafts, parent, runs, sources,
     JobOn, JobSound, Recorded
<1>5. Frozen
  BY WorkerIs DEF Inv, Republish, Typed, drafts, parent, runs, sources, Frozen
<1>6. QED
  BY <1>1, <1>2, <1>3, <1>4, <1>5 DEF Inv

\* The tick goes on to its next stage.
LEMMA NextStageKeeps ==
  ASSUME NEW B, Inv(B), NextStage
  PROVE  Inv(B)' /\ Frozen
<1>1. Typed(B)'
  BY WorkerIs, IdleIs, ContentAssumption DEF Inv, NextStage, Typed, drafts,
     parent, runs, sources, JobOn
<1>2. Fresh'
  BY WorkerIs DEF Inv, NextStage, Typed, drafts, parent, runs, sources,
     JobOn, Fresh
<1>3. OnlyApprovedIsOut'
  BY WorkerIs DEF Inv, NextStage, Typed, drafts, parent, runs, sources,
     JobOn, OnlyApprovedIsOut, JobSound, Recorded, Out
<1>4. \A o \in Procs : JobSound(o)'
  BY WorkerIs DEF Inv, NextStage, Typed, drafts, parent, runs, sources,
     JobOn, JobSound, Recorded
<1>5. Frozen
  BY WorkerIs DEF Inv, NextStage, Typed, drafts, parent, runs, sources, Frozen
<1>6. QED
  BY <1>1, <1>2, <1>3, <1>4, <1>5 DEF Inv

\* The worker ends between two steps: what it held is lost.
LEMMA CrashKeeps ==
  ASSUME NEW B, Inv(B), Crash
  PROVE  Inv(B)' /\ Frozen
<1>1. Typed(B)'
  BY WorkerIs, IdleIs, ContentAssumption DEF Inv, Crash, Typed, drafts,
     parent, runs, sources, Finish, JobOn
<1>2. Fresh'
  BY WorkerIs DEF Inv, Crash, Typed, drafts, parent, runs, sources, Finish,
     JobOn, Idle, Fresh
<1>3. OnlyApprovedIsOut'
  BY WorkerIs DEF Inv, Crash, Typed, drafts, parent, runs, sources, JobOn,
     OnlyApprovedIsOut, JobSound, Recorded, Out
<1>4. \A o \in Procs : JobSound(o)'
  BY WorkerIs DEF Inv, Crash, Typed, drafts, parent, runs, sources, Finish,
     JobOn, Idle, JobSound, Recorded
<1>5. Frozen
  BY WorkerIs DEF Inv, Crash, Typed, drafts, parent, runs, sources, Frozen
<1>6. QED
  BY <1>1, <1>2, <1>3, <1>4, <1>5 DEF Inv

\* A web request ends between two steps.
LEMMA AbandonKeeps ==
  ASSUME NEW B, Inv(B), NEW w \in Webs, Abandon(w)
  PROVE  Inv(B)' /\ Frozen
<1>1. Typed(B)'
  BY WorkerIs, IdleIs, ContentAssumption DEF Inv, Abandon, Typed, drafts,
     parent, runs, sources, tick, Finish, JobOn
<1>2. Fresh'
  BY WorkerIs DEF Inv, Abandon, Typed, drafts, parent, runs, sources, tick,
     Finish, JobOn, Idle, Fresh
<1>3. OnlyApprovedIsOut'
  BY WorkerIs DEF Inv, Abandon, Typed, drafts, parent, runs, sources, tick,
     JobOn, OnlyApprovedIsOut, JobSound, Recorded, Out
<1>4. \A o \in Procs : JobSound(o)'
  BY WorkerIs DEF Inv, Abandon, Typed, drafts, parent, runs, sources, tick,
     Finish, JobOn, Idle, JobSound, Recorded
<1>5. Frozen
  BY WorkerIs DEF Inv, Abandon, Typed, drafts, parent, runs, sources, tick,
     Frozen
<1>6. QED
  BY <1>1, <1>2, <1>3, <1>4, <1>5 DEF Inv

\* The worker chooses the version to write on: B grows by it.
LEMMA ProduceKeeps ==
  ASSUME NEW B, Inv(B), NEW t \in Types, Produce(t)
  PROVE  IndInv' /\ Frozen
<1> PICK c : c = Previous(t)
  OBVIOUS
<1> DEFINE C == B \union {c}
           j == [Idle EXCEPT !.at = "model", !.type = t, !.base = c]
<1>1. Idle \in JobOn(C) /\ job \in [Procs -> JobOn(C)]
  BY IdleIs DEF Inv, Typed, JobOn
<1>2. j \in JobOn(C)
  BY <1>1 DEF JobOn
<1>3. job' = job \/ job' = [job EXCEPT ![Worker] = j]
  BY DEF Produce
<1>4. Typed(C)'
  BY <1>1, <1>2, <1>3, WorkerIs DEF Inv, Produce, Typed, drafts, parent
<1>5. j.at = "model"
  BY DEF Idle
<1>6. Fresh'
  BY <1>3, <1>5, WorkerIs DEF Inv, Produce, Typed, Fresh, drafts
<1>7. OnlyApprovedIsOut'
  BY DEF Inv, Produce, OnlyApprovedIsOut, Recorded, Out, drafts, parent
<1>8. \A o \in Procs : JobSound(o)'
  BY <1>3, <1>5, WorkerIs DEF Inv, Produce, Typed, JobSound, Recorded,
     drafts, parent
<1>9. Frozen
  BY DEF Produce, Frozen, drafts
<1>10. 0 \in C
  BY DEF Inv
<1>11. QED
  BY <1>4, <1>6, <1>7, <1>8, <1>9, <1>10 DEF Inv, IndInv

\* What comes from elsewhere touches neither drafts nor handlers.
LEMMA OthersKeep ==
  ASSUME NEW B, Inv(B),
         UNCHANGED <<state, findings, made, row, sent, job>>
  PROVE  Inv(B)' /\ Frozen
  BY DEF Inv, Typed, Fresh, OnlyApprovedIsOut, JobSound, Recorded, Out, Frozen

\* Every step keeps the invariant and leaves what was judged as it is.
LEMMA NextKeeps == IndInv /\ [Next]_vars => IndInv' /\ Frozen
<1> SUFFICES ASSUME IndInv, [Next]_vars
             PROVE  IndInv' /\ Frozen
  OBVIOUS
<1>1. PICK B : Inv(B)
  BY DEF IndInv
<1> SUFFICES ASSUME ~(IndInv' /\ Frozen)
             PROVE  FALSE
  OBVIOUS
<1>2. ~(Inv(B)' /\ Frozen)
  BY DEF IndInv
<1>3. CASE Ingest \/ QuestionRepeats \/ Boot \/ \E t \in Types : PeriodPasses(t)
  BY <1>1, <1>2, <1>3, OthersKeep DEF Ingest, QuestionRepeats, Boot,
     PeriodPasses, drafts, parent
<1>4. CASE Crash
  BY <1>1, <1>2, <1>4, CrashKeeps
<1>5. ASSUME NEW p \in Procs, Exit(p) PROVE FALSE
  BY <1>1, <1>2, <1>5, RefusedKeeps, NoRowYetKeeps, OpenRowKeeps, SendKeeps,
     MarkPublishedKeeps, TakeUpKeeps DEF Exit
<1>6. CASE WorkerNext
  <2>1. CASE Writer
    BY <1>1, <1>2, <2>1, UnchangedKeeps, NotGeneratedKeeps,
       IssueTicketKeeps, SaveDraftKeeps, RecordRunKeeps,
       RecordFindingsKeeps, NoFindingsKeeps DEF Writer
  <2>2. ASSUME NEW t \in Types, Produce(t) PROVE FALSE
    BY <1>1, <2>2, ProduceKeeps
  <2>3. ASSUME NEW d \in Drafts, Inspect(d) \/ Republish(d) PROVE FALSE
    BY <1>1, <1>2, <2>3, InspectKeeps, RepublishKeeps
  <2>4. CASE NextStage
    BY <1>1, <1>2, <2>4, NextStageKeeps
  <2>5. QED
    BY <1>5, <1>6, <2>1, <2>2, <2>3, <2>4, WorkerIs DEF WorkerNext
<1>7. ASSUME NEW w \in Webs,
             \/ WebNext(w) \/ Abandon(w)
             \/ \E d \in Drafts : \/ Confirm(w, d)
                                  \/ \E yes \in BOOLEAN : Decide(w, d, yes)
      PROVE  FALSE
  <2>1. CASE WebNext(w)
    BY <1>1, <1>2, <1>5, <2>1, CloseTicketKeeps, WorkerIs DEF WebNext
  <2>2. CASE Abandon(w)
    BY <1>1, <1>2, <2>2, AbandonKeeps
  <2>3. ASSUME NEW d \in Drafts, NEW yes \in BOOLEAN,
               Confirm(w, d) \/ Decide(w, d, yes)
        PROVE  FALSE
    BY <1>1, <1>2, <2>3, ConfirmKeeps, DecideKeeps
  <2>4. QED
    BY <1>7, <2>1, <2>2, <2>3
<1>8. CASE UNCHANGED vars
  BY <1>1, <1>2, <1>8, OthersKeep DEF vars
<1>9. QED
  BY <1>3, <1>4, <1>6, <1>7, <1>8 DEF Next

\* What the parent system shows of the service's documents was approved by
\* somebody and is on record (publication.py publish).
THEOREM NothingUnapprovedIsOut == Spec => []OnlyApprovedIsOut
<1>1. IndInv => OnlyApprovedIsOut
  BY DEF Inv, IndInv
<1>2. IndInv /\ [Next]_vars => IndInv'
  BY NextKeeps
<1>3. QED
  BY <1>1, <1>2, InitHolds, PTL DEF Spec

\* A judged draft stays as it was judged, with what the judge saw of it, however
\* late the findings of the model arrive (store.py record_findings).
THEOREM JudgementsStand == Spec => JudgedIsFrozen
<1>1. IndInv /\ [Next]_vars => IndInv' /\ [Frozen]_vars
  BY NextKeeps
<1>2. [Frozen]_vars <=> [\A d \in Drafts : state[d] \in {"approved", "rejected"} =>
         state'[d] = state[d] /\ findings'[d] = findings[d]]_vars
  BY DEF Frozen
<1>3. QED
  BY <1>1, <1>2, InitHolds, PTL DEF Spec, JudgedIsFrozen
-----------------------------------------------------------------------------
(* One draft under review *)

Judged == {"approved", "rejected"}

Approved(t) == {d \in Drafts : type[d] = t /\ state[d] = "approved"}

\* The draft of a type that was approved after all the others.
Latest(t, d) ==
  /\ d \in Approved(t)
  /\ \A e \in Approved(t) \ {d} : decided[e] < decided[d]

\* Drafts are written one after the other, and a draft is judged once.
Written ==
  /\ \A d \in Drafts : /\ state[d] = "none" <=> d > made
                       /\ type[d] = None <=> d > made
                       /\ state[d] \notin Judged => decided[d] = 0

\* Judgements are numbered in the order they were made.
Numbered ==
  \A d \in Drafts : decided[d] <= Cardinality({e \in Drafts : decided[e] # 0})

Ordered == \A t \in Types : Approved(t) = {} \/ \E d \in Drafts : Latest(t, d)

\* Where the worker writes a draft of its type.
Composing == {"model", "save", "record"}

\* While the worker writes, nothing of that type waits for people, so the
\* version it writes from stays the current one.
Writing ==
  LET t == job[Worker].type IN
  /\ job[Worker].at \in Composing => t \in Types
  /\ job[Worker].at \in {"model", "save"} =>
       Pending(t) = {} /\ job[Worker].base = Previous(t)
  /\ job[Worker].at = "save" => made < MaxDrafts

ReviewInv ==
  /\ TypeOK /\ Written /\ Numbered /\ Ordered /\ OneUnderReview /\ Writing

-----------------------------------------------------------------------------
(* Documents in order *)

\* types.toml has no document that waits for a final check.  registry.py would
\* take one, and then an older version could be confirmed after a newer one.
DocumentsGoUnconfirmed == \A t \in Types : OnDocument(t) => ~Decl[t].final

\* Lists and handlers know only drafts that are written, a ticket is open as
\* long as its draft waits, and a row is opened for what was approved.
Known ==
  /\ stage \in {"inspect", "publish"} => \A d \in todo \intersect Drafts : d <= made
  /\ \A p \in Procs : /\ job[p].draft <= made
                      /\ job[p].at = "close" => state[job[p].draft] \in Judged
  /\ \A d \in Drafts : /\ state[d] = "pending" => ticket[d] = "open"
                       /\ Recorded(d) => state[d] = "approved"

\* No two handlers work on one type.
Exclusive ==
  \A p, q \in Procs : p # q /\ TypeAt(p) = TypeAt(q) => TypeAt(p) = None

\* The handler at the exit knows the row: nobody else opens or marks it, and
\* an issue was not sent before.
Solo(p) ==
  LET d == job[p].draft IN
  /\ job[p].at = "check" /\ job[p].yes => ~Recorded(d)
  /\ job[p].at = "open" => ~Recorded(d)
  /\ job[p].at \in {"call", "mark"} => row[d] = "in_flight"
  /\ job[p].at = "call" => sent[d] = 0 \/ OnDocument(type[d])

ApartInv == apart => Exclusive /\ IssueOnce /\ \A p \in Procs : Solo(p)

\* p is about to put d at the parent system.
Handling(p, d) ==
  /\ job[p].draft = d
  /\ \/ job[p].at \in {"check", "open", "call", "mark"}
     \/ job[p].at = "close" /\ job[p].yes /\ ticket[d] = "open"

\* A document is out, or it is the newest version and somebody has it in hand.
InHand ==
  \A d \in Drafts : state[d] = "approved" /\ OnDocument(type[d]) =>
    Out(d) \/ (Latest(type[d], d) /\ \E p \in Procs : Handling(p, d))

Shown(p) ==
  job[p].at = "mark" /\ OnDocument(type[job[p].draft]) =>
    doc[type[job[p].draft]] = job[p].draft

\* The newest version is what the parent system shows, once its row says so.
LatestIsShown ==
  \A d \in Drafts :
    Out(d) /\ OnDocument(type[d]) /\ Latest(type[d], d) => doc[type[d]] = d

DocInv ==
  apart /\ faults = 0 =>
    InHand /\ LatestIsShown /\ \A p \in Procs : Shown(p)

-----------------------------------------------------------------------------
(* What holds of a process *)

Places == {"idle", "model", "save", "record", "findings", "close", "check",
           "open", "call", "mark"}

\* The fields of a well-typed job.
LEMMA JobFields ==
  ASSUME NEW j \in Job
  PROVE  /\ j.at \in Places /\ j.draft \in 0..MaxDrafts /\ j.yes \in BOOLEAN
         /\ j.type \in Types \union {None} /\ j.base \in 0..MaxDrafts
BY DEF Job, Places

\* A process without a job has no type, and no draft at any stage.
LEMMA IdleJob ==
  /\ Idle \in Job
  /\ Idle.at = "idle" /\ Idle.draft = 0 /\ Idle.type = None /\ Idle.yes = FALSE
BY ContentAssumption DEF Idle, Job

\* A draft is not the number that stands for none.
LEMMA DraftRange == \A d \in Drafts : d \in 0..MaxDrafts /\ d # 0
BY ContentAssumption DEF Drafts

\* Storing the job of a process.
LEMMA JobStored ==
  ASSUME TypeOK, NEW p \in Procs, NEW j \in Job, job' = [job EXCEPT ![p] = j]
  PROVE  /\ job' \in [Procs -> Job]
         /\ job'[p] = j
         /\ \A q \in Procs \ {p} : job'[q] = job[q]
BY DEF TypeOK

\* A process goes on with what it has.
LEMMA GotoIs ==
  ASSUME TypeOK, NEW p \in Procs, NEW there \in Places, Goto(p, there)
  PROVE  /\ job' \in [Procs -> Job]
         /\ job'[p].at = there /\ job'[p].draft = job[p].draft
         /\ job'[p].yes = job[p].yes /\ job'[p].type = job[p].type
         /\ job'[p].base = job[p].base
         /\ \A q \in Procs \ {p} : job'[q] = job[q]
<1> DEFINE j == [job[p] EXCEPT !.at = there]
<1>1. job[p] \in Job
  BY DEF TypeOK
<1>2. /\ j \in Job
      /\ j.at = there /\ j.draft = job[p].draft /\ j.yes = job[p].yes
      /\ j.type = job[p].type /\ j.base = job[p].base
  BY <1>1 DEF Job, Places
<1>3. job' = [job EXCEPT ![p] = j]
  BY DEF Goto
<1> HIDE DEF j
<1> QED BY <1>2, <1>3, JobStored

\* A process is done.
LEMMA FinishIs ==
  ASSUME TypeOK, NEW p \in Procs, Finish(p)
  PROVE  /\ job' \in [Procs -> Job] /\ job'[p] = Idle
         /\ \A q \in Procs \ {p} : job'[q] = job[q]
BY IdleJob, JobStored DEF Finish

-----------------------------------------------------------------------------
(* The current version *)

\* The version approved last is the current one; without any there is none.
LEMMA CurrentIs ==
  ASSUME decided \in [Drafts -> 0..MaxDrafts], NEW t
  PROVE  /\ Approved(t) = {} => Current(t) = 0
         /\ \A d \in Drafts : Latest(t, d) => Current(t) = d
<1>1. Current(t) = IF Approved(t) = {} THEN 0
                   ELSE CHOOSE d \in Approved(t) :
                          \A e \in Approved(t) : decided[e] <= decided[d]
  BY Zenon DEF Current, Approved
<1>2. ASSUME NEW d \in Drafts, Latest(t, d) PROVE Current(t) = d
  <2> DEFINE c == CHOOSE x \in Approved(t) :
                    \A e \in Approved(t) : decided[e] <= decided[x]
  <2>1. Approved(t) \subseteq Drafts
    BY DEF Approved
  <2>2. \A e \in Approved(t) : decided[e] \in Nat
    BY <2>1, ContentAssumption
  <2>3. d \in Approved(t) /\ \A e \in Approved(t) : decided[e] <= decided[d]
    BY <1>2, <2>2 DEF Latest
  <2>4. c \in Approved(t) /\ decided[d] <= decided[c]
    BY <2>3
  <2>5. Current(t) = c
    BY <1>1, <2>3
  <2> HIDE DEF c
  <2>6. c = d
    BY <1>2, <2>2, <2>3, <2>4 DEF Latest
  <2> QED BY <2>5, <2>6
<1> QED BY <1>1, <1>2

\* The same after a step.
LEMMA CurrentIsNext ==
  ASSUME decided' \in [Drafts -> 0..MaxDrafts], NEW t
  PROVE  /\ Approved(t)' = {} => Current(t)' = 0
         /\ \A d \in Drafts : Latest(t, d)' => Current(t)' = d
<1>1. Current(t)' = IF Approved(t)' = {} THEN 0
                    ELSE CHOOSE d \in Approved(t)' :
                           \A e \in Approved(t)' : decided'[e] <= decided'[d]
  BY Zenon DEF Current, Approved
<1>2. ASSUME NEW d \in Drafts, Latest(t, d)' PROVE Current(t)' = d
  <2> DEFINE c == CHOOSE x \in Approved(t)' :
                    \A e \in Approved(t)' : decided'[e] <= decided'[x]
  <2>1. Approved(t)' \subseteq Drafts
    BY DEF Approved
  <2>2. \A e \in Approved(t)' : decided'[e] \in Nat
    BY <2>1, ContentAssumption
  <2>3. d \in Approved(t)' /\ \A e \in Approved(t)' : decided'[e] <= decided'[d]
    BY <1>2, <2>2 DEF Latest
  <2>4. c \in Approved(t)' /\ decided'[d] <= decided'[c]
    BY <2>3
  <2>5. Current(t)' = c
    BY <1>1, <2>3
  <2> HIDE DEF c
  <2>6. c = d
    BY <1>2, <2>2, <2>3, <2>4 DEF Latest
  <2> QED BY <2>5, <2>6
<1> QED BY <1>1, <1>2

\* What is written from is a draft or nothing.
LEMMA PreviousTyped ==
  ASSUME TypeOK, Ordered, NEW t \in Types
  PROVE  Current(t) \in 0..MaxDrafts /\ Previous(t) \in 0..MaxDrafts
<1>1. decided \in [Drafts -> 0..MaxDrafts] /\ Drafts \subseteq 0..MaxDrafts
  BY ContentAssumption DEF TypeOK, Drafts
<1>2. Current(t) \in 0..MaxDrafts
  BY <1>1, CurrentIs, ContentAssumption DEF Ordered
<1> QED BY <1>2, ContentAssumption DEF Previous

\* A step that approves nothing of a type leaves its current version alone.
LEMMA CurrentKept ==
  ASSUME TypeOK, TypeOK', Ordered, NEW t \in Types,
         Approved(t)' = Approved(t),
         \A e \in Approved(t) : decided'[e] = decided[e]
  PROVE  /\ Current(t)' = Current(t) /\ Previous(t)' = Previous(t)
         /\ \A d \in Drafts : Latest(t, d)' <=> Latest(t, d)
<1>1. /\ decided \in [Drafts -> 0..MaxDrafts]
      /\ decided' \in [Drafts -> 0..MaxDrafts]
  BY DEF TypeOK
<1>2. \A d \in Drafts : Latest(t, d)' <=> Latest(t, d)
  BY DEF Latest
<1>3. Current(t)' = Current(t)
  BY <1>1, <1>2, CurrentIs, CurrentIsNext DEF Ordered
<1> QED BY <1>2, <1>3 DEF Previous

-----------------------------------------------------------------------------
(* One draft under review: the steps *)

\* At first nothing is written and nobody is writing.
LEMMA ReviewInit == Init => ReviewInv
<1> SUFFICES ASSUME Init PROVE ReviewInv
  OBVIOUS
<1>1. TypeOK
  <2>1. 0 \in 0..MaxDrafts /\ 0 \in 0..MaxCommits
    BY ContentAssumption
  <2>2. /\ type \in [Drafts -> Types \union {None}]
        /\ state \in [Drafts -> {"none", "pending", "approved", "rejected"}]
        /\ ticket \in [Drafts -> {"none", "open", "closed"}]
        /\ row \in [Drafts -> {"none", "in_flight", "published"}]
        /\ findings \in [Drafts -> BOOLEAN] /\ sent \in [Drafts -> 0..2]
    BY DEF Init
  <2>3. /\ base \in [Drafts -> 0..MaxDrafts]
        /\ decided \in [Drafts -> 0..MaxDrafts]
        /\ doc \in [Types -> 0..MaxDrafts]
        /\ last \in [Types -> 0..MaxCommits]
        /\ drawn \in [Types -> 0..MaxCommits]
    BY <2>1 DEF Init
  <2>4. job \in [Procs -> Job]
    BY IdleJob DEF Init
  <2> QED BY <2>1, <2>2, <2>3, <2>4 DEF Init, TypeOK, Stages, Material
<1>2. \A d \in Drafts : d > made
  BY ContentAssumption DEF Init, Drafts
<1>3. Written /\ Ordered /\ OneUnderReview
  BY <1>2 DEF Init, Written, Ordered, Approved, OneUnderReview, Judged
<1>4. Numbered
  <2>1. \A d \in Drafts : decided[d] = 0
    BY DEF Init
  <2>2. {e \in Drafts : decided[e] # 0} = {}
    BY <2>1
  <2>3. Cardinality({e \in Drafts : decided[e] # 0}) = 0
    BY <2>2, FS_EmptySet
  <2> QED BY <2>1, <2>3 DEF Numbered
<1>5. Writing
  BY WorkerIs, IdleJob DEF Init, Writing, Composing
<1> QED BY <1>1, <1>3, <1>4, <1>5 DEF ReviewInv

\* A step that writes and judges no draft.
LEMMA ReviewQuiet ==
  ASSUME ReviewInv, TypeOK', UNCHANGED <<type, state, base, decided, made>>,
         job'[Worker] = job[Worker] \/ job'[Worker].at \notin Composing
  PROVE  ReviewInv'
<1>1. \A t : Pending(t)' = Pending(t) /\ Approved(t)' = Approved(t)
  BY DEF Pending, Approved
<1>2. Written' /\ Numbered'
  BY DEF ReviewInv, Written, Numbered
<1>3. \A t \in Types : /\ Previous(t)' = Previous(t)
                       /\ \A d \in Drafts : Latest(t, d)' <=> Latest(t, d)
  BY <1>1, CurrentKept DEF ReviewInv
<1>4. Ordered'
  BY <1>1, <1>3 DEF ReviewInv, Ordered
<1>5. \A d \in Drafts : state[d] = "pending" => type[d] \in Types
  BY DEF ReviewInv, Written, TypeOK
<1>6. OneUnderReview'
  BY <1>1, <1>3, <1>5 DEF ReviewInv, OneUnderReview
<1>7. Writing'
  BY <1>1, <1>3 DEF ReviewInv, Writing, Composing
<1> QED BY <1>2, <1>4, <1>6, <1>7 DEF ReviewInv

\* Such a step of a process that goes on: only issuing a ticket leads to where
\* a draft is saved.
LEMMA ReviewGoes ==
  ASSUME ReviewInv, NEW p \in Procs, NEW there \in Places \ Composing,
         Goto(p, there), job' \in [Procs -> Job] => TypeOK',
         UNCHANGED <<type, state, base, decided, made>>
  PROVE  ReviewInv'
<1>1. TypeOK /\ Worker \in Procs
  BY WorkerIs DEF ReviewInv
<1> QED BY <1>1, GotoIs, ReviewQuiet

\* Such a step of a process that is done.
LEMMA ReviewEnds ==
  ASSUME ReviewInv, NEW p \in Procs, Finish(p),
         job' \in [Procs -> Job] => TypeOK',
         UNCHANGED <<type, state, base, decided, made>>
  PROVE  ReviewInv'
<1>1. TypeOK /\ Worker \in Procs
  BY WorkerIs DEF ReviewInv
<1> QED BY <1>1, IdleJob, FinishIs, ReviewQuiet DEF Composing

\* Such a step of a process that takes up a draft.
LEMMA ReviewStarts ==
  ASSUME ReviewInv, NEW p \in Procs, NEW j \in Job,
         j.at \notin Composing, job' = [job EXCEPT ![p] = j],
         job' \in [Procs -> Job] => TypeOK',
         UNCHANGED <<type, state, base, decided, made>>
  PROVE  ReviewInv'
<1>1. TypeOK /\ Worker \in Procs
  BY WorkerIs DEF ReviewInv
<1> QED BY <1>1, JobStored, ReviewQuiet

\* What comes from elsewhere, and the stages of the tick.
LEMMA ReviewElsewhere ==
  ASSUME ReviewInv,
         \/ Ingest \/ QuestionRepeats \/ Boot \/ NextStage
         \/ \E t \in Types : PeriodPasses(t)
  PROVE  ReviewInv'
<1>1. TypeOK
  BY DEF ReviewInv
<1>2. UNCHANGED <<drafts, job>>
  BY DEF Ingest, QuestionRepeats, Boot, NextStage, PeriodPasses
<1>3. ASSUME Ingest PROVE TypeOK'
  BY <1>1, <1>3, ContentAssumption
  DEF Ingest, TypeOK, drafts, parent, runs, tick
<1>4. ASSUME QuestionRepeats PROVE TypeOK'
  BY <1>1, <1>4 DEF QuestionRepeats, TypeOK, drafts, parent, runs, tick
<1>5. ASSUME Boot PROVE TypeOK'
  BY <1>1, <1>5 DEF Boot, TypeOK, drafts, parent, runs, sources, Stages
<1>6. ASSUME NextStage PROVE TypeOK'
  <2>1. stage' \in Stages /\ todo' \subseteq Types \union Drafts
    <3>1. stage \in {"rest", "produce", "inspect", "publish"}
      BY <1>6 DEF NextStage
    <3>2. Awaiting \subseteq Drafts /\ Retriable \subseteq Drafts
      BY DEF Awaiting, Retriable
    <3> QED BY <1>1, <1>6, <3>1, <3>2 DEF NextStage, TypeOK, drafts, Stages
  <2> QED
    BY <1>1, <1>6, <2>1 DEF NextStage, TypeOK, drafts, parent, runs, sources
<1>7. ASSUME NEW t \in Types, PeriodPasses(t) PROVE TypeOK'
  BY <1>1, <1>7 DEF PeriodPasses, TypeOK, drafts, parent, sources, tick
<1>8. TypeOK'
  BY <1>3, <1>4, <1>5, <1>6, <1>7
<1> QED BY <1>2, <1>8, ReviewQuiet DEF drafts

\* What the worker does with the model's answer, but for the draft itself.
LEMMA ReviewWriter ==
  ASSUME ReviewInv,
         Unchanged \/ NotGenerated \/ RecordRun \/ RecordFindings \/ NoFindings
  PROVE  ReviewInv'
<1>1. TypeOK /\ Worker \in Procs /\ job[Worker] \in Job
  BY WorkerIs DEF ReviewInv, TypeOK
<1>2. Finish(Worker) /\ UNCHANGED <<type, state, base, decided, made>>
  BY DEF Unchanged, NotGenerated, RecordRun, RecordFindings, NoFindings, drafts
<1>3. ASSUME job' \in [Procs -> Job] PROVE TypeOK'
  <2>1. CASE Unchanged \/ RecordRun
    <3>1. /\ elapsed' \subseteq Types
          /\ last' \in [Types -> 0..MaxCommits]
      BY <1>1, <2>1 DEF Unchanged, RecordRun, Generated, TypeOK
    <3>2. drawn' \in [Types -> 0..MaxCommits]
      BY <1>1, <2>1 DEF Unchanged, RecordRun, TypeOK
    <3>3. ran' \subseteq Types
      <4>1. job[Worker].at \in {"model", "record"}
        BY <2>1 DEF Unchanged, RecordRun
      <4>2. job[Worker].at \in {"model", "record"} => job[Worker].type \in Types
        BY DEF ReviewInv, Writing, Composing
      <4> QED BY <1>1, <2>1, <4>1, <4>2 DEF Unchanged, RecordRun, Generated, TypeOK
    <3> QED
      BY <1>1, <1>3, <2>1, <3>1, <3>2, <3>3
      DEF Unchanged, RecordRun, TypeOK, drafts, parent, sources, tick
  <2>2. CASE NotGenerated \/ NoFindings
    BY <1>1, <1>3, <2>2, ContentAssumption
    DEF NotGenerated, NoFindings, Fault, TypeOK, drafts, parent, runs,
        sources, tick
  <2>3. CASE RecordFindings
    BY <1>1, <1>3, <2>3
    DEF RecordFindings, TypeOK, parent, runs, sources, tick
  <2> QED BY <2>1, <2>2, <2>3
<1> QED BY <1>1, <1>2, <1>3, ReviewEnds

\* The worker chooses a type that nothing waits for, and its current version.
LEMMA ReviewProduce ==
  ASSUME ReviewInv, NEW t \in Types, Produce(t)
  PROVE  ReviewInv'
<1>1. TypeOK /\ Worker \in Procs
  BY WorkerIs DEF ReviewInv
<1>2. UNCHANGED <<type, state, base, decided, made>>
  BY DEF Produce, drafts
<1>3. ASSUME job' \in [Procs -> Job] PROVE TypeOK'
  BY <1>1, <1>3
  DEF Produce, TypeOK, drafts, parent, runs, sources
<1>4. CASE ~Writable(t)
  <2>1. job' = job
    BY <1>4 DEF Produce
  <2> QED BY <1>1, <1>2, <1>3, <2>1, ReviewQuiet DEF TypeOK
<1>5. CASE Writable(t)
  <2> DEFINE j == [Idle EXCEPT !.at = "model", !.type = t, !.base = Previous(t)]
  <2>1. Previous(t) \in 0..MaxDrafts
    BY PreviousTyped DEF ReviewInv
  <2>2. /\ j \in Job
        /\ j.at = "model" /\ j.type = t /\ j.base = Previous(t) /\ j.draft = 0
    BY <2>1, IdleJob DEF Job
  <2>3. job' = [job EXCEPT ![Worker] = j]
    BY <1>5 DEF Produce
  <2> HIDE DEF j
  <2>4. job' \in [Procs -> Job] /\ job'[Worker] = j
    BY <1>1, <2>2, <2>3, JobStored
  <2>5. TypeOK'
    BY <1>3, <2>4
  <2>6. /\ \A u : Pending(u)' = Pending(u) /\ Approved(u)' = Approved(u)
        /\ Pending(t) = {}
    BY <1>2, <1>5 DEF Pending, Approved, Writable
  <2>7. \A u \in Types : /\ Previous(u)' = Previous(u)
                         /\ \A d \in Drafts : Latest(u, d)' <=> Latest(u, d)
    BY <1>2, <2>5, <2>6, CurrentKept DEF ReviewInv
  <2>8. Writing'
    BY <2>2, <2>4, <2>6, <2>7 DEF Writing, Composing
  <2>9. Written' /\ Numbered' /\ Ordered'
    BY <1>2, <2>6, <2>7 DEF ReviewInv, Written, Numbered, Ordered
  <2>10. \A d \in Drafts : state[d] = "pending" => type[d] \in Types
    BY DEF ReviewInv, Written, TypeOK
  <2>11. OneUnderReview'
    BY <1>2, <2>6, <2>7, <2>10 DEF ReviewInv, OneUnderReview
  <2> QED BY <2>5, <2>8, <2>9, <2>11 DEF ReviewInv
<1> QED BY <1>4, <1>5

\* Its ticket is issued while there is still room for the draft.
LEMMA ReviewIssue ==
  ASSUME ReviewInv, IssueTicket
  PROVE  ReviewInv'
<1>1. TypeOK /\ Worker \in Procs /\ "save" \in Places
  BY WorkerIs DEF ReviewInv, Places
<1>2. UNCHANGED <<type, state, base, decided, made>>
  BY DEF IssueTicket, drafts
<1>3. /\ job' \in [Procs -> Job]
      /\ job'[Worker].at = "save" /\ job'[Worker].type = job[Worker].type
      /\ job'[Worker].base = job[Worker].base
  BY <1>1, GotoIs DEF IssueTicket
<1>4. TypeOK'
  BY <1>1, <1>3 DEF IssueTicket, TypeOK, drafts, parent, runs, sources, tick
<1>5. \A u : Pending(u)' = Pending(u) /\ Approved(u)' = Approved(u)
  BY <1>2 DEF Pending, Approved
<1>6. \A u \in Types : /\ Previous(u)' = Previous(u)
                       /\ \A d \in Drafts : Latest(u, d)' <=> Latest(u, d)
  BY <1>2, <1>4, <1>5, CurrentKept DEF ReviewInv
<1>7. Writing'
  BY <1>3, <1>5, <1>6 DEF ReviewInv, Writing, Composing, IssueTicket, drafts
<1>8. Written' /\ Numbered' /\ Ordered'
  BY <1>2, <1>5, <1>6 DEF ReviewInv, Written, Numbered, Ordered
<1>9. \A d \in Drafts : state[d] = "pending" => type[d] \in Types
  BY DEF ReviewInv, Written, TypeOK
<1>10. OneUnderReview'
  BY <1>2, <1>5, <1>6, <1>9 DEF ReviewInv, OneUnderReview
<1> QED BY <1>4, <1>7, <1>8, <1>10 DEF ReviewInv

\* The new draft is the only one of its type that waits, and it was written
\* from the version that is still the current one.
LEMMA ReviewSave ==
  ASSUME ReviewInv, SaveDraft
  PROVE  ReviewInv'
<1> PICK n : n = made + 1
  OBVIOUS
<1> PICK t : t = job[Worker].type
  OBVIOUS
<1>1. TypeOK /\ Worker \in Procs /\ "record" \in Places
  BY WorkerIs DEF ReviewInv, Places
<1>2. /\ n \in Drafts /\ n > made /\ made' = n /\ made \in Nat
      /\ \A d \in Drafts : (d > n <=> d > made /\ d # n)
      /\ t \in Types /\ Pending(t) = {} /\ job[Worker].base = Previous(t)
  BY <1>1, ContentAssumption
  DEF ReviewInv, Writing, Composing, SaveDraft, TypeOK, Drafts
<1>3. state[n] = "none" /\ type[n] = None /\ decided[n] = 0
  BY <1>2 DEF ReviewInv, Written, Judged
<1>4. /\ type'  = [type EXCEPT ![n] = t]
      /\ state' = [state EXCEPT ![n] = "pending"]
      /\ base'  = [base EXCEPT ![n] = job[Worker].base]
      /\ ticket' = [ticket EXCEPT ![n] = "open"]
      /\ UNCHANGED decided
  BY DEF SaveDraft
<1>5. /\ job' \in [Procs -> Job]
      /\ job'[Worker].at = "record" /\ job'[Worker].type = t
  BY <1>1, GotoIs DEF SaveDraft
<1>6. job[Worker].base \in 0..MaxDrafts /\ n \in 0..MaxDrafts
  BY <1>1, <1>2, ContentAssumption, JobFields DEF TypeOK, Drafts
<1>7. TypeOK'
  <2>1. drawn' \in [Types -> 0..MaxCommits]
    BY <1>1 DEF SaveDraft, TypeOK
  <2>2. /\ type' \in [Drafts -> Types \union {None}]
        /\ state' \in [Drafts -> {"none", "pending", "approved", "rejected"}]
        /\ base' \in [Drafts -> 0..MaxDrafts]
        /\ ticket' \in [Drafts -> {"none", "open", "closed"}]
        /\ made' \in 0..MaxDrafts
    BY <1>1, <1>2, <1>4, <1>6 DEF TypeOK
  <2> QED
    BY <1>1, <1>4, <1>5, <2>1, <2>2
    DEF SaveDraft, TypeOK, parent, sources, tick
<1>8. /\ type'[n] = t /\ state'[n] = "pending"
      /\ base'[n] = job[Worker].base
      /\ \A d \in Drafts \ {n} : /\ type'[d] = type[d] /\ state'[d] = state[d]
                                 /\ base'[d] = base[d]
  BY <1>1, <1>2, <1>4 DEF TypeOK
<1>9. t # None
  BY <1>2, ContentAssumption
<1>10. /\ \A u \in Types : Approved(u)' = Approved(u)
       /\ Pending(t)' = {n}
       /\ \A u \in Types \ {t} : Pending(u)' = Pending(u)
  <2>1. ASSUME NEW u \in Types PROVE Approved(u)' = Approved(u)
    BY <1>2, <1>3, <1>8 DEF Approved
  <2>2. Pending(t)' = {n}
    <3>1. \A d \in Drafts : ~(type[d] = t /\ state[d] = "pending")
      BY <1>2 DEF Pending
    <3>2. \A d \in Drafts : (type'[d] = t /\ state'[d] = "pending") <=> d = n
      BY <1>8, <3>1
    <3> QED BY <1>2, <3>2 DEF Pending
  <2>3. ASSUME NEW u \in Types \ {t} PROVE Pending(u)' = Pending(u)
    BY <1>2, <1>3, <1>8 DEF Pending
  <2> QED BY <2>1, <2>2, <2>3
<1>11. \A u \in Types : /\ Previous(u)' = Previous(u)
                        /\ \A d \in Drafts : Latest(u, d)' <=> Latest(u, d)
  BY <1>1, <1>4, <1>7, <1>10, CurrentKept DEF ReviewInv
<1>12. Written'
  BY <1>2, <1>3, <1>4, <1>8, <1>9 DEF ReviewInv, Written, Judged
<1>13. Numbered' /\ Ordered'
  BY <1>4, <1>10, <1>11 DEF ReviewInv, Numbered, Ordered
<1>14. OneUnderReview'
  <2> SUFFICES ASSUME NEW d \in Drafts, state'[d] = "pending"
               PROVE  /\ Pending(type[d])' = {d}
                      /\ base'[d] = Previous(type[d])'
    BY DEF OneUnderReview
  <2>1. CASE d = n
    <3>1. type'[d] = t /\ base'[d] = Previous(t) /\ t \in Types
      BY <1>2, <1>8, <2>1
    <3>2. base'[d] = Previous(t)' /\ Pending(t)' = {d}
      BY <1>10, <1>11, <2>1, <3>1
    <3> QED BY <3>1, <3>2
  <2>2. CASE d # n
    <3>1. state[d] = "pending" /\ type'[d] = type[d] /\ base'[d] = base[d]
      BY <1>8, <2>2
    <3>2. type[d] \in Types \ {t}
      BY <1>1, <1>2, <3>1 DEF ReviewInv, Written, TypeOK, Pending
    <3>3. Pending(type[d]) = {d} /\ base[d] = Previous(type[d])
      BY <3>1 DEF ReviewInv, OneUnderReview
    <3> QED BY <1>10, <1>11, <3>1, <3>2, <3>3
  <2> QED BY <2>1, <2>2
<1>15. Writing'
  BY <1>2, <1>5 DEF Writing, Composing
<1> QED BY <1>7, <1>12, <1>13, <1>14, <1>15 DEF ReviewInv

\* A judgement gets the next number.
LEMMA NextNumber ==
  ASSUME TypeOK, Numbered, NEW d \in Drafts, decided[d] = 0
  PROVE  LET n == Cardinality({e \in Drafts : decided[e] # 0}) + 1 IN
         /\ n \in Drafts
         /\ \A e \in Drafts : decided[e] < n
         /\ decided' = [decided EXCEPT ![d] = n] => Numbered'
<1> DEFINE D == {e \in Drafts : decided[e] # 0}
           n == Cardinality(D) + 1
<1>1. IsFiniteSet(Drafts) /\ Cardinality(Drafts) = MaxDrafts
  BY SMTT(30), FS_Interval, ContentAssumption DEF Drafts
<1>2. D \union {d} \subseteq Drafts /\ D \subseteq Drafts
  OBVIOUS
<1>3. /\ IsFiniteSet(D) /\ IsFiniteSet(D \union {d})
      /\ Cardinality(D \union {d}) <= MaxDrafts
  BY <1>1, <1>2, FS_Subset
<1>4. /\ Cardinality(D) \in Nat
      /\ Cardinality(D \union {d}) = n
  BY <1>3, FS_CardinalityType, FS_AddElement
<1>5. n \in Drafts
  BY <1>3, <1>4, ContentAssumption DEF Drafts
<1>6. \A e \in Drafts : decided[e] \in Nat /\ decided[e] < n
  BY <1>4, ContentAssumption DEF Numbered, TypeOK
<1>7. ASSUME decided' = [decided EXCEPT ![d] = n] PROVE Numbered'
  <2>1. n # 0
    BY <1>4
  <2>2. {e \in Drafts : decided'[e] # 0} = D \union {d}
    BY <1>7, <2>1 DEF TypeOK
  <2>3. \A e \in Drafts : decided'[e] <= n
    BY <1>4, <1>6, <1>7 DEF TypeOK
  <2> HIDE DEF n, D
  <2> QED BY <1>4, <2>2, <2>3 DEF Numbered
<1> QED BY <1>5, <1>6, <1>7

\* People judge the one draft that waits: a yes makes it the current version,
\* and what others of its type were written from stays what it was.
LEMMA ReviewDecide ==
  ASSUME ReviewInv, NEW w \in Webs, NEW d \in Drafts, NEW yes \in BOOLEAN,
         Decide(w, d, yes)
  PROVE  ReviewInv'
<1>1. TypeOK /\ w \in Procs /\ Worker \in Procs /\ w # Worker
  BY WorkerIs, ContentAssumption DEF ReviewInv
<1> PICK j : j = [Idle EXCEPT !.at = "close", !.draft = d, !.yes = yes]
  OBVIOUS
<1>2. "close" \in Places
  BY DEF Places
<1>3. j \in Job /\ j.at = "close"
  BY DraftRange, IdleJob DEF Job
<1>4. job' = [job EXCEPT ![w] = j]
  BY DEF Decide
<1>5. job' \in [Procs -> Job] /\ job'[Worker] = job[Worker]
  BY <1>1, <1>3, <1>4, JobStored
<1>6. UNCHANGED <<type, base, made>>
  BY DEF Decide
<1>7. CASE ~Judgeable(d)
  <2>1. UNCHANGED <<state, decided>>
    BY <1>7 DEF Decide
  <2>2. TypeOK'
    BY <1>1, <1>5, <2>1 DEF Decide, TypeOK, parent, runs, sources, tick
  <2> QED BY <1>5, <1>6, <2>1, <2>2, ReviewQuiet
<1>8. CASE Judgeable(d)
  <2> DEFINE n == Cardinality({e \in Drafts : decided[e] # 0}) + 1
             verdict == IF yes THEN "approved" ELSE "rejected"
  <2> PICK t : t = type[d]
    OBVIOUS
  <2>1. state[d] = "pending" /\ decided[d] = 0 /\ t \in Types /\ t # None
    BY <1>1, <1>8, ContentAssumption
    DEF Judgeable, Judged, ReviewInv, Written, TypeOK
  <2>2. Pending(t) = {d}
    BY <2>1 DEF ReviewInv, OneUnderReview
  <2>3. /\ n \in Drafts /\ \A e \in Drafts : decided[e] < n
        /\ decided' = [decided EXCEPT ![d] = n] => Numbered'
    BY <2>1, NextNumber DEF ReviewInv
  <2>4. /\ state' = [state EXCEPT ![d] = verdict]
        /\ decided' = [decided EXCEPT ![d] = n]
    BY <1>8 DEF Decide
  <2>5. verdict \in Judged
    BY DEF Judged
  <2> HIDE DEF n
  <2>6. /\ state'[d] = verdict /\ decided'[d] = n
        /\ \A e \in Drafts \ {d} : state'[e] = state[e] /\ decided'[e] = decided[e]
    BY <1>1, <2>4 DEF TypeOK
  <2>7. TypeOK'
    <3>1. /\ state' \in [Drafts -> {"none", "pending", "approved", "rejected"}]
          /\ decided' \in [Drafts -> 0..MaxDrafts]
      BY <1>1, <2>3, <2>4, ContentAssumption DEF TypeOK, Drafts
    <3> QED
      BY <1>1, <1>5, <1>6, <3>1 DEF Decide, TypeOK, parent, runs, sources, tick
  <2>8. /\ Pending(t)' = {}
        /\ \A u \in Types \ {t} : /\ Pending(u)' = Pending(u)
                                  /\ Approved(u)' = Approved(u)
    <3>1. \A e \in Drafts : type[e] = t /\ state[e] = "pending" => e = d
      BY <2>2 DEF Pending
    <3>2. Pending(t)' = {}
      BY <1>6, <2>5, <2>6, <3>1 DEF Pending, Judged
    <3>3. ASSUME NEW u \in Types \ {t}
          PROVE  Pending(u)' = Pending(u) /\ Approved(u)' = Approved(u)
      BY <1>6, <2>6, <3>3 DEF Pending, Approved
    <3> QED BY <3>2, <3>3
  <2>9. \A u \in Types \ {t} : \A e \in Approved(u) : decided'[e] = decided[e]
    BY <2>6 DEF Approved
  <2>10. \A u \in Types \ {t} :
           /\ Previous(u)' = Previous(u)
           /\ \A e \in Drafts : Latest(u, e)' <=> Latest(u, e)
    BY <1>1, <2>7, <2>8, <2>9, CurrentKept DEF ReviewInv
  <2>11. Written'
    BY <1>6, <2>5, <2>6, <2>1 DEF ReviewInv, Written, Judged
  <2>12. Ordered'
    <3>1. CASE yes
      <4>1. Latest(t, d)'
        <5>1. d \in Approved(t)'
          BY <1>6, <2>6, <3>1 DEF Approved
        <5>2. \A e \in Approved(t)' \ {d} : e \in Drafts /\ decided'[e] < decided'[d]
          BY <2>3, <2>6 DEF Approved
        <5> QED BY <5>1, <5>2 DEF Latest
      <4> QED BY <2>8, <2>10, <4>1 DEF ReviewInv, Ordered
    <3>2. CASE ~yes
      <4>1. Approved(t)' = Approved(t)
        BY <1>6, <2>1, <2>6, <3>2 DEF Approved
      <4>2. \A e \in Approved(t) : decided'[e] = decided[e]
        BY <2>1, <2>6 DEF Approved
      <4>3. \A e \in Drafts : Latest(t, e)' <=> Latest(t, e)
        BY <1>1, <2>1, <2>7, <4>1, <4>2, CurrentKept DEF ReviewInv
      <4> QED BY <2>8, <2>10, <4>1, <4>3 DEF ReviewInv, Ordered
    <3> QED BY <3>1, <3>2
  <2>13. OneUnderReview'
    <3> SUFFICES ASSUME NEW e \in Drafts, state'[e] = "pending"
                 PROVE  /\ Pending(type[e])' = {e}
                        /\ base'[e] = Previous(type[e])'
      BY DEF OneUnderReview
    <3>1. e # d /\ state[e] = "pending" /\ type'[e] = type[e] /\ base'[e] = base[e]
      BY <1>6, <2>5, <2>6 DEF Judged
    <3>2. type[e] \in Types \ {t}
      BY <1>1, <2>2, <3>1 DEF ReviewInv, Written, TypeOK, Pending
    <3>3. Pending(type[e]) = {e} /\ base[e] = Previous(type[e])
      BY <3>1 DEF ReviewInv, OneUnderReview
    <3> QED BY <2>8, <2>10, <3>1, <3>2, <3>3
  <2>14. Writing'
    <3>1. job[Worker].at \in {"model", "save"} => job[Worker].type \in Types \ {t}
      BY <2>2 DEF ReviewInv, Writing, Composing
    <3> QED BY <1>5, <1>6, <2>8, <2>10, <3>1 DEF ReviewInv, Writing, Composing
  <2> QED
    BY <2>3, <2>4, <2>7, <2>11, <2>12, <2>13, <2>14 DEF ReviewInv
<1> QED BY <1>7, <1>8

\* Taking up a draft, closing its ticket and everything at the exit writes and
\* judges none.
LEMMA ReviewHandlers ==
  ASSUME ReviewInv,
         \/ \E d \in Drafts : Inspect(d) \/ Republish(d)
         \/ \E w \in Webs : \/ CloseTicket(w) \/ Abandon(w)
                            \/ \E d \in Drafts : Confirm(w, d)
         \/ \E p \in Procs : Exit(p)
         \/ Crash
  PROVE  ReviewInv'
<1>1. TypeOK /\ Worker \in Procs /\ Webs \subseteq Procs
  BY WorkerIs DEF ReviewInv
<1>2. {"findings", "check", "open", "call", "mark", "idle"}
        \subseteq Places \ Composing
  BY DEF Places, Composing
<1>3. ASSUME NEW d \in Drafts, Inspect(d) \/ Republish(d) PROVE ReviewInv'
  <2>1. PICK a \in {"findings", "check"} :
          job' = [job EXCEPT ![Worker] = [Idle EXCEPT !.at = a, !.draft = d]]
    BY <1>3 DEF Inspect, Republish
  <2> PICK j : j = [Idle EXCEPT !.at = a, !.draft = d]
    OBVIOUS
  <2>2. j \in Job /\ j.at = a
    BY DraftRange, IdleJob DEF Job
  <2>3. ASSUME job' \in [Procs -> Job] PROVE TypeOK'
    BY <1>1, <1>3, <2>3
    DEF Inspect, Republish, TypeOK, drafts, parent, runs, sources
  <2>4. UNCHANGED <<type, state, base, decided, made>>
    BY <1>3 DEF Inspect, Republish, drafts
  <2> QED BY <1>1, <1>2, <2>1, <2>2, <2>3, <2>4, ReviewStarts
<1>4. ASSUME NEW w \in Webs, CloseTicket(w) PROVE ReviewInv'
  <2>1. ASSUME job' \in [Procs -> Job] PROVE TypeOK'
    <3>1. ticket' \in [Drafts -> {"none", "open", "closed"}]
      BY <1>1, <1>4 DEF CloseTicket, TypeOK
    <3> QED
      BY <1>1, <1>4, <2>1, <3>1
      DEF CloseTicket, TypeOK, parent, runs, sources, tick
  <2>2. UNCHANGED <<type, state, base, decided, made>>
    BY <1>4 DEF CloseTicket
  <2>3. CASE Finish(w)
    BY <1>1, <2>1, <2>2, <2>3, ReviewEnds
  <2>4. CASE job' = [job EXCEPT ![w].at = "check", ![w].yes = FALSE]
    <3> DEFINE j == [job[w] EXCEPT !.at = "check", !.yes = FALSE]
    <3>1. job[w] \in Job
      BY <1>1 DEF TypeOK
    <3>2. j \in Job /\ j.at = "check"
      BY <3>1 DEF Job
    <3>3. job' = [job EXCEPT ![w] = j]
      BY <1>1, <2>4 DEF TypeOK
    <3> HIDE DEF j
    <3> QED BY <1>1, <1>2, <2>1, <2>2, <3>2, <3>3, ReviewStarts
  <2> QED BY <1>4, <2>3, <2>4 DEF CloseTicket
<1>5. ASSUME NEW w \in Webs, NEW d \in Drafts, Confirm(w, d) PROVE ReviewInv'
  <2> PICK j : j = [Idle EXCEPT !.at = "check", !.draft = d, !.yes = TRUE]
    OBVIOUS
  <2>1. j \in Job /\ j.at = "check" /\ job' = [job EXCEPT ![w] = j]
    BY <1>5, DraftRange, IdleJob DEF Confirm, Job
  <2>2. ASSUME job' \in [Procs -> Job] PROVE TypeOK'
    BY <1>1, <1>5, <2>2
    DEF Confirm, TypeOK, drafts, parent, runs, sources, tick
  <2>3. UNCHANGED <<type, state, base, decided, made>>
    BY <1>5 DEF Confirm, drafts
  <2> QED BY <1>1, <1>2, <2>1, <2>2, <2>3, ReviewStarts
<1>6. ASSUME NEW p \in Procs, Finish(p),
             \/ p = Worker /\ Crash
             \/ p \in Webs /\ Abandon(p)
      PROVE  ReviewInv'
  <2>1. ASSUME job' \in [Procs -> Job] PROVE TypeOK'
    BY <1>1, <1>6, <2>1, ContentAssumption
    DEF Crash, Abandon, Fault, TypeOK, Stages, drafts, parent, runs, sources, tick
  <2>2. UNCHANGED <<type, state, base, decided, made>>
    BY <1>6 DEF Crash, Abandon, drafts
  <2> QED BY <1>6, <2>1, <2>2, ReviewEnds
<1>7. ASSUME NEW p \in Procs, Exit(p) PROVE ReviewInv'
  <2>1. job[p].draft \in 0..MaxDrafts
    BY <1>1, JobFields DEF TypeOK
  <2>2. UNCHANGED <<type, state, base, decided, made>>
    BY <1>7
    DEF Exit, Refused, NoRowYet, TakeUp, OpenRow, Send, MarkPublished, drafts
  <2>3. Finish(p) \/ \E there \in {"open", "call", "mark"} : Goto(p, there)
    BY <1>7 DEF Exit, Refused, NoRowYet, TakeUp, OpenRow, Send, MarkPublished
  <2>4. ASSUME job' \in [Procs -> Job] PROVE TypeOK'
    <3>1. CASE Refused(p) \/ NoRowYet(p) \/ TakeUp(p)
      BY <1>1, <2>4, <3>1
      DEF Refused, NoRowYet, TakeUp, TypeOK, drafts, parent, runs, sources, tick
    <3>2. CASE OpenRow(p)
      <4>1. /\ row' \in [Drafts -> {"none", "in_flight", "published"}]
            /\ stage' \in Stages /\ todo' \subseteq Types \union Drafts
        BY <1>1, <3>2 DEF OpenRow, TypeOK, Stages, tick
      <4> QED
        BY <1>1, <2>4, <3>2, <4>1
        DEF OpenRow, TypeOK, drafts, parent, runs, sources
    <3>3. CASE Send(p)
      <4>1. /\ sent' \in [Drafts -> 0..2] /\ doc' \in [Types -> 0..MaxDrafts]
        BY <1>1, <2>1, <3>3 DEF Send, Accept, TypeOK, parent
      <4>2. faults' \in 0..MaxFaults
        BY <1>1, <3>3, ContentAssumption DEF Send, Fault, TypeOK
      <4> QED
        BY <1>1, <2>4, <3>3, <4>1, <4>2
        DEF Send, TypeOK, drafts, runs, sources, tick
    <3>4. CASE MarkPublished(p)
      <4>1. row' \in [Drafts -> {"none", "in_flight", "published"}]
        BY <1>1, <3>4 DEF MarkPublished, TypeOK
      <4> QED
        BY <1>1, <2>4, <3>4, <4>1
        DEF MarkPublished, TypeOK, drafts, parent, runs, sources, tick
    <3> QED BY <1>7, <3>1, <3>2, <3>3, <3>4 DEF Exit
  <2> QED BY <1>2, <2>2, <2>3, <2>4, ReviewGoes, ReviewEnds
<1> QED
  BY <1>1, <1>3, <1>4, <1>5, <1>6, <1>7 DEF Crash, Abandon

\* Every step keeps one draft of a type under review.
LEMMA ReviewNext == ReviewInv /\ [Next]_vars => ReviewInv'
<1> SUFFICES ASSUME ReviewInv, [Next]_vars PROVE ReviewInv'
  OBVIOUS
<1>1. Worker \in Procs /\ Webs \subseteq Procs
  BY WorkerIs
<1>2. CASE \/ Ingest \/ QuestionRepeats \/ Boot \/ NextStage
           \/ \E t \in Types : PeriodPasses(t)
  BY <1>2, ReviewElsewhere
<1>3. CASE Writer \/ \E t \in Types : Produce(t)
  BY <1>3, ReviewWriter, ReviewIssue, ReviewSave, ReviewProduce DEF Writer
<1>4. CASE \E w \in Webs, d \in Drafts, yes \in BOOLEAN : Decide(w, d, yes)
  BY <1>4, ReviewDecide
<1>5. CASE \/ \E d \in Drafts : Inspect(d) \/ Republish(d)
           \/ \E w \in Webs : \/ WebNext(w) \/ Abandon(w)
                              \/ \E d \in Drafts : Confirm(w, d)
           \/ Exit(Worker) \/ Crash
  BY <1>1, <1>5, ReviewHandlers DEF WebNext
<1>6. CASE UNCHANGED vars
  <2>1. TypeOK' /\ UNCHANGED <<type, state, base, decided, made, job>>
    BY <1>6 DEF vars, ReviewInv, TypeOK
  <2> QED BY <2>1, ReviewQuiet
<1> QED BY <1>2, <1>3, <1>4, <1>5, <1>6 DEF Next, WorkerNext

\* Q3 holds at most one draft of a type, and it was written from the version
\* that was approved last, whatever is judged, sent or lost meanwhile.
THEOREM ReviewerSeesTheChange == Spec => []OneUnderReview
<1>1. ReviewInv => OneUnderReview
  BY DEF ReviewInv
<1> QED BY <1>1, ReviewInit, ReviewNext, PTL DEF Spec

-----------------------------------------------------------------------------
(* Documents in order: the steps *)

Tables == <<type, state, decided, row, sent, doc, ticket, made, apart>>

\* What else is known where documents are told in order.
Order == IndInv /\ ReviewInv /\ Known /\ ApartInv /\ DocInv

Orderly == Known /\ ApartInv /\ DocInv

\* What the first invariant says of drafts and handlers.
LEMMA SoundJobs == IndInv => OnlyApprovedIsOut /\ \A p \in Procs : JobSound(p)
BY DEF IndInv, Inv

\* A written draft has a type, and so has the process that holds one.
LEMMA TypeOfHeld ==
  ASSUME ReviewInv, Known, NEW p \in Procs, job[p].draft \in Drafts
  PROVE  /\ type[job[p].draft] \in Types /\ type[job[p].draft] # None
         /\ TypeAt(p) = type[job[p].draft]
<1>1. job[p].draft <= made
  BY DEF Known
<1>2. made \in Nat /\ job[p].draft \in Nat
  BY ContentAssumption DEF ReviewInv, TypeOK, Drafts
<1>3. type[job[p].draft] # None /\ type[job[p].draft] \in Types
  BY <1>1, <1>2 DEF ReviewInv, Written, TypeOK
<1> QED BY <1>3, DraftRange DEF TypeAt

\* Two handlers that keep apart hold drafts of two types.
LEMMA HeldApart ==
  ASSUME ReviewInv, Known, Exclusive, NEW p \in Procs, NEW q \in Procs \ {p},
         job[p].draft \in Drafts, job[q].draft \in Drafts
  PROVE  /\ type[job[q].draft] # type[job[p].draft]
         /\ job[q].draft # job[p].draft
BY TypeOfHeld DEF Exclusive

\* There is one newest version.
LEMMA OneLatest ==
  ASSUME TypeOK, NEW d \in Drafts, NEW e \in Drafts, NEW t,
         Latest(t, d), Latest(t, e)
  PROVE  d = e
<1>1. decided[d] \in Nat /\ decided[e] \in Nat
  BY ContentAssumption DEF TypeOK
<1> QED BY <1>1 DEF Latest

\* A process takes up a type that no other one holds, or keeps or leaves its
\* own.
LEMMA ExclusiveNext ==
  ASSUME Exclusive, NEW p \in Procs,
         \A q \in Procs \ {p} : TypeAt(q)' = TypeAt(q),
         \/ TypeAt(p)' \in {None, TypeAt(p)}
         \/ \A q \in Procs \ {p} : TypeAt(q) # TypeAt(p)'
  PROVE  Exclusive'
BY DEF Exclusive

\* A step of one process that leaves the tables alone.
LEMMA OrderQuiet ==
  ASSUME Order, UNCHANGED Tables, NEW p \in Procs,
         \A q \in Procs \ {p} : job'[q] = job[q],
         faults' = 0 => faults = 0,
         stage' \in {"inspect", "publish"} =>
           \A d \in todo' \intersect Drafts : d <= made,
         job'[p].draft <= made,
         job'[p].at = "close" => state[job'[p].draft] \in Judged,
         apart => /\ \/ TypeAt(p)' \in {None, TypeAt(p)}
                     \/ Free(p, TypeAt(p)')
                  /\ Solo(p)',
         apart /\ faults' = 0 =>
           /\ \A d \in Drafts :
                Handling(p, d) /\ state[d] = "approved" /\ OnDocument(type[d])
                  => Handling(p, d)' \/ Out(d)
           /\ Shown(p)'
  PROVE  Orderly'
<1>1. /\ UNCHANGED type /\ UNCHANGED state /\ UNCHANGED decided
      /\ UNCHANGED row /\ UNCHANGED sent /\ UNCHANGED doc
      /\ UNCHANGED ticket /\ UNCHANGED made /\ UNCHANGED apart
  BY DEF Tables
<1>2. Known'
  BY <1>1 DEF Order, Known, Recorded
<1>3. \A q \in Procs \ {p} : /\ TypeAt(q)' = TypeAt(q)
                             /\ Solo(q) => Solo(q)'
                             /\ Shown(q) => Shown(q)'
                             /\ \A d \in Drafts : Handling(q, d) => Handling(q, d)'
  BY <1>1 DEF TypeAt, Solo, Shown, Handling, Recorded
<1>4. ApartInv'
  <2> SUFFICES ASSUME apart
               PROVE  Exclusive' /\ IssueOnce' /\ \A q \in Procs : Solo(q)'
    BY <1>1 DEF ApartInv
  <2>1. Exclusive /\ IssueOnce /\ \A q \in Procs : Solo(q)
    BY DEF Order, ApartInv
  <2>2. Exclusive'
    BY <1>3, <2>1, ExclusiveNext DEF Free
  <2>3. IssueOnce'
    BY <1>1, <2>1 DEF IssueOnce
  <2> QED BY <1>3, <2>1, <2>2, <2>3
<1>5. DocInv'
  <2> SUFFICES ASSUME apart, faults' = 0
               PROVE  InHand' /\ LatestIsShown' /\ \A q \in Procs : Shown(q)'
    BY <1>1 DEF DocInv
  <2>1. InHand /\ LatestIsShown /\ \A q \in Procs : Shown(q)
    BY DEF Order, DocInv
  <2>2. \A t, d : Latest(t, d)' <=> Latest(t, d)
    BY <1>1 DEF Latest, Approved
  <2>3. LatestIsShown'
    BY <1>1, <2>1, <2>2 DEF LatestIsShown, Out
  <2>4. InHand'
    BY <1>1, <1>3, <2>1, <2>2 DEF InHand, Out
  <2> QED BY <1>3, <2>1, <2>3, <2>4
<1> QED BY <1>2, <1>4, <1>5 DEF Orderly

\* The list of the stage after a step that does not fill it.
LEMMA ListShrinks ==
  ASSUME Known, stage' = stage, todo' \subseteq todo
  PROVE  stage' \in {"inspect", "publish"} =>
           \A d \in todo' \intersect Drafts : d <= made
BY DEF Known

\* A process that is done leaves nothing unfinished behind, or it failed.
LEMMA OrderEnds ==
  ASSUME Order, UNCHANGED Tables, NEW p \in Procs, Finish(p),
         faults' = 0 => faults = 0,
         stage' \in {"inspect", "publish"} =>
           \A d \in todo' \intersect Drafts : d <= made,
         apart /\ faults' = 0 =>
           \A d \in Drafts :
             Handling(p, d) /\ state[d] = "approved" /\ OnDocument(type[d])
               => Out(d)
  PROVE  Orderly'
<1>1. TypeOK /\ made \in Nat
  BY ContentAssumption DEF Order, ReviewInv, TypeOK
<1>2. job'[p] = Idle /\ \A q \in Procs \ {p} : job'[q] = job[q]
  BY <1>1, FinishIs
<1>3. TypeAt(p)' = None /\ Solo(p)' /\ Shown(p)'
  BY <1>2, IdleJob DEF TypeAt, Solo, Shown
<1>4. job'[p].draft <= made /\ job'[p].at # "close"
  BY <1>1, <1>2, IdleJob
<1> QED BY <1>2, <1>3, <1>4, OrderQuiet

\* A process that goes on with its draft still has it in hand.
LEMMA OrderGoes ==
  ASSUME Order, UNCHANGED Tables, NEW p \in Procs,
         NEW there \in Places \ {"close"}, Goto(p, there), UNCHANGED faults,
         UNCHANGED <<stage, todo>>,
         apart => Solo(p)',
         there # "mark",
         job[p].at \in Composing \/ there \in {"check", "open", "call"}
  PROVE  Orderly'
<1>1. TypeOK /\ Known
  BY DEF Order, ReviewInv
<1>2. /\ job'[p].at = there /\ job'[p].draft = job[p].draft
      /\ job'[p].type = job[p].type
      /\ \A q \in Procs \ {p} : job'[q] = job[q]
  BY <1>1, GotoIs
<1>3. TypeAt(p)' = TypeAt(p) /\ Shown(p)'
  BY <1>2 DEF TypeAt, Shown, Tables
<1>4. job'[p].draft <= made
  BY <1>1, <1>2 DEF Known
<1>5. \A d \in Drafts : Handling(p, d) => Handling(p, d)'
  BY <1>2 DEF Handling, Composing
<1>6. stage' \in {"inspect", "publish"} =>
        \A d \in todo' \intersect Drafts : d <= made
  BY <1>1, ListShrinks
<1> QED BY <1>2, <1>3, <1>4, <1>5, <1>6, OrderQuiet

\* What comes from elsewhere, and the stages of the tick: a stage begins with
\* drafts that are written.
LEMMA OrderElsewhere ==
  ASSUME Order,
         \/ Ingest \/ QuestionRepeats \/ Boot \/ NextStage
         \/ \E t \in Types : PeriodPasses(t)
  PROVE  Orderly'
<1>1. UNCHANGED Tables /\ UNCHANGED job /\ UNCHANGED faults
  BY DEF Ingest, QuestionRepeats, Boot, NextStage, PeriodPasses, Tables,
         drafts, parent
<1>2. ReviewInv /\ Known /\ Worker \in Procs /\ made \in Nat
  BY WorkerIs, ContentAssumption DEF Order, ReviewInv, TypeOK
<1>3. stage' \in {"inspect", "publish"} =>
        \A d \in todo' \intersect Drafts : d <= made
  <2>1. CASE NextStage
    <3>1. stage' \in {"inspect", "publish"} => todo' \in {Awaiting, Retriable}
      BY <2>1 DEF NextStage
    <3>2. \A d \in Awaiting \union Retriable : d \in Drafts /\ state[d] # "none"
      BY DEF Awaiting, Retriable
    <3>3. \A d \in Drafts : state[d] # "none" => d <= made
      BY <1>2, ContentAssumption DEF ReviewInv, Written, Drafts
    <3> QED BY <3>1, <3>2, <3>3
  <2>2. CASE ~NextStage
    BY <1>2, <2>2, ListShrinks
    DEF Ingest, QuestionRepeats, Boot, PeriodPasses, tick
  <2> QED BY <2>1, <2>2
<1>4. /\ job[Worker].draft <= made
      /\ job[Worker].at = "close" => state[job[Worker].draft] \in Judged
  BY <1>2 DEF Known
<1>5. /\ TypeAt(Worker)' = TypeAt(Worker)
      /\ Solo(Worker) => Solo(Worker)' 
      /\ Shown(Worker) => Shown(Worker)'
      /\ \A d \in Drafts : Handling(Worker, d) => Handling(Worker, d)'
  BY <1>1 DEF TypeAt, Solo, Shown, Handling, Recorded, Tables
<1> QED
  BY <1>1, <1>2, <1>3, <1>4, <1>5, OrderQuiet DEF Order, ApartInv, DocInv

\* The worker ends its work with the model, or the model or the worker fails.
LEMMA OrderFinished ==
  ASSUME Order,
         \/ Unchanged \/ NotGenerated \/ RecordRun \/ RecordFindings
         \/ NoFindings \/ Crash \/ \E w \in Webs : Abandon(w)
  PROVE  Orderly'
<1>1. ReviewInv /\ Known /\ Worker \in Procs /\ Webs \subseteq Procs
  BY WorkerIs DEF Order
<1>2. UNCHANGED Tables
  BY DEF Unchanged, NotGenerated, RecordRun, RecordFindings, NoFindings,
         Crash, Abandon, Tables, drafts, parent
<1>3. faults \in Nat
  BY <1>1, ContentAssumption DEF ReviewInv, TypeOK
<1>4. stage' \in {"inspect", "publish"} =>
        \A d \in todo' \intersect Drafts : d <= made
  <2>1. CASE Crash
    BY <2>1 DEF Crash
  <2>2. CASE ~Crash
    BY <1>1, <2>2, ListShrinks
    DEF Unchanged, NotGenerated, RecordRun, RecordFindings, NoFindings,
        Abandon, tick
  <2> QED BY <2>1, <2>2
<1>5. CASE Unchanged \/ RecordRun \/ RecordFindings
  <2>1. \A d \in Drafts : ~Handling(Worker, d)
    BY <1>5 DEF Unchanged, RecordRun, RecordFindings, Handling
  <2>2. Finish(Worker) /\ UNCHANGED faults
    BY <1>5 DEF Unchanged, RecordRun, RecordFindings
  <2> QED BY <1>1, <1>2, <1>4, <2>1, <2>2, OrderEnds
<1>6. CASE \/ NotGenerated \/ NoFindings \/ Crash
           \/ \E w \in Webs : Abandon(w)
  <2>1. PICK p \in Procs : Finish(p)
    BY <1>1, <1>6 DEF NotGenerated, NoFindings, Crash, Abandon
  <2>2. faults' # 0
    BY <1>3, <1>6 DEF NotGenerated, NoFindings, Crash, Abandon, Fault
  <2> QED BY <1>2, <1>4, <2>1, <2>2, OrderEnds
<1> QED BY <1>5, <1>6

\* The worker takes up a type or a draft, and issues the ticket of a new one.
LEMMA OrderWorkerStarts ==
  ASSUME Order,
         \/ \E t \in Types : Produce(t)
         \/ \E d \in Drafts : Inspect(d) \/ Republish(d)
         \/ IssueTicket
  PROVE  Orderly'
<1>1. TypeOK /\ ReviewInv /\ Known /\ Worker \in Procs /\ made \in Nat
  BY WorkerIs, ContentAssumption DEF Order, ReviewInv, TypeOK
<1>2. UNCHANGED Tables /\ UNCHANGED faults /\ stage' = stage /\ todo' \subseteq todo
  BY DEF Produce, Inspect, Republish, IssueTicket, Tables, drafts, parent, tick
<1>3. stage' \in {"inspect", "publish"} =>
        \A d \in todo' \intersect Drafts : d <= made
  BY <1>1, <1>2, ListShrinks
<1>4. ASSUME NEW j \in Job, job[Worker] = Idle, job' = [job EXCEPT ![Worker] = j],
             NEW t, Free(Worker, t), t = IF j.draft = 0 THEN j.type ELSE type[j.draft],
             j.draft <= made, j.at \in {"model", "findings", "check"}, ~j.yes
      PROVE  Orderly'
  <2>1. job'[Worker] = j /\ \A q \in Procs \ {Worker} : job'[q] = job[q]
    BY <1>1, <1>4, JobStored
  <2>2. TypeAt(Worker)' = t /\ Solo(Worker)' /\ Shown(Worker)'
    BY <1>2, <1>4, <2>1 DEF TypeAt, Solo, Shown, Tables
  <2>3. \A d \in Drafts : ~Handling(Worker, d)
    BY <1>4, IdleJob DEF Handling
  <2> QED BY <1>1, <1>2, <1>3, <1>4, <2>1, <2>2, <2>3, OrderQuiet
<1>5. ASSUME NEW t \in Types, Produce(t) PROVE Orderly'
  <2>1. CASE job' = job
    <3>1. /\ TypeAt(Worker)' = TypeAt(Worker)
          /\ Solo(Worker) => Solo(Worker)'
          /\ Shown(Worker) => Shown(Worker)'
          /\ \A d \in Drafts : Handling(Worker, d) => Handling(Worker, d)'
      BY <1>2, <2>1 DEF TypeAt, Solo, Shown, Handling, Recorded, Tables
    <3>2. /\ job[Worker].draft <= made
          /\ job[Worker].at = "close" => state[job[Worker].draft] \in Judged
      BY <1>1 DEF Known
    <3> QED
      BY <1>1, <1>2, <1>3, <2>1, <3>1, <3>2, OrderQuiet
      DEF Order, ApartInv, DocInv
  <2>2. CASE job' # job
    <3> PICK j : j = [Idle EXCEPT !.at = "model", !.type = t, !.base = Previous(t)]
      OBVIOUS
    <3>1. Previous(t) \in 0..MaxDrafts
      BY <1>1, PreviousTyped DEF ReviewInv
    <3>2. /\ j \in Job /\ j.at = "model" /\ j.type = t /\ j.draft = 0
          /\ ~j.yes
      BY <3>1, IdleJob DEF Job
    <3>3. /\ job' = [job EXCEPT ![Worker] = j] /\ job[Worker] = Idle
          /\ Free(Worker, t)
      BY <1>5, <2>2 DEF Produce
    <3>4. /\ t = IF j.draft = 0 THEN j.type ELSE type[j.draft]
          /\ j.draft <= made /\ j.at \in {"model", "findings", "check"}
      BY <1>1, <3>2
    <3> QED BY <1>4, <3>2, <3>3, <3>4
  <2> QED BY <2>1, <2>2
<1>6. ASSUME NEW d \in Drafts, Inspect(d) \/ Republish(d) PROVE Orderly'
  <2>1. PICK a \in {"findings", "check"} :
          job' = [job EXCEPT ![Worker] = [Idle EXCEPT !.at = a, !.draft = d]]
    BY <1>6 DEF Inspect, Republish
  <2> PICK j : j = [Idle EXCEPT !.at = a, !.draft = d]
    OBVIOUS
  <2>2. j \in Job /\ j.at = a /\ j.draft = d /\ ~j.yes /\ d # 0
    BY DraftRange, IdleJob DEF Job
  <2>3. d <= made /\ job[Worker] = Idle /\ Free(Worker, type[d])
    BY <1>1, <1>6 DEF Inspect, Republish, Known
  <2> QED BY <1>4, <2>1, <2>2, <2>3
<1>7. CASE IssueTicket
  <2>1. job[Worker].at \in Composing /\ "save" \in Places \ {"close"}
    BY <1>7 DEF IssueTicket, Composing, Places
  <2>2. Goto(Worker, "save") /\ UNCHANGED <<stage, todo>>
    BY <1>7 DEF IssueTicket, tick
  <2>3. Solo(Worker)'
    BY <1>1, <2>2, GotoIs DEF Solo, Places
  <2> QED BY <1>1, <1>2, <2>1, <2>2, <2>3, OrderGoes
<1> QED BY <1>5, <1>6, <1>7

\* The final check: the page lists what is approved and has no row.
LEMMA OrderConfirm ==
  ASSUME Order, NEW w \in Webs, NEW d \in Drafts, Confirm(w, d)
  PROVE  Orderly'
<1>1. TypeOK /\ ReviewInv /\ Known /\ w \in Procs
  BY WorkerIs DEF Order, ReviewInv
<1>2. UNCHANGED Tables /\ UNCHANGED <<faults, stage, todo>>
  BY DEF Confirm, Tables, drafts, parent, tick
<1>3. stage' \in {"inspect", "publish"} =>
        \A e \in todo' \intersect Drafts : e <= made
  BY <1>1, <1>2, ListShrinks
<1> PICK j : j = [Idle EXCEPT !.at = "check", !.draft = d, !.yes = TRUE]
  OBVIOUS
<1>4. j \in Job /\ j.at = "check" /\ j.draft = d
  BY DraftRange, IdleJob DEF Job
<1>5. job' = [job EXCEPT ![w] = j] /\ job[w] = Idle /\ Free(w, type[d])
  BY DEF Confirm
<1>6. job'[w] = j /\ \A q \in Procs \ {w} : job'[q] = job[q]
  BY <1>1, <1>4, <1>5, JobStored
<1>7. d <= made /\ d # 0
  BY <1>1, DraftRange, ContentAssumption
  DEF Confirm, ReviewInv, Written, TypeOK, Drafts
<1>8. TypeAt(w)' = type[d] /\ Shown(w)'
  BY <1>2, <1>4, <1>6, <1>7 DEF TypeAt, Shown, Tables
<1>9. apart => Solo(w)'
  BY <1>2, <1>4, <1>6 DEF Confirm, Waiting, Solo, Recorded, Tables
<1>10. \A e \in Drafts : ~Handling(w, e)
  BY <1>5, IdleJob DEF Handling
<1> QED
  BY ZenonT(40), <1>1, <1>2, <1>3, <1>4, <1>5, <1>6, <1>7, <1>8, <1>9, <1>10, OrderQuiet

\* At the exit: what is refused is out already or may not go out, and a row
\* is looked for before one is opened or taken up.
LEMMA OrderChecks ==
  ASSUME DocumentsGoUnconfirmed, Order, NEW p \in Procs,
         Refused(p) \/ NoRowYet(p) \/ TakeUp(p)
  PROVE  Orderly'
<1> DEFINE d == job[p].draft
<1>1. TypeOK /\ ReviewInv /\ Known /\ JobSound(p)
  BY SoundJobs DEF Order, ReviewInv
<1>2. /\ UNCHANGED Tables /\ UNCHANGED <<faults, stage, todo>>
      /\ job[p].at = "check"
  BY DEF Refused, NoRowYet, TakeUp, Tables, drafts, parent, tick
<1>3. d \in Drafts
  BY <1>1, <1>2 DEF JobSound
<1>4. CASE Refused(p)
  <2>1. stage' \in {"inspect", "publish"} =>
          \A e \in todo' \intersect Drafts : e <= made
    BY <1>1, <1>2, ListShrinks
  <2>2. type[d] \in Types
    BY <1>1, <1>3, TypeOfHeld
  <2>3. state[d] = "approved" /\ OnDocument(type[d]) => Out(d)
    BY <1>4, <2>2 DEF Refused, MayGoOut, DocumentsGoUnconfirmed
  <2> QED BY <1>2, <1>4, <2>1, <2>3, OrderEnds DEF Refused, Handling
<1>5. CASE NoRowYet(p)
  <2>1. Goto(p, "open") /\ "open" \in Places \ {"close"}
    BY <1>5 DEF NoRowYet, Places
  <2>2. Solo(p)'
    BY <1>1, <1>2, <1>5, <2>1, GotoIs DEF NoRowYet, Solo, Recorded, Tables
  <2> QED BY <1>2, <2>1, <2>2, OrderGoes
<1>6. CASE TakeUp(p)
  <2>1. Goto(p, "call") /\ "call" \in Places \ {"close"}
    BY <1>6 DEF TakeUp, Places
  <2>2. row[d] = "in_flight" /\ (Decl[type[d]].final => job[p].yes)
    BY <1>6 DEF TakeUp, MayGoOut
  <2>3. apart => ~job[p].yes
    BY <1>2, <2>2 DEF Order, ApartInv, Solo, Recorded
  <2>4. type[d] \in Types
    BY <1>1, <1>3, TypeOfHeld
  <2>5. ~OnDocument(type[d]) => Decl[type[d]].final
    <3>1. Decl[type[d]] \in ContentType /\ Accepted(Decl[type[d]])
      BY <2>4, ContentAssumption
    <3> QED BY <3>1 DEF OnDocument, Accepted, ContentType, PlaceFor
  <2>6. apart => Solo(p)'
    BY <1>1, <1>2, <2>1, <2>2, <2>3, <2>5, GotoIs DEF Solo, Tables
  <2> QED BY <1>2, <2>1, <2>6, OrderGoes
<1> QED BY <1>4, <1>5, <1>6

\* The row is opened by the handler that found none.
LEMMA OrderOpen ==
  ASSUME Order, NEW p \in Procs, OpenRow(p)
  PROVE  Orderly'
<1> PICK d : d = job[p].draft
  OBVIOUS
<1>1. TypeOK /\ ReviewInv /\ Known /\ JobSound(p) /\ job[p].at = "open"
  BY SoundJobs DEF Order, ReviewInv, OpenRow
<1>2. d \in Drafts /\ state[d] = "approved"
  BY <1>1 DEF JobSound
<1>3. CASE Recorded(d)
  <2>1. /\ UNCHANGED Tables /\ UNCHANGED faults /\ Finish(p)
        /\ (stage' = stage /\ todo' = todo) \/ stage' = "down"
    BY <1>3 DEF OpenRow, Tables, drafts, parent
  <2>2. stage' \in {"inspect", "publish"} =>
          \A e \in todo' \intersect Drafts : e <= made
    BY <1>1, <2>1, ListShrinks
  <2>3. ~apart
    BY <1>1, <1>3 DEF Order, ApartInv, Solo
  <2> QED BY <2>1, <2>2, <2>3, OrderEnds
<1>4. CASE ~Recorded(d)
  <2>1. /\ row' = [row EXCEPT ![d] = "in_flight"] /\ Goto(p, "call")
        /\ UNCHANGED <<stage, todo, faults, apart>>
        /\ UNCHANGED <<type, state, decided, sent, doc, ticket, made>>
    BY <1>4 DEF OpenRow, drafts, parent, tick
  <2>2. /\ job'[p].at = "call" /\ job'[p].draft = d
        /\ job'[p].type = job[p].type
        /\ \A q \in Procs \ {p} : job'[q] = job[q]
    BY <1>1, <2>1, GotoIs DEF Places
  <2>3. /\ row'[d] = "in_flight" /\ row[d] = "none"
        /\ \A e \in Drafts \ {d} : row'[e] = row[e]
    BY <1>1, <1>2, <1>4, <2>1 DEF TypeOK, Recorded
  <2>4. Known'
    <3>1. \A q \in Procs : /\ job'[q].draft <= made'
                           /\ job'[q].at = "close" => state'[job'[q].draft] \in Judged
      BY <1>1, <2>1, <2>2 DEF Known
    <3>2. \A e \in Drafts : Recorded(e)' => state'[e] = "approved"
      BY <1>1, <1>2, <2>1, <2>3 DEF Known, Recorded
    <3> QED BY <1>1, <2>1, <3>1, <3>2 DEF Known
  <2>5. \A q \in Procs : TypeAt(q)' = TypeAt(q)
    BY <2>1, <2>2 DEF TypeAt
  <2>6. ASSUME apart
        PROVE  Exclusive' /\ IssueOnce' /\ \A q \in Procs : Solo(q)'
    <3>1. Exclusive /\ IssueOnce /\ \A q \in Procs : Solo(q)
      BY <2>6 DEF Order, ApartInv
    <3>2. Exclusive' /\ IssueOnce'
      BY <2>1, <2>5, <3>1 DEF Exclusive, IssueOnce
    <3>3. sent[d] = 0
      BY <1>2, <1>4, SoundJobs DEF Order, OnlyApprovedIsOut
    <3>4. Solo(p)'
      BY <2>1, <2>2, <2>3, <3>3 DEF Solo
    <3>5. ASSUME NEW q \in Procs \ {p} PROVE Solo(q)'
      <4>1. CASE job[q].at \in {"check", "open", "call", "mark"}
        <5>1. job[q].draft \in Drafts /\ job[q].draft # d
          BY <1>1, <1>2, <3>1, <4>1, HeldApart, SoundJobs DEF Order, JobSound
        <5> QED BY <2>1, <2>2, <2>3, <3>1, <5>1 DEF Solo, Recorded
      <4>2. CASE job[q].at \notin {"check", "open", "call", "mark"}
        BY <2>2, <4>2 DEF Solo
      <4> QED BY <4>1, <4>2
    <3> QED BY <3>2, <3>4, <3>5
  <2>7. ASSUME apart, faults = 0
        PROVE  InHand' /\ LatestIsShown' /\ \A q \in Procs : Shown(q)'
    <3>1. InHand /\ LatestIsShown /\ \A q \in Procs : Shown(q)
      BY <2>7 DEF Order, DocInv
    <3>2. \A e \in Drafts : Out(e)' <=> Out(e)
      BY <2>3 DEF Out
    <3>3. \A t, e : Latest(t, e)' <=> Latest(t, e)
      BY <2>1 DEF Latest, Approved
    <3>4. \A q \in Procs, e \in Drafts : Handling(q, e) => Handling(q, e)'
      BY <1>1, <2>1, <2>2 DEF Handling
    <3>5. InHand'
      BY <2>1, <3>1, <3>2, <3>3, <3>4 DEF InHand
    <3>6. LatestIsShown'
      BY <2>1, <3>1, <3>2, <3>3 DEF LatestIsShown
    <3>7. \A q \in Procs : Shown(q)'
      BY <2>1, <2>2, <3>1 DEF Shown
    <3> QED BY <3>5, <3>6, <3>7
  <2> QED BY <2>1, <2>4, <2>6, <2>7 DEF Orderly, ApartInv, DocInv
<1> QED BY <1>3, <1>4

\* The parent system shows what it is sent: while nothing failed, the newest.
LEMMA OrderSend ==
  ASSUME DocumentsGoUnconfirmed, Order, NEW p \in Procs, Send(p)
  PROVE  Orderly'
<1> PICK d : d = job[p].draft
  OBVIOUS
<1>1. TypeOK /\ ReviewInv /\ Known /\ JobSound(p) /\ job[p].at = "call"
  BY SoundJobs DEF Order, ReviewInv, Send
<1>2. d \in Drafts /\ state[d] = "approved" /\ Recorded(d)
  BY <1>1 DEF JobSound
<1>3. /\ type[d] \in Types /\ TypeAt(p) = type[d]
  BY <1>1, <1>2, TypeOfHeld
<1>4. UNCHANGED <<type, state, decided, row, ticket, made, apart, stage, todo>>
  BY DEF Send, drafts, tick
<1>5. faults \in Nat
  BY <1>1, ContentAssumption DEF TypeOK
<1>6. CASE Fault /\ Finish(p) /\ UNCHANGED parent
  <2>1. UNCHANGED Tables
    BY <1>4, <1>6 DEF Tables, parent
  <2>2. stage' \in {"inspect", "publish"} =>
          \A e \in todo' \intersect Drafts : e <= made
    BY <1>1, <1>4, ListShrinks
  <2>3. faults' # 0
    BY <1>5, <1>6 DEF Fault
  <2> QED BY <1>6, <2>1, <2>2, <2>3, OrderEnds
<1>7. CASE /\ Accept(d)
           /\ \/ Goto(p, "mark") /\ UNCHANGED faults
              \/ Fault /\ Finish(p)
  <2>1. /\ \A q \in Procs \ {p} : job'[q] = job[q]
        /\ \/ /\ job'[p].at = "mark" /\ job'[p].draft = d
              /\ job'[p].type = job[p].type
              /\ UNCHANGED faults
           \/ job'[p] = Idle /\ faults' # 0
    BY <1>1, <1>5, <1>7, GotoIs, FinishIs DEF Places, Fault
  <2>2. job'[p].draft \in {0, d} /\ job'[p].at \in {"idle", "mark"}
    BY <2>1, IdleJob
  <2>3. TypeAt(p)' \in {None, TypeAt(p)} /\ \A q \in Procs \ {p} : TypeAt(q)' = TypeAt(q)
    BY <1>4, <2>1, IdleJob DEF TypeAt
  <2>4. /\ sent'[d] = IF sent[d] = 0 THEN 1 ELSE 2
        /\ \A e \in Drafts \ {d} : sent'[e] = sent[e]
        /\ OnDocument(type[d]) => doc'[type[d]] = d
        /\ \A t \in Types \ {type[d]} : doc'[t] = doc[t]
        /\ ~OnDocument(type[d]) => doc' = doc
    BY <1>1, <1>2, <1>3, <1>7 DEF Accept, TypeOK
  <2>5. Known'
    <3>1. \A q \in Procs : /\ job'[q].draft <= made'
                           /\ job'[q].at = "close" => state'[job'[q].draft] \in Judged
      BY <1>1, <1>4, <2>1, <2>2, ContentAssumption DEF Known, TypeOK
    <3> QED BY <1>1, <1>4, <3>1 DEF Known, Recorded
  <2>6. ASSUME apart
        PROVE  Exclusive' /\ IssueOnce' /\ \A q \in Procs : Solo(q)'
    <3>1. Exclusive /\ IssueOnce /\ \A q \in Procs : Solo(q)
      BY <2>6 DEF Order, ApartInv
    <3>2. Exclusive'
      BY <2>3, <3>1, ExclusiveNext
    <3>3. IssueOnce'
      BY <1>1, <1>4, <2>4, <3>1 DEF IssueOnce, Solo
    <3>4. Solo(p)'
      BY <1>1, <1>4, <2>1, <2>2, <3>1, IdleJob DEF Solo
    <3>5. ASSUME NEW q \in Procs \ {p} PROVE Solo(q)'
      <4>1. CASE job[q].at \in {"check", "open", "call", "mark"}
        <5>1. job[q].draft \in Drafts /\ job[q].draft # d
          BY <1>1, <1>2, <3>1, <4>1, HeldApart, SoundJobs DEF Order, JobSound
        <5> QED BY <1>4, <2>1, <2>4, <3>1, <5>1 DEF Solo, Recorded
      <4>2. CASE job[q].at \notin {"check", "open", "call", "mark"}
        BY <2>1, <4>2 DEF Solo
      <4> QED BY <4>1, <4>2
    <3> QED BY <3>2, <3>3, <3>4, <3>5
  <2>7. ASSUME apart, faults' = 0
        PROVE  InHand' /\ LatestIsShown' /\ \A q \in Procs : Shown(q)'
    <3>1. /\ faults = 0 /\ job'[p].at = "mark" /\ job'[p].draft = d
      BY <2>1, <2>7
    <3>2. InHand /\ LatestIsShown /\ \A q \in Procs : Shown(q)
      BY <2>7, <3>1 DEF Order, DocInv
    <3>3. Exclusive /\ Solo(p)
      BY <2>7 DEF Order, ApartInv
    <3>4. \A t, e : Latest(t, e)' <=> Latest(t, e)
      BY <1>4 DEF Latest, Approved
    <3>5. \A q \in Procs, e \in Drafts : Handling(q, e) => Handling(q, e)'
      BY <1>1, <1>4, <2>1, <3>1 DEF Handling
    <3>6. InHand'
      BY <1>4, <3>2, <3>4, <3>5 DEF InHand, Out
    <3>7. LatestIsShown'
      <4> SUFFICES ASSUME NEW e \in Drafts, Out(e), OnDocument(type[e]),
                          Latest(type[e], e)
                   PROVE  doc'[type[e]] = e
        BY <1>4, <3>4 DEF LatestIsShown, Out
      <4>1. type[e] \in Types /\ doc[type[e]] = e
        BY <1>1, <3>2 DEF LatestIsShown, Latest, Approved, ReviewInv, Written,
                          TypeOK
      <4>2. CASE type[e] # type[d]
        BY <2>4, <4>1, <4>2
      <4>3. CASE type[e] = type[d]
        <5>1. ~Out(d)
          BY <1>1, <3>3 DEF Solo, Out
        <5>2. Latest(type[d], d)
          BY <1>2, <3>2, <4>3, <5>1 DEF InHand
        <5> QED BY <1>1, <1>2, <4>3, <5>1, <5>2, OneLatest
      <4> QED BY <4>2, <4>3
    <3>8. ASSUME NEW q \in Procs PROVE Shown(q)'
      <4>1. CASE q = p
        BY <1>4, <2>4, <3>1, <4>1 DEF Shown
      <4>2. CASE q # p /\ job[q].at = "mark"
        <5>1. job[q].draft \in Drafts
          BY <4>2, SoundJobs DEF Order, JobSound
        <5>2. type[job[q].draft] \in Types \ {type[d]}
          BY <1>1, <1>2, <3>3, <4>2, <5>1, HeldApart, TypeOfHeld
        <5> QED BY <1>4, <2>1, <2>4, <3>2, <4>2, <5>2 DEF Shown
      <4>3. CASE q # p /\ job[q].at # "mark"
        BY <2>1, <4>3 DEF Shown
      <4> QED BY <4>1, <4>2, <4>3
    <3> QED BY <3>6, <3>7, <3>8
  <2> QED BY <1>4, <2>5, <2>6, <2>7 DEF Orderly, ApartInv, DocInv
<1> QED BY <1>6, <1>7 DEF Send

\* A row says published once the document shows its draft.
LEMMA OrderMark ==
  ASSUME Order, NEW p \in Procs, MarkPublished(p)
  PROVE  Orderly'
<1> PICK d : d = job[p].draft
  OBVIOUS
<1>1. TypeOK /\ ReviewInv /\ Known /\ JobSound(p) /\ job[p].at = "mark"
  BY SoundJobs DEF Order, ReviewInv, MarkPublished
<1>2. d \in Drafts /\ state[d] = "approved" /\ Recorded(d)
  BY <1>1 DEF JobSound
<1>3. UNCHANGED <<type, state, decided, sent, doc, ticket, made, apart, stage,
                  todo, faults>>
  BY DEF MarkPublished, drafts, parent, tick
<1>4. job'[p] = Idle /\ \A q \in Procs \ {p} : job'[q] = job[q]
  BY <1>1, FinishIs DEF MarkPublished
<1>5. row'[d] = "published" /\ \A e \in Drafts \ {d} : row'[e] = row[e]
  BY <1>1, <1>2 DEF MarkPublished, TypeOK
<1>6. /\ TypeAt(p)' = None
      /\ \A q \in Procs \ {p} : TypeAt(q)' = TypeAt(q)
  BY <1>3, <1>4, IdleJob DEF TypeAt
<1>7. Known'
  <2>1. \A q \in Procs : /\ job'[q].draft <= made'
                         /\ job'[q].at = "close" => state'[job'[q].draft] \in Judged
    BY <1>1, <1>3, <1>4, IdleJob, ContentAssumption DEF Known, TypeOK
  <2>2. \A e \in Drafts : Recorded(e)' => state'[e] = "approved"
    BY <1>1, <1>2, <1>3, <1>5 DEF Known, Recorded
  <2> QED BY <1>1, <1>3, <2>1, <2>2 DEF Known
<1>8. ASSUME apart
      PROVE  Exclusive' /\ IssueOnce' /\ \A q \in Procs : Solo(q)'
  <2>1. Exclusive /\ IssueOnce /\ \A q \in Procs : Solo(q)
    BY <1>8 DEF Order, ApartInv
  <2>2. Exclusive' /\ IssueOnce'
    BY <1>3, <1>6, <2>1, ExclusiveNext DEF IssueOnce
  <2>3. ASSUME NEW q \in Procs PROVE Solo(q)'
    <3>1. CASE q # p /\ job[q].at \in {"check", "open", "call", "mark"}
      <4>1. job[q].draft \in Drafts /\ job[q].draft # d
        BY <1>1, <1>2, <2>1, <3>1, HeldApart, SoundJobs DEF Order, JobSound
      <4> QED BY <1>3, <1>4, <1>5, <2>1, <3>1, <4>1 DEF Solo, Recorded
    <3>2. CASE q = p \/ job[q].at \notin {"check", "open", "call", "mark"}
      BY <1>4, <3>2, IdleJob DEF Solo
    <3> QED BY <3>1, <3>2
  <2> QED BY <2>2, <2>3
<1>9. ASSUME apart, faults = 0
      PROVE  InHand' /\ LatestIsShown' /\ \A q \in Procs : Shown(q)'
  <2>1. InHand /\ LatestIsShown /\ \A q \in Procs : Shown(q)
    BY <1>9 DEF Order, DocInv
  <2>2. \A t, e : Latest(t, e)' <=> Latest(t, e)
    BY <1>3 DEF Latest, Approved
  <2>3. Out(d)' /\ \A e \in Drafts \ {d} : Out(e)' <=> Out(e)
    BY <1>5 DEF Out
  <2>4. \A q \in Procs, e \in Drafts \ {d} : Handling(q, e) => Handling(q, e)'
    BY <1>3, <1>4 DEF Handling
  <2>5. InHand'
    BY <1>3, <2>1, <2>2, <2>3, <2>4 DEF InHand
  <2>6. LatestIsShown'
    BY <1>1, <1>3, <2>1, <2>2, <2>3 DEF LatestIsShown, Shown
  <2>7. \A q \in Procs : Shown(q)'
    BY <1>3, <1>4, <2>1, IdleJob DEF Shown
  <2> QED BY <2>5, <2>6, <2>7
<1> QED BY <1>3, <1>7, <1>8, <1>9 DEF Orderly, ApartInv, DocInv

\* The ticket of a judged draft is closed; an approved document goes on to
\* the exit in the same handler.
LEMMA OrderClose ==
  ASSUME DocumentsGoUnconfirmed, Order, NEW w \in Webs, CloseTicket(w)
  PROVE  Orderly'
<1> PICK d : d = job[w].draft
  OBVIOUS
<1>1. /\ TypeOK /\ ReviewInv /\ Known /\ JobSound(w) /\ job[w].at = "close"
      /\ w \in Procs
  BY SoundJobs, WorkerIs DEF Order, ReviewInv, CloseTicket
<1>2. d \in Drafts /\ state[d] \in Judged /\ type[d] \in Types
  BY <1>1, TypeOfHeld DEF JobSound, Known
<1>3. UNCHANGED <<type, state, decided, row, sent, doc, made, apart, stage,
                  todo, faults>>
  BY DEF CloseTicket, parent, tick
<1>4. \A e \in Drafts \ {d} : ticket'[e] = ticket[e]
  BY <1>1, <1>2 DEF CloseTicket, TypeOK
<1>5. /\ \A q \in Procs \ {w} : job'[q] = job[q]
      /\ \/ /\ job'[w] = Idle
            /\ ~(ticket[d] = "open" /\ job[w].yes /\ ~Decl[type[d]].final)
         \/ /\ job'[w].at = "check" /\ ~job'[w].yes /\ job'[w].draft = d
            /\ job'[w].type = job[w].type
  <2>1. CASE ticket[d] = "open" /\ job[w].yes /\ ~Decl[type[d]].final
    <3> PICK j : j = [job[w] EXCEPT !.at = "check", !.yes = FALSE]
      OBVIOUS
    <3>1. job[w] \in Job
      BY <1>1 DEF TypeOK
    <3>2. /\ j \in Job /\ j.at = "check" /\ ~j.yes /\ j.draft = d
          /\ j.type = job[w].type
      BY <3>1 DEF Job
    <3>3. job' = [job EXCEPT ![w] = j]
      BY <1>1, <2>1 DEF CloseTicket, TypeOK
    <3> QED BY <1>1, <3>2, <3>3, JobStored
  <2>2. CASE ~(ticket[d] = "open" /\ job[w].yes /\ ~Decl[type[d]].final)
    BY <1>1, <2>2, FinishIs DEF CloseTicket
  <2> QED BY <2>1, <2>2
<1>6. /\ job'[w].draft \in {0, d} /\ job'[w].at \in {"idle", "check"}
      /\ ~job'[w].yes
  BY <1>5, IdleJob
<1>7. /\ TypeAt(w)' \in {None, TypeAt(w)}
      /\ \A q \in Procs \ {w} : TypeAt(q)' = TypeAt(q)
  BY <1>3, <1>5, IdleJob DEF TypeAt
<1>8. Known'
  <2>1. \A q \in Procs : /\ job'[q].draft <= made'
                         /\ job'[q].at = "close" => state'[job'[q].draft] \in Judged
    BY <1>1, <1>3, <1>5, <1>6, ContentAssumption DEF Known, TypeOK
  <2>2. \A e \in Drafts : state'[e] = "pending" => ticket'[e] = "open"
    BY <1>1, <1>2, <1>3, <1>4 DEF Known, Judged
  <2> QED BY <1>1, <1>3, <2>1, <2>2 DEF Known, Recorded
<1>9. ASSUME apart
      PROVE  Exclusive' /\ IssueOnce' /\ \A q \in Procs : Solo(q)'
  <2>1. Exclusive /\ IssueOnce /\ \A q \in Procs : Solo(q)
    BY <1>9 DEF Order, ApartInv
  <2>2. Exclusive' /\ IssueOnce'
    BY <1>1, <1>3, <1>7, <2>1, ExclusiveNext DEF IssueOnce
  <2>3. \A q \in Procs : Solo(q)'
    BY <1>3, <1>5, <1>6, <2>1 DEF Solo, Recorded
  <2> QED BY <2>2, <2>3
<1>10. ASSUME apart, faults = 0
       PROVE  InHand' /\ LatestIsShown' /\ \A q \in Procs : Shown(q)'
  <2>1. InHand /\ LatestIsShown /\ \A q \in Procs : Shown(q)
    BY <1>10 DEF Order, DocInv
  <2>2. \A t, e : Latest(t, e)' <=> Latest(t, e)
    BY <1>3 DEF Latest, Approved
  <2>3. \A q \in Procs \ {w}, e \in Drafts \ {d} :
          Handling(q, e) => Handling(q, e)'
    BY <1>4, <1>5 DEF Handling
  <2>4. \A e \in Drafts \ {d} : ~Handling(w, e)
    BY DEF Handling
  <2>5. \A q \in Procs \ {w} : ~Handling(q, d)
    <3> SUFFICES ASSUME NEW q \in Procs \ {w}, job[q].draft = d PROVE FALSE
      BY DEF Handling
    <3>1. Exclusive
      BY <1>10 DEF Order, ApartInv
    <3> QED BY <1>1, <1>2, <3>1, HeldApart
  <2>6. OnDocument(type[d]) /\ Handling(w, d) => Handling(w, d)'
    BY <1>1, <1>2, <1>5 DEF Handling, DocumentsGoUnconfirmed
  <2>7. InHand'
    <3> SUFFICES ASSUME NEW e \in Drafts, state[e] = "approved",
                        OnDocument(type[e]), ~Out(e)
                 PROVE  /\ Latest(type[e], e)
                        /\ \E q \in Procs : Handling(q, e)'
      BY <1>3, <2>2 DEF InHand, Out
    <3>1. Latest(type[e], e)
      BY <2>1 DEF InHand
    <3>2. PICK q \in Procs : Handling(q, e)
      BY <2>1 DEF InHand
    <3>3. Handling(q, e)'
      BY <2>3, <2>4, <2>5, <2>6, <3>2
    <3> QED BY <3>1, <3>3
  <2>8. LatestIsShown'
    BY <1>3, <2>1, <2>2 DEF LatestIsShown, Out
  <2>9. \A q \in Procs : Shown(q)'
    BY <1>3, <1>5, <1>6, <2>1 DEF Shown
  <2> QED BY <2>7, <2>8, <2>9
<1> QED BY <1>3, <1>8, <1>9, <1>10 DEF Orderly, ApartInv, DocInv

\* A yes makes its draft the newest version; a no makes none.
LEMMA JudgedLatest ==
  ASSUME ReviewInv, NEW w \in Webs, NEW d \in Drafts, NEW yes \in BOOLEAN,
         Decide(w, d, yes), Judgeable(d)
  PROVE  /\ state'[d] = IF yes THEN "approved" ELSE "rejected"
         /\ \A e \in Drafts \ {d} : state'[e] = state[e]
         /\ yes => Latest(type[d], d)'
         /\ \A e \in Drafts \ {d} :
              (yes => type[e] # type[d]) /\ Latest(type[e], e)
                => Latest(type[e], e)'
         /\ \A e \in Drafts \ {d} : Latest(type[e], e)' => Latest(type[e], e)
<1> PICK n : n = Cardinality({e \in Drafts : decided[e] # 0}) + 1
  OBVIOUS
<1>1. TypeOK /\ state[d] = "pending" /\ decided[d] = 0
  BY DEF ReviewInv, Written, Judgeable, Judged
<1>2. n \in Drafts /\ \A e \in Drafts : decided[e] < n
  BY <1>1, NextNumber DEF ReviewInv
<1>3. /\ state' = [state EXCEPT ![d] = IF yes THEN "approved" ELSE "rejected"]
      /\ decided' = [decided EXCEPT ![d] = n] /\ type' = type
  BY DEF Decide
<1>4. /\ state'[d] = (IF yes THEN "approved" ELSE "rejected")
      /\ decided'[d] = n
      /\ \A e \in Drafts \ {d} : state'[e] = state[e] /\ decided'[e] = decided[e]
  BY <1>1, <1>3 DEF TypeOK
<1>5. \A t, e : e \in Approved(t)' <=> \/ e \in Approved(t)
                                       \/ yes /\ e = d /\ t = type[d]
  BY <1>1, <1>3, <1>4 DEF Approved
<1>6. \A t : d \notin Approved(t)
  BY <1>1 DEF Approved
<1>7. yes => Latest(type[d], d)'
  <2> SUFFICES ASSUME yes PROVE Latest(type[d], d)'
    OBVIOUS
  <2> PICK u : u = type[d]
    OBVIOUS
  <2>1. d \in Approved(u)' /\ type'[d] = u
    BY <1>3, <1>5
  <2>2. \A e \in Approved(u)' \ {d} : decided'[e] < decided'[d]
    BY <1>2, <1>4 DEF Approved
  <2> QED BY <2>1, <2>2 DEF Latest, Approved
<1>8. ASSUME NEW e \in Drafts \ {d}, yes => type[e] # type[d],
             Latest(type[e], e)
      PROVE  Latest(type[e], e)'
  <2> PICK u : u = type[e]
    OBVIOUS
  <2>1. type'[e] = u /\ (\A c : c \in Approved(u)' <=> c \in Approved(u))
    BY <1>3, <1>5, <1>8
  <2>2. \A c \in Approved(u) : c \in Drafts \ {d} /\ decided'[c] = decided[c]
    BY <1>4, <1>6 DEF Approved
  <2>3. e \in Approved(u)'
    BY <1>8, <2>1 DEF Latest
  <2>4. \A c \in Approved(u)' \ {e} : decided'[c] < decided'[e]
    BY <1>4, <1>8, <2>1, <2>2 DEF Latest
  <2> QED BY <2>1, <2>3, <2>4 DEF Latest, Approved
<1>9. ASSUME NEW e \in Drafts \ {d}, Latest(type[e], e)'
      PROVE  Latest(type[e], e)
  <2> PICK u : u = type[e]
    OBVIOUS
  <2>1. /\ e \in Approved(u)'
        /\ \A c \in Approved(u)' \ {e} : decided'[c] < decided'[e]
    BY <1>3, <1>9 DEF Latest, Approved
  <2>2. e \in Approved(u)
    BY <1>5, <2>1
  <2>3. \A c \in Approved(u) : c \in Approved(u)' /\ c \in Drafts \ {d}
    BY <1>5, <1>6 DEF Approved
  <2>4. \A c \in Approved(u) : decided'[c] = decided[c]
    BY <1>4, <2>3
  <2> QED BY <1>4, <2>1, <2>2, <2>3, <2>4 DEF Latest
<1> QED BY <1>4, <1>7, <1>8, <1>9

\* A judgement: who decides alone finds every approved version out, and takes
\* the new one to the exit.
LEMMA OrderDecide ==
  ASSUME Order, ReviewInv', NEW w \in Webs, NEW d \in Drafts,
         NEW yes \in BOOLEAN, Decide(w, d, yes)
  PROVE  Orderly'
<1>1. /\ TypeOK /\ ReviewInv /\ Known /\ w \in Procs
      /\ made \in Nat
  BY WorkerIs, ContentAssumption DEF Order, ReviewInv, TypeOK
<1>2. UNCHANGED <<type, row, sent, doc, ticket, made, apart, stage, todo, faults>>
  BY DEF Decide, parent, tick
<1> PICK j : j = [Idle EXCEPT !.at = "close", !.draft = d, !.yes = yes]
  OBVIOUS
<1>3. j \in Job /\ j.at = "close" /\ j.draft = d /\ j.yes = yes
  BY DraftRange, IdleJob DEF Job
<1>4. /\ job[w] = Idle /\ job' = [job EXCEPT ![w] = j] /\ Free(w, type[d])
      /\ state[d] # "none" /\ (apart => Judgeable(d))
  BY DEF Decide, Judgeable
<1>5. job'[w] = j /\ \A q \in Procs \ {w} : job'[q] = job[q]
  BY <1>1, <1>3, <1>4, JobStored
<1>6. d <= made
  BY <1>1, <1>4, ContentAssumption DEF ReviewInv, Written, Drafts
<1>7. /\ state'[d] \in Judged
      /\ \A e \in Drafts \ {d} : state'[e] = state[e]
      /\ state[d] \in Judged => state'[d] = state[d]
  <2>1. CASE Judgeable(d)
    BY <2>1, JudgedLatest, <1>1 DEF Judged, Judgeable
  <2>2. CASE ~Judgeable(d)
    BY <1>1, <1>4, <2>2 DEF Decide, Judgeable, Judged, TypeOK
  <2> QED BY <2>1, <2>2
<1>8. Known'
  <2>1. \A q \in Procs : job[q].at = "close" => state'[job[q].draft] \in Judged
    <3> SUFFICES ASSUME NEW q \in Procs, job[q].at = "close"
                 PROVE  state'[job[q].draft] \in Judged
      OBVIOUS
    <3>1. state[job[q].draft] \in Judged /\ job[q].draft \in Drafts
      BY <1>1, SoundJobs DEF Order, Known, JobSound
    <3> QED BY <1>7, <3>1
  <2>2. \A q \in Procs : /\ job'[q].draft <= made'
                         /\ job'[q].at = "close" => state'[job'[q].draft] \in Judged
    <3> SUFFICES ASSUME NEW q \in Procs
                 PROVE  /\ job'[q].draft <= made'
                        /\ job'[q].at = "close" => state'[job'[q].draft] \in Judged
      OBVIOUS
    <3>1. CASE q = w
      BY <1>2, <1>3, <1>5, <1>6, <1>7, <3>1
    <3>2. CASE q # w
      BY <1>1, <1>2, <1>5, <2>1, <3>2 DEF Known
    <3> QED BY <3>1, <3>2
  <2>3. \A e \in Drafts : /\ state'[e] = "pending" => ticket'[e] = "open"
                          /\ Recorded(e)' => state'[e] = "approved"
    BY <1>1, <1>2, <1>7 DEF Known, Recorded, Judged
  <2> QED BY <1>1, <1>2, <2>2, <2>3 DEF Known
<1>9. /\ TypeAt(w)' = type[d]
      /\ \A q \in Procs \ {w} : TypeAt(q)' = TypeAt(q)
  BY <1>2, <1>3, <1>5, DraftRange DEF TypeAt
<1>10. ASSUME apart
       PROVE  Exclusive' /\ IssueOnce' /\ \A q \in Procs : Solo(q)'
  <2>1. Exclusive /\ IssueOnce /\ \A q \in Procs : Solo(q)
    BY <1>10 DEF Order, ApartInv
  <2>2. Exclusive'
    BY <1>1, <1>4, <1>9, <1>10, <2>1, ExclusiveNext DEF Free
  <2>3. IssueOnce' /\ \A q \in Procs : Solo(q)'
    BY ZenonT(40), <1>2, <1>3, <1>5, <2>1 DEF IssueOnce, Solo, Recorded
  <2> QED BY <2>2, <2>3
<1>11. ASSUME apart, faults = 0
       PROVE  InHand' /\ LatestIsShown' /\ \A q \in Procs : Shown(q)'
  <2>1. InHand /\ LatestIsShown /\ \A q \in Procs : Shown(q)
    BY <1>11 DEF Order, DocInv
  <2>2. state[d] = "pending" /\ ticket[d] = "open" /\ ~Recorded(d)
    BY <1>1, <1>4, <1>11 DEF Judgeable, Known
  <2>3. \A e \in Drafts : ~Handling(w, e)
    BY <1>4, IdleJob DEF Handling
  <2>4. \A q \in Procs \ {w}, e \in Drafts : Handling(q, e) => Handling(q, e)'
    BY <1>2, <1>5 DEF Handling
  <2>5. \A q \in Procs \ {w}, e \in Drafts : Handling(q, e) => type[e] # type[d]
    BY <1>1, <1>4, <1>11, TypeOfHeld DEF Handling, Free
  <2>6. InHand'
    <3> SUFFICES ASSUME NEW e \in Drafts, state'[e] = "approved",
                        OnDocument(type[e]), ~Out(e)
                 PROVE  /\ Latest(type[e], e)'
                        /\ \E q \in Procs : Handling(q, e)'
      BY <1>2 DEF InHand, Out
    <3>1. CASE e = d
      <4>1. yes
        BY <1>4, <1>11, <3>1, JudgedLatest, <1>1
      <4>2. Latest(type[e], e)'
        BY <1>4, <1>11, <3>1, <4>1, JudgedLatest, <1>1
      <4>3. Handling(w, e)'
        BY <1>2, <1>3, <1>5, <2>2, <3>1, <4>1 DEF Handling
      <4> QED BY <1>1, <4>2, <4>3
    <3>2. CASE e # d
      <4>1. Latest(type[e], e) /\ \E q \in Procs : Handling(q, e)
        BY <1>7, <2>1, <3>2 DEF InHand
      <4>2. PICK q \in Procs \ {w} : Handling(q, e)
        BY <2>3, <4>1
      <4>3. Latest(type[e], e)'
        BY <1>1, <1>4, <1>11, <2>5, <3>2, <4>1, <4>2, JudgedLatest
      <4> QED BY <2>4, <4>2, <4>3
    <3> QED BY <3>1, <3>2
  <2>7. LatestIsShown'
    <3> SUFFICES ASSUME NEW e \in Drafts, Out(e), OnDocument(type[e]),
                        Latest(type[e], e)'
                 PROVE  doc[type[e]] = e
      BY <1>2 DEF LatestIsShown, Out
    <3>1. e # d
      BY <2>2 DEF Out, Recorded
    <3>2. Latest(type[e], e)
      BY <1>1, <1>4, <1>11, <3>1, JudgedLatest
    <3> QED BY <2>1, <3>2 DEF LatestIsShown
  <2>8. \A q \in Procs : Shown(q)'
    BY <1>2, <1>3, <1>5, <2>1 DEF Shown
  <2> QED BY <2>6, <2>7, <2>8
<1> QED BY <1>2, <1>8, <1>10, <1>11 DEF Orderly, ApartInv, DocInv

\* A new draft waits for people: no version, no row and no handler has to do
\* with it yet.
LEMMA OrderSave ==
  ASSUME Order, SaveDraft
  PROVE  Orderly'
<1> PICK n : n = made + 1
  OBVIOUS
<1> PICK t : t = job[Worker].type
  OBVIOUS
<1>1. /\ TypeOK /\ ReviewInv /\ Known /\ Worker \in Procs
      /\ made \in Nat /\ job[Worker].at = "save"
  BY WorkerIs, ContentAssumption DEF Order, ReviewInv, TypeOK, SaveDraft
<1>2. n \in Drafts /\ n > made /\ t \in Types
  BY <1>1, ContentAssumption DEF ReviewInv, Writing, Composing, TypeOK, Drafts
<1>3. state[n] = "none" /\ type[n] = None
  BY <1>1, <1>2 DEF ReviewInv, Written
<1>4. /\ type' = [type EXCEPT ![n] = t]
      /\ state' = [state EXCEPT ![n] = "pending"]
      /\ ticket' = [ticket EXCEPT ![n] = "open"]
      /\ made' = n
      /\ UNCHANGED <<decided, row, sent, doc, apart, stage, todo, faults>>
  BY DEF SaveDraft, parent, tick
<1>5. /\ job'[Worker].at = "record" /\ job'[Worker].draft = job[Worker].draft
      /\ job'[Worker].type = t
      /\ \A q \in Procs \ {Worker} : job'[q] = job[q]
  BY <1>1, GotoIs DEF SaveDraft, Places
<1>6. /\ type'[n] = t /\ state'[n] = "pending" /\ ticket'[n] = "open"
      /\ \A e \in Drafts \ {n} : /\ type'[e] = type[e] /\ state'[e] = state[e]
                                 /\ ticket'[e] = ticket[e]
  BY <1>1, <1>2, <1>4 DEF TypeOK
<1>7. \A q \in Procs : /\ job[q].draft <= made /\ job[q].draft # n
                       /\ job[q].draft \in 0..MaxDrafts
                       /\ job'[q].draft = job[q].draft
                       /\ job'[q].type = job[q].type
  BY <1>1, <1>2, <1>5, JobFields, ContentAssumption DEF Known, TypeOK
<1>8. \A q \in Procs : job[q].draft # 0 => job[q].draft \in Drafts \ {n}
  BY <1>7, ContentAssumption DEF Drafts
<1>9. \A q \in Procs : TypeAt(q)' = TypeAt(q)
  BY <1>6, <1>7, <1>8 DEF TypeAt
<1>10. ~Recorded(n) /\ sent[n] = 0
  BY <1>1, <1>2, <1>3, SoundJobs DEF Order, Known, OnlyApprovedIsOut
<1>11. Known'
  <2>1. made' > made
    BY <1>2, <1>4
  <2>2. \A q \in Procs : /\ job'[q].draft <= made'
                         /\ job'[q].at = "close" => state'[job'[q].draft] \in Judged
    <3>1. \A q \in Procs : job'[q].draft <= made'
      BY <1>1, <1>2, <1>4, <1>7, ContentAssumption
    <3>2. \A q \in Procs : job'[q].at = "close" => job'[q] = job[q]
      BY <1>5
    <3>3. \A q \in Procs : job[q].at = "close" => job[q].draft \in Drafts \ {n}
      BY <1>7, SoundJobs DEF Order, JobSound
    <3> QED BY <1>1, <1>6, <3>1, <3>2, <3>3 DEF Known
  <2>3. \A e \in Drafts : /\ state'[e] = "pending" => ticket'[e] = "open"
                          /\ Recorded(e)' => state'[e] = "approved"
    BY <1>1, <1>4, <1>6, <1>10 DEF Known, Recorded
  <2>4. stage' \in {"inspect", "publish"} =>
          \A e \in todo' \intersect Drafts : e <= made'
    BY <1>1, <1>2, <1>4, ContentAssumption DEF Known, Drafts
  <2> QED BY <2>2, <2>3, <2>4 DEF Known
<1>12. ASSUME apart
       PROVE  Exclusive' /\ IssueOnce' /\ \A q \in Procs : Solo(q)'
  <2>1. Exclusive /\ IssueOnce /\ \A q \in Procs : Solo(q)
    BY <1>12 DEF Order, ApartInv
  <2>2. Exclusive'
    BY <1>9, <2>1 DEF Exclusive
  <2>3. IssueOnce'
    BY <1>4, <1>6, <1>10, <2>1 DEF IssueOnce
  <2>4. ASSUME NEW q \in Procs PROVE Solo(q)'
    <3>1. CASE q # Worker /\ job[q].at \in {"check", "open", "call", "mark"}
      <4>1. job[q].draft \in Drafts \ {n}
        BY <1>7, <3>1, SoundJobs DEF Order, JobSound
      <4> QED BY <1>4, <1>5, <1>6, <2>1, <3>1, <4>1 DEF Solo, Recorded
    <3>2. CASE q = Worker \/ job[q].at \notin {"check", "open", "call", "mark"}
      BY <1>5, <3>2 DEF Solo
    <3> QED BY <3>1, <3>2
  <2> QED BY <2>2, <2>3, <2>4
<1>13. ASSUME apart, faults = 0
       PROVE  InHand' /\ LatestIsShown' /\ \A q \in Procs : Shown(q)'
  <2>1. InHand /\ LatestIsShown /\ \A q \in Procs : Shown(q)
    BY <1>13 DEF Order, DocInv
  <2>2. \A u, e : u # None => (e \in Approved(u)' <=> e \in Approved(u))
    BY <1>3, <1>6 DEF Approved
  <2>3. \A e \in Drafts \ {n} : type[e] \in Types =>
          (Latest(type[e], e)' <=> Latest(type[e], e))
    <3> SUFFICES ASSUME NEW e \in Drafts \ {n}, type[e] \in Types
                 PROVE  Latest(type[e], e)' <=> Latest(type[e], e)
      OBVIOUS
    <3> PICK u : u = type[e]
      OBVIOUS
    <3>1. u # None /\ type'[e] = u
      BY <1>6, ContentAssumption
    <3>2. Latest(u, e)' <=> Latest(u, e)
      BY <1>4, <2>2, <3>1 DEF Latest
    <3> QED BY <3>1, <3>2
  <2>4. \A q \in Procs, e \in Drafts \ {n} : Handling(q, e) => Handling(q, e)'
    BY <1>1, <1>5, <1>6 DEF Handling
  <2>5. \A e \in Drafts \ {n} : state[e] # "none" => type[e] \in Types
    BY <1>1 DEF ReviewInv, Written, TypeOK
  <2>6. InHand'
    <3> SUFFICES ASSUME NEW e \in Drafts, state'[e] = "approved",
                        OnDocument(type'[e]), ~Out(e)'
                 PROVE  /\ Latest(type[e], e)'
                        /\ \E q \in Procs : Handling(q, e)'
      BY DEF InHand
    <3>1. e # n /\ state[e] = "approved" /\ type'[e] = type[e] /\ ~Out(e)
      BY <1>4, <1>6 DEF Out
    <3> QED BY <2>1, <2>3, <2>4, <2>5, <3>1 DEF InHand
  <2>7. LatestIsShown'
    <3> SUFFICES ASSUME NEW e \in Drafts, Out(e)', OnDocument(type'[e]),
                        Latest(type[e], e)'
                 PROVE  doc'[type'[e]] = e
      BY DEF LatestIsShown
    <3>1. e # n /\ Out(e) /\ type'[e] = type[e]
      BY <1>4, <1>6, <1>10 DEF Out, Recorded
    <3>2. state[e] = "approved"
      BY <1>1, <3>1 DEF Known, Recorded, Out
    <3> QED BY <1>4, <2>1, <2>3, <2>5, <3>1, <3>2 DEF LatestIsShown
  <2>8. ASSUME NEW q \in Procs PROVE Shown(q)'
    <3>1. CASE q # Worker /\ job[q].at = "mark"
      <4>1. job[q].draft \in Drafts \ {n}
        BY <1>7, <3>1, SoundJobs DEF Order, JobSound
      <4> QED BY <1>4, <1>5, <1>6, <2>1, <3>1, <4>1 DEF Shown
    <3>2. CASE q = Worker \/ job[q].at # "mark"
      BY <1>5, <3>2 DEF Shown
    <3> QED BY <3>1, <3>2
  <2> QED BY <2>6, <2>7, <2>8
<1> QED BY <1>4, <1>11, <1>12, <1>13 DEF Orderly, ApartInv, DocInv

\* At first nobody holds anything and nothing is out.
LEMMA OrderInit == Init => Known /\ ApartInv /\ DocInv
<1> SUFFICES ASSUME Init PROVE Known /\ ApartInv /\ DocInv
  OBVIOUS
<1>1. Worker \in Procs /\ \A p \in Procs : job[p] = Idle
  BY WorkerIs DEF Init
<1>2. Known
  BY <1>1, IdleJob, ContentAssumption DEF Init, Known, Recorded
<1>3. \A p \in Procs : TypeAt(p) = None /\ Solo(p) /\ Shown(p)
  BY <1>1, IdleJob DEF TypeAt, Solo, Shown
<1>4. ApartInv
  BY <1>3 DEF Init, ApartInv, Exclusive, IssueOnce
<1>5. DocInv
  BY <1>3 DEF Init, DocInv, InHand, LatestIsShown, Out
<1> QED BY <1>2, <1>4, <1>5

\* Every step keeps what the parent system shows in order.
LEMMA OrderNext ==
  DocumentsGoUnconfirmed /\ Order /\ [Next]_vars => Order'
<1> SUFFICES ASSUME DocumentsGoUnconfirmed, Order, [Next]_vars PROVE Order'
  OBVIOUS
<1>1. IndInv' /\ ReviewInv' /\ Worker \in Procs /\ Webs \subseteq Procs
  BY NextKeeps, ReviewNext, WorkerIs DEF Order
<1>2. ASSUME \/ Ingest \/ QuestionRepeats \/ Boot \/ NextStage
           \/ \E t \in Types : PeriodPasses(t)
      PROVE  Orderly'
  BY <1>2, OrderElsewhere
<1>3. ASSUME Writer \/ Crash \/ \E w \in Webs : Abandon(w)
      PROVE  Orderly'
  BY <1>1, <1>3, OrderFinished, OrderWorkerStarts, OrderSave DEF Writer
<1>4. ASSUME \/ \E t \in Types : Produce(t)
           \/ \E d \in Drafts : Inspect(d) \/ Republish(d)
      PROVE  Orderly'
  BY <1>4, OrderWorkerStarts
<1>5. ASSUME \E p \in Procs : Exit(p)
      PROVE  Orderly'
  BY <1>5, OrderChecks, OrderOpen, OrderSend, OrderMark DEF Exit
<1>6. ASSUME \E w \in Webs : CloseTicket(w)
      PROVE  Orderly'
  BY <1>6, OrderClose
<1>7. ASSUME \E w \in Webs, d \in Drafts :
             Confirm(w, d) \/ \E yes \in BOOLEAN : Decide(w, d, yes)
      PROVE  Orderly'
  BY <1>1, <1>7, OrderConfirm, OrderDecide
<1>8. ASSUME UNCHANGED vars
      PROVE  Orderly'
  BY <1>8
  DEF vars, Order, Orderly, Known, ApartInv, DocInv, Exclusive, IssueOnce, Solo,
      Shown, InHand, LatestIsShown, Latest, Approved, Handling, TypeAt,
      Recorded, Out
<1>9. Orderly'
  BY <1>1, <1>2, <1>3, <1>4, <1>5, <1>6, <1>7, <1>8
  DEF Next, WorkerNext, WebNext
<1> QED BY <1>1, <1>9 DEF Order, Orderly

\* What the parent system shows was approved and is on record, an issue is
\* created once by people who press what is listed, and while nothing fails a
\* document shows what was approved last.  Where a declaration asks for the
\* final check of a document, an older version can be confirmed after a newer.
THEOREM WhatIsOutIsInOrder ==
  DocumentsGoUnconfirmed => (Spec => []OutIsInOrder)
<1> SUFFICES ASSUME DocumentsGoUnconfirmed PROVE Spec => []OutIsInOrder
  OBVIOUS
<1>1. Init => Order
  BY InitHolds, ReviewInit, OrderInit DEF Order
<1>2. Order /\ [Next]_vars => Order'
  BY OrderNext
<1>3. Order => OutIsInOrder
  <2> SUFFICES ASSUME Order PROVE OutIsInOrder
    OBVIOUS
  <2>1. OnlyApprovedIsOut /\ IssueOnce
    BY SoundJobs DEF Order, ApartInv, IssueOnce
  <2>2. ASSUME apart, faults = 0, NEW t \in Types, OnDocument(t),
               Current(t) # 0, Out(Current(t))
        PROVE  doc[t] = Current(t)
    <3>1. decided \in [Drafts -> 0..MaxDrafts] /\ Ordered
      BY DEF Order, ReviewInv, TypeOK
    <3>2. PICK d \in Drafts : Latest(t, d)
      BY <2>2, <3>1, CurrentIs DEF Ordered
    <3>3. Current(t) = d /\ type[d] = t
      BY <3>1, <3>2, CurrentIs DEF Latest, Approved
    <3>4. LatestIsShown
      BY <2>2 DEF Order, DocInv
    <3> QED BY <2>2, <3>2, <3>3, <3>4 DEF LatestIsShown
  <2> QED BY <2>1, <2>2 DEF OutIsInOrder, DocumentIsCurrent
<1> QED BY <1>1, <1>2, <1>3, PTL DEF Spec

=============================================================================
