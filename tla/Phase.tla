------------------------------- MODULE Phase -------------------------------
(***************************************************************************)
(* The phase of the service (operations/phase.py): how strictly answers    *)
(* are reviewed and what is promoted without a person.  The batch worker   *)
(* observes the service at the start of every tick and lowers the phase by *)
(* itself (worker/runner.py); an operator's web thread raises it, if the   *)
(* stored observations propose that (web/app.py, web/metrics.py).  The     *)
(* gate of an answer (pipeline/gating.py) and the automatic promotion      *)
(* (operations/promotion.py) go by the phase the worker read last.         *)
(*                                                                         *)
(* What is counted is left out: a tick observes any of Observations, whose *)
(* readings are numbers or None ("too few to tell").  Of the axes one is   *)
(* kept for each way an axis is used.                                      *)
(***************************************************************************)
EXTENDS Integers

CONSTANTS
  Web,           \* threads of the web process that serve /phase/advance
  MaxDay,        \* bound: days a behaviour lasts
  Observations,  \* what may be observed
  Want,          \* thresholds of an advance, by target phase and axis
  Delta,         \* change of a reading that is a signal
  Lookback,      \* lookback_days: age of a baseline
  Seed,          \* ASD_PHASE, the phase of a new database
  Worker, None

Metric  == {"coverage", "rejection", "agreement", "novelty"}
Days    == 1..MaxDay
Phases  == 1..3
Handlers == {Worker} \union Web

\* The axes judged for an advance; agreement is asked for phase 3 only.
Axes(target) == {"coverage", "rejection"} \union
                  (IF target = 3 THEN {"agreement"} ELSE {})

ASSUME PhaseAssumption ==
  /\ MaxDay \in Nat \ {0}
  /\ Lookback \in Nat \ {0} /\ Delta \in Nat \ {0}
  /\ Seed \in Phases
  /\ Observations \subseteq [Metric -> Nat \union {None}]
  /\ Want \in [2..3 -> [Metric -> Nat \union {None}]]
  /\ None \notin Nat \union Observations
  /\ Worker \notin Web

VARIABLES
  day,       \* today (UTC)
  obs,       \* table phase_observation: one row for a day
  phase,     \* table phase_state
  changed,   \* table phase_decision: day of the last change, 0 if none
  lowered,   \* its last row of the worker: the day, and what it had observed
  pc,        \* where each handler is
  view,      \* its local variables
  gate,      \* the phase the worker's stage has read
  routed     \* the draft the worker has routed

vars == <<day, obs, phase, changed, lowered, pc, view, gate, routed>>

table == <<phase, changed, lowered>>
stage == <<gate, routed>>

Signal == {"danger", "unreviewed"}
PC == {"idle", "baseline", "judge", "lower", "write", "latest",
       "gate", "gated", "routed", "promote", "promoting", "promoted"}

\* An observation and its day, the baseline, the phase read, the phase to write.
View == [on : 0..MaxDay, seen : Observations \union {None},
         base : Observations \union {None}, phase : 0..3, to : 0..3]
NoRoute == [signals |-> {}, auto |-> FALSE]
NoView == [on |-> 0, seen |-> None, base |-> None, phase |-> 0, to |-> 0]

TypeOK ==
  /\ day \in Days
  /\ obs \in [Days -> Observations \union {None}]
  /\ phase \in Phases
  /\ changed \in 0..MaxDay
  /\ lowered \in [at : 0..MaxDay, on : 0..MaxDay,
                  seen : Observations \union {None}]
  /\ pc \in [Handlers -> PC]
  /\ view \in [Handlers -> View]
  /\ gate \in 0..3
  /\ routed \in [signals : SUBSET Signal, auto : BOOLEAN]

\* The first read has sown the setting; a seed is no change of phase.
Init ==
  /\ day = 1
  /\ obs = [d \in Days |-> None]
  /\ phase = Seed
  /\ changed = 0
  /\ lowered = [at |-> 0, on |-> 0, seen |-> None]
  /\ pc = [h \in Handlers |-> "idle"]
  /\ view = [h \in Handlers |-> NoView]
  /\ gate = 0
  /\ routed = NoRoute

-----------------------------------------------------------------------------
(* The judgement *)

\* A reading fell or rose by Delta since the baseline; of a reading that one
\* of the two lacks nothing is said.
Signals(o, b) ==
  \E m \in {"coverage", "rejection", "novelty"} :
    /\ o[m] # None /\ b[m] # None
    /\ IF m = "coverage" THEN o[m] <= b[m] - Delta ELSE o[m] >= b[m] + Delta

Falling(o, b) == b # None /\ Signals(o, b)

\* Every axis is declared, available and good enough; rejection is a ceiling.
Meets(o, target) ==
  \A m \in Axes(target) :
    /\ Want[target][m] # None /\ o[m] # None
    /\ IF m = "rejection" THEN o[m] <= Want[target][m]
                          ELSE o[m] >= Want[target][m]

\* Regression is looked at first.
Proposes(o, b, p, to) ==
  /\ ~Falling(o, b)
  /\ p < 3 /\ to = p + 1
  /\ Meets(o, to)

Lowers(o, b, p) == Falling(o, b) /\ p > 1

Last(d, days) == d \in days /\ \A e \in days : e <= d

\* Mutant: the change of phase does not cut off what came before it.
BaselineDaysUncut(on) == {d \in Days : obs[d] # None /\ d <= on - Lookback}

\* The observations a baseline is taken from: old enough and, by days, not
\* older than the last change of phase.
BaselineDays(on) ==
  {d \in Days : obs[d] # None /\ d <= on - Lookback /\ d >= changed}

-----------------------------------------------------------------------------

Goto(h, from, to) ==
  /\ pc[h] = from
  /\ pc' = [pc EXCEPT ![h] = to]

NextDay ==
  /\ day < MaxDay
  /\ day' = day + 1
  /\ UNCHANGED <<obs, table, pc, view, stage>>

\* phase._write: the row and the state in one transaction, whatever the phase
\* is by now.
Write(from, to) ==
  /\ phase' = to
  /\ changed' = IF from # to THEN day ELSE changed

(* The worker: _judge_phase *)

\* One row for a day: a later tick of the day overwrites it.
Observe ==
  /\ Goto(Worker, "idle", "baseline")
  /\ \E o \in Observations :
       /\ obs' = [obs EXCEPT ![day] = o]
       /\ view' = [view EXCEPT ![Worker] = [NoView EXCEPT !.on = day, !.seen = o]]
  /\ UNCHANGED <<day, table, stage>>

\* The declaration of the thresholds cannot be read: no judgement this tick.
SkipJudgement ==
  /\ Goto(Worker, "idle", "gate")
  /\ UNCHANGED <<day, obs, table, view, stage>>

\* Both handlers read the baseline of the observation they hold: the last one.
ReadBaseline(h) ==
  LET days == BaselineDays(view[h].on) IN
  /\ Goto(h, "baseline", "judge")
  /\ \/ days = {} /\ view' = [view EXCEPT ![h].base = None]
     \/ \E d \in Days :
          /\ Last(d, days)
          /\ view' = [view EXCEPT ![h].base = obs[d]]
  /\ UNCHANGED <<day, obs, table, stage>>

JudgeTick ==
  LET v == view[Worker] IN
  /\ pc[Worker] = "judge"
  /\ IF Lowers(v.seen, v.base, phase)
     THEN /\ Goto(Worker, "judge", "lower")
          /\ view' = [view EXCEPT ![Worker].to = phase - 1]
     ELSE /\ Goto(Worker, "judge", "gate")
          /\ view' = [view EXCEPT ![Worker] = NoView]
  /\ UNCHANGED <<day, obs, table, stage>>

\* regress reads the phase again, for the row only.
Regress ==
  /\ Goto(Worker, "lower", "write")
  /\ view' = [view EXCEPT ![Worker].phase = phase]
  /\ UNCHANGED <<day, obs, table, stage>>

WriteRegression ==
  LET v == view[Worker] IN
  /\ Goto(Worker, "write", "gate")
  /\ Write(v.phase, v.to)
  /\ lowered' = [at |-> day, on |-> v.on, seen |-> v.seen]
  /\ view' = [view EXCEPT ![Worker] = NoView]
  /\ UNCHANGED <<day, obs, stage>>

(* The worker: what goes by the phase *)

\* Mutant: the phase of the settings, as before the database held it.
OpenGateSetting ==
  /\ Goto(Worker, "gate", "gated")
  /\ gate' = Seed
  /\ UNCHANGED <<day, obs, table, view, routed>>

\* _intake and _track each read the phase once, for all they process.
OpenGate ==
  /\ Goto(Worker, "gate", "gated")
  /\ gate' = phase
  /\ UNCHANGED <<day, obs, table, view, routed>>

\* gating.assess, at a stage that publishes.  From phase 3 on only answers the
\* reviewer has not approved wait, and of the others a sample.
Passes(p, signals) ==
  IF p >= 3 THEN "unreviewed" \notin signals ELSE signals = {}

Assess(p, signals) ==
  {auto \in BOOLEAN : /\ auto => Passes(p, signals)
                      /\ Passes(p, signals) /\ p < 3 => auto}

RouteDraft ==
  /\ Goto(Worker, "gated", "routed")
  /\ \E signals \in SUBSET Signal :
       \E auto \in Assess(gate, signals) :
         routed' = [signals |-> signals, auto |-> auto]
  /\ UNCHANGED <<day, obs, table, view, gate>>

\* The next draft, the next stage that gates drafts, or promotion.
NextDraft ==
  /\ \E there \in {"gated", "gate", "promote"} : Goto(Worker, "routed", there)
  /\ routed' = NoRoute
  /\ UNCHANGED <<day, obs, table, view, gate>>

OpenPromotion ==
  /\ Goto(Worker, "promote", "promoting")
  /\ gate' = phase
  /\ UNCHANGED <<day, obs, table, view, routed>>

\* promotion.run_auto: from phase 2 on.
Promote ==
  /\ gate >= 2
  /\ Goto(Worker, "promoting", "promoted")
  /\ UNCHANGED <<day, obs, table, view, stage>>

EndTick ==
  /\ \E from \in {"gated", "promoting", "promoted"} : Goto(Worker, from, "idle")
  /\ gate' = 0
  /\ UNCHANGED <<day, obs, table, view, routed>>

(* The web process: phase_advance *)

ReadPhase(w) ==
  /\ Goto(w, "idle", "latest")
  /\ view' = [view EXCEPT ![w].phase = phase]
  /\ UNCHANGED <<day, obs, table, stage>>

\* The page takes the last observation there is.  If there is none, or the
\* thresholds cannot be read, there is no judgement to approve.
ReadLatest(w) ==
  LET days == {d \in Days : obs[d] # None} IN
  /\ \/ /\ Goto(w, "latest", "idle")
        /\ view' = [view EXCEPT ![w] = NoView]
     \/ \E d \in Days :
          /\ Last(d, days)
          /\ Goto(w, "latest", "baseline")
          /\ view' = [view EXCEPT ![w].on = d, ![w].seen = obs[d]]
  /\ UNCHANGED <<day, obs, table, stage>>

\* The operator asks for a phase, which must be the one proposed.
Advance(w, to) ==
  LET v == view[w] IN
  /\ pc[w] = "judge"
  /\ IF Proposes(v.seen, v.base, v.phase, to)
     THEN /\ Goto(w, "judge", "write")
          /\ view' = [view EXCEPT ![w].to = to]
     ELSE /\ Goto(w, "judge", "idle")
          /\ view' = [view EXCEPT ![w] = NoView]
  /\ UNCHANGED <<day, obs, table, stage>>

WriteAdvance(w) ==
  /\ Goto(w, "write", "idle")
  /\ Write(view[w].phase, view[w].to)
  /\ view' = [view EXCEPT ![w] = NoView]
  /\ UNCHANGED <<day, obs, lowered, stage>>

-----------------------------------------------------------------------------

WorkerNext ==
  \/ Observe \/ SkipJudgement \/ ReadBaseline(Worker) \/ JudgeTick
  \/ Regress \/ WriteRegression
  \/ OpenGate \/ RouteDraft \/ NextDraft
  \/ OpenPromotion \/ Promote \/ EndTick

WebNext ==
  \E w \in Web :
    \/ ReadPhase(w) \/ ReadLatest(w) \/ ReadBaseline(w)
    \/ \E to \in 2..3 : Advance(w, to)
    \/ WriteAdvance(w)

Next == NextDay \/ WorkerNext \/ WebNext

Spec == Init /\ [][Next]_vars

-----------------------------------------------------------------------------
(* Properties *)

\* The same evidence does not lower the phase twice: what lowers it was
\* observed at least Lookback days after the day of the lowering before,
\* however observations are overwritten and advances come in between.
LoweredApart ==
  [][pc[Worker] = "write" /\ pc'[Worker] = "gate" =>
       lowered.at = 0 \/ view[Worker].on >= lowered.at + Lookback]_vars

\* Strengthening does not wait: a draft with a danger signal is sent without
\* a person only while phase 3 holds, and knowledge is promoted without one
\* only from phase 2 on - not by a phase that was read before it was lowered.
LooseOnlyWhenLicensed ==
  /\ pc[Worker] = "routed" /\ routed.auto =>
       "unreviewed" \notin routed.signals /\ (routed.signals = {} \/ phase = 3)
  /\ pc[Worker] = "promoted" => phase >= 2

\* One operator at a time: a second advance could be of a judgement read
\* before the first, and of a phase the worker has gone by in between.
OneOperator == \A v, w \in Web : v = w

\* A lowering was a change, and a change was some day.
Dates == lowered.at <= changed /\ changed <= day

\* An advance at work has read a phase that was only lowered since.
AdvanceSound(w) ==
  /\ pc[w] \in {"latest", "baseline", "judge", "write"} =>
       phase <= view[w].phase
  /\ pc[w] = "write" => view[w].to \in Phases /\ view[w].to = view[w].phase + 1

\* A regression at work goes by evidence from after the last one, and down;
\* and what the worker routes and promotes goes by a phase that can only
\* have been raised since.
WorkerSound ==
  LET v == view[Worker] IN
  /\ \/ pc[Worker] = "judge" /\ v.base # None
     \/ pc[Worker] \in {"lower", "write"}
     => lowered.at = 0 \/ v.on >= lowered.at + Lookback
  /\ pc[Worker] \in {"lower", "write"} => v.to \in Phases /\ v.to < phase
  /\ pc[Worker] = "write" => v.to < v.phase
  /\ pc[Worker] \in {"gated", "routed", "promoting", "promoted"} => gate <= phase
  /\ pc[Worker] = "routed" /\ routed.auto =>
       "unreviewed" \notin routed.signals /\ (routed.signals = {} \/ gate = 3)
  /\ pc[Worker] = "promoted" => gate >= 2

\* With one operator, inductive.
IndInv ==
  /\ TypeOK
  /\ Dates
  /\ WorkerSound
  /\ \A w \in Web : AdvanceSound(w)

(* What the documents say and the code does not keep *)

\* phase.py: "regression goes one step at a time": the worker never lowers
\* the phase by two.
OneStepDown ==
  [][pc[Worker] = "write" /\ pc'[Worker] = "gate" => phase' >= phase - 1]_vars

\* phase.current: how the phase changed "must be traceable": the row of an
\* advance says the phase it was changed from.
AdvanceFromWhatHolds ==
  [][\A w \in Web :
       pc[w] = "write" /\ pc'[w] = "idle" => view[w].phase = phase]_vars

\* judge: "regression is looked at first ... raising then would turn the
\* asymmetry around": the observation that lowered the phase does not raise
\* it, not even for a page that knows of the lowering.
RaisedOnOtherEvidence ==
  [][\A w \in Web :
       pc[w] = "write" /\ pc'[w] = "idle" /\ view[w].phase = phase =>
         \/ view[w].on # lowered.on
         \/ view[w].seen # lowered.seen]_vars

=============================================================================
