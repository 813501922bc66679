----------------------------- MODULE PhaseProofs -----------------------------
(***************************************************************************)
(* For any observations, thresholds, baselines and number of days, with    *)
(* one operator at a time: the same evidence does not lower the phase      *)
(* twice, and nothing passes without a person by a phase that was lowered. *)
(***************************************************************************)
EXTENDS Phase, TLAPS

\* The fields of well-typed locals.
LEMMA ViewFields ==
  ASSUME NEW v \in View
  PROVE  /\ v.on \in 0..MaxDay
         /\ v.seen \in Observations \union {None}
         /\ v.base \in Observations \union {None}
         /\ v.phase \in 0..3
         /\ v.to \in 0..3
BY DEF View

LEMMA NoViewFields == NoView \in View /\ NoView.base = None
BY PhaseAssumption DEF NoView, View

\* The worker is no thread of the web process.
LEMMA Apart == Worker \in Handlers /\ \A w \in Web : w \in Handlers /\ w # Worker
BY PhaseAssumption DEF Handlers

\* A handler's next place and locals.
LEMMA SetHandler ==
  ASSUME TypeOK, NEW h \in Handlers, NEW from, NEW to \in PC, Goto(h, from, to),
         NEW v \in View, view' = [view EXCEPT ![h] = v]
  PROVE  /\ pc' \in [Handlers -> PC] /\ pc'[h] = to
         /\ view' \in [Handlers -> View] /\ view'[h] = v
         /\ \A g \in Handlers \ {h} : pc'[g] = pc[g] /\ view'[g] = view[g]
BY DEF TypeOK, Goto

LEMMA SetPlace ==
  ASSUME TypeOK, NEW h \in Handlers, NEW from, NEW to \in PC, Goto(h, from, to)
  PROVE  /\ pc' \in [Handlers -> PC] /\ pc'[h] = to
         /\ \A g \in Handlers \ {h} : pc'[g] = pc[g]
BY DEF TypeOK, Goto

\* A handler that reads stays sound while the tables stay as they are.
LEMMA AdvanceKept ==
  ASSUME NEW w \in Web, AdvanceSound(w), pc'[w] = pc[w], view'[w] = view[w],
         phase' = phase
  PROVE  AdvanceSound(w)'
BY DEF AdvanceSound

LEMMA WorkerKept ==
  ASSUME WorkerSound, pc'[Worker] = pc[Worker], view'[Worker] = view[Worker],
         UNCHANGED <<phase, lowered, gate, routed>>
  PROVE  WorkerSound'
BY DEF WorkerSound

LEMMA InitIndInv == Init => IndInv
<1> SUFFICES ASSUME Init PROVE IndInv
  OBVIOUS
<1> USE PhaseAssumption, NoViewFields, Apart DEF Init
<1>1. TypeOK
  BY DEF TypeOK, Days, Phases, PC, NoRoute, Signal
<1>2. Dates
  BY DEF Dates
<1>3. WorkerSound
  BY DEF WorkerSound
<1>4. \A w \in Web : AdvanceSound(w)
  BY DEF AdvanceSound
<1> QED BY <1>1, <1>2, <1>3, <1>4 DEF IndInv

LEMMA NextDayStep ==
  ASSUME IndInv, NextDay
  PROVE  IndInv'
<1> USE PhaseAssumption DEF IndInv, NextDay, table, stage
<1>1. TypeOK'
  BY DEF TypeOK, Days
<1>2. Dates'
  BY DEF TypeOK, Dates, Days
<1>3. WorkerSound'
  BY WorkerKept
<1>4. \A w \in Web : AdvanceSound(w)'
  BY AdvanceKept
<1> QED BY <1>1, <1>2, <1>3, <1>4

\* A step of the worker that leaves the table of the phase alone: what it
\* holds afterwards must be sound.
LEMMA WorkerReads ==
  ASSUME IndInv, NEW from, NEW to \in PC, Goto(Worker, from, to),
         NEW v \in View, view' = [view EXCEPT ![Worker] = v],
         obs' \in [Days -> Observations \union {None}],
         UNCHANGED <<day, table>>,
         gate' \in 0..3, routed' \in [signals : SUBSET Signal, auto : BOOLEAN],
         WorkerSound'
  PROVE  IndInv'
<1> USE DEF IndInv, table
<1>1. /\ pc' \in [Handlers -> PC] /\ view' \in [Handlers -> View]
      /\ \A w \in Web : pc'[w] = pc[w] /\ view'[w] = view[w]
  BY SetHandler, Apart
<1>2. TypeOK'
  BY <1>1 DEF TypeOK
<1>3. Dates'
  BY DEF Dates
<1>4. \A w \in Web : AdvanceSound(w)'
  BY <1>1, AdvanceKept
<1> QED BY <1>2, <1>3, <1>4

LEMMA ObserveStep ==
  ASSUME IndInv, Observe \/ SkipJudgement
  PROVE  IndInv'
<1> USE PhaseAssumption, Apart DEF IndInv, stage
<1>1. ASSUME Observe PROVE IndInv'
  <2>1. PICK o \in Observations :
          /\ obs' = [obs EXCEPT ![day] = o]
          /\ view' = [view EXCEPT ![Worker] = [NoView EXCEPT !.on = day, !.seen = o]]
    BY <1>1 DEF Observe
  <2> DEFINE v == [NoView EXCEPT !.on = day, !.seen = o]
  <2>a. day \in 0..MaxDay
    BY DEF TypeOK, Days
  <2>2. v \in View
    BY <2>a, NoViewFields DEF View
  <2>3. obs' \in [Days -> Observations \union {None}]
    BY <2>1 DEF TypeOK
  <2>4. Goto(Worker, "idle", "baseline") /\ UNCHANGED <<day, table, stage>>
    BY <1>1 DEF Observe
  <2>5. "baseline" \in PC
    BY DEF PC
  <2>6. pc'[Worker] = "baseline"
    BY <2>4, <2>5, SetPlace
  <2>7. WorkerSound'
    BY <2>6 DEF WorkerSound
  <2> HIDE DEF v
  <2> QED BY <2>1, <2>2, <2>3, <2>4, <2>5, <2>7, WorkerReads DEF TypeOK, v
<1>2. ASSUME SkipJudgement PROVE IndInv'
  <2>1. Goto(Worker, "idle", "gate") /\ UNCHANGED <<day, obs, table, view, stage>>
    BY <1>2 DEF SkipJudgement
  <2>2. "gate" \in PC
    BY DEF PC
  <2>3. view' = [view EXCEPT ![Worker] = view[Worker]] /\ view[Worker] \in View
    BY <2>1 DEF TypeOK
  <2>4. pc'[Worker] = "gate"
    BY <2>1, <2>2, SetPlace
  <2>5. WorkerSound'
    BY <2>4 DEF WorkerSound
  <2> QED BY <2>1, <2>2, <2>3, <2>5, WorkerReads DEF TypeOK
<1> QED BY <1>1, <1>2

LEMMA ReadBaselineStep ==
  ASSUME IndInv, NEW h \in Handlers, ReadBaseline(h)
  PROVE  IndInv'
<1> USE PhaseAssumption, Apart DEF IndInv, stage
<1> DEFINE u == view[h]
           days == BaselineDays(u.on)
<1>0. /\ Goto(h, "baseline", "judge") /\ "judge" \in PC /\ h \in {Worker} \union Web
      /\ UNCHANGED <<day, obs, table, stage>>
  BY DEF ReadBaseline, PC, Handlers
<1>1. PICK b \in Observations \union {None} :
        /\ view' = [view EXCEPT ![h].base = b]
        /\ b # None => \E d \in days : b = obs[d]
  BY DEF ReadBaseline, Last, TypeOK
<1> DEFINE v == [u EXCEPT !.base = b]
<1>2. u \in View
  BY DEF TypeOK
<1>3. /\ v \in View /\ v.base = b /\ v.on = u.on
      /\ v.phase = u.phase /\ v.to = u.to
  BY <1>2 DEF View
<1>4. view' = [view EXCEPT ![h] = v]
  BY <1>1
<1>5. CASE h = Worker
  <2>1. b # None => changed <= u.on - Lookback
    BY SMTT(30), <1>1 , <1>2, ViewFields DEF BaselineDays, TypeOK, Days
  <2>2. b # None => lowered.at = 0 \/ u.on >= lowered.at + Lookback
    BY <2>1, <1>2, ViewFields DEF Dates, TypeOK, Days
  <2>a. v \in View /\ view' = [view EXCEPT ![h] = v]
    BY <1>3, <1>4
  <2>3. pc'[Worker] = "judge" /\ view'[Worker] = v
    <3> HIDE DEF v
    <3> QED BY ZenonT(40), <2>a, <1>0, <1>5, SetHandler
  <2>4. WorkerSound'
    BY <2>2, <2>3, <1>0, <1>3 DEF WorkerSound, table
  <2> HIDE DEF v
  <2> QED BY <2>4, <1>0, <1>3, <1>4, <1>5, WorkerReads DEF TypeOK
<1>6. CASE h \in Web
  <2> HIDE DEF v, u
  <2>1. /\ pc' \in [Handlers -> PC] /\ pc'[h] = "judge"
        /\ view' \in [Handlers -> View] /\ view'[h] = v
        /\ \A g \in Handlers \ {h} : pc'[g] = pc[g] /\ view'[g] = view[g]
    BY <1>0, <1>3, <1>4, SetHandler
  <2>2. TypeOK'
    BY <2>1, <1>0 DEF TypeOK, table
  <2>3. Dates'
    BY <1>0 DEF Dates, table
  <2>4. WorkerSound'
    BY <2>1, <1>0, <1>6, WorkerKept DEF table
  <2>5. AdvanceSound(h)'
    BY <2>1, <1>0, <1>3, <1>6 DEF AdvanceSound, table, Goto, u
  <2>6. \A w \in Web : AdvanceSound(w)'
    BY <2>1, <2>5, <1>0, AdvanceKept DEF table
  <2> QED BY <2>2, <2>3, <2>4, <2>6
<1> QED BY <1>0, <1>5, <1>6

LEMMA JudgeTickStep ==
  ASSUME IndInv, JudgeTick
  PROVE  IndInv'
<1> USE PhaseAssumption, Apart DEF IndInv, stage
<1> DEFINE u == view[Worker]
<1>0. u \in View /\ pc[Worker] = "judge"
  BY DEF TypeOK, JudgeTick
<1>1. CASE Lowers(u.seen, u.base, phase)
  <2> DEFINE v == [u EXCEPT !.to = phase - 1]
  <2>1. /\ Goto(Worker, "judge", "lower") /\ "lower" \in PC
        /\ view' = [view EXCEPT ![Worker] = v]
        /\ UNCHANGED <<day, obs, table, stage>>
    BY <1>1 DEF JudgeTick, PC
  <2>2. u.base # None /\ phase > 1
    BY <1>1 DEF Lowers, Falling
  <2>3. phase - 1 \in Phases /\ phase - 1 \in 0..3 /\ phase - 1 < phase
    BY <2>2 DEF TypeOK, Phases
  <2>4. v \in View /\ v.on = u.on /\ v.to = phase - 1
    BY <1>0, <2>3 DEF View
  <2>5. lowered.at = 0 \/ u.on >= lowered.at + Lookback
    BY <1>0, <2>2 DEF WorkerSound
  <2> HIDE DEF v
  <2>6. pc'[Worker] = "lower" /\ view'[Worker] = v
    BY ZenonT(40), <2>1, <2>4, SetHandler
  <2>7. WorkerSound'
    BY <2>1, <2>3, <2>4, <2>5, <2>6 DEF WorkerSound, table
  <2> QED BY <2>1, <2>4, <2>7, WorkerReads DEF TypeOK
<1>2. CASE ~Lowers(u.seen, u.base, phase)
  <2>1. /\ Goto(Worker, "judge", "gate") /\ "gate" \in PC
        /\ view' = [view EXCEPT ![Worker] = NoView]
        /\ UNCHANGED <<day, obs, table, stage>>
    BY <1>2 DEF JudgeTick, PC
  <2>2. pc'[Worker] = "gate"
    BY <2>1, SetPlace
  <2>3. WorkerSound'
    BY <2>2 DEF WorkerSound
  <2> QED BY <2>1, <2>3, NoViewFields, WorkerReads DEF TypeOK
<1> QED BY <1>1, <1>2

LEMMA RegressStep ==
  ASSUME IndInv, Regress
  PROVE  IndInv'
<1> USE PhaseAssumption, Apart DEF IndInv, stage
<1> DEFINE u == view[Worker]
           v == [u EXCEPT !.phase = phase]
<1>1. /\ Goto(Worker, "lower", "write") /\ "write" \in PC
      /\ view' = [view EXCEPT ![Worker] = v]
      /\ UNCHANGED <<day, obs, table, stage>>
  BY DEF Regress, PC
<1>2. u \in View /\ phase \in 0..3
  BY DEF TypeOK, Phases
<1>3. /\ v \in View /\ v.on = u.on /\ v.to = u.to
      /\ v.base = u.base /\ v.phase = phase
  BY <1>2 DEF View
<1> HIDE DEF v
<1>a. v \in View
  BY <1>3
<1>4. pc'[Worker] = "write" /\ view'[Worker] = v
  BY ZenonT(40), <1>1, <1>a, SetHandler
<1>5. WorkerSound'
  BY <1>1, <1>3, <1>4 DEF WorkerSound, table, Goto
<1> QED BY <1>1, <1>3, <1>5, WorkerReads DEF TypeOK

\* The lowering is a change of today; what it goes by is done with.
LEMMA WriteRegressionStep ==
  ASSUME IndInv, WriteRegression
  PROVE  IndInv'
<1> USE PhaseAssumption, Apart DEF IndInv, stage
<1> DEFINE u == view[Worker]
<1>1. /\ Goto(Worker, "write", "gate") /\ "gate" \in PC
      /\ pc[Worker] = "write"
      /\ view' = [view EXCEPT ![Worker] = NoView]
      /\ lowered' = [at |-> day, on |-> u.on, seen |-> u.seen]
      /\ Write(u.phase, u.to)
      /\ UNCHANGED <<day, obs, stage>>
  BY DEF WriteRegression, PC, Goto
<1>2. u \in View
  BY DEF TypeOK
<1>3. /\ u.on \in 0..MaxDay /\ u.seen \in Observations \union {None}
      /\ u.phase \in 0..3 /\ u.to \in 0..3
  BY <1>2, ViewFields
<1>4. u.to \in Phases /\ u.to < phase /\ u.to < u.phase
  BY <1>1 DEF WorkerSound
<1> HIDE DEF u
<1>5. phase' = u.to /\ changed' = day /\ lowered'.at = day
  BY <1>1, <1>3, <1>4 DEF Write
<1>6. /\ pc' \in [Handlers -> PC] /\ pc'[Worker] = "gate"
      /\ view' \in [Handlers -> View]
      /\ \A g \in Handlers \ {Worker} : pc'[g] = pc[g] /\ view'[g] = view[g]
  BY ZenonT(40), <1>1, NoViewFields, SetHandler
<1>7. TypeOK'
  BY <1>1, <1>3, <1>4, <1>5, <1>6 DEF TypeOK, Days
<1>8. Dates'
  BY <1>1, <1>5 DEF Dates, TypeOK, Days
<1>9. WorkerSound'
  BY <1>6 DEF WorkerSound
<1>10. ASSUME NEW w \in Web PROVE AdvanceSound(w)'
  <2>1. pc'[w] = pc[w] /\ view'[w] = view[w] /\ view[w].phase \in 0..3
    BY <1>6, ViewFields DEF TypeOK
  <2> QED BY <2>1, <1>4, <1>5 DEF AdvanceSound, TypeOK, Phases
<1> QED BY <1>7, <1>8, <1>9, <1>10

\* What the worker does by the phase: it reads it at the gate, and until it
\* reads it again only an advance can have changed it.
LEMMA GateStep ==
  ASSUME IndInv,
         OpenGate \/ RouteDraft \/ NextDraft \/ OpenPromotion \/ Promote \/ EndTick
  PROVE  IndInv'
<1> USE PhaseAssumption, Apart DEF IndInv, table, stage
<1>1. ASSUME NEW from, NEW to \in PC, Goto(Worker, from, to),
             UNCHANGED <<day, obs, table, view>>,
             gate' \in 0..3,
             routed' \in [signals : SUBSET Signal, auto : BOOLEAN],
             WorkerSound'
      PROVE  IndInv'
  <2>1. view' = [view EXCEPT ![Worker] = view[Worker]] /\ view[Worker] \in View
    BY <1>1 DEF TypeOK
  <2>2. obs' \in [Days -> Observations \union {None}]
    BY <1>1 DEF TypeOK
  <2> QED BY <1>1, <2>1, <2>2, WorkerReads
<1>2. /\ phase \in 0..3 /\ gate \in 0..3
      /\ routed \in [signals : SUBSET Signal, auto : BOOLEAN]
      /\ NoRoute \in [signals : SUBSET Signal, auto : BOOLEAN]
      /\ ~NoRoute.auto
      /\ {"idle", "gate", "gated", "routed", "promote", "promoting", "promoted"}
           \subseteq PC
  BY DEF TypeOK, Phases, NoRoute, PC
<1>3. ASSUME OpenGate PROVE IndInv'
  <2>1. /\ Goto(Worker, "gate", "gated") /\ gate' = phase
        /\ UNCHANGED <<day, obs, table, view, routed>>
    BY <1>3 DEF OpenGate
  <2>2. pc'[Worker] = "gated"
    BY <2>1, <1>2, SetPlace
  <2>3. WorkerSound'
    BY <2>1, <2>2, <1>2 DEF WorkerSound
  <2> QED BY <2>1, <2>3, <1>1, <1>2
<1>4. ASSUME RouteDraft PROVE IndInv'
  <2>1. PICK signals \in SUBSET Signal :
          \E auto \in Assess(gate, signals) :
            routed' = [signals |-> signals, auto |-> auto]
    BY <1>4 DEF RouteDraft
  <2>2. PICK auto \in Assess(gate, signals) :
          routed' = [signals |-> signals, auto |-> auto]
    BY <2>1
  <2>3. /\ Goto(Worker, "gated", "routed")
        /\ UNCHANGED <<day, obs, table, view, gate>>
    BY <1>4 DEF RouteDraft
  <2>4. routed' \in [signals : SUBSET Signal, auto : BOOLEAN]
    BY <2>2 DEF Assess
  <2>5. routed'.auto =>
          /\ "unreviewed" \notin routed'.signals
          /\ routed'.signals = {} \/ gate = 3
    BY <2>2, <1>2 DEF Assess, Passes
  <2>6. pc'[Worker] = "routed" /\ pc[Worker] = "gated"
    BY <2>3, <1>2, SetPlace DEF Goto
  <2>7. WorkerSound'
    BY <2>3, <2>5, <2>6 DEF WorkerSound
  <2> QED BY <2>3, <2>4, <2>7, <1>1, <1>2
<1>5. ASSUME NextDraft PROVE IndInv'
  <2>1. PICK there \in {"gated", "gate", "promote"} : Goto(Worker, "routed", there)
    BY <1>5 DEF NextDraft
  <2>2. routed' = NoRoute /\ UNCHANGED <<day, obs, table, view, gate>>
    BY <1>5 DEF NextDraft
  <2>3. there \in PC
    BY <1>2
  <2>4. pc'[Worker] = there /\ pc[Worker] = "routed"
    BY <2>1, <2>3, SetPlace DEF Goto
  <2>5. WorkerSound'
    BY <2>2, <2>4, <1>2 DEF WorkerSound
  <2> QED BY <2>1, <2>2, <2>3, <2>5, <1>1, <1>2
<1>6. ASSUME OpenPromotion PROVE IndInv'
  <2>1. /\ Goto(Worker, "promote", "promoting") /\ gate' = phase
        /\ UNCHANGED <<day, obs, table, view, routed>>
    BY <1>6 DEF OpenPromotion
  <2>2. pc'[Worker] = "promoting"
    BY <2>1, <1>2, SetPlace
  <2>3. WorkerSound'
    BY <2>1, <2>2, <1>2 DEF WorkerSound
  <2> QED BY <2>1, <2>3, <1>1, <1>2
<1>7. ASSUME Promote PROVE IndInv'
  <2>1. /\ Goto(Worker, "promoting", "promoted") /\ gate >= 2
        /\ UNCHANGED <<day, obs, table, view, stage>>
    BY <1>7 DEF Promote
  <2>2. pc'[Worker] = "promoted" /\ pc[Worker] = "promoting"
    BY <2>1, <1>2, SetPlace DEF Goto
  <2>3. WorkerSound'
    BY <2>1, <2>2 DEF WorkerSound
  <2> QED BY <2>1, <2>3, <1>1, <1>2
<1>8. ASSUME EndTick PROVE IndInv'
  <2>1. PICK from \in {"gated", "promoting", "promoted"} : Goto(Worker, from, "idle")
    BY <1>8 DEF EndTick
  <2>2. gate' = 0 /\ UNCHANGED <<day, obs, table, view, routed>>
    BY <1>8 DEF EndTick
  <2>3. pc'[Worker] = "idle"
    BY <2>1, <1>2, SetPlace
  <2>4. WorkerSound'
    BY <2>3 DEF WorkerSound
  <2> QED BY <2>1, <2>2, <2>4, <1>1, <1>2
<1> QED BY <1>3, <1>4, <1>5, <1>6, <1>7, <1>8

\* A step of an operator's thread that only reads.
LEMMA WebReads ==
  ASSUME IndInv, NEW w \in Web, NEW from, NEW to \in PC, Goto(w, from, to),
         NEW v \in View, view' = [view EXCEPT ![w] = v],
         UNCHANGED <<day, obs, table, stage>>,
         AdvanceSound(w)'
  PROVE  IndInv'
<1> USE PhaseAssumption, Apart DEF IndInv, table, stage
<1>1. /\ pc' \in [Handlers -> PC] /\ pc'[w] = to
      /\ view' \in [Handlers -> View] /\ view'[w] = v
      /\ \A g \in Handlers \ {w} : pc'[g] = pc[g] /\ view'[g] = view[g]
  BY SetHandler
<1>2. TypeOK'
  BY <1>1 DEF TypeOK
<1>3. Dates'
  BY DEF Dates
<1>4. WorkerSound'
  BY <1>1, WorkerKept
<1>5. \A x \in Web : AdvanceSound(x)'
  BY <1>1, AdvanceKept
<1> QED BY <1>2, <1>3, <1>4, <1>5

LEMMA ReadStep ==
  ASSUME IndInv, NEW w \in Web, ReadPhase(w) \/ ReadLatest(w)
  PROVE  IndInv'
<1> USE PhaseAssumption, Apart DEF IndInv
<1> DEFINE u == view[w]
<1>0. u \in View /\ phase \in 0..3 /\ {"idle", "latest", "baseline"} \subseteq PC
  BY DEF TypeOK, Phases, PC
<1>1. ASSUME ReadPhase(w) PROVE IndInv'
  <2> DEFINE v == [u EXCEPT !.phase = phase]
  <2>1. /\ Goto(w, "idle", "latest") /\ view' = [view EXCEPT ![w] = v]
        /\ UNCHANGED <<day, obs, table, stage>>
    BY <1>1 DEF ReadPhase
  <2>2. v \in View /\ v.phase = phase
    BY <1>0 DEF View
  <2> HIDE DEF v
  <2>3. pc'[w] = "latest" /\ view'[w] = v
    BY ZenonT(40), <1>0, <2>1, <2>2, SetHandler
  <2>4. AdvanceSound(w)'
    BY <1>0, <2>1, <2>2, <2>3 DEF AdvanceSound, table
  <2> QED BY <1>0, <2>1, <2>2, <2>4, WebReads
<1>2. ASSUME ReadLatest(w) PROVE IndInv'
  <2>0. UNCHANGED <<day, obs, table, stage>>
    BY <1>2 DEF ReadLatest
  <2>1. CASE Goto(w, "latest", "idle") /\ view' = [view EXCEPT ![w] = NoView]
    <3>1. AdvanceSound(w)'
      BY <2>1, <1>0, SetPlace DEF AdvanceSound
    <3> QED BY <2>0, <2>1, <1>0, <3>1, NoViewFields, WebReads
  <2>2. ASSUME NEW d \in Days, Goto(w, "latest", "baseline"), obs[d] # None,
               view' = [view EXCEPT ![w].on = d, ![w].seen = obs[d]]
        PROVE  IndInv'
    <3> DEFINE v == [u EXCEPT !.on = d, !.seen = obs[d]]
    <3>1. d \in 0..MaxDay /\ obs[d] \in Observations \union {None}
      BY DEF TypeOK, Days
    <3>2. v \in View /\ v.phase = u.phase
      BY <1>0, <3>1 DEF View
    <3>3. view' = [view EXCEPT ![w] = v]
      BY <2>2
    <3>4. phase <= u.phase
      BY <2>2 DEF AdvanceSound, Goto
    <3> HIDE DEF v
    <3>5. pc'[w] = "baseline" /\ view'[w] = v
      <4>1. Goto(w, "latest", "baseline") /\ "baseline" \in PC /\ v \in View
        BY <1>0, <2>2, <3>2
      <4> QED BY ZenonT(40), <4>1, <3>3, SetHandler
    <3>6. AdvanceSound(w)'
      BY <2>0, <3>2, <3>4, <3>5 DEF AdvanceSound, table
    <3> QED BY <2>0, <2>2, <1>0, <3>2, <3>3, <3>6, WebReads
  <2> QED BY <1>2, <2>1, <2>2 DEF ReadLatest, Last
<1> QED BY <1>1, <1>2

LEMMA AdvanceStep ==
  ASSUME IndInv, NEW w \in Web, NEW to \in 2..3, Advance(w, to)
  PROVE  IndInv'
<1> USE PhaseAssumption, Apart DEF IndInv
<1> DEFINE u == view[w]
           v == [u EXCEPT !.to = to]
<1>0. /\ u \in View /\ u.phase \in 0..3 /\ pc[w] = "judge"
      /\ {"idle", "write"} \subseteq PC /\ UNCHANGED <<day, obs, table, stage>>
  BY ViewFields DEF TypeOK, Advance, PC
<1>1. CASE /\ Goto(w, "judge", "write") /\ view' = [view EXCEPT ![w] = v]
           /\ Proposes(u.seen, u.base, u.phase, to)
  <2>1. v \in View /\ v.phase = u.phase /\ v.to = to /\ to \in Phases
    BY <1>0 DEF View, Phases
  <2>2. to = u.phase + 1
    BY <1>1 DEF Proposes
  <2>3. phase <= u.phase
    BY <1>0 DEF AdvanceSound
  <2>4. Goto(w, "judge", "write") /\ view' = [view EXCEPT ![w] = v]
    BY <1>1
  <2> HIDE DEF v
  <2>5. pc'[w] = "write" /\ view'[w] = v
    BY ZenonT(40), <1>0, <2>1, <2>4, SetHandler
  <2>6. AdvanceSound(w)'
    BY <1>0, <2>1, <2>2, <2>3, <2>5 DEF AdvanceSound, table
  <2> QED BY <1>0, <2>1, <2>4, <2>6, WebReads
<1>2. CASE Goto(w, "judge", "idle") /\ view' = [view EXCEPT ![w] = NoView]
  <2>1. AdvanceSound(w)'
    BY <1>0, <1>2, SetPlace DEF AdvanceSound
  <2> QED BY <1>0, <1>2, <2>1, NoViewFields, WebReads
<1> QED BY <1>1, <1>2 DEF Advance

\* An advance writes a phase above the one it has read, and that one was
\* lowered since if it was changed: what it writes is above what holds.
LEMMA WriteAdvanceStep ==
  ASSUME IndInv, OneOperator, NEW w \in Web, WriteAdvance(w)
  PROVE  IndInv'
<1> USE PhaseAssumption, Apart DEF IndInv
<1> DEFINE u == view[w]
<1>1. /\ Goto(w, "write", "idle") /\ "idle" \in PC /\ pc[w] = "write"
      /\ view' = [view EXCEPT ![w] = NoView]
      /\ Write(u.phase, u.to)
      /\ UNCHANGED <<day, obs, lowered, stage>>
  BY DEF WriteAdvance, PC, Goto
<1>2. u \in View /\ u.phase \in 0..3 /\ phase \in Phases /\ day \in Days
  BY ViewFields DEF TypeOK
<1>3. u.to \in Phases /\ u.to = u.phase + 1 /\ phase <= u.phase
  BY <1>1 DEF AdvanceSound
<1> HIDE DEF u
<1>4. phase' = u.to /\ changed' = day /\ phase <= phase'
  BY <1>1, <1>2, <1>3 DEF Write, Phases
<1>5. /\ pc' \in [Handlers -> PC] /\ pc'[w] = "idle"
      /\ view' \in [Handlers -> View]
      /\ \A g \in Handlers \ {w} : pc'[g] = pc[g] /\ view'[g] = view[g]
  BY ZenonT(40), <1>1, NoViewFields, SetHandler
<1>6. TypeOK'
  BY <1>1, <1>2, <1>3, <1>4, <1>5 DEF TypeOK, Days, stage
<1>7. Dates'
  BY <1>1, <1>4 DEF Dates, TypeOK, Days
<1>8. WorkerSound'
  <2>1. view[Worker] \in View /\ view[Worker].to \in 0..3
    BY ViewFields DEF TypeOK
  <2>2. /\ pc'[Worker] = pc[Worker] /\ view'[Worker] = view[Worker]
        /\ UNCHANGED <<lowered, gate, routed>>
    BY <1>1, <1>5 DEF stage
  <2>3. phase \in 0..3 /\ phase' \in 0..3 /\ gate \in 0..3
    BY <1>2, <1>3, <1>4 DEF Phases, TypeOK
  <2> QED BY <2>1, <2>2, <2>3, <1>4 DEF WorkerSound
<1>9. \A x \in Web : AdvanceSound(x)'
  BY <1>5 DEF AdvanceSound, OneOperator
<1> QED BY <1>6, <1>7, <1>8, <1>9

LEMMA NextIndInv == IndInv /\ OneOperator /\ [Next]_vars => IndInv'
<1> SUFFICES ASSUME IndInv, OneOperator, [Next]_vars PROVE IndInv'
  OBVIOUS
<1> USE Apart
<1>1. CASE NextDay
  BY <1>1, NextDayStep
<1>2. CASE WorkerNext
  BY <1>2, ObserveStep, ReadBaselineStep, JudgeTickStep, RegressStep,
     WriteRegressionStep, GateStep DEF WorkerNext
<1>3. CASE WebNext
  BY <1>3, ReadStep, ReadBaselineStep, AdvanceStep, WriteAdvanceStep
     DEF WebNext
<1>4. CASE UNCHANGED vars
  <2>1. WorkerSound'
    BY <1>4, WorkerKept DEF vars, IndInv, table, stage
  <2>2. \A w \in Web : AdvanceSound(w)'
    BY <1>4, AdvanceKept DEF vars, IndInv, table, stage
  <2>3. TypeOK' /\ Dates'
    BY <1>4 DEF vars, IndInv, TypeOK, Dates, table, stage
  <2> QED BY <2>1, <2>2, <2>3 DEF IndInv
<1> QED BY <1>1, <1>2, <1>3, <1>4 DEF Next

\* The inductive invariant holds in every reachable state: an advance at work
\* has read a phase that was only lowered since, a regression at work goes by
\* new evidence, and the worker goes by a phase that was only raised since.
THEOREM PhaseInvariant == OneOperator => (Spec => []IndInv)
<1> SUFFICES ASSUME OneOperator PROVE Spec => []IndInv
  OBVIOUS
<1>1. Init => IndInv
  BY InitIndInv
<1>2. IndInv /\ [Next]_vars => IndInv'
  BY NextIndInv
<1> QED BY <1>1, <1>2, PTL DEF Spec

\* A draft with a danger signal is sent without a person only while phase 3
\* holds, and knowledge promoted without one only from phase 2 on
\* (gating.assess, promotion.run_auto and the tick of the worker).
THEOREM NothingLooseWhenLowered == OneOperator => (Spec => []LooseOnlyWhenLicensed)
<1>1. IndInv => LooseOnlyWhenLicensed
  BY DEF IndInv, WorkerSound, LooseOnlyWhenLicensed, TypeOK, Phases
<1> QED BY <1>1, PhaseInvariant, PTL

\* The same evidence does not lower the phase twice (phase.baseline).
THEOREM EvidenceIsSpent == OneOperator => (Spec => LoweredApart)
<1> DEFINE A == pc[Worker] = "write" /\ pc'[Worker] = "gate" =>
                  lowered.at = 0 \/ view[Worker].on >= lowered.at + Lookback
<1>1. IndInv => [A]_vars
  BY DEF IndInv, WorkerSound
<1> HIDE DEF A
<1>2. OneOperator => (Spec => [][A]_vars)
  BY <1>1, PhaseInvariant, PTL
<1> QED BY <1>2 DEF LoweredApart, A

=============================================================================
