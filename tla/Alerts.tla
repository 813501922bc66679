------------------------------- MODULE Alerts -------------------------------
(* The alerts (operations/alert.py): at the end of every tick the worker     *)
(* looks for what was neglected in the risk queues Q4 and Q5 and for a phase *)
(* the system took back, and posts to the webhook what it has not posted     *)
(* before.  A fingerprint stands for "the same situation".                   *)
(*                                                                           *)
(* Ages are abstracted: the findings are kept in the order they were seen,   *)
(* and the first `aged` of them are older than neglect_hours.                *)

EXTENDS Naturals, Sequences, FiniteSets, SequencesExt

CONSTANTS
  Refs,          \* contradiction ids and keys of stale answers
  MaxDecisions,  \* bound on the phase decisions
  MaxCrashes     \* bound on the crashes of the worker

ASSUME AlertsAssumption == MaxDecisions \in Nat /\ MaxCrashes \in Nat

VARIABLES
  open,       \* the open findings, the oldest first
  aged,       \* how many of them are aged
  again,      \* the refs that were closed and opened again
  decisions,  \* the authors of the phase decisions, in their order
  recent,     \* was the last decision taken within REGRESSION_DAYS?
  sent,       \* alert_sent
  waiting,    \* what dispatch still has to post in this tick
  posted,     \* the alert the webhook has accepted and that is not marked yet
  told,       \* how often the webhook accepted each alert
  crashes

queues == <<open, aged, again>>
phase  == <<decisions, recent>>
outbox == <<sent, waiting, posted, told, crashes>>
alertVars == <<queues, phase, outbox>>

RiskAlert(f)       == <<"risk_queue", f>>
RegressionAlert(n) == <<"phase_regression", n>>
AllAlerts == {RiskAlert(f) : f \in Refs}
             \union {RegressionAlert(n) : n \in 1 .. MaxDecisions}

AlertsInit ==
  /\ open = <<>> /\ aged = 0 /\ again = {}
  /\ decisions = <<>> /\ recent = FALSE
  /\ sent = {} /\ waiting = <<>> /\ posted = {}
  /\ told = [a \in AllAlerts |-> 0]
  /\ crashes = 0

-----------------------------------------------------------------------------
(* What there is to tell about *)

\* Lint, propagation or ingest finds something; a key found before comes back
\* with a new first_seen.
Detect(f) ==
  /\ ~Contains(open, f)
  /\ open' = Append(open, f)
  /\ UNCHANGED <<aged, again, phase, outbox>>

\* Time passes for the oldest one that is not aged yet.
Ages ==
  /\ aged < Len(open)
  /\ aged' = aged + 1
  /\ UNCHANGED <<open, again, phase, outbox>>

\* An operator deals with a finding, old or new.
Handle(k) ==
  /\ k \in 1 .. Len(open)
  /\ again' = again \union {open[k]}
  /\ open' = RemoveAt(open, k)
  /\ aged' = IF k <= aged THEN aged - 1 ELSE aged
  /\ UNCHANGED <<phase, outbox>>

\* A phase decision: the system takes the phase back, or a person moves it on.
DecidePhase(author) ==
  /\ Len(decisions) < MaxDecisions
  /\ decisions' = Append(decisions, author)
  /\ recent' = TRUE
  /\ UNCHANGED <<queues, outbox>>

WeekPasses ==
  /\ recent' = FALSE
  /\ UNCHANGED <<queues, decisions, outbox>>

-----------------------------------------------------------------------------
(* pending and unsent, dispatch and mark_sent *)

\* One alert for both queues; its fingerprint is the oldest finding.
RiskPending == IF aged > 0 THEN <<RiskAlert(open[1])>> ELSE <<>>

RegressionPending ==
  IF Len(decisions) > 0 /\ recent /\ Last(decisions) = "system"
    THEN <<RegressionAlert(Len(decisions))>> ELSE <<>>

Pending == RiskPending \o RegressionPending

\* A fault: what was sent before is not looked up.
UnsentAll == Pending

\* What was sent before is left out.
Left(p) == IF p # <<>> /\ Head(p) \in sent THEN <<>> ELSE p

Unsent == Left(RiskPending) \o Left(RegressionPending)

\* _notify: the alerts are computed, then posted one after the other.
Notify ==
  /\ waiting = <<>> /\ posted = {}
  /\ waiting' = Unsent
  /\ UNCHANGED <<queues, phase, sent, posted, told, crashes>>

\* The webhook accepts the alert ...
Accepts ==
  /\ waiting # <<>> /\ posted = {}
  /\ posted' = {Head(waiting)}
  /\ told' = [told EXCEPT ![Head(waiting)] = @ + 1]
  /\ waiting' = Tail(waiting)
  /\ UNCHANGED <<queues, phase, sent, crashes>>

\* ... and it is marked as sent.
MarkSent ==
  /\ posted # {}
  /\ sent' = sent \union posted
  /\ posted' = {}
  /\ UNCHANGED <<queues, phase, waiting, told, crashes>>

\* A fault: the mark is set whether or not the webhook took the alert.
RefusesMarked ==
  /\ waiting # <<>> /\ posted = {}
  /\ sent' = sent \union {Head(waiting)}
  /\ waiting' = Tail(waiting)
  /\ UNCHANGED <<queues, phase, posted, told, crashes>>

\* Refused or not reached: nothing is marked, the next alert is tried.
Refuses ==
  /\ waiting # <<>> /\ posted = {}
  /\ waiting' = Tail(waiting)
  /\ UNCHANGED <<queues, phase, sent, posted, told, crashes>>

\* The worker dies, perhaps between a post and its mark, or it waited for the
\* reply in vain: the alert arrived and counts as failed.
Crash ==
  /\ crashes < MaxCrashes
  /\ crashes' = crashes + 1
  /\ waiting' = <<>>
  /\ posted' = {}
  /\ UNCHANGED <<queues, phase, sent, told>>

-----------------------------------------------------------------------------

Situation ==
  \/ \E f \in Refs : Detect(f)
  \/ \E k \in 1 .. Cardinality(Refs) : Handle(k)
  \/ \E author \in {"system", "human"} : DecidePhase(author)
  \/ Ages \/ WeekPasses

Worker == Notify \/ Accepts \/ MarkSent \/ Refuses

AlertsNext == Situation \/ Worker \/ Crash

\* The worker goes on and is started again; the webhook that is called again
\* and again takes an alert some time.
AlertsFairness == WF_alertVars(Worker) /\ SF_alertVars(Accepts)

AlertsSpec == AlertsInit /\ [][AlertsNext]_alertVars /\ AlertsFairness

-----------------------------------------------------------------------------
(* Properties *)

\* What keeps standing is told in the end, also after refusals and crashes: a
\* phase taken back, and the oldest of the neglected findings if it was not
\* dealt with once before (alert.py: a failed post is never marked as sent).
NeglectIsTold ==
  /\ \A f \in Refs :
       (aged > 0 /\ open[1] = f /\ f \notin again)
         ~> (told[RiskAlert(f)] > 0 \/ open = <<>> \/ open[1] # f)
  /\ \A n \in 1 .. MaxDecisions :
       (Contains(Pending, RegressionAlert(n)))
         ~> (told[RegressionAlert(n)] > 0
             \/ ~Contains(Pending, RegressionAlert(n)))

\* The same situation is told once, but for the crashes between a post and
\* its mark (alert.py: "not spamming the same situation").
ToldOnce == \A a \in AllAlerts : told[a] <= 1 + crashes

=============================================================================
