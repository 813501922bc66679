---------------------------- MODULE TicketsProofs ----------------------------
(***************************************************************************)
(* For any tickets, items, titles and handlers: a closed ticket has a      *)
(* confirmed resolution and, where nothing failed, became knowledge; and   *)
(* what handlers that keep apart can rely on.                              *)
(***************************************************************************)
EXTENDS Tickets, TLAPS

\* The groups of variables are expanded throughout.
USE DEF inflow, verdicts, tick

LEMMA WorkerIsProc == Worker \in Procs /\ \A w \in Webs : w \in Procs /\ w # Worker
BY TicketsAssumption DEF Procs

LEMMA IdleIsJob == Idle \in Job /\ Idle.at = "idle" /\ Idle.ticket = None
BY TicketsAssumption DEF Idle, Job

LEMMA JobFields ==
  ASSUME NEW r \in Job
  PROVE  /\ r.at \in {"idle", "issue", "read", "write", "check", "save", "record"}
         /\ r.ticket \in Tickets \union {None}
         /\ r.to \in States \union {"none"}
         /\ r.id \in 0..MaxIds
BY DEF Job

\* A handler's locals change, the others' stay.
LEMMA SetJob ==
  ASSUME TypeOK, NEW p \in Procs, NEW r \in Job, job' = [job EXCEPT ![p] = r]
  PROVE  /\ job' \in [Procs -> Job]
         /\ job'[p] = r
         /\ \A o \in Procs \ {p} : job'[o] = job[o]
BY DEF TypeOK

LEMMA InitIndInv == Init => IndInv
<1> SUFFICES ASSUME Init PROVE IndInv
  OBVIOUS
<1> USE TicketsAssumption, IdleIsJob DEF Init
<1>1. TypeOK
  BY DEF TypeOK, Stages
<1>2. \A p \in Procs : JobSound(p)
  BY DEF JobSound
<1>3. OneIssue /\ ListSound /\ DeclinedIsAuto /\ ClosedIsConfirmed
  BY DEF OneIssue, ListSound, DeclinedIsAuto, ClosedIsConfirmed
<1>4. ApprovedIsPromoted /\ DeclinedStaysOut
  BY DEF ApprovedIsPromoted, DeclinedStaysOut
<1>5. apart => ApartSound
  BY DEF ApartSound, Working
<1> QED BY <1>1, <1>2, <1>3, <1>4, <1>5 DEF IndInv

\* Tables stay, but for rows that are confirmed and for the files.
TablesStay ==
  /\ UNCHANGED <<ticket, reply, inflow, verdicts, apart>>
  /\ row' \in [Tickets -> {"none", "draft", "confirmed"}]
  /\ \A t \in Tickets : row'[t] = row[t] \/ (row[t] # "none" /\ row'[t] = "confirmed")
  /\ kb' \in [Titles -> 0..MaxIds]
  /\ faults' \in 0..MaxFaults
  /\ faults' = 0 => faults = 0
  /\ stage' \in Stages
  /\ todo' \subseteq todo
  /\ todo' = {} \/ stage' = stage

\* What the handler p holds next is apart from the others, still so, and not
\* the end of an approval.
MayHold(p, r) ==
  /\ r.at # "issue"
  /\ faults' = 0 /\ job[p].at \in {"check", "save", "record"} =>
       \/ r.at \in {"check", "save", "record"} /\ r.ticket = job[p].ticket
       \/ ticket[job[p].ticket] # "closed"
       \/ item[job[p].ticket] # 0
  /\ apart =>
       /\ r.at \in Working =>
            \A o \in Procs \ {p} : job[o].at \in Working => job[o].ticket # r.ticket
       /\ r.at = "write" => ticket[r.ticket] \in Live
       /\ r.at \in {"save", "record"} =>
            item[r.ticket] = 0 /\ r.ticket \notin declined

LEMMA Types ==
  ASSUME IndInv
  PROVE  /\ row \in [Tickets -> {"none", "draft", "confirmed"}]
         /\ kb \in [Titles -> 0..MaxIds] /\ faults \in 0..MaxFaults /\ stage \in Stages
         /\ job \in [Procs -> Job]
BY DEF IndInv, TypeOK

LEMMA AllStays ==
  ASSUME IndInv,
         UNCHANGED <<ticket, reply, inflow, row, verdicts, kb, tick, apart, faults>>
  PROVE  TablesStay
<1>1. stage' = stage /\ todo' = todo /\ row' = row /\ kb' = kb /\ faults' = faults
  BY DEF tick
<1> QED BY <1>1, Types DEF TablesStay

\* A handler goes on, begins or ends.
LEMMA JobStep ==
  ASSUME IndInv, NEW p \in Procs, NEW r \in Job, job' = [job EXCEPT ![p] = r],
         TablesStay, MayHold(p, r), JobSound(p)'
  PROVE  IndInv'
<1> USE DEF IndInv, inflow, verdicts, TablesStay, MayHold
<1>1. /\ job' \in [Procs -> Job] /\ job'[p] = r
      /\ \A o \in Procs \ {p} : job'[o] = job[o]
  BY SetJob
<1>2. TypeOK'
  BY <1>1 DEF TypeOK
<1>3. ASSUME NEW o \in Procs PROVE JobSound(o)'
  <2>1. CASE o = p
    BY <2>1
  <2>2. CASE o # p
    BY <2>2, <1>1 DEF JobSound
  <2> QED BY <2>1, <2>2
<1>4. OneIssue'
  BY <1>1 DEF OneIssue
<1>5. ListSound'
  <2>1. \A e \in todo : e[1] \in Tickets
    BY DEF TypeOK
  <2> QED BY <2>1 DEF ListSound
<1>6. DeclinedIsAuto' /\ ClosedIsConfirmed' /\ DeclinedStaysOut'
  BY DEF DeclinedIsAuto, ClosedIsConfirmed, DeclinedStaysOut, TypeOK
<1>7. ApprovedIsPromoted'
  <2> SUFFICES ASSUME faults' = 0, NEW t \in Tickets, ticket'[t] = "closed", item'[t] = 0
               PROVE  \E o \in Procs : /\ job'[o].ticket = t
                                       /\ job'[o].at \in {"check", "save", "record"}
    BY DEF ApprovedIsPromoted
  <2>1. PICK o \in Procs : /\ job[o].ticket = t
                           /\ job[o].at \in {"check", "save", "record"}
    BY DEF ApprovedIsPromoted
  <2>2. CASE o = p
    BY <2>1, <2>2, <1>1
  <2>3. CASE o # p
    BY <2>1, <2>3, <1>1
  <2> QED BY <2>2, <2>3
<1>8. apart' => ApartSound'
  BY <1>1 DEF ApartSound
<1> QED BY <1>2, <1>3, <1>4, <1>5, <1>6, <1>7, <1>8

\* The handlers do nothing.  What they and the lists hold stays sound if
\* tickets only appear, rows are only drafted that nobody closed by, and
\* nothing is forgotten.
LEMMA TableStep ==
  ASSUME IndInv, UNCHANGED <<job, item, kb, apart>>,
         TypeOK',
         \A t \in Tickets :
           \/ ticket'[t] = ticket[t]
           \/ /\ ticket[t] = "none" /\ ticket'[t] \in {"open", "auto_closed"}
              /\ ItemOf[t] \notin byHand,
         \A t \in Tickets :
           \/ row'[t] = row[t]
           \/ row'[t] = "draft" /\ (row[t] = "none" \/ ticket[t] = "auto_closed"),
         \A q \in entry \intersect byHand : q \in entry' \intersect byHand',
         \A t \in declined' \ declined :
           ticket[t] = "auto_closed" /\ item[t] = 0
             /\ \A p \in Procs : apart => job[p].ticket # t,
         faults' = 0 => faults = 0,
         ListSound'
  PROVE  IndInv'
<1> USE DEF IndInv
<1>1. ASSUME NEW p \in Procs PROVE JobSound(p)'
  <2>1. JobSound(p)
    OBVIOUS
  <2>2. CASE job[p].at = "idle"
    BY <2>1, <2>2 DEF JobSound
  <2>3. CASE job[p].at # "idle"
    <3>1. job[p].ticket \in Tickets
      BY <2>1, <2>3 DEF JobSound
    <3> QED BY <2>1, <2>3, <3>1 DEF JobSound, Live, QueueVisible
  <2> QED BY <2>2, <2>3
<1>2. OneIssue'
  BY DEF OneIssue
<1>3. DeclinedIsAuto' /\ DeclinedStaysOut'
  BY DEF DeclinedIsAuto, DeclinedStaysOut, TypeOK
<1>4. ClosedIsConfirmed' /\ ApprovedIsPromoted'
  BY DEF ClosedIsConfirmed, ApprovedIsPromoted
<1>5. apart' => ApartSound'
  <2> SUFFICES ASSUME apart PROVE ApartSound'
    OBVIOUS
  <2>1. \A p \in Procs : job[p].at # "idle" => job[p].ticket \in Tickets
    BY DEF JobSound
  <2> QED BY <2>1 DEF ApartSound, Live, QueueVisible
<1> QED BY <1>1, <1>2, <1>3, <1>4, <1>5

-----------------------------------------------------------------------------
(* The steps that the screens and the worker share *)

\* What a handler that goes on with its ticket keeps.
LEMMA GoOn ==
  ASSUME IndInv, NEW p \in Procs, job[p].at \in Working, NEW there \in Working
  PROVE  LET r == [job[p] EXCEPT !.at = there] IN
         /\ r \in Job /\ r.at = there
         /\ r.ticket = job[p].ticket /\ r.to = job[p].to /\ r.id = job[p].id
         /\ r.ticket \in Tickets
         /\ apart => \A o \in Procs \ {p} :
                       job[o].at \in Working => job[o].ticket # r.ticket
BY DEF IndInv, TypeOK, Job, JobSound, ApartSound, Working

LEMMA ReadStateStep ==
  ASSUME IndInv, NEW p \in Procs, ReadState(p)
  PROVE  IndInv'
<1> DEFINE r == [job[p] EXCEPT !.at = "write"]
<1>1. /\ r \in Job /\ r.at = "write"
      /\ r.ticket = job[p].ticket /\ r.to = job[p].to /\ r.id = job[p].id
      /\ r.ticket \in Tickets
      /\ apart => \A o \in Procs \ {p} :
                    job[o].at \in Working => job[o].ticket # r.ticket
  BY GoOn DEF ReadState, Working
<1>2. job' = [job EXCEPT ![p] = r] /\ job'[p] = r
  BY DEF ReadState, Goto, IndInv, TypeOK
<1>3. ticket[r.ticket] \in Live /\ r.to \in Live \union {"closed"}
  BY <1>1 DEF ReadState, Transitions
<1>4. JobSound(p)'
  BY <1>1, <1>2, <1>3 DEF JobSound, ReadState, HasResolution
<1>5. TablesStay
  BY AllStays DEF ReadState
<1>6. MayHold(p, r)
  BY <1>1, <1>3 DEF MayHold, ReadState
<1> QED BY <1>1, <1>2, <1>4, <1>5, <1>6, JobStep

LEMMA RefusedStep ==
  ASSUME IndInv, NEW p \in Procs, Refused(p)
  PROVE  IndInv'
<1>1. job' = [job EXCEPT ![p] = Idle] /\ job'[p] = Idle
  BY DEF Refused, Finish, IndInv, TypeOK
<1>2. JobSound(p)'
  BY <1>1, IdleIsJob DEF JobSound
<1>3. /\ UNCHANGED <<ticket, reply, inflow, row, verdicts, kb, apart, faults>>
      /\ \/ stage' = stage /\ todo' = todo
         \/ stage' = "down" /\ todo' = {}
  BY DEF Refused, tick
<1>5. TablesStay
  BY <1>3, Types DEF TablesStay, Stages
<1>4. MayHold(p, Idle)
  BY IdleIsJob DEF MayHold, Refused, Working
<1> QED BY <1>1, <1>2, <1>5, <1>4, JobStep, IdleIsJob

LEMMA CheckStep ==
  ASSUME IndInv, NEW p \in Procs, CheckPromotable(p)
  PROVE  IndInv'
<1>1. job[p].at = "check" /\ job[p].ticket \in Tickets
  BY DEF CheckPromotable, IndInv, JobSound
<1>a. TablesStay
  BY AllStays DEF CheckPromotable
<1>2. CASE Promotable(job[p].ticket)
  <2> DEFINE r == [job[p] EXCEPT !.at = "save"]
  <2>1. /\ r \in Job /\ r.at = "save"
        /\ r.ticket = job[p].ticket /\ r.to = job[p].to /\ r.id = job[p].id
        /\ apart => \A o \in Procs \ {p} :
                      job[o].at \in Working => job[o].ticket # r.ticket
    BY <1>1, GoOn DEF Working
  <2>2. job' = [job EXCEPT ![p] = r] /\ job'[p] = r
    BY <1>2 DEF CheckPromotable, Goto, IndInv, TypeOK
  <2>3. JobSound(p)'
    BY <1>1, <2>1, <2>2 DEF JobSound
  <2>4. item[r.ticket] = 0 /\ r.ticket \notin declined
    BY <1>2, <2>1 DEF Promotable
  <2>5. MayHold(p, r)
    BY <2>1, <2>4 DEF MayHold
  <2> QED BY <1>a, <2>1, <2>2, <2>3, <2>5, JobStep
<1>3. CASE ~Promotable(job[p].ticket)
  <2>1. job' = [job EXCEPT ![p] = Idle] /\ job'[p] = Idle
    BY <1>3 DEF CheckPromotable, Finish, IndInv, TypeOK
  <2>2. JobSound(p)'
    BY <2>1, IdleIsJob DEF JobSound
  <2>3. ticket[job[p].ticket] # "closed" \/ item[job[p].ticket] # 0
    BY <1>1, <1>3 DEF Promotable, IndInv, DeclinedIsAuto, ClosedIsConfirmed, Terminal
  <2>4. MayHold(p, Idle)
    BY <2>3, IdleIsJob DEF MayHold, Working
  <2> QED BY <1>a, <2>1, <2>2, <2>4, JobStep, IdleIsJob
<1> QED BY <1>2, <1>3

LEMMA SaveStep ==
  ASSUME IndInv, NEW p \in Procs, SaveItem(p)
  PROVE  IndInv'
<1>1. PICK i \in Ids :
        /\ kb' = [kb EXCEPT ![TitleOf[job[p].ticket]] = i]
        /\ job' = [job EXCEPT ![p].at = "record", ![p].id = i]
  BY DEF SaveItem
<1> DEFINE r == [job[p] EXCEPT !.at = "record", !.id = i]
<1>2. /\ job[p].at = "save" /\ job[p].ticket \in Tickets /\ job[p] \in Job
      /\ UNCHANGED <<ticket, reply, inflow, row, verdicts, tick, apart, faults>>
  BY DEF SaveItem, IndInv, JobSound, TypeOK
<1>3. i \in Nat /\ i # 0 /\ i \in 0..MaxIds
  BY TicketsAssumption DEF Ids
<1>4. /\ r \in Job /\ r.at = "record" /\ r.id = i
      /\ r.ticket = job[p].ticket /\ r.to = job[p].to
  BY <1>2, <1>3 DEF Job
<1>5. job' = [job EXCEPT ![p] = r] /\ job'[p] = r
  BY <1>1 DEF IndInv, TypeOK
<1>6. JobSound(p)'
  BY <1>2, <1>3, <1>4, <1>5 DEF JobSound
<1>7. kb' \in [Titles -> 0..MaxIds]
  BY <1>1, <1>3 DEF IndInv, TypeOK
<1>8. apart => /\ \A o \in Procs \ {p} :
                    job[o].at \in Working => job[o].ticket # job[p].ticket
               /\ item[job[p].ticket] = 0 /\ job[p].ticket \notin declined
  BY <1>2 DEF IndInv, ApartSound, Working
<1>9. TablesStay
  <2>1. stage' = stage /\ todo' = todo
    BY <1>2 DEF tick
  <2> QED BY <1>2, <1>7, <2>1, Types DEF TablesStay
<1>10. MayHold(p, r)
  BY <1>2, <1>4, <1>8 DEF MayHold
<1> QED BY <1>4, <1>5, <1>6, <1>9, <1>10, JobStep

\* A job ends because something failed.
LEMMA FailedStep ==
  ASSUME IndInv, NEW p \in Procs, Fault, Finish(p),
         stage' \in Stages, todo' \subseteq todo, todo' = {} \/ stage' = stage,
         UNCHANGED <<ticket, reply, inflow, row, verdicts, kb, apart>>
  PROVE  IndInv'
<1>1. job' = [job EXCEPT ![p] = Idle] /\ job'[p] = Idle
  BY DEF Finish, IndInv, TypeOK
<1>2. JobSound(p)'
  BY <1>1, IdleIsJob DEF JobSound
<1>3. faults' \in 0..MaxFaults /\ faults' # 0
  BY TicketsAssumption DEF Fault, IndInv, TypeOK
<1>4. TablesStay
  BY <1>3, Types DEF TablesStay
<1>5. MayHold(p, Idle)
  BY <1>3, IdleIsJob DEF MayHold, Working
<1> QED BY <1>1, <1>2, <1>4, <1>5, JobStep, IdleIsJob

\* A handler begins with a ticket; the row may be confirmed first.
LEMMA BeginStep ==
  ASSUME IndInv, NEW p \in Procs, NEW t \in Tickets, job[p] = Idle, Free(p, t),
         NEW there \in {"read", "check"}, NEW to \in States \union {"none"},
         there = "read" => to \in Live \union {"closed"},
         Start(p, t, there, to),
         \/ row' = row
         \/ row[t] # "none" /\ row' = [row EXCEPT ![t] = "confirmed"],
         stage' = stage, todo' \subseteq todo,
         UNCHANGED <<ticket, reply, inflow, verdicts, kb, apart, faults>>
  PROVE  IndInv'
<1> DEFINE r == [at |-> there, ticket |-> t, to |-> to, id |-> 0]
<1>1. /\ r \in Job /\ r.at = there /\ r.ticket = t /\ r.to = to
  BY TicketsAssumption DEF Job
<1>2. job' = [job EXCEPT ![p] = r] /\ job'[p] = r
  BY DEF Start, IndInv, TypeOK
<1>3. JobSound(p)'
  BY <1>1, <1>2 DEF JobSound
<1>4. ASSUME NEW u \in Tickets
      PROVE  row'[u] = row[u] \/ (row[u] # "none" /\ row'[u] = "confirmed")
  <2>1. CASE row' = row
    BY <2>1
  <2>2. CASE row[t] # "none" /\ row' = [row EXCEPT ![t] = "confirmed"]
    BY <2>2, Types
  <2> QED BY <2>1, <2>2
<1>5. row' \in [Tickets -> {"none", "draft", "confirmed"}]
  BY Types
<1>6. TablesStay
  BY <1>4, <1>5, Types DEF TablesStay
<1>7. MayHold(p, r)
  BY <1>1, IdleIsJob DEF MayHold, Free
<1> QED BY <1>1, <1>2, <1>3, <1>6, <1>7, JobStep

LEMMA WriteStep ==
  ASSUME IndInv, NEW p \in Procs, WriteState(p)
  PROVE  IndInv'
<1> DEFINE t == job[p].ticket
           to == job[p].to
           r == IF to = "closed" THEN [job[p] EXCEPT !.at = "check"] ELSE Idle
<1> USE DEF IndInv
<1>1. /\ job[p].at = "write" /\ t \in Tickets
      /\ ticket[t] \in Live \union {"closed"} /\ to \in Live \union {"closed"}
      /\ to = "closed" => row[t] = "confirmed"
  BY DEF WriteState, JobSound
<1>2. ticket' = [ticket EXCEPT ![t] = to] /\ reply' = reply \ {t}
  BY DEF WriteState
<1>3. UNCHANGED <<entry, byHand, answers, row, item, declined, kb, stage, todo, apart, faults>>
  BY DEF WriteState
<1>4. r \in Job /\ r.at \in {"check", "idle"}
      /\ (to = "closed" => r.at = "check" /\ r.ticket = t)
      /\ (to # "closed" => r = Idle)
  BY <1>1, GoOn, IdleIsJob DEF Working
<1>5. job' = [job EXCEPT ![p] = r]
  BY DEF WriteState, Goto, Finish
<1> HIDE DEF r
<1>6. /\ job' \in [Procs -> Job] /\ job'[p] = r
      /\ \A o \in Procs \ {p} : job'[o] = job[o]
  BY <1>4, <1>5, SetJob
<1>7. /\ ticket' \in [Tickets -> States \union {"none"}]
      /\ ticket'[t] = to
      /\ \A u \in Tickets \ {t} : ticket'[u] = ticket[u]
  BY <1>1, <1>2 DEF TypeOK, States, Terminal
<1>8. TypeOK'
  BY <1>2, <1>3, <1>6, <1>7 DEF TypeOK
<1>9. ASSUME NEW o \in Procs PROVE JobSound(o)'
  <2>1. CASE o = p
    <3>1. CASE to = "closed"
      BY <2>1, <3>1, <1>1, <1>4, <1>6 DEF JobSound
    <3>2. CASE to # "closed"
      BY <2>1, <3>2, <1>4, <1>6, IdleIsJob DEF JobSound
    <3> QED BY <3>1, <3>2
  <2>2. CASE o # p
    <3>1. job'[o] = job[o] /\ JobSound(o)
      BY <2>2, <1>6
    <3>2. job[o].at \in {"write", "issue"} => job[o].ticket \in Tickets
      BY <3>1 DEF JobSound
    <3> QED BY <3>1, <3>2, <1>1, <1>3, <1>7 DEF JobSound, Live, QueueVisible
  <2> QED BY <2>1, <2>2
<1>10. OneIssue'
  BY <1>4, <1>6 DEF OneIssue
<1>11. t \notin declined /\ \A e \in todo : stage = "handling" => e[1] # t
  BY <1>1 DEF ListSound, DeclinedIsAuto, Live, QueueVisible
<1>12. ListSound' /\ DeclinedIsAuto'
  <2>1. \A e \in todo : e[1] \in Tickets
    BY DEF TypeOK
  <2>2. \A u \in declined : u \in Tickets
    BY DEF TypeOK
  <2> QED BY <2>1, <2>2, <1>3, <1>7, <1>11 DEF ListSound, DeclinedIsAuto
<1>13. ClosedIsConfirmed' /\ DeclinedStaysOut'
  BY <1>1, <1>3, <1>7 DEF ClosedIsConfirmed, DeclinedStaysOut
<1>14. ApprovedIsPromoted'
  <2> SUFFICES ASSUME faults' = 0, NEW u \in Tickets, ticket'[u] = "closed", item'[u] = 0
               PROVE  \E o \in Procs : /\ job'[o].ticket = u
                                       /\ job'[o].at \in {"check", "save", "record"}
    BY DEF ApprovedIsPromoted
  <2>1. CASE u = t
    BY <2>1, <1>4, <1>6, <1>7
  <2>2. CASE u # t
    <3>1. PICK o \in Procs : /\ job[o].ticket = u
                             /\ job[o].at \in {"check", "save", "record"}
      BY <2>2, <1>3, <1>7 DEF ApprovedIsPromoted
    <3> QED BY <3>1, <1>1, <1>6
  <2> QED BY <2>1, <2>2
<1>15. ASSUME apart PROVE ApartSound'
  <2>1. ASSUME NEW o \in Procs \ {p}, job[o].at \in Working
        PROVE  job[o].ticket \in Tickets \ {t}
    BY <2>1, <1>1, <1>15 DEF ApartSound, Working, JobSound
  <2>2. r.at \in Working => r.ticket = t
    BY <1>4, IdleIsJob DEF Working
  <2>3. \A o, n \in Procs :
          o # n /\ job'[o].at \in Working /\ job'[n].at \in Working =>
            job'[o].ticket # job'[n].ticket
    BY <2>1, <2>2, <1>6, <1>15 DEF ApartSound
  <2>4. ASSUME NEW o \in Procs
        PROVE  /\ job'[o].at = "write" => ticket'[job'[o].ticket] \in Live
               /\ job'[o].at \in {"save", "record"} =>
                    item'[job'[o].ticket] = 0 /\ job'[o].ticket \notin declined'
    BY <2>1, <1>3, <1>4, <1>6, <1>7, <1>15 DEF ApartSound, Working
  <2> QED BY <2>3, <2>4 DEF ApartSound
<1> QED BY <1>3, <1>8, <1>9, <1>10, <1>12, <1>13, <1>14, <1>15

LEMMA RecordStep ==
  ASSUME IndInv, NEW p \in Procs, RecordItem(p)
  PROVE  IndInv'
<1> DEFINE t == job[p].ticket
<1> USE DEF IndInv
<1>1. job[p].at = "record" /\ t \in Tickets /\ job[p].id \in 0..MaxIds /\ job[p].id # 0
  BY JobFields DEF RecordItem, JobSound, TypeOK
<1>2. /\ item' \in [Tickets -> 0..MaxIds] /\ item'[t] # 0
      /\ \A u \in Tickets \ {t} : item'[u] = item[u]
  BY <1>1 DEF RecordItem, TypeOK
<1>3. UNCHANGED <<ticket, reply, entry, byHand, answers, row, declined, kb, stage, todo, apart, faults>>
  BY DEF RecordItem
<1>4. job' \in [Procs -> Job] /\ job'[p] = Idle
      /\ \A o \in Procs \ {p} : job'[o] = job[o]
  BY SetJob, IdleIsJob DEF RecordItem, Finish
<1>5. TypeOK'
  BY <1>2, <1>3, <1>4 DEF TypeOK
<1>6. ASSUME NEW o \in Procs PROVE JobSound(o)'
  BY <1>3, <1>4, IdleIsJob DEF JobSound
<1>7. OneIssue' /\ ListSound' /\ DeclinedIsAuto' /\ ClosedIsConfirmed'
  BY <1>3, <1>4, IdleIsJob DEF OneIssue, ListSound, DeclinedIsAuto, ClosedIsConfirmed
<1>8. ApprovedIsPromoted'
  <2> SUFFICES ASSUME faults' = 0, NEW u \in Tickets, ticket'[u] = "closed", item'[u] = 0
               PROVE  \E o \in Procs : /\ job'[o].ticket = u
                                       /\ job'[o].at \in {"check", "save", "record"}
    BY DEF ApprovedIsPromoted
  <2>1. u # t /\ item[u] = 0
    BY <1>2
  <2>2. PICK o \in Procs : /\ job[o].ticket = u
                           /\ job[o].at \in {"check", "save", "record"}
    BY <2>1, <1>3 DEF ApprovedIsPromoted
  <2> QED BY <2>1, <2>2, <1>4
<1>9. ASSUME apart PROVE ApartSound' /\ DeclinedStaysOut'
  <2>1. t \notin declined
    BY <1>1, <1>9 DEF ApartSound
  <2>2. ASSUME NEW o \in Procs \ {p}, job[o].at \in Working
        PROVE  job[o].ticket \in Tickets \ {t}
    BY <2>2, <1>1, <1>9 DEF ApartSound, Working, JobSound
  <2>3. ApartSound'
    BY <2>2, <1>2, <1>3, <1>4, <1>9, IdleIsJob DEF ApartSound, Working
  <2>4. DeclinedStaysOut'
    BY <2>1, <1>2, <1>3, <1>9 DEF DeclinedStaysOut, TypeOK
  <2> QED BY <2>3, <2>4
<1>10. DeclinedStaysOut' /\ (apart' => ApartSound')
  BY <1>3, <1>9 DEF DeclinedStaysOut
<1> QED BY <1>5, <1>6, <1>7, <1>8, <1>10

-----------------------------------------------------------------------------
(* /entry *)

LEMMA RegisterStep ==
  ASSUME IndInv, NEW w \in Webs, NEW q \in Items, Register(w, q)
  PROVE  IndInv'
<1> USE DEF IndInv
<1>1. PICK t \in Tickets : ItemOf[t] = q /\ Start(w, t, "issue", "none")
  BY DEF Register
<1> DEFINE r == [at |-> "issue", ticket |-> t, to |-> "none", id |-> 0]
<1>2. /\ job[w] = Idle /\ q \notin entry /\ ticket[t] = "none" /\ w \in Procs
      /\ entry' = entry \union {q} /\ byHand' = byHand \union {q}
      /\ UNCHANGED <<ticket, reply, answers, row, item, declined, kb, stage, todo, apart, faults>>
  BY <1>1, WorkerIsProc DEF Register
<1>3. r \in Job
  BY TicketsAssumption DEF Job
<1>4. job' \in [Procs -> Job] /\ job'[w] = r
      /\ \A o \in Procs \ {w} : job'[o] = job[o]
  BY <1>1, <1>2, <1>3, SetJob DEF Start
<1>5. TypeOK'
  BY <1>2, <1>4 DEF TypeOK
<1>6. ASSUME NEW o \in Procs PROVE JobSound(o)'
  BY <1>1, <1>2, <1>4 DEF JobSound
<1>7. OneIssue'
  <2>1. \A o \in Procs : job[o].at = "issue" => job[o].ticket # t
    BY <1>1, <1>2 DEF JobSound
  <2> QED BY <2>1, <1>4 DEF OneIssue
<1>8. ListSound' /\ DeclinedIsAuto' /\ ClosedIsConfirmed' /\ DeclinedStaysOut'
  BY <1>2 DEF ListSound, DeclinedIsAuto, ClosedIsConfirmed, DeclinedStaysOut
<1>9. ApprovedIsPromoted'
  <2> SUFFICES ASSUME faults' = 0, NEW u \in Tickets, ticket'[u] = "closed", item'[u] = 0
               PROVE  \E o \in Procs : /\ job'[o].ticket = u
                                       /\ job'[o].at \in {"check", "save", "record"}
    BY DEF ApprovedIsPromoted
  <2>1. PICK o \in Procs : /\ job[o].ticket = u
                           /\ job[o].at \in {"check", "save", "record"}
    BY <1>2 DEF ApprovedIsPromoted
  <2> QED BY <2>1, <1>2, <1>4, IdleIsJob
<1>10. apart' => ApartSound'
  BY <1>2, <1>4 DEF ApartSound, Working
<1> QED BY <1>5, <1>6, <1>7, <1>8, <1>9, <1>10

LEMMA IssueRegisteredStep ==
  ASSUME IndInv, NEW w \in Webs, IssueRegistered(w)
  PROVE  IndInv'
<1> DEFINE t == job[w].ticket
<1> USE DEF IndInv
<1>1. w \in Procs /\ job[w].at = "issue" /\ t \in Tickets /\ ticket[t] = "none"
  BY WorkerIsProc DEF IssueRegistered, JobSound
<1>2. /\ ticket' \in [Tickets -> States \union {"none"}] /\ ticket'[t] = "open"
      /\ \A u \in Tickets \ {t} : ticket'[u] = ticket[u]
  BY <1>1 DEF IssueRegistered, TypeOK, States, Live, QueueVisible
<1>3. UNCHANGED <<reply, entry, byHand, answers, row, item, declined, kb, stage, todo, apart, faults>>
  BY DEF IssueRegistered
<1>4. job' \in [Procs -> Job] /\ job'[w] = Idle
      /\ \A o \in Procs \ {w} : job'[o] = job[o]
  BY <1>1, SetJob, IdleIsJob DEF IssueRegistered, Finish
<1>5. TypeOK'
  BY <1>2, <1>3, <1>4 DEF TypeOK
<1>6. ASSUME NEW o \in Procs PROVE JobSound(o)'
  <2>1. CASE o = w
    BY <2>1, <1>4, IdleIsJob DEF JobSound
  <2>2. CASE o # w
    <3>1. job'[o] = job[o] /\ JobSound(o)
      BY <2>2, <1>4
    <3>2. job[o].at = "issue" => job[o].ticket # t
      BY <2>2, <1>1 DEF OneIssue
    <3>3. job[o].at \in {"write", "issue"} => job[o].ticket \in Tickets
      BY <3>1 DEF JobSound
    <3> QED BY <3>1, <3>2, <3>3, <1>1, <1>2, <1>3 DEF JobSound, Live, QueueVisible
  <2> QED BY <2>1, <2>2
<1>7. OneIssue'
  BY <1>4, IdleIsJob DEF OneIssue
<1>8. ListSound' /\ DeclinedIsAuto'
  <2>1. \A e \in todo : e[1] \in Tickets
    BY DEF TypeOK
  <2>2. \A u \in declined : u \in Tickets
    BY DEF TypeOK
  <2> QED BY <2>1, <2>2, <1>1, <1>2, <1>3 DEF ListSound, DeclinedIsAuto
<1>9. ClosedIsConfirmed' /\ DeclinedStaysOut'
  BY <1>2, <1>3 DEF ClosedIsConfirmed, DeclinedStaysOut
<1>10. ApprovedIsPromoted'
  <2> SUFFICES ASSUME faults' = 0, NEW u \in Tickets, ticket'[u] = "closed", item'[u] = 0
               PROVE  \E o \in Procs : /\ job'[o].ticket = u
                                       /\ job'[o].at \in {"check", "save", "record"}
    BY DEF ApprovedIsPromoted
  <2>1. PICK o \in Procs : /\ job[o].ticket = u
                           /\ job[o].at \in {"check", "save", "record"}
    BY <1>2, <1>3 DEF ApprovedIsPromoted
  <2> QED BY <2>1, <1>1, <1>4
<1>11. ASSUME apart PROVE ApartSound'
  <2>1. \A o \in Procs : job[o].at = "write" => job[o].ticket \in Tickets \ {t}
    BY <1>1, <1>11 DEF ApartSound, JobSound, Live, QueueVisible
  <2>2. Idle.at \notin Working
    BY IdleIsJob DEF Working
  <2>3. \A o \in Procs : job'[o] = job[o] \/ job'[o].at \notin Working
    BY <2>2, <1>4
  <2>4. \A o, n \in Procs :
          o # n /\ job'[o].at \in Working /\ job'[n].at \in Working =>
            job'[o].ticket # job'[n].ticket
    BY <2>3, <1>11 DEF ApartSound
  <2>5. ASSUME NEW o \in Procs
        PROVE  /\ job'[o].at = "write" => ticket'[job'[o].ticket] \in Live
               /\ job'[o].at \in {"save", "record"} =>
                    item'[job'[o].ticket] = 0 /\ job'[o].ticket \notin declined'
    BY <2>1, <2>3, <1>2, <1>3, <1>11 DEF ApartSound, Working
  <2> QED BY <2>4, <2>5 DEF ApartSound
<1> QED BY <1>3, <1>5, <1>6, <1>7, <1>8, <1>9, <1>10, <1>11

-----------------------------------------------------------------------------
(* The steps that change tables or begin a list *)

LEMMA IssueTicketStep ==
  ASSUME IndInv, NEW t \in Tickets, IssueTicket(t)
  PROVE  IndInv'
<1> USE DEF IndInv
<1>1. /\ UNCHANGED <<reply, entry, byHand, answers, row, item, declined, kb, job,
                     stage, todo, apart, faults>>
      /\ ticket[t] = "none" /\ ItemOf[t] \notin byHand
  BY DEF IssueTicket
<1>2. /\ ticket' \in [Tickets -> States \union {"none"}]
      /\ ticket'[t] \in {"open", "auto_closed"}
      /\ \A u \in Tickets \ {t} : ticket'[u] = ticket[u]
  BY DEF IssueTicket, TypeOK, States, Live, QueueVisible, Terminal
<1>3. TypeOK'
  BY <1>1, <1>2 DEF TypeOK
<1>4. ListSound'
  <2>1. \A e \in todo : e[1] \in Tickets
    BY DEF TypeOK
  <2> QED BY <2>1, <1>1, <1>2 DEF ListSound
<1> QED BY <1>1, <1>2, <1>3, <1>4, TableStep

LEMMA InflowStep ==
  ASSUME IndInv,
         \/ \E q \in Items : Publish(q) \/ FollowUp(q)
         \/ \E t \in Tickets : AnswerByHand(t)
  PROVE  IndInv'
<1> USE DEF IndInv
<1>1. /\ UNCHANGED <<ticket, byHand, row, item, declined, kb, job, stage, todo, apart, faults>>
      /\ entry \subseteq entry'
  BY DEF Publish, FollowUp, AnswerByHand
<1>2. TypeOK'
  <2>1. CASE \E q \in Items : Publish(q)
    BY <2>1, TicketsAssumption DEF TypeOK, Publish
  <2>2. CASE \E q \in Items : FollowUp(q)
    BY <2>2 DEF TypeOK, FollowUp
  <2>3. CASE \E t \in Tickets : AnswerByHand(t)
    BY <2>3, TicketsAssumption DEF TypeOK, AnswerByHand
  <2> QED BY <2>1, <2>2, <2>3
<1>3. ListSound'
  BY <1>1 DEF ListSound
<1> QED BY <1>1, <1>2, <1>3, TableStep

LEMMA DeclineStep ==
  ASSUME IndInv, NEW w \in Webs, NEW t \in Tickets, Decline(w, t)
  PROVE  IndInv'
<1> USE DEF IndInv
<1>1. /\ UNCHANGED <<ticket, reply, entry, byHand, answers, row, item, kb, job,
                     stage, todo, apart, faults>>
      /\ declined' = declined \union {t}
      /\ ticket[t] = "auto_closed" /\ item[t] = 0
  BY DEF Decline
<1>2. \A p \in Procs : apart => job[p].ticket # t
  BY TicketsAssumption, IdleIsJob DEF Decline, Free
<1>3. TypeOK' /\ ListSound'
  BY <1>1 DEF TypeOK, ListSound
<1> QED BY <1>1, <1>2, <1>3, TableStep

LEMMA ListStep ==
  ASSUME IndInv, Boot \/ ListEligible \/ ListHeld \/ ListEntries \/ ListHandled \/ NextTick
  PROVE  IndInv'
<1> USE DEF IndInv
<1>1. UNCHANGED <<ticket, reply, entry, byHand, answers, row, item, declined, kb,
                  job, apart, faults>>
  BY DEF Boot, ListEligible, ListHeld, ListEntries, ListHandled, NextTick, Advance
<1>2. /\ stage' \in Stages /\ todo' \subseteq Tickets \X (1..MaxAnswers \union {1})
      /\ ListSound'
  <2>1. CASE Boot
    BY <2>1 DEF Boot, Stages, ListSound, TypeOK
  <2>2. CASE ListEligible
    BY <2>2 DEF ListEligible, Advance, AwaitingDecision, Stages, ListSound
  <2>3. CASE ListHeld
    BY <2>3 DEF ListHeld, Advance, HeldWithReply, Stages, ListSound
  <2>4. CASE ListEntries
    BY <2>4, <1>1 DEF ListEntries, Advance, AwaitingDraft, Stages, ListSound
  <2>5. CASE ListHandled
    BY <2>5, <1>1 DEF ListHandled, Advance, AwaitingResolutionDraft, Stages, ListSound
  <2>6. CASE NextTick
    BY <2>6 DEF NextTick, Advance, Stages, ListSound
  <2> QED BY <2>1, <2>2, <2>3, <2>4, <2>5, <2>6
<1>3. TypeOK'
  BY <1>1, <1>2 DEF TypeOK
<1> QED BY <1>1, <1>2, <1>3, TableStep

LEMMA DraftStep ==
  ASSUME IndInv, NEW e \in todo, DraftResolution(e)
  PROVE  IndInv'
<1> USE DEF IndInv
<1>1. /\ UNCHANGED <<ticket, reply, entry, byHand, answers, item, declined, kb,
                     job, stage, apart, faults>>
      /\ stage \in {"drafting", "handling"}
      /\ row' = [row EXCEPT ![e[1]] = "draft"] /\ todo' = todo \ {e}
  BY DEF DraftResolution
<1>2. /\ e[1] \in Tickets /\ e = <<e[1], e[2]>>
      /\ row[e[1]] = "none" \/ ticket[e[1]] = "auto_closed"
  BY <1>1 DEF ListSound, TypeOK
<1>3. /\ row' \in [Tickets -> {"none", "draft", "confirmed"}] /\ row'[e[1]] = "draft"
      /\ \A u \in Tickets \ {e[1]} : row'[u] = row[u]
  BY <1>1, <1>2 DEF TypeOK
<1>4. TypeOK'
  BY <1>1, <1>3 DEF TypeOK
<1>5. ListSound'
  <2>1. ASSUME stage = "drafting", NEW f \in todo \ {e}
        PROVE  f[1] \in Tickets \ {e[1]}
    <3>1. f = <<f[1], f[2]>> /\ f[1] \in Tickets
      BY DEF TypeOK
    <3>2. f[2] = 1 /\ e[2] = 1
      BY <2>1 DEF ListSound
    <3> QED BY <3>1, <3>2, <1>2
  <2>2. stage = "drafting" => \A f \in todo' : row'[f[1]] = "none" /\ f[2] = 1
    BY <2>1, <1>1, <1>3 DEF ListSound
  <2>3. stage = "handling" => \A f \in todo' : ticket'[f[1]] = "auto_closed"
    BY <1>1 DEF ListSound
  <2> QED BY <2>2, <2>3, <1>1 DEF ListSound
<1> QED BY <1>1, <1>2, <1>3, <1>4, <1>5, TableStep

LEMMA SkipStep ==
  ASSUME IndInv, NEW e \in todo, SkipDraft(e)
  PROVE  IndInv'
<1> USE DEF IndInv
<1>1. /\ UNCHANGED <<ticket, reply, entry, byHand, answers, row, item, declined,
                     kb, job, stage, apart>>
      /\ todo' = todo \ {e}
  BY DEF SkipDraft
<1>2. faults' \in 0..MaxFaults /\ (faults' = 0 => faults = 0)
  BY TicketsAssumption DEF SkipDraft, Fault, TypeOK
<1>3. TypeOK' /\ ListSound'
  BY <1>1, <1>2 DEF TypeOK, ListSound
<1> QED BY <1>1, <1>2, <1>3, TableStep

LEMMA BeginSteps ==
  ASSUME IndInv, NEW t \in Tickets,
         \/ \E w \in Webs : \/ \E to \in Live : PressState(w, t, to)
                            \/ Confirm(w, t) \/ PromoteByHand(w, t)
         \/ PromoteByGate(t) \/ Release(t)
  PROVE  IndInv'
<1> USE WorkerIsProc
<1>0. /\ Live \subseteq States \union {"none"} /\ "open" \in Live
      /\ "closed" \in States
  BY DEF States, Live, QueueVisible, Terminal
<1>1. ASSUME NEW w \in Webs, NEW to \in Live, PressState(w, t, to) PROVE IndInv'
  BY <1>0, <1>1, BeginStep DEF PressState
<1>2. ASSUME NEW w \in Webs, Confirm(w, t) PROVE IndInv'
  BY <1>0, <1>2, BeginStep DEF Confirm
<1>3. ASSUME NEW w \in Webs, PromoteByHand(w, t) PROVE IndInv'
  BY <1>3, BeginStep DEF PromoteByHand
<1>4. CASE PromoteByGate(t)
  <2>1. row[t] # "none"
    BY <1>4 DEF PromoteByGate, IndInv, ListSound
  <2> QED BY <2>1, <1>4, BeginStep DEF PromoteByGate
<1>5. CASE Release(t)
  BY <1>0, <1>5, BeginStep DEF Release
<1> QED BY <1>1, <1>2, <1>3, <1>4, <1>5

-----------------------------------------------------------------------------
(* Together *)

LEMMA StopSteps ==
  ASSUME IndInv, NEW p \in Procs,
         CommitFails(p) \/ (p \in Webs /\ Abandon(p)) \/ (p = Worker /\ Crash)
  PROVE  IndInv'
<1>1. stage \in Stages /\ "down" \in Stages
  BY Types DEF Stages
<1>2. CASE CommitFails(p)
  BY <1>1, <1>2, FailedStep DEF CommitFails
<1>3. CASE p \in Webs /\ Abandon(p)
  BY <1>1, <1>3, FailedStep DEF Abandon
<1>4. CASE p = Worker /\ Crash
  BY <1>1, <1>4, FailedStep DEF Crash
<1> QED BY <1>2, <1>3, <1>4

LEMMA NextStep ==
  ASSUME IndInv, [Next]_vars
  PROVE  IndInv'
<1> USE WorkerIsProc
<1>1. CASE \E t \in Tickets : IssueTicket(t) \/ AnswerByHand(t)
  BY <1>1, IssueTicketStep, InflowStep
<1>2. CASE \E q \in Items : Publish(q) \/ FollowUp(q)
  BY <1>2, InflowStep
<1>3. ASSUME NEW w \in Webs, Screen(w) \/ IssueRegistered(w) \/ Abandon(w)
      PROVE  IndInv'
  BY <1>3, RegisterStep, BeginSteps, DeclineStep, IssueRegisteredStep, StopSteps DEF Screen
<1>4. ASSUME NEW p \in Procs, Step(p) \/ CommitFails(p) PROVE IndInv'
  BY <1>4, ReadStateStep, RefusedStep, WriteStep, CheckStep, SaveStep, RecordStep,
     StopSteps DEF Step
<1>5. CASE Boot \/ Crash \/ Stage
  BY <1>5, ListStep, StopSteps, BeginSteps, DraftStep, SkipStep DEF Stage
<1>6. CASE UNCHANGED vars
  <2>1. UNCHANGED <<ticket, reply, entry, byHand, answers, row, item, declined, kb,
                    job, stage, todo, apart, faults>>
    BY <1>6 DEF vars
  <2>2. TypeOK' /\ ListSound'
    BY <2>1 DEF IndInv, TypeOK, ListSound
  <2> QED BY <2>1, <2>2, TableStep
<1> QED BY <1>1, <1>2, <1>3, <1>4, <1>5, <1>6 DEF Next

\* Every reachable state is sound: what the handlers have read and the lists
\* hold fits the tables.
THEOREM TicketsInvariant == Spec => []IndInv
BY InitIndInv, NextStep, PTL DEF Spec

\* Tables and locals keep their types.
THEOREM TypeCorrect == Spec => []TypeOK
<1>1. IndInv => TypeOK
  BY DEF IndInv
<1> QED BY <1>1, TicketsInvariant, PTL

\* A closed ticket has a confirmed resolution, whatever handlers and drafts
\* overlap.
THEOREM ClosedKeepsResolution == Spec => []ClosedIsConfirmed
<1>1. IndInv => ClosedIsConfirmed
  BY DEF IndInv
<1> QED BY <1>1, TicketsInvariant, PTL

\* Where nothing failed, a closed ticket became knowledge, or a handler is at it.
THEOREM ApprovalIsKept == Spec => []ApprovedIsPromoted
<1>1. IndInv => ApprovedIsPromoted
  BY DEF IndInv
<1> QED BY <1>1, TicketsInvariant, PTL

\* Closing loses nothing, whatever overlaps.
THEOREM ClosingLosesNothing == Spec => []ClosedBecomesKnowledge
<1>1. ClosedIsConfirmed /\ ApprovedIsPromoted => ClosedBecomesKnowledge
  BY DEF ClosedBecomesKnowledge
<1> QED BY <1>1, ClosedKeepsResolution, ApprovalIsKept, PTL

\* What was declined is not promoted by handlers that keep apart.
THEOREM DeclineIsKept == Spec => []DeclinedStaysOut
<1>1. IndInv => DeclinedStaysOut
  BY DEF IndInv
<1> QED BY <1>1, TicketsInvariant, PTL

-----------------------------------------------------------------------------
(* What a step may not do *)

LEMMA WriteIsLive ==
  ASSUME IndInv, apart, NEW p \in Procs, WriteState(p)
  PROVE  ticket[job[p].ticket] \in Live
BY DEF WriteState, IndInv, ApartSound

\* Closed and closed by itself are the end of a ticket, of handlers that keep
\* apart.
THEOREM EndStates == Spec => EndStatesAreFinal
<1>1. ASSUME IndInv, [Next]_vars, apart, NEW t \in Tickets, ticket[t] \in Terminal
      PROVE  ticket'[t] = ticket[t]
  <2>1. ticket \in [Tickets -> States \union {"none"}]
    BY <1>1 DEF IndInv, TypeOK
  <2>2. CASE UNCHANGED ticket
    BY <2>2
  <2>3. CASE \E u \in Tickets : IssueTicket(u)
    BY <2>1, <2>3, <1>1 DEF IssueTicket, Terminal
  <2>4. CASE \E w \in Webs : IssueRegistered(w)
    <3>1. PICK w \in Webs : IssueRegistered(w)
      BY <2>4
    <3>2. ticket[job[w].ticket] = "none"
      BY <3>1, <1>1, WorkerIsProc DEF IndInv, JobSound, IssueRegistered
    <3> QED BY <3>1, <3>2, <2>1, <1>1 DEF IssueRegistered, Terminal
  <2>5. CASE \E p \in Procs : WriteState(p)
    <3>1. PICK p \in Procs : WriteState(p)
      BY <2>5
    <3>2. ticket[job[p].ticket] \in Live
      BY <3>1, <1>1, WriteIsLive
    <3>3. job[p].ticket # t
      BY <3>2, <1>1 DEF Live, QueueVisible, Terminal
    <3> QED BY <3>1, <3>3, <2>1 DEF WriteState
  <2> QED BY <2>2, <2>3, <2>4, <2>5, <1>1
      DEF Next, vars, Screen, Step, Stage, AnswerByHand, Publish, FollowUp,
          Register, PressState, Confirm, PromoteByHand, Decline, Abandon,
          ReadState, Refused, CheckPromotable, SaveItem, RecordItem, CommitFails,
          Boot, Crash, Advance, ListEligible, ListHeld, ListEntries, ListHandled,
          NextTick, PromoteByGate, Release, DraftResolution, SkipDraft
<1>2. IndInv /\ [Next]_vars =>
        [apart => \A t \in Tickets : ticket[t] \in Terminal =>
                                       ticket'[t] = ticket[t]]_vars
  BY <1>1
<1> QED BY <1>2, TicketsInvariant, PTL DEF Spec, EndStatesAreFinal

\* A resolution becomes one item, of handlers that keep apart.
THEOREM OnePromotion == Spec => PromotedOnce
<1>1. ASSUME IndInv, [Next]_vars, apart, NEW t \in Tickets, item[t] # 0
      PROVE  item'[t] = item[t]
  <2>1. item \in [Tickets -> 0..MaxIds]
    BY <1>1 DEF IndInv, TypeOK
  <2>2. CASE UNCHANGED item
    BY <2>2
  <2>3. CASE \E p \in Procs : RecordItem(p)
    <3>1. PICK p \in Procs : RecordItem(p)
      BY <2>3
    <3>2. item[job[p].ticket] = 0
      BY <3>1, <1>1 DEF RecordItem, IndInv, ApartSound
    <3>3. job[p].ticket # t
      BY <3>2, <1>1
    <3> QED BY <3>1, <3>3, <2>1 DEF RecordItem
  <2> QED BY <2>2, <2>3, <1>1
      DEF Next, vars, Screen, Step, Stage, IssueTicket, AnswerByHand, Publish, FollowUp,
          Register, IssueRegistered, PressState, Confirm, PromoteByHand, Decline,
          Abandon, ReadState, Refused, WriteState, CheckPromotable, SaveItem,
          CommitFails, Boot, Crash, Advance, ListEligible, ListHeld, ListEntries,
          ListHandled, NextTick, PromoteByGate, Release, DraftResolution, SkipDraft
<1>2. IndInv /\ [Next]_vars =>
        [apart => \A t \in Tickets : item[t] # 0 => item'[t] = item[t]]_vars
  BY <1>1
<1> QED BY <1>2, TicketsInvariant, PTL DEF Spec, PromotedOnce

\* No step of handlers that keep apart takes back what was decided.
THEOREM NoStepUndoes == Spec => NothingIsUndone
BY EndStates, OnePromotion, PTL DEF NothingIsUndone

-----------------------------------------------------------------------------
(* What a resolution became is there *)

\* Only SaveItem lets a handler come to record an item, and only SaveItem
\* writes a file.
LEMMA OthersKeep ==
  ASSUME IndInv, [Next]_vars, ~\E p \in Procs : SaveItem(p) \/ RecordItem(p)
  PROVE  /\ UNCHANGED <<item, kb>>
         /\ \A o \in Procs : job'[o].at = "record" => job'[o] = job[o]
<1>1. UNCHANGED <<item, kb>>
  BY DEF Next, vars, Screen, Step, Stage, IssueTicket, AnswerByHand, Publish, FollowUp,
         Register, IssueRegistered, PressState, Confirm, PromoteByHand, Decline,
         Abandon, ReadState, Refused, WriteState, CheckPromotable, CommitFails,
         Boot, Crash, Advance, ListEligible, ListHeld, ListEntries, ListHandled,
         NextTick, PromoteByGate, Release, DraftResolution, SkipDraft
<1>2. ASSUME NEW p \in Procs, NEW r, r.at # "record", job' = [job EXCEPT ![p] = r],
             NEW o \in Procs, job'[o].at = "record"
      PROVE  job'[o] = job[o]
  BY <1>2, Types
<1>3. ASSUME NEW p \in Procs, Finish(p), NEW o \in Procs, job'[o].at = "record"
      PROVE  job'[o] = job[o]
  <2>1. job' = [job EXCEPT ![p] = Idle] /\ Idle.at # "record"
    BY <1>3, IdleIsJob DEF Finish
  <2> QED BY <2>1, <1>2, <1>3
<1>4. ASSUME NEW p \in Procs, NEW there \in {"write", "check", "save"},
             Goto(p, there), NEW o \in Procs, job'[o].at = "record"
      PROVE  job'[o] = job[o]
  <2> DEFINE r == [job[p] EXCEPT !.at = there]
  <2>1. r.at = there
    BY Types DEF Job
  <2>2. job' = [job EXCEPT ![p] = r]
    BY <1>4 DEF Goto
  <2>3. r.at # "record"
    BY <2>1
  <2> HIDE DEF r
  <2> QED BY <2>2, <2>3, <1>2, <1>4
<1>5. ASSUME NEW p \in Procs, NEW t, NEW there \in {"issue", "read", "check"}, NEW to,
             Start(p, t, there, to), NEW o \in Procs, job'[o].at = "record"
      PROVE  job'[o] = job[o]
  <2> DEFINE r == [at |-> there, ticket |-> t, to |-> to, id |-> 0]
  <2>1. job' = [job EXCEPT ![p] = r] /\ r.at # "record"
    BY <1>5 DEF Start
  <2> HIDE DEF r
  <2> QED BY <2>1, <1>2, <1>5
<1>6. ASSUME NEW o \in Procs, job'[o].at = "record" PROVE job'[o] = job[o]
  <2> USE WorkerIsProc
  <2>1. CASE UNCHANGED job
    BY <2>1
  <2>2. ASSUME NEW w \in Webs, Screen(w) PROVE job'[o] = job[o]
    BY <2>2, <1>5, <1>6 DEF Screen, Register, PressState, Confirm, PromoteByHand, Decline
  <2>3. ASSUME NEW w \in Webs, IssueRegistered(w) \/ Abandon(w) PROVE job'[o] = job[o]
    BY <2>3, <1>3, <1>6 DEF IssueRegistered, Abandon
  <2>4. ASSUME NEW p \in Procs,
               ReadState(p) \/ Refused(p) \/ WriteState(p) \/ CheckPromotable(p) \/ CommitFails(p)
        PROVE  job'[o] = job[o]
    BY <2>4, <1>3, <1>4, <1>6 DEF ReadState, Refused, WriteState, CheckPromotable, CommitFails
  <2>5. CASE Crash
    BY <2>5, <1>3, <1>6 DEF Crash
  <2>6. ASSUME NEW t \in Tickets, PromoteByGate(t) \/ Release(t) PROVE job'[o] = job[o]
    BY <2>6, <1>5, <1>6 DEF PromoteByGate, Release
  <2> QED BY <2>1, <2>2, <2>3, <2>4, <2>5, <2>6
      DEF Next, vars, Step, Stage, IssueTicket, AnswerByHand, Publish, FollowUp,
          Boot, Advance, ListEligible, ListHeld, ListEntries, ListHandled, NextTick,
          DraftResolution, SkipDraft
<1> QED BY <1>1, <1>6

LEMMA ThereStep ==
  ASSUME Distinct, IndInv, SavedIsThere, PromotedIsThere, [Next]_vars
  PROVE  SavedIsThere' /\ PromotedIsThere'
<1>0. apart' = apart
  BY DEF Next, vars, Screen, Step, Stage, IssueTicket, AnswerByHand, Publish, FollowUp,
         Register, IssueRegistered, PressState, Confirm, PromoteByHand, Decline,
         Abandon, ReadState, Refused, WriteState, CheckPromotable, SaveItem, RecordItem,
         CommitFails, Boot, Crash, Advance, ListEligible, ListHeld, ListEntries,
         ListHandled, NextTick, PromoteByGate, Release, DraftResolution, SkipDraft
<1> SUFFICES ASSUME apart PROVE SavedIsThere' /\ PromotedIsThere'
  BY <1>0 DEF SavedIsThere, PromotedIsThere
<1>1. \A o \in Procs : job[o].at \in Working => job[o].ticket \in Tickets
  BY DEF IndInv, JobSound, Working
<1>2. CASE \E p \in Procs : SaveItem(p)
  <2>1. PICK p \in Procs : SaveItem(p)
    BY <1>2
  <2> DEFINE t == job[p].ticket
  <2>2. PICK i \in Ids :
          /\ kb' = [kb EXCEPT ![TitleOf[t]] = i]
          /\ job' = [job EXCEPT ![p].at = "record", ![p].id = i]
    BY <2>1 DEF SaveItem
  <2>3. job[p].at = "save" /\ t \in Tickets /\ item' = item
    BY <2>1, <1>1 DEF SaveItem, Working
  <2>4. /\ TitleOf[t] \in Titles
        /\ \A u \in Tickets \ {t} : TitleOf[u] \in Titles /\ TitleOf[u] # TitleOf[t]
    BY <2>3, TicketsAssumption DEF Distinct
  <2>5. /\ kb'[TitleOf[t]] = i
        /\ \A u \in Tickets \ {t} : kb'[TitleOf[u]] = kb[TitleOf[u]]
    BY <2>2, <2>4, Types
  <2>6. /\ job'[p].ticket = t /\ job'[p].id = i
        /\ \A o \in Procs \ {p} : job'[o] = job[o]
    BY <2>2, Types DEF Job
  <2>7. /\ item[t] = 0
        /\ \A o \in Procs \ {p} : job[o].at = "record" => job[o].ticket # t
    BY <2>3 DEF IndInv, ApartSound, Working
  <2>8. SavedIsThere'
    BY <2>5, <2>6, <2>7, <1>1 DEF SavedIsThere, Working
  <2>9. PromotedIsThere'
    BY <2>3, <2>5, <2>7 DEF PromotedIsThere
  <2> QED BY <2>8, <2>9
<1>3. CASE \E p \in Procs : RecordItem(p)
  <2>1. PICK p \in Procs : RecordItem(p)
    BY <1>3
  <2> DEFINE t == job[p].ticket
  <2>2. /\ job[p].at = "record" /\ t \in Tickets /\ kb' = kb
        /\ item' = [item EXCEPT ![t] = job[p].id]
        /\ job' = [job EXCEPT ![p] = Idle]
    BY <2>1, <1>1 DEF RecordItem, Finish, Working
  <2>3. SavedIsThere'
    <3>1. \A o \in Procs : job'[o].at = "record" => job'[o] = job[o]
      BY <2>2, IdleIsJob, Types
    <3> QED BY <3>1, <2>2 DEF SavedIsThere
  <2>4. kb[TitleOf[t]] = job[p].id
    BY <2>2 DEF SavedIsThere
  <2>5. /\ item'[t] = job[p].id
        /\ \A u \in Tickets \ {t} : item'[u] = item[u]
    BY <2>2 DEF IndInv, TypeOK
  <2>6. PromotedIsThere'
    BY <2>2, <2>4, <2>5 DEF PromotedIsThere
  <2> QED BY <2>3, <2>6
<1>4. CASE ~\E p \in Procs : SaveItem(p) \/ RecordItem(p)
  BY <1>4, OthersKeep DEF SavedIsThere, PromotedIsThere
<1> QED BY <1>2, <1>3, <1>4

\* Where no two resolutions have the same generalised question, what a
\* resolution became is in the knowledge base, through crashes between the two
\* stores.
THEOREM PromotionIsThere == Distinct => (Spec => []PromotedIsThere)
<1> SUFFICES ASSUME Distinct PROVE Spec => []PromotedIsThere
  OBVIOUS
<1> DEFINE Inv == IndInv /\ SavedIsThere /\ PromotedIsThere
<1>1. Init => Inv
  <2>1. Init => SavedIsThere
    BY IdleIsJob DEF Init, SavedIsThere
  <2>2. Init => PromotedIsThere
    BY DEF Init, PromotedIsThere
  <2> QED BY <2>1, <2>2, InitIndInv
<1>2. Inv /\ [Next]_vars => Inv'
  BY NextStep, ThereStep
<1> QED BY <1>1, <1>2, PTL DEF Spec

\* The knowledge base has what was promoted and not what was declined.
THEOREM DecisionsHold == Distinct => (Spec => []PromotionHolds)
<1> SUFFICES ASSUME Distinct PROVE Spec => []PromotionHolds
  OBVIOUS
<1>1. DeclinedStaysOut /\ PromotedIsThere => PromotionHolds
  BY DEF PromotionHolds
<1> QED BY <1>1, DeclineIsKept, PromotionIsThere, PTL

=============================================================================
