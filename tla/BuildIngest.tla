---------------------------- MODULE BuildIngest ----------------------------
(***************************************************************************)
(* Building the knowledge base: the batch worker's loop and its ingest run *)
(* (worker/runner.py, ingest/run.py), the cursors                          *)
(* (operations/checkpoint.py) and the build screen that starts, stops and  *)
(* rebuilds from another process (operations/build.py, web/app.py).        *)
(*                                                                         *)
(* A mirror's history is 1..head[m], one chunk for one commit; an answer   *)
(* of the QnA source is read whole.  What a chunk says is left out: a      *)
(* reading fails, finds nothing, or saves something into the working tree, *)
(* where it is not knowledge for good until it is committed.               *)
(***************************************************************************)
EXTENDS Naturals, FiniteSets

CONSTANTS
  Workers,      \* worker processes that may run, one when operated as meant
  Mirrors,      \* clones of the parent system's repositories
  Answers,      \* answers the output filter lets through
  None,         \* no mirror
  MaxHead,      \* bound: commits of a repository
  MaxFaults,    \* bound: failed readings, failed commits, crashes, signals
  MaxRebuilds   \* bound: presses of the rebuild button

ASSUME BuildAssumption ==
  /\ None \notin Mirrors \union Answers
  /\ Mirrors \intersect Answers = {}
  /\ MaxHead \in Nat /\ MaxFaults \in Nat /\ MaxRebuilds \in Nat

VARIABLES
  head,       \* the mirror's HEAD
  cursor,     \* table ingest_checkpoint, 0 when there is no row
  marked,     \* table ingested_answer
  control,    \* table build_control: paused, wake
  open,       \* table ingest_run: workers whose run is not ended
  stale,      \* table ingest_run: is there an open run of a dead process?
  seen,       \* was a commit read: never, before the last rebuild, since
  dirty,      \* sources of saved and uncommitted items, of runs under way
  leftover,   \* the same, of runs that ended before they committed
  stopping,   \* workers that received SIGTERM
  pc,         \* where each worker is
  run,        \* locals of each worker's IngestRun
  rebuilding, \* where the rebuild handler is
  faults, rebuilds

vars == <<head, cursor, marked, control, open, stale, seen, dirty, leftover,
          stopping, pc, run, rebuilding, faults, rebuilds>>

tree   == <<dirty, leftover>>
rows   == <<open, stale>>
marks  == <<cursor, marked>>
bounds == <<faults, rebuilds>>

Commits == 1..MaxHead
Sources == (Mirrors \X Commits) \union Answers

InRun == {"mirror", "chunk", "read", "commit", "qna", "answer", "final",
          "cursors", "mark", "end"}
PC == {"down", "tick", "ingest", "sleep", "woken"} \union InRun

\* A run that has not started to read.
Fresh == [todo |-> Mirrors, mirror |-> None, at |-> 0, target |-> 0,
          ok |-> TRUE, heads |-> [m \in Mirrors |-> 0], left |-> {},
          got |-> {}, changed |-> FALSE, stopped |-> FALSE]

Run == [todo : SUBSET Mirrors, mirror : Mirrors \union {None},
        at : 0..MaxHead, target : 0..MaxHead, ok : BOOLEAN,
        heads : [Mirrors -> 0..MaxHead], left : SUBSET Answers,
        got : SUBSET Answers, changed : BOOLEAN, stopped : BOOLEAN]

TypeOK ==
  /\ head \in [Mirrors -> 0..MaxHead]
  /\ cursor \in [Mirrors -> 0..MaxHead]
  /\ marked \subseteq Answers
  /\ control \in [paused : BOOLEAN, wake : BOOLEAN]
  /\ open \subseteq Workers
  /\ stale \in BOOLEAN
  /\ seen \in [Mirrors \X Commits -> {"never", "before", "since"}]
  /\ dirty \subseteq Sources
  /\ leftover \subseteq Sources
  /\ stopping \subseteq Workers
  /\ pc \in [Workers -> PC]
  /\ run \in [Workers -> Run]
  /\ rebuilding \in {"idle", "checked", "deleted"}
  /\ faults \in 0..MaxFaults
  /\ rebuilds \in 0..MaxRebuilds

Init ==
  /\ head \in [Mirrors -> 0..MaxHead]
  /\ cursor = [m \in Mirrors |-> 0]
  /\ marked = {}
  /\ control = [paused |-> FALSE, wake |-> FALSE]
  /\ open = {}
  /\ stale = FALSE
  /\ seen = [c \in Mirrors \X Commits |-> "never"]
  /\ dirty = {}
  /\ leftover = {}
  /\ stopping = {}
  /\ pc = [w \in Workers |-> "down"]
  /\ run = [w \in Workers |-> Fresh]
  /\ rebuilding = "idle"
  /\ faults = 0
  /\ rebuilds = 0

Goto(w, there) == pc' = [pc EXCEPT ![w] = there]

Fault == faults < MaxFaults /\ faults' = faults + 1

\* What a run saved and never committed stays in the working tree.
LeaveTree ==
  /\ leftover' = leftover \union dirty
  /\ dirty' = {}

\* KnowledgeRepository.commit: git add -A takes everything there is.
CommitTree ==
  /\ dirty' = {}
  /\ leftover' = {}

-----------------------------------------------------------------------------
(* The worker's loop *)

\* main and run: runs left open by a dead worker are closed as failed.
Boot(w) ==
  /\ pc[w] = "down"
  /\ open' = {}
  /\ stale' = FALSE
  /\ Goto(w, "tick")
  /\ UNCHANGED <<head, marks, control, seen, tree, stopping, run, rebuilding,
                 bounds>>

\* The stages before ingest; _sync_source fetches what there is by now.
SyncSource(w) ==
  /\ pc[w] = "tick"
  /\ \E new \in [Mirrors -> 0..MaxHead] :
       /\ \A m \in Mirrors : head[m] <= new[m]
       /\ head' = new
  /\ Goto(w, "ingest")
  /\ UNCHANGED <<marks, control, rows, seen, tree, stopping, run, rebuilding,
                 bounds>>

\* Mutant: a run is opened whether or not ingest is paused.
StartRunPaused(w) ==
  /\ pc[w] = "ingest"
  /\ open' = open \union {w}
  /\ run' = [run EXCEPT ![w] = Fresh]
  /\ Goto(w, "mirror")
  /\ UNCHANGED <<head, marks, control, stale, seen, tree, stopping, rebuilding,
                 bounds>>

\* _ingest reads the pause and opens a run.
StartRun(w) ==
  /\ pc[w] = "ingest"
  /\ IF control.paused
     THEN Goto(w, "sleep") /\ UNCHANGED <<open, run>>
     ELSE /\ open' = open \union {w}
          /\ run' = [run EXCEPT ![w] = Fresh]
          /\ Goto(w, "mirror")
  /\ UNCHANGED <<head, marks, control, stale, seen, tree, stopping, rebuilding,
                 bounds>>

\* take_wake: the flag is read ...
Sleep(w) ==
  /\ pc[w] = "sleep"
  /\ Goto(w, IF w \in stopping THEN "down"
             ELSE IF control.wake THEN "woken" ELSE "tick")
  /\ stopping' = stopping \ {w}
  /\ UNCHANGED <<head, marks, control, rows, seen, tree, run, rebuilding, bounds>>

\* ... and then lowered, whatever it is by then.
TakeWake(w) ==
  /\ pc[w] = "woken"
  /\ control' = [control EXCEPT !.wake = FALSE]
  /\ Goto(w, IF w \in stopping THEN "down" ELSE "tick")
  /\ stopping' = stopping \ {w}
  /\ UNCHANGED <<head, marks, rows, seen, tree, run, rebuilding, bounds>>

\* SIGTERM
Signal(w) ==
  /\ pc[w] # "down"
  /\ w \notin stopping
  /\ Fault
  /\ stopping' = stopping \union {w}
  /\ UNCHANGED <<head, marks, control, rows, seen, tree, pc, run, rebuilding,
                 rebuilds>>

\* The process dies: killed, or of an exception that nothing catches.
Crash(w) ==
  /\ pc[w] # "down"
  /\ Fault
  /\ stale' = (stale \/ w \in open)
  /\ open' = open \ {w}
  /\ LeaveTree
  /\ stopping' = stopping \ {w}
  /\ run' = [run EXCEPT ![w] = Fresh]
  /\ Goto(w, "down")
  /\ UNCHANGED <<head, marks, control, seen, rebuilding, rebuilds>>

-----------------------------------------------------------------------------
(* One run: sources, answers, the last commit, then the marks *)

\* Mutant: only a signal ends a run.
ShouldStopSignal(w) == w \in stopping

\* should_stop: a signal, or the pause in the database.
ShouldStop(w) == w \in stopping \/ control.paused

Set(w, r) == run' = [run EXCEPT ![w] = r]

\* _ingest_source: the next repository, or the answers.  A worker that should
\* stop leaves the others alone.
VisitMirror(w) ==
  LET r == run[w] IN
  /\ pc[w] = "mirror"
  /\ \/ /\ r.todo = {}
        /\ Set(w, r)
        /\ Goto(w, "qna")
     \/ /\ r.todo # {}
        /\ ShouldStop(w)
        /\ Set(w, [r EXCEPT !.todo = {}, !.stopped = TRUE])
        /\ Goto(w, "qna")
     \/ \E m \in r.todo :
          /\ ~ShouldStop(w)
          /\ Set(w, [r EXCEPT !.todo = @ \ {m}, !.mirror = m, !.ok = TRUE,
                              !.at = cursor[m], !.target = head[m]])
          /\ Goto(w, IF cursor[m] = head[m] THEN "mirror" ELSE "chunk")
  /\ UNCHANGED <<head, marks, control, rows, seen, tree, stopping, rebuilding,
                 bounds>>

\* Mutants: a failure is ignored; only what changed knowledge counts.
HeadReachedAnyway(r)  == r.target
HeadReachedChanged(r) == IF r.ok /\ r.changed THEN r.target ELSE 0

\* The HEAD a repository may be moved to: only one whose chunks were all read
\* without a failure.
HeadReached(r) == IF r.ok THEN r.target ELSE 0

\* _ingest_one_source at the border of a chunk.
NextChunk(w) ==
  LET r == run[w] IN
  /\ pc[w] = "chunk"
  /\ \/ /\ r.at = r.target
        /\ Set(w, [r EXCEPT !.heads[r.mirror] = HeadReached(r)])
        /\ Goto(w, "mirror")
     \/ /\ r.at # r.target
        /\ ShouldStop(w)
        /\ Set(w, [r EXCEPT !.stopped = TRUE])
        /\ Goto(w, "mirror")
     \/ /\ r.at # r.target
        /\ ~ShouldStop(w)
        /\ Set(w, [r EXCEPT !.at = @ + 1])
        /\ Goto(w, "read")
  /\ UNCHANGED <<head, marks, control, rows, seen, tree, stopping, rebuilding,
                 bounds>>

\* The agent fails, finds nothing, or its proposals are saved.
ReadChunk(w) ==
  LET r == run[w]  c == <<r.mirror, r.at>> IN
  /\ pc[w] = "read"
  /\ \/ /\ Fault
        /\ Set(w, [r EXCEPT !.ok = FALSE])
        /\ Goto(w, "chunk")
        /\ UNCHANGED <<seen, dirty>>
     \/ /\ seen' = [seen EXCEPT ![c] = "since"]
        /\ Goto(w, "chunk")
        /\ UNCHANGED <<run, dirty, faults>>
     \/ /\ seen' = [seen EXCEPT ![c] = "since"]
        /\ dirty' = dirty \union {c}
        /\ Set(w, [r EXCEPT !.changed = TRUE])
        /\ Goto(w, "commit")
        /\ UNCHANGED faults
  /\ UNCHANGED <<head, marks, control, rows, leftover, stopping, rebuilding,
                 rebuilds>>

\* _commit_chunk
CommitChunk(w) ==
  /\ pc[w] = "commit"
  /\ CommitTree
  /\ Goto(w, "chunk")
  /\ UNCHANGED <<head, marks, control, rows, seen, stopping, run, rebuilding,
                 bounds>>

\* _ingest_qna: what was ingested before is left out.
ListAnswers(w) ==
  /\ pc[w] = "qna"
  /\ Set(w, [run[w] EXCEPT !.left = Answers \ marked])
  /\ Goto(w, "answer")
  /\ UNCHANGED <<head, marks, control, rows, seen, tree, stopping, rebuilding,
                 bounds>>

\* One answer after the other, until there is none or the worker should stop;
\* a failed one is left for the next run.
ReadAnswer(w) ==
  LET r == run[w] IN
  /\ pc[w] = "answer"
  /\ \/ /\ r.left = {}
        /\ Goto(w, "final")
        /\ UNCHANGED <<run, dirty, faults>>
     \/ /\ r.left # {}
        /\ ShouldStop(w)
        /\ Set(w, [r EXCEPT !.left = {}, !.stopped = TRUE])
        /\ Goto(w, "final")
        /\ UNCHANGED <<dirty, faults>>
     \/ \E a \in r.left :
          /\ ~ShouldStop(w)
          /\ \/ /\ Fault
                /\ Set(w, [r EXCEPT !.left = @ \ {a}])
                /\ UNCHANGED dirty
             \/ /\ Set(w, [r EXCEPT !.left = @ \ {a}, !.got = @ \union {a}])
                /\ UNCHANGED <<dirty, faults>>
             \/ /\ Set(w, [r EXCEPT !.left = @ \ {a}, !.got = @ \union {a},
                                    !.changed = TRUE])
                /\ dirty' = dirty \union {a}
                /\ UNCHANGED faults
          /\ UNCHANGED pc
  /\ UNCHANGED <<head, marks, control, rows, seen, leftover, stopping,
                 rebuilding, rebuilds>>

\* Mutant: the run ends without its commit.
CommitRunNever(w) ==
  /\ pc[w] = "final"
  /\ Goto(w, "cursors")
  /\ UNCHANGED <<head, marks, control, rows, seen, tree, stopping, run,
                 rebuilding, bounds>>

\* The run's last commit, only of a run that changed something.
CommitRun(w) ==
  /\ pc[w] = "final"
  /\ IF run[w].changed THEN CommitTree ELSE UNCHANGED tree
  /\ Goto(w, "cursors")
  /\ UNCHANGED <<head, marks, control, rows, seen, stopping, run, rebuilding,
                 bounds>>

\* set_cursor, a commit for each repository read to its end ...
SetCursor(w) ==
  LET r == run[w] IN
  /\ pc[w] = "cursors"
  /\ \E m \in Mirrors :
       /\ r.heads[m] # 0
       /\ cursor' = [cursor EXCEPT ![m] = r.heads[m]]
       /\ Set(w, [r EXCEPT !.heads[m] = 0])
  /\ UNCHANGED <<head, marked, control, rows, seen, tree, stopping, pc,
                 rebuilding, bounds>>

\* ... then _mark_ingested.
MarkIngested(w) ==
  /\ pc[w] = "cursors"
  /\ \A m \in Mirrors : run[w].heads[m] = 0
  /\ marked' = marked \union run[w].got
  /\ Goto(w, "end")
  /\ UNCHANGED <<head, cursor, control, rows, seen, tree, stopping, run,
                 rebuilding, bounds>>

\* end_run or discard_run: either way the run is not open any more.
EndRun(w) ==
  /\ pc[w] = "end"
  /\ open' = open \ {w}
  /\ run' = [run EXCEPT ![w] = Fresh]
  /\ Goto(w, "sleep")
  /\ UNCHANGED <<head, marks, control, stale, seen, tree, stopping, rebuilding,
                 bounds>>

\* Mutant: the exception is reported and the run stays open.
FailRunOpen(w) ==
  /\ pc[w] \in {"mirror", "commit", "final"}
  /\ Fault
  /\ LeaveTree
  /\ run' = [run EXCEPT ![w] = Fresh]
  /\ Goto(w, "sleep")
  /\ UNCHANGED <<head, marks, control, rows, seen, stopping, rebuilding, rebuilds>>

\* An exception of git, of a mirror or of the knowledge repository: end_run,
\* failed.
FailRun(w) ==
  /\ pc[w] \in {"mirror", "commit", "final"}
  /\ Fault
  /\ LeaveTree
  /\ open' = open \ {w}
  /\ run' = [run EXCEPT ![w] = Fresh]
  /\ Goto(w, "sleep")
  /\ UNCHANGED <<head, marks, control, stale, seen, stopping, rebuilding, rebuilds>>

-----------------------------------------------------------------------------
(* The build screen *)

\* build_start
RequestStart ==
  /\ control' = [paused |-> FALSE, wake |-> TRUE]
  /\ UNCHANGED <<head, marks, rows, seen, tree, stopping, pc, run, rebuilding,
                 bounds>>

\* build_stop
RequestStop ==
  /\ control' = [paused |-> TRUE, wake |-> FALSE]
  /\ UNCHANGED <<head, marks, rows, seen, tree, stopping, pc, run, rebuilding,
                 bounds>>

\* rebuild is refused while a run is open: the check ...
CheckRebuild ==
  /\ rebuilding = "idle"
  /\ rebuilds < MaxRebuilds
  /\ open = {} /\ ~stale
  /\ rebuilding' = "checked"
  /\ rebuilds' = rebuilds + 1
  /\ UNCHANGED <<head, marks, control, rows, seen, tree, stopping, pc, run, faults>>

\* ... the deletion of the cursors ...
DeleteCursors ==
  /\ rebuilding = "checked"
  /\ cursor' = [m \in Mirrors |-> 0]
  /\ seen' = [c \in Mirrors \X Commits |->
                IF seen[c] = "since" THEN "before" ELSE seen[c]]
  /\ rebuilding' = "deleted"
  /\ UNCHANGED <<head, marked, control, rows, tree, stopping, pc, run, bounds>>

\* ... and the request to start.
StartRebuild ==
  /\ rebuilding = "deleted"
  /\ control' = [paused |-> FALSE, wake |-> TRUE]
  /\ rebuilding' = "idle"
  /\ UNCHANGED <<head, marks, rows, seen, tree, stopping, pc, run, bounds>>

-----------------------------------------------------------------------------

RunStep(w) ==
  \/ VisitMirror(w) \/ NextChunk(w) \/ ReadChunk(w) \/ CommitChunk(w)
  \/ ListAnswers(w) \/ ReadAnswer(w) \/ CommitRun(w) \/ SetCursor(w)
  \/ MarkIngested(w) \/ EndRun(w) \/ FailRun(w)

\* What a live worker does by itself.
Work(w) ==
  SyncSource(w) \/ StartRun(w) \/ RunStep(w) \/ Sleep(w) \/ TakeWake(w)

Screen ==
  \/ RequestStart \/ RequestStop
  \/ CheckRebuild \/ DeleteCursors \/ StartRebuild

Next ==
  \/ \E w \in Workers : Boot(w) \/ Work(w) \/ Signal(w) \/ Crash(w)
  \/ Screen

Spec == Init /\ [][Next]_vars

\* A worker that is up goes on, and so does a rebuild that was confirmed.
\* Nobody has to start a worker or to press a button.
Fairness ==
  /\ \A w \in Workers : WF_vars(Work(w))
  /\ WF_vars(DeleteCursors \/ StartRebuild)

FairSpec == Spec /\ Fairness

-----------------------------------------------------------------------------
(* Properties *)

\* No hole: whatever the cursor says is done was read by some run, through
\* stops, failed readings, crashes, signals and rebuilds.
NoHole ==
  \A m \in Mirrors, c \in Commits : c <= cursor[m] => seen[<<m, c>>] # "never"

\* What makes NoHole inductive: a run that met no failure has read everything
\* up to where it stands, and everything up to a HEAD it means to record; and
\* nothing is ahead of the HEAD of its mirror.
RunSound(w) ==
  /\ pc[w] \in {"chunk", "read", "commit"} =>
       /\ run[w].mirror \in Mirrors
       /\ run[w].at <= run[w].target
       /\ pc[w] = "read" => run[w].at # 0
       /\ run[w].target <= head[run[w].mirror]
       /\ run[w].ok =>
            \A c \in Commits :
              \/ c < run[w].at
              \/ c = run[w].at /\ pc[w] # "read"
              => seen[<<run[w].mirror, c>>] # "never"
  /\ \A m \in Mirrors :
       /\ run[w].heads[m] <= head[m]
       /\ \A c \in Commits : c <= run[w].heads[m] => seen[<<m, c>>] # "never"

IndInv ==
  /\ TypeOK
  /\ NoHole
  /\ \A m \in Mirrors : cursor[m] <= head[m]
  /\ \A w \in Workers : RunSound(w)

\* Cursors and marks move only after the commit: a run that is about to move
\* them has nothing of its own left uncommitted.
CommitBeforeMarks ==
  \A w \in Workers : pc[w] \in {"cursors", "end"} => dirty = {}

\* The screen says "running" only of a run that runs, or of one whose worker
\* is dead and which the next worker closes.
OpenRunIsLive ==
  /\ \A w \in Workers : w \in open <=> pc[w] \in InRun
  /\ stale => \A w \in Workers : pc[w] = "down"

\* A stop that is not taken back ends the run of every worker that stays up,
\* and no worker opens another one.
StopEndsRuns ==
  \A w \in Workers :
    <>[](control.paused /\ pc[w] # "down") => <>[](w \notin open)

\* A request to start is heard by a worker that stays up: it opens a run,
\* unless the screen takes the request back.
StartIsHeard ==
  \A w \in Workers :
    <>[](pc[w] # "down" /\ ~control.paused) => []<>(w \in open)

\* While the console has paused it, a run in the middle of its repositories
\* reads the chunk it is at and nothing else.
PauseStopsReading ==
  [][control.paused =>
       \A w \in Workers :
         /\ pc'[w] = "read" => pc[w] = "read"
         /\ run'[w].got \subseteq run[w].got]_vars

\* The two buttons of the screen take effect: a stop at once, at the next border
\* of a chunk; on a worker that stays up a stop also ends the run, and a start
\* is heard.
ConsoleIsObeyed == PauseStopsReading /\ StopEndsRuns /\ StartIsHeard

\* With one worker up and no pause, every commit fetched and every answer are
\* read in the end, whatever failed or was stopped before.
EverythingIsRead ==
  (\A w \in Workers : <>[](pc[w] # "down" /\ ~control.paused)) =>
    <>[]((\A m \in Mirrors : cursor[m] = head[m]) /\ marked = Answers)

(* What the documents say and the code does not keep *)

\* rebuild: "refused while a run is open ... the deleted cursors would quietly
\* come back": after a rebuild a cursor passes only what was read again.
RebuildRereads ==
  \A m \in Mirrors, c \in Commits : c <= cursor[m] => seen[<<m, c>>] = "since"

\* ingest/run.py: "the progress mark is moved after the commit": what is
\* marked as done is not lying uncommitted in the working tree.
MarkedIsCommitted ==
  /\ \A m \in Mirrors, c \in Commits :
       c <= cursor[m] => <<m, c>> \notin dirty \union leftover
  /\ marked \intersect (dirty \union leftover) = {}

\* running: "there cannot be several runs, the worker is one".
AtMostOneRun == Cardinality({w \in Workers : pc[w] \in InRun}) <= 1

=============================================================================
