------------------------- MODULE BuildIngestProofs -------------------------
(***************************************************************************)
(* For any number of workers, repositories, commits, answers, faults and   *)
(* rebuilds: a cursor never passes a commit that no run has read.  For one *)
(* worker: commits come before marks, and an open run is a live one.       *)
(***************************************************************************)
EXTENDS BuildIngest, TLAPS

Reading == {"chunk", "read", "commit"}

\* Histories only grow, and what was read was read.
Monotone ==
  /\ \A m \in Mirrors : head[m] <= head'[m]
  /\ \A c \in Mirrors \X Commits : seen[c] # "never" => seen'[c] # "never"

\* The fields of a well-typed row of locals.
LEMMA RunFields ==
  ASSUME NEW r \in Run
  PROVE  /\ r.todo \in SUBSET Mirrors
         /\ r.mirror \in Mirrors \union {None}
         /\ r.at \in 0..MaxHead
         /\ r.target \in 0..MaxHead
         /\ r.ok \in BOOLEAN
         /\ r.heads \in [Mirrors -> 0..MaxHead]
         /\ r.left \in SUBSET Answers
         /\ r.got \in SUBSET Answers
BY DEF Run

\* The locals of a run that has not started.
LEMMA FreshRun == Fresh \in Run /\ \A m \in Mirrors : Fresh.heads[m] = 0
BY BuildAssumption DEF Fresh, Run

\* Storing a worker's locals.
LEMMA SetRun ==
  ASSUME TypeOK, NEW w \in Workers, NEW r \in Run,
         run' = [run EXCEPT ![w] = r]
  PROVE  /\ run' \in [Workers -> Run]
         /\ run'[w] = r
         /\ \A v \in Workers \ {w} : run'[v] = run[v]
BY DEF TypeOK

\* A worker's next place.
LEMMA GotoPC ==
  ASSUME TypeOK, NEW w \in Workers, NEW there \in PC, Goto(w, there)
  PROVE  /\ pc' \in [Workers -> PC]
         /\ pc'[w] = there
         /\ \A v \in Workers \ {w} : pc'[v] = pc[v]
BY DEF TypeOK, Goto

\* A worker that stays where it is stays sound while others read and fetch.
LEMMA SoundKept ==
  ASSUME TypeOK, TypeOK', Monotone, NEW v \in Workers, RunSound(v),
         run'[v] = run[v], pc'[v] = pc[v]
  PROVE  RunSound(v)'
<1>1. run[v] \in Run
  BY DEF TypeOK
<1>2. \A m \in Mirrors : head[m] \in Nat /\ head'[m] \in Nat
  BY BuildAssumption DEF TypeOK
<1>3. /\ run[v].target \in Nat
      /\ \A m \in Mirrors : run[v].heads[m] \in Nat
  BY <1>1, RunFields, BuildAssumption
<1>4. \A m \in Mirrors, c \in Commits : <<m, c>> \in Mirrors \X Commits
  OBVIOUS
<1> QED BY <1>2, <1>3, <1>4 DEF RunSound, Monotone

\* So does a worker that is not reading a repository afterwards and means to
\* record no HEAD but those it meant to record before.
LEMMA SoundLeaving ==
  ASSUME TypeOK, TypeOK', Monotone, NEW v \in Workers, RunSound(v),
         pc'[v] \notin Reading,
         \A m \in Mirrors : run'[v].heads[m] \in {0, run[v].heads[m]}
  PROVE  RunSound(v)'
<1>1. run[v] \in Run
  BY DEF TypeOK
<1>2. \A m \in Mirrors : head[m] \in Nat /\ head'[m] \in Nat
  BY BuildAssumption DEF TypeOK
<1>3. \A m \in Mirrors : run[v].heads[m] \in Nat
  BY <1>1, RunFields, BuildAssumption
<1>4. \A m \in Mirrors, c \in Commits : /\ <<m, c>> \in Mirrors \X Commits
                                        /\ c \in Nat /\ c > 0
  BY BuildAssumption DEF Commits
<1> QED BY <1>2, <1>3, <1>4 DEF RunSound, Monotone, Reading

\* What is left to show of a step that moves no cursor forward.
LEMMA CursorsKept ==
  ASSUME IndInv, TypeOK', Monotone,
         \A m \in Mirrors : cursor'[m] \in {0, cursor[m]},
         \A w \in Workers : RunSound(w)'
  PROVE  IndInv'
<1>1. \A m \in Mirrors : /\ head[m] \in Nat /\ head'[m] \in Nat
                         /\ cursor[m] \in Nat
  BY BuildAssumption DEF IndInv, TypeOK
<1>2. \A m \in Mirrors, c \in Commits : /\ <<m, c>> \in Mirrors \X Commits
                                        /\ c \in Nat /\ c > 0
  BY BuildAssumption DEF Commits
<1>3. NoHole'
  BY <1>1, <1>2 DEF IndInv, NoHole, Monotone
<1>4. \A m \in Mirrors : cursor'[m] <= head'[m]
  BY <1>1 DEF IndInv, Monotone
<1> QED BY <1>3, <1>4 DEF IndInv

\* A step of one worker that does not go on reading a repository.
LEMMA WorkerLeaves ==
  ASSUME IndInv, TypeOK', Monotone,
         \A m \in Mirrors : cursor'[m] \in {0, cursor[m]},
         NEW w \in Workers, pc'[w] \notin Reading,
         \A m \in Mirrors : run'[w].heads[m] \in {0, run[w].heads[m]},
         \A v \in Workers \ {w} : run'[v] = run[v] /\ pc'[v] = pc[v]
  PROVE  IndInv'
<1>1. TypeOK /\ \A v \in Workers : RunSound(v)
  BY DEF IndInv
<1>2. RunSound(w)'
  BY <1>1, SoundLeaving
<1>3. \A v \in Workers \ {w} : RunSound(v)'
  BY <1>1, SoundKept
<1> QED BY <1>2, <1>3, CursorsKept

\* A step of no worker.
LEMMA WorkersStay ==
  ASSUME IndInv, TypeOK', Monotone, UNCHANGED <<run, pc>>,
         \A m \in Mirrors : cursor'[m] \in {0, cursor[m]}
  PROVE  IndInv'
<1>1. TypeOK /\ \A v \in Workers : RunSound(v)
  BY DEF IndInv
<1>2. \A v \in Workers : RunSound(v)'
  BY <1>1, SoundKept
<1> QED BY <1>2, CursorsKept

\* Nothing is read, fetched or marked in most steps.
LEMMA NothingRead ==
  ASSUME TypeOK, UNCHANGED <<head, seen>>
  PROVE  Monotone
BY BuildAssumption DEF TypeOK, Monotone

\* Before any worker is up nothing is marked and no run has started.
LEMMA InitIndInv == Init => IndInv
<1> SUFFICES ASSUME Init PROVE IndInv
  OBVIOUS
<1>1. TypeOK
  <2>1. /\ head \in [Mirrors -> 0..MaxHead]
        /\ cursor \in [Mirrors -> 0..MaxHead]
        /\ faults \in 0..MaxFaults /\ rebuilds \in 0..MaxRebuilds
    BY BuildAssumption DEF Init
  <2>2. pc \in [Workers -> PC] /\ run \in [Workers -> Run]
    BY FreshRun DEF Init, PC
  <2>3. seen \in [Mirrors \X Commits -> {"never", "before", "since"}]
    BY DEF Init
  <2> QED BY <2>1, <2>2, <2>3 DEF Init, TypeOK
<1>2. NoHole /\ \A m \in Mirrors : cursor[m] <= head[m]
  BY BuildAssumption DEF Init, NoHole, Commits
<1>3. \A w \in Workers : RunSound(w)
  BY BuildAssumption, FreshRun DEF Init, RunSound, Commits
<1> QED BY <1>1, <1>2, <1>3 DEF IndInv

-----------------------------------------------------------------------------
(* The worker's loop *)

\* A worker that comes up is not reading yet.
LEMMA BootStep ==
  ASSUME IndInv, NEW w \in Workers, Boot(w)
  PROVE  IndInv'
<1>1. TypeOK
  BY DEF IndInv
<1>2. "tick" \in PC
  BY DEF PC
<1>3. TypeOK'
  BY <1>1, <1>2, GotoPC DEF TypeOK, Boot, marks, tree, bounds
<1>4. Monotone
  BY <1>1, NothingRead DEF Boot
<1> QED
  BY <1>1, <1>2, <1>3, <1>4, GotoPC, WorkerLeaves DEF Boot, marks, Reading

\* Fetching only makes histories longer.
LEMMA SyncStep ==
  ASSUME IndInv, NEW w \in Workers, SyncSource(w)
  PROVE  IndInv'
<1>1. TypeOK
  BY DEF IndInv
<1>2. "ingest" \in PC
  BY DEF PC
<1>3. TypeOK'
  BY <1>1, <1>2, GotoPC DEF TypeOK, SyncSource, marks, rows, tree, bounds
<1>4. Monotone
  BY DEF SyncSource, Monotone
<1> QED
  BY <1>1, <1>2, <1>3, <1>4, GotoPC, WorkerLeaves DEF SyncSource, marks, Reading

\* A run starts with nothing to record.
LEMMA StartRunStep ==
  ASSUME IndInv, NEW w \in Workers, StartRun(w)
  PROVE  IndInv'
<1>1. TypeOK
  BY DEF IndInv
<1>2. "sleep" \in PC /\ "mirror" \in PC
  BY DEF PC, InRun
<1>3. Monotone
  BY <1>1, NothingRead DEF StartRun
<1>4. CASE control.paused
  <2>1. Goto(w, "sleep") /\ UNCHANGED <<open, run>>
    BY <1>4 DEF StartRun
  <2>2. TypeOK'
    BY <1>1, <1>2, <2>1, GotoPC DEF TypeOK, StartRun, marks, tree, bounds
  <2> QED
    BY <1>1, <1>2, <1>3, <2>1, <2>2, GotoPC, WorkerLeaves
    DEF StartRun, marks, Reading
<1>5. CASE ~control.paused
  <2>1. /\ open' = open \union {w}
        /\ run' = [run EXCEPT ![w] = Fresh]
        /\ Goto(w, "mirror")
    BY <1>5 DEF StartRun
  <2>2. TypeOK'
    BY <1>1, <1>2, <2>1, GotoPC, FreshRun, SetRun
    DEF TypeOK, StartRun, marks, tree, bounds
  <2> QED
    BY <1>1, <1>2, <1>3, <2>1, <2>2, GotoPC, FreshRun, SetRun, WorkerLeaves
    DEF StartRun, marks, Reading
<1> QED BY <1>4, <1>5

\* Sleeping and waking leave the runs alone.
LEMMA SleepStep ==
  ASSUME IndInv, NEW w \in Workers, Sleep(w) \/ TakeWake(w)
  PROVE  IndInv'
<1>1. TypeOK
  BY DEF IndInv
<1>2. PICK there \in {"down", "woken", "tick"} : Goto(w, there)
  BY DEF Sleep, TakeWake
<1>3. there \in PC
  BY DEF PC
<1>4. /\ UNCHANGED <<head, cursor, marked, open, stale, seen, dirty, leftover,
                     run, rebuilding, faults, rebuilds>>
      /\ stopping' = stopping \ {w}
      /\ control' \in {control, [control EXCEPT !.wake = FALSE]}
  BY DEF Sleep, TakeWake, marks, rows, tree, bounds
<1>5. TypeOK'
  BY <1>1, <1>2, <1>3, <1>4, GotoPC DEF TypeOK
<1>6. Monotone
  BY <1>1, <1>4, NothingRead
<1> QED
  BY <1>1, <1>2, <1>3, <1>4, <1>5, <1>6, GotoPC, WorkerLeaves DEF Reading

\* A signal is only noted.
LEMMA SignalStep ==
  ASSUME IndInv, NEW w \in Workers, Signal(w)
  PROVE  IndInv'
<1>1. TypeOK
  BY DEF IndInv
<1>2. TypeOK'
  BY <1>1, BuildAssumption
  DEF TypeOK, Signal, Fault, marks, rows, tree
<1>3. Monotone
  BY <1>1, NothingRead DEF Signal
<1> QED BY <1>2, <1>3, WorkersStay DEF Signal, marks

\* A run that dies records nothing.
LEMMA CrashStep ==
  ASSUME IndInv, NEW w \in Workers, Crash(w)
  PROVE  IndInv'
<1>1. TypeOK
  BY DEF IndInv
<1>2. "down" \in PC
  BY DEF PC
<1>3. run' \in [Workers -> Run] /\ pc' \in [Workers -> PC]
  BY <1>1, <1>2, FreshRun, SetRun, GotoPC DEF Crash
<1>4. TypeOK'
  BY <1>1, <1>3, BuildAssumption DEF TypeOK, Crash, Fault, LeaveTree, marks
<1>5. Monotone
  BY <1>1, NothingRead DEF Crash
<1> QED
  BY <1>1, <1>2, <1>4, <1>5, FreshRun, SetRun, GotoPC, WorkerLeaves
  DEF Crash, marks, Reading

-----------------------------------------------------------------------------
(* One run *)

\* A repository is read from its cursor, and all before it was read.
LEMMA VisitStep ==
  ASSUME IndInv, NEW w \in Workers, VisitMirror(w)
  PROVE  IndInv'
<1>1. TypeOK /\ run[w] \in Run /\ RunSound(w)
  BY DEF IndInv, TypeOK
<1>2. {"mirror", "chunk", "qna"} \subseteq PC
  BY DEF PC, InRun
<1>3. Monotone
  BY <1>1, NothingRead DEF VisitMirror
<1>4. ASSUME NEW r \in Run, r.heads = run[w].heads, Set(w, r), Goto(w, "qna")
      PROVE  IndInv'
  <2>1. /\ run' \in [Workers -> Run] /\ run'[w] = r
        /\ \A v \in Workers \ {w} : run'[v] = run[v]
    BY <1>1, <1>4, SetRun DEF Set
  <2>2. /\ pc' \in [Workers -> PC] /\ pc'[w] = "qna"
        /\ \A v \in Workers \ {w} : pc'[v] = pc[v]
    BY <1>1, <1>2, <1>4, GotoPC
  <2>3. TypeOK'
    BY <1>1, <2>1, <2>2 DEF TypeOK, VisitMirror, marks, rows, tree, bounds
  <2> QED
    BY <1>3, <1>4, <2>1, <2>2, <2>3, WorkerLeaves
    DEF VisitMirror, marks, Reading
<1>5. CASE \E m \in run[w].todo :
             /\ Set(w, [run[w] EXCEPT !.todo = @ \ {m}, !.mirror = m,
                          !.ok = TRUE, !.at = cursor[m], !.target = head[m]])
             /\ Goto(w, IF cursor[m] = head[m] THEN "mirror" ELSE "chunk")
  <2>1. PICK m \in run[w].todo :
             /\ Set(w, [run[w] EXCEPT !.todo = @ \ {m}, !.mirror = m,
                          !.ok = TRUE, !.at = cursor[m], !.target = head[m]])
             /\ Goto(w, IF cursor[m] = head[m] THEN "mirror" ELSE "chunk")
    BY <1>5
  <2> DEFINE r == [run[w] EXCEPT !.todo = @ \ {m}, !.mirror = m, !.ok = TRUE,
                                 !.at = cursor[m], !.target = head[m]]
             there == IF cursor[m] = head[m] THEN "mirror" ELSE "chunk"
  <2>2. m \in Mirrors
    BY <1>1, RunFields
  <2>3. /\ cursor[m] \in 0..MaxHead /\ head[m] \in 0..MaxHead
        /\ cursor[m] <= head[m]
    BY <2>2 DEF IndInv, TypeOK
  <2>4. /\ r \in Run /\ r.heads = run[w].heads /\ r.mirror = m
        /\ r.at = cursor[m] /\ r.target = head[m]
    BY <1>1, <2>2, <2>3 DEF Run
  <2>5. there \in PC /\ there # "read"
    BY <1>2
  <2> HIDE DEF r, there
  <2>6. /\ run' \in [Workers -> Run] /\ run'[w] = r
        /\ \A v \in Workers \ {w} : run'[v] = run[v]
    BY <1>1, <2>1, <2>4, SetRun DEF Set, r
  <2>7. /\ pc' \in [Workers -> PC] /\ pc'[w] = there
        /\ \A v \in Workers \ {w} : pc'[v] = pc[v]
    BY <1>1, <2>1, <2>5, GotoPC DEF there
  <2>8. TypeOK'
    BY <1>1, <2>6, <2>7
    DEF TypeOK, VisitMirror, marks, rows, tree, bounds
  <2>9. UNCHANGED <<head, cursor, seen>>
    BY DEF VisitMirror, marks
  <2>10. RunSound(w)'
    <3>1. \A c \in Commits : c <= cursor[m] => seen[<<m, c>>] # "never"
      BY <2>2 DEF IndInv, NoHole
    <3>2. \A c \in Commits : c \in Nat /\ cursor[m] \in Nat
      BY BuildAssumption, <2>3 DEF Commits
    <3>3. \A c \in Commits : c < cursor[m] \/ c = cursor[m]
                               => seen[<<m, c>>] # "never"
      BY <3>1, <3>2
    <3>4. head[m] <= head[m]
      BY <2>3, BuildAssumption
    <3> QED
      BY <1>1, <2>2, <2>3, <2>4, <2>5, <2>6, <2>7, <2>9, <3>3, <3>4
      DEF RunSound
  <2>11. \A v \in Workers \ {w} : RunSound(v)'
    BY <1>1, <1>3, <2>6, <2>7, <2>8, SoundKept DEF IndInv
  <2> QED BY <1>3, <2>8, <2>9, <2>10, <2>11, CursorsKept
<1>6. CASE Set(w, run[w]) /\ Goto(w, "qna")
  BY <1>1, <1>4, <1>6
<1>7. CASE /\ Set(w, [run[w] EXCEPT !.todo = {}, !.stopped = TRUE])
           /\ Goto(w, "qna")
  <2> DEFINE r == [run[w] EXCEPT !.todo = {}, !.stopped = TRUE]
  <2>1. r \in Run /\ r.heads = run[w].heads
    BY <1>1 DEF Run
  <2> HIDE DEF r
  <2> QED BY <1>4, <1>7, <2>1 DEF r
<1> QED BY <1>5, <1>6, <1>7 DEF VisitMirror

\* A HEAD is recorded for a repository that was read to its end.
LEMMA NextChunkStep ==
  ASSUME IndInv, NEW w \in Workers, NextChunk(w)
  PROVE  IndInv'
<1> DEFINE r == run[w]
<1>1. TypeOK /\ r \in Run /\ RunSound(w) /\ pc[w] = "chunk"
  BY DEF IndInv, TypeOK, NextChunk
<1>2. /\ r.mirror \in Mirrors /\ r.at <= r.target
      /\ r.target <= head[r.mirror]
      /\ r.ok => \A c \in Commits : c < r.at \/ c = r.at =>
                                     seen[<<r.mirror, c>>] # "never"
  BY <1>1 DEF RunSound
<1>3. {"mirror", "read"} \subseteq PC
  BY DEF PC, InRun
<1>4. Monotone /\ UNCHANGED <<head, cursor, seen>>
  BY <1>1, NothingRead DEF NextChunk, marks
<1>5. /\ r.at \in 0..MaxHead /\ r.target \in 0..MaxHead
      /\ r.heads \in [Mirrors -> 0..MaxHead]
      /\ head[r.mirror] \in 0..MaxHead
  BY <1>1, <1>2, RunFields DEF TypeOK
<1>6. ASSUME NEW s \in Run, Set(w, s), NEW there \in PC, Goto(w, there),
             s.mirror = r.mirror, s.target = r.target, s.ok = r.ok,
             \A m \in Mirrors :
               /\ s.heads[m] <= head[m]
               /\ \A c \in Commits : c <= s.heads[m] => seen[<<m, c>>] # "never",
             \/ there = "mirror"
             \/ there = "read" /\ s.at = r.at + 1 /\ r.at # r.target
      PROVE  IndInv'
  <2>1. /\ run' \in [Workers -> Run] /\ run'[w] = s
        /\ \A v \in Workers \ {w} : run'[v] = run[v]
    BY <1>1, <1>6, SetRun DEF Set
  <2>2. /\ pc' \in [Workers -> PC] /\ pc'[w] = there
        /\ \A v \in Workers \ {w} : pc'[v] = pc[v]
    BY <1>1, <1>6, GotoPC
  <2>3. TypeOK'
    BY <1>1, <2>1, <2>2 DEF TypeOK, NextChunk, marks, rows, tree, bounds
  <2>4. there = "read" => /\ s.at <= s.target
                          /\ \A c \in Commits : c < s.at => c < r.at \/ c = r.at
                          /\ s.at # 0
    BY <1>2, <1>5, <1>6, BuildAssumption DEF Commits
  <2>5. RunSound(w)'
    BY <1>2, <1>4, <1>6, <2>1, <2>2, <2>4 DEF RunSound
  <2>6. \A v \in Workers \ {w} : RunSound(v)'
    BY <1>1, <1>4, <2>1, <2>2, <2>3, SoundKept DEF IndInv
  <2> QED BY <1>4, <2>3, <2>5, <2>6, CursorsKept
<1>7. \A m \in Mirrors :
        /\ r.heads[m] <= head[m]
        /\ \A c \in Commits : c <= r.heads[m] => seen[<<m, c>>] # "never"
  BY <1>1 DEF RunSound
<1>8. CASE /\ r.at = r.target
           /\ Set(w, [r EXCEPT !.heads[r.mirror] = HeadReached(r)])
           /\ Goto(w, "mirror")
  <2> DEFINE s == [r EXCEPT !.heads[r.mirror] = HeadReached(r)]
  <2>1. HeadReached(r) \in 0..MaxHead
    BY <1>5, BuildAssumption DEF HeadReached
  <2>2. /\ HeadReached(r) <= head[r.mirror]
        /\ \A c \in Commits : c <= HeadReached(r) =>
                                seen[<<r.mirror, c>>] # "never"
    <3>1. CASE r.ok
      BY <1>2, <1>5, <1>8, <3>1, BuildAssumption DEF HeadReached, Commits
    <3>2. CASE ~r.ok
      BY <1>2, <1>5, <3>2, BuildAssumption DEF HeadReached, Commits
    <3> QED BY <3>1, <3>2
  <2>3. /\ s \in Run /\ s.mirror = r.mirror /\ s.target = r.target /\ s.ok = r.ok
        /\ s.heads = [r.heads EXCEPT ![r.mirror] = HeadReached(r)]
    BY <1>1, <1>2, <1>5, <2>1 DEF Run
  <2>4. \A m \in Mirrors :
          s.heads[m] = IF m = r.mirror THEN HeadReached(r) ELSE r.heads[m]
    BY <1>5, <2>3
  <2>5. \A m \in Mirrors :
          /\ s.heads[m] <= head[m]
          /\ \A c \in Commits : c <= s.heads[m] => seen[<<m, c>>] # "never"
    BY <1>7, <2>2, <2>4
  <2> HIDE DEF s
  <2> QED BY <1>3, <1>6, <1>8, <2>3, <2>5 DEF s
<1>9. CASE Set(w, [r EXCEPT !.stopped = TRUE]) /\ Goto(w, "mirror")
  <2> DEFINE s == [r EXCEPT !.stopped = TRUE]
  <2>1. /\ s \in Run /\ s.mirror = r.mirror /\ s.target = r.target /\ s.ok = r.ok
        /\ s.heads = r.heads
    BY <1>1 DEF Run
  <2> HIDE DEF s
  <2> QED BY <1>3, <1>6, <1>7, <1>9, <2>1 DEF s
<1>10. CASE /\ r.at # r.target
            /\ Set(w, [r EXCEPT !.at = @ + 1])
            /\ Goto(w, "read")
  <2> DEFINE s == [r EXCEPT !.at = @ + 1]
  <2>1. r.at + 1 \in 0..MaxHead
    BY <1>2, <1>5, <1>10, BuildAssumption
  <2>2. /\ s \in Run /\ s.mirror = r.mirror /\ s.target = r.target /\ s.ok = r.ok
        /\ s.heads = r.heads /\ s.at = r.at + 1
    BY <1>1, <2>1 DEF Run
  <2> HIDE DEF s
  <2> QED BY <1>3, <1>6, <1>7, <1>10, <2>2 DEF s
<1> QED BY <1>8, <1>9, <1>10 DEF NextChunk

\* A commit is read, or the run's HEAD is given up.
LEMMA ReadChunkStep ==
  ASSUME IndInv, NEW w \in Workers, ReadChunk(w)
  PROVE  IndInv'
<1> DEFINE r == run[w]
           k == <<r.mirror, r.at>>
<1>1. TypeOK /\ r \in Run /\ RunSound(w) /\ pc[w] = "read"
  BY DEF IndInv, TypeOK, ReadChunk
<1>2. /\ r.mirror \in Mirrors /\ r.at <= r.target /\ r.at # 0
      /\ r.target <= head[r.mirror]
      /\ r.ok => \A c \in Commits : c < r.at => seen[<<r.mirror, c>>] # "never"
  BY <1>1 DEF RunSound
<1>3. {"chunk", "commit"} \subseteq PC
  BY DEF PC, InRun
<1>4. UNCHANGED <<head, cursor>>
  BY DEF ReadChunk, marks
<1>5. \A m \in Mirrors :
        /\ r.heads[m] <= head[m]
        /\ \A c \in Commits : c <= r.heads[m] => seen[<<m, c>>] # "never"
  BY <1>1 DEF RunSound
<1>6. r.at \in 0..MaxHead
  BY <1>1, RunFields
<1>7. ASSUME NEW s \in Run, Set(w, s), NEW there \in {"chunk", "commit"},
             Goto(w, there), s.mirror = r.mirror, s.target = r.target,
             s.at = r.at, s.heads = r.heads, dirty' \subseteq Sources,
             faults' \in 0..MaxFaults,
             \/ s.ok = FALSE /\ seen' = seen
             \/ s.ok = r.ok /\ seen' = [seen EXCEPT ![k] = "since"]
      PROVE  IndInv'
  <2>1. /\ run' \in [Workers -> Run] /\ run'[w] = s
        /\ \A v \in Workers \ {w} : run'[v] = run[v]
    BY <1>1, <1>7, SetRun DEF Set
  <2>2. /\ pc' \in [Workers -> PC] /\ pc'[w] = there
        /\ \A v \in Workers \ {w} : pc'[v] = pc[v]
    BY <1>1, <1>3, <1>7, GotoPC
  <2>3. seen' \in [Mirrors \X Commits -> {"never", "before", "since"}]
    BY <1>1, <1>7 DEF TypeOK
  <2>4. TypeOK'
    BY <1>1, <1>7, <2>1, <2>2, <2>3
    DEF TypeOK, ReadChunk, marks, rows, bounds
  <2>5. \A c \in Mirrors \X Commits : seen[c] # "never" => seen'[c] # "never"
    BY <1>1, <1>7 DEF TypeOK
  <2>6. Monotone
    BY <1>1, <1>4, <2>5, BuildAssumption DEF Monotone, TypeOK
  <2>7. s.ok => \A c \in Commits : c < r.at \/ c = r.at =>
                                     seen'[<<r.mirror, c>>] # "never"
    <3> SUFFICES ASSUME s.ok, NEW c \in Commits, c < r.at \/ c = r.at
                 PROVE  seen'[<<r.mirror, c>>] # "never"
      OBVIOUS
    <3>1. <<r.mirror, c>> \in Mirrors \X Commits
      BY <1>2
    <3>2. s.ok = r.ok /\ seen' = [seen EXCEPT ![k] = "since"]
      BY <1>7
    <3>3. CASE c < r.at
      BY <1>2, <2>5, <3>1, <3>2, <3>3
    <3>4. CASE c = r.at
      BY <1>1, <3>1, <3>2, <3>4 DEF TypeOK
    <3> QED BY <3>3, <3>4
  <2>8. \A m \in Mirrors, c \in Commits : <<m, c>> \in Mirrors \X Commits
    OBVIOUS
  <2>9. RunSound(w)'
    BY <1>2, <1>4, <1>5, <1>7, <2>1, <2>2, <2>5, <2>7, <2>8 DEF RunSound
  <2>10. \A v \in Workers \ {w} : RunSound(v)'
    BY <1>1, <2>1, <2>2, <2>4, <2>6, SoundKept DEF IndInv
  <2> QED BY <1>4, <2>4, <2>6, <2>9, <2>10, CursorsKept
<1>8. dirty \subseteq Sources /\ faults \in 0..MaxFaults /\ run = [run EXCEPT ![w] = r]
  BY <1>1 DEF TypeOK
<1>9. CASE /\ Fault
           /\ Set(w, [r EXCEPT !.ok = FALSE])
           /\ Goto(w, "chunk")
           /\ UNCHANGED <<seen, dirty>>
  <2> DEFINE s == [r EXCEPT !.ok = FALSE]
  <2>1. /\ s \in Run /\ s.mirror = r.mirror /\ s.target = r.target
        /\ s.at = r.at /\ s.heads = r.heads /\ s.ok = FALSE
    BY <1>1 DEF Run
  <2>2. faults' \in 0..MaxFaults
    BY <1>8, <1>9, BuildAssumption DEF Fault
  <2> HIDE DEF s
  <2> QED BY <1>7, <1>8, <1>9, <2>1, <2>2 DEF s
<1>10. CASE /\ seen' = [seen EXCEPT ![k] = "since"]
            /\ Goto(w, "chunk")
            /\ UNCHANGED <<run, dirty, faults>>
  BY <1>1, <1>7, <1>8, <1>10 DEF Set
<1>11. CASE /\ seen' = [seen EXCEPT ![k] = "since"]
            /\ dirty' = dirty \union {k}
            /\ Set(w, [r EXCEPT !.changed = TRUE])
            /\ Goto(w, "commit")
            /\ UNCHANGED faults
  <2> DEFINE s == [r EXCEPT !.changed = TRUE]
  <2>1. /\ s \in Run /\ s.mirror = r.mirror /\ s.target = r.target
        /\ s.at = r.at /\ s.heads = r.heads /\ s.ok = r.ok
    BY <1>1 DEF Run
  <2>2. k \in Sources
    BY <1>2, <1>6, BuildAssumption DEF Sources, Commits
  <2> HIDE DEF s
  <2> QED BY <1>7, <1>8, <1>11, <2>1, <2>2 DEF s
<1> QED BY <1>9, <1>10, <1>11 DEF ReadChunk

\* After its commit a run goes on where it was.
LEMMA CommitChunkStep ==
  ASSUME IndInv, NEW w \in Workers, CommitChunk(w)
  PROVE  IndInv'
<1>1. TypeOK /\ RunSound(w) /\ pc[w] = "commit"
  BY DEF IndInv, CommitChunk
<1>2. "chunk" \in PC
  BY DEF PC, InRun
<1>3. /\ pc' \in [Workers -> PC] /\ pc'[w] = "chunk"
      /\ \A v \in Workers \ {w} : pc'[v] = pc[v]
  BY <1>1, <1>2, GotoPC DEF CommitChunk
<1>4. UNCHANGED <<head, cursor, seen, run>>
  BY DEF CommitChunk, marks
<1>5. TypeOK'
  BY <1>1, <1>3 DEF TypeOK, CommitChunk, CommitTree, marks, rows, bounds
<1>6. Monotone
  BY <1>1, <1>4, NothingRead
<1>7. RunSound(w)'
  BY <1>1, <1>3, <1>4 DEF RunSound
<1>8. \A v \in Workers \ {w} : RunSound(v)'
  BY <1>1, <1>3, <1>4, <1>5, <1>6, SoundKept DEF IndInv
<1> QED BY <1>4, <1>5, <1>6, <1>7, <1>8, CursorsKept

\* Reading answers touches no cursor.
LEMMA AnswersStep ==
  ASSUME IndInv, NEW w \in Workers, ListAnswers(w) \/ ReadAnswer(w)
  PROVE  IndInv'
<1> DEFINE r == run[w]
<1>1. TypeOK /\ r \in Run /\ pc[w] \in {"qna", "answer"} /\ pc[w] \in PC
  BY DEF IndInv, TypeOK, ListAnswers, ReadAnswer
<1>2. {"answer", "final"} \subseteq PC
  BY DEF PC, InRun
<1>3. UNCHANGED <<head, cursor, marked, control, open, stale, seen, leftover,
                  stopping, rebuilding, rebuilds>>
  BY DEF ListAnswers, ReadAnswer, marks, rows, tree, bounds
<1>4. ASSUME NEW s \in Run, s.heads = r.heads, Set(w, s),
             NEW there \in {"answer", "final"}, Goto(w, there),
             dirty' \subseteq Sources, faults' \in 0..MaxFaults
      PROVE  IndInv'
  <2>1. /\ run' \in [Workers -> Run] /\ run'[w] = s
        /\ \A v \in Workers \ {w} : run'[v] = run[v]
    BY <1>1, <1>4, SetRun DEF Set
  <2>2. /\ pc' \in [Workers -> PC] /\ pc'[w] = there
        /\ \A v \in Workers \ {w} : pc'[v] = pc[v]
    BY <1>1, <1>2, <1>4, GotoPC
  <2>3. TypeOK'
    BY <1>1, <1>3, <1>4, <2>1, <2>2 DEF TypeOK
  <2>4. Monotone
    BY <1>1, <1>3, NothingRead
  <2> QED
    BY <1>3, <1>4, <2>1, <2>2, <2>3, <2>4, WorkerLeaves DEF Reading
<1>5. /\ dirty \subseteq Sources /\ faults \in 0..MaxFaults
      /\ run = [run EXCEPT ![w] = r] /\ pc = [pc EXCEPT ![w] = pc[w]]
  BY <1>1 DEF TypeOK
<1>6. CASE ListAnswers(w)
  <2> DEFINE s == [r EXCEPT !.left = Answers \ marked]
  <2>1. s \in Run /\ s.heads = r.heads
    BY <1>1 DEF Run
  <2>2. /\ Set(w, s) /\ Goto(w, "answer")
        /\ dirty' \subseteq Sources /\ faults' \in 0..MaxFaults
    BY <1>5, <1>6 DEF ListAnswers, tree, bounds
  <2> HIDE DEF s
  <2> QED BY <1>4, <2>1, <2>2
<1>7. ASSUME ReadAnswer(w) PROVE IndInv'
  <2>1. CASE Goto(w, "final") /\ UNCHANGED <<run, dirty, faults>>
    BY <1>1, <1>4, <1>5, <2>1 DEF Set
  <2>2. CASE /\ Set(w, [r EXCEPT !.left = {}, !.stopped = TRUE])
             /\ Goto(w, "final")
             /\ UNCHANGED <<dirty, faults>>
    <3> DEFINE s == [r EXCEPT !.left = {}, !.stopped = TRUE]
    <3>1. s \in Run /\ s.heads = r.heads
      BY <1>1 DEF Run
    <3> HIDE DEF s
    <3> QED BY <1>4, <1>5, <2>2, <3>1 DEF s
  <2>3. ASSUME NEW a \in r.left, UNCHANGED pc, pc[w] = "answer",
               \/ /\ Fault
                  /\ Set(w, [r EXCEPT !.left = @ \ {a}])
                  /\ UNCHANGED dirty
               \/ /\ Set(w, [r EXCEPT !.left = @ \ {a}, !.got = @ \union {a}])
                  /\ UNCHANGED <<dirty, faults>>
               \/ /\ Set(w, [r EXCEPT !.left = @ \ {a}, !.got = @ \union {a},
                                      !.changed = TRUE])
                  /\ dirty' = dirty \union {a}
                  /\ UNCHANGED faults
        PROVE  IndInv'
    <3>1. a \in Answers /\ a \in Sources
      BY <1>1, RunFields DEF Sources
    <3>2. dirty' \subseteq Sources /\ faults' \in 0..MaxFaults
      BY <1>5, <2>3, <3>1, BuildAssumption DEF Fault
    <3>3. Goto(w, "answer")
      BY <1>5, <2>3 DEF Goto
    <3> DEFINE failed == [r EXCEPT !.left = @ \ {a}]
               found == [r EXCEPT !.left = @ \ {a}, !.got = @ \union {a}]
               saved == [r EXCEPT !.left = @ \ {a}, !.got = @ \union {a},
                                  !.changed = TRUE]
    <3>4. failed \in Run /\ failed.heads = r.heads
      BY <1>1 DEF Run
    <3>5. found \in Run /\ found.heads = r.heads
      BY <1>1, <3>1 DEF Run
    <3>6. saved \in Run /\ saved.heads = r.heads
      BY <1>1, <3>1 DEF Run
    <3>7. Set(w, failed) \/ Set(w, found) \/ Set(w, saved)
      BY <2>3
    <3> HIDE DEF failed, found, saved
    <3> QED BY <1>4, <3>2, <3>3, <3>4, <3>5, <3>6, <3>7
  <2> QED BY <1>7, <2>1, <2>2, <2>3 DEF ReadAnswer
<1> QED BY <1>6, <1>7

\* A cursor moves to a HEAD up to which everything was read.
LEMMA SetCursorStep ==
  ASSUME IndInv, NEW w \in Workers, SetCursor(w)
  PROVE  IndInv'
<1> DEFINE r == run[w]
<1>1. TypeOK /\ r \in Run /\ RunSound(w) /\ pc[w] = "cursors"
  BY DEF IndInv, TypeOK, SetCursor
<1>2. PICK m \in Mirrors :
        /\ cursor' = [cursor EXCEPT ![m] = r.heads[m]]
        /\ Set(w, [r EXCEPT !.heads[m] = 0])
  BY DEF SetCursor
<1> DEFINE s == [r EXCEPT !.heads[m] = 0]
<1>3. r.heads \in [Mirrors -> 0..MaxHead] /\ 0 \in 0..MaxHead
  BY <1>1, RunFields, BuildAssumption
<1>4. s \in Run /\ s.heads = [r.heads EXCEPT ![m] = 0]
  BY <1>1, <1>3 DEF Run
<1> HIDE DEF s
<1>5. /\ run' \in [Workers -> Run] /\ run'[w] = s
      /\ \A v \in Workers \ {w} : run'[v] = run[v]
  BY <1>1, <1>2, <1>4, SetRun DEF Set, s
<1>6. UNCHANGED <<head, seen, pc>> /\ cursor' \in [Mirrors -> 0..MaxHead]
  BY <1>1, <1>2, <1>3 DEF TypeOK, SetCursor
<1>7. TypeOK'
  BY <1>1, <1>5, <1>6 DEF TypeOK, SetCursor, rows, tree, bounds
<1>8. Monotone
  BY <1>1, <1>6, NothingRead
<1>9. \A n \in Mirrors : cursor'[n] \in {r.heads[m], cursor[n]}
                         /\ (cursor'[n] # cursor[n] => n = m)
  BY <1>1, <1>2 DEF TypeOK
<1>10. NoHole'
  BY <1>1, <1>6, <1>9 DEF IndInv, NoHole, RunSound
<1>11. \A n \in Mirrors : cursor'[n] <= head'[n]
  BY <1>1, <1>6, <1>9 DEF IndInv, RunSound
<1>12. \A n \in Mirrors : s.heads[n] \in {0, r.heads[n]}
  BY <1>3, <1>4
<1>13. RunSound(w)'
  BY <1>1, <1>5, <1>6, <1>7, <1>8, <1>12, SoundLeaving DEF Reading
<1>14. \A v \in Workers \ {w} : RunSound(v)'
  BY <1>1, <1>5, <1>6, <1>7, <1>8, SoundKept DEF IndInv
<1> QED BY <1>7, <1>10, <1>11, <1>13, <1>14 DEF IndInv

\* The last commit and the marks of the answers touch no cursor.
LEMMA FinishStep ==
  ASSUME IndInv, NEW w \in Workers, CommitRun(w) \/ MarkIngested(w)
  PROVE  IndInv'
<1>1. TypeOK /\ run[w] \in Run
  BY DEF IndInv, TypeOK
<1>2. {"cursors", "end"} \subseteq PC
  BY DEF PC, InRun
<1>3. PICK there \in {"cursors", "end"} : Goto(w, there)
  BY DEF CommitRun, MarkIngested
<1>4. /\ pc' \in [Workers -> PC] /\ pc'[w] = there
      /\ \A v \in Workers \ {w} : pc'[v] = pc[v]
  BY <1>1, <1>2, <1>3, GotoPC
<1>5. /\ UNCHANGED <<head, cursor, control, open, stale, seen, stopping, run,
                     rebuilding, faults, rebuilds>>
      /\ marked' \in {marked, marked \union run[w].got}
      /\ dirty' \in {dirty, {}} /\ leftover' \in {leftover, {}}
  BY DEF CommitRun, MarkIngested, CommitTree, marks, rows, tree, bounds
<1>6. run[w].got \subseteq Answers
  BY <1>1, RunFields
<1>7. TypeOK'
  BY <1>1, <1>4, <1>5, <1>6 DEF TypeOK
<1>8. Monotone
  BY <1>1, <1>5, NothingRead
<1> QED BY <1>4, <1>5, <1>7, <1>8, WorkerLeaves DEF Reading

\* A run that ends, well or not, records nothing any more.
LEMMA EndStep ==
  ASSUME IndInv, NEW w \in Workers, EndRun(w) \/ FailRun(w)
  PROVE  IndInv'
<1>1. TypeOK
  BY DEF IndInv
<1>2. "sleep" \in PC
  BY DEF PC
<1>3. /\ pc' \in [Workers -> PC] /\ pc'[w] = "sleep"
      /\ \A v \in Workers \ {w} : pc'[v] = pc[v]
  BY <1>1, <1>2, GotoPC DEF EndRun, FailRun
<1>4. /\ run' \in [Workers -> Run] /\ run'[w] = Fresh
      /\ \A v \in Workers \ {w} : run'[v] = run[v]
  BY <1>1, FreshRun, SetRun DEF EndRun, FailRun
<1>5. /\ UNCHANGED <<head, cursor, marked, control, stale, seen, stopping,
                     rebuilding, rebuilds>>
      /\ open' = open \ {w}
  BY DEF EndRun, FailRun, marks, tree, bounds
<1>6. /\ dirty' \subseteq Sources /\ leftover' \subseteq Sources
      /\ faults' \in 0..MaxFaults
  BY <1>1, BuildAssumption
  DEF TypeOK, EndRun, FailRun, LeaveTree, Fault, tree, bounds
<1>7. TypeOK'
  BY <1>1, <1>3, <1>4, <1>5, <1>6 DEF TypeOK
<1>8. Monotone
  BY <1>1, <1>5, NothingRead
<1> QED
  BY <1>3, <1>4, <1>5, <1>7, <1>8, FreshRun, WorkerLeaves DEF Reading

-----------------------------------------------------------------------------
(* The build screen, and the theorems *)

\* The screen moves no cursor but back to nothing.
LEMMA ScreenStep ==
  ASSUME IndInv, Screen
  PROVE  IndInv'
<1>1. TypeOK
  BY DEF IndInv
<1>2. /\ UNCHANGED <<head, marked, open, stale, dirty, leftover, stopping, pc,
                     run, faults>>
      /\ control' \in {control, [paused |-> FALSE, wake |-> TRUE],
                       [paused |-> TRUE, wake |-> FALSE]}
      /\ rebuilding' \in {"idle", "checked", "deleted"}
  BY <1>1
  DEF Screen, RequestStart, RequestStop, CheckRebuild, DeleteCursors,
      StartRebuild, marks, rows, tree, bounds, TypeOK
<1>3. rebuilds' \in 0..MaxRebuilds
  BY <1>1, BuildAssumption
  DEF Screen, RequestStart, RequestStop, CheckRebuild, DeleteCursors,
      StartRebuild, bounds, TypeOK
<1>4. \/ UNCHANGED <<cursor, seen>>
      \/ /\ cursor' = [m \in Mirrors |-> 0]
         /\ seen' = [c \in Mirrors \X Commits |->
                       IF seen[c] = "since" THEN "before" ELSE seen[c]]
  BY DEF Screen, RequestStart, RequestStop, CheckRebuild, DeleteCursors,
         StartRebuild, marks
<1>5. /\ cursor' \in [Mirrors -> 0..MaxHead]
      /\ \A m \in Mirrors : cursor'[m] \in {0, cursor[m]}
  BY <1>1, <1>4, BuildAssumption DEF TypeOK
<1>6. /\ seen' \in [Mirrors \X Commits -> {"never", "before", "since"}]
      /\ \A c \in Mirrors \X Commits : seen[c] # "never" => seen'[c] # "never"
  BY <1>1, <1>4 DEF TypeOK
<1>7. control' \in [paused : BOOLEAN, wake : BOOLEAN]
  <2>1. control \in [paused : BOOLEAN, wake : BOOLEAN]
    BY <1>1 DEF TypeOK
  <2>2. /\ [paused |-> FALSE, wake |-> TRUE] \in [paused : BOOLEAN, wake : BOOLEAN]
        /\ [paused |-> TRUE, wake |-> FALSE] \in [paused : BOOLEAN, wake : BOOLEAN]
    OBVIOUS
  <2> QED BY <1>2, <2>1, <2>2, Zenon
<1>8. TypeOK'
  BY <1>1, <1>2, <1>3, <1>5, <1>6, <1>7 DEF TypeOK
<1>9. Monotone
  BY <1>1, <1>2, <1>6, BuildAssumption DEF TypeOK, Monotone
<1> QED BY <1>2, <1>5, <1>8, <1>9, WorkersStay

\* Every step keeps the invariant.
LEMMA NextIndInv == IndInv /\ [Next]_vars => IndInv'
<1> SUFFICES ASSUME IndInv, [Next]_vars PROVE IndInv'
  OBVIOUS
<1>1. ASSUME NEW w \in Workers, Boot(w) \/ Work(w) \/ Signal(w) \/ Crash(w)
      PROVE  IndInv'
  <2>1. CASE RunStep(w)
    BY <2>1, VisitStep, NextChunkStep, ReadChunkStep, CommitChunkStep,
       AnswersStep, FinishStep, SetCursorStep, EndStep DEF RunStep
  <2> QED
    BY <1>1, <2>1, BootStep, SyncStep, StartRunStep, SleepStep, SignalStep,
       CrashStep DEF Work
<1>2. CASE Screen
  BY <1>2, ScreenStep
<1>3. CASE UNCHANGED vars
  <2>1. TypeOK /\ TypeOK'
    BY <1>3 DEF vars, IndInv, TypeOK
  <2>2. Monotone /\ UNCHANGED <<cursor, run, pc>>
    BY <1>3, <2>1, NothingRead DEF vars
  <2> QED BY <2>1, <2>2, WorkersStay
<1> QED BY <1>1, <1>2, <1>3 DEF Next

\* The invariant holds of every behaviour, for any number of workers: runs are
\* sound and cursors rest on what was read, through signals, crashes, failed
\* readings, pauses and rebuilds.
THEOREM BuildInvariant == Spec => []IndInv
BY InitIndInv, NextIndInv, PTL DEF Spec

\* What a cursor in ingest_checkpoint says is done was read: no commit is
\* skipped for good.
THEOREM NothingSkipped == Spec => []NoHole
<1>1. IndInv => NoHole
  BY DEF IndInv
<1> QED BY <1>1, BuildInvariant, PTL

-----------------------------------------------------------------------------
(* The pause holds the reading back *)

\* What a worker goes on with while the console has paused it.
GoesOn(w) ==
  /\ pc'[w] = "read" => pc[w] = "read"
  /\ run'[w].got \subseteq run[w].got

\* Of the steps of a run only two read, and both ask first.
LEMMA PausedRunGoesOn ==
  ASSUME TypeOK, NEW v \in Workers, RunStep(v), control.paused
  PROVE  \A w \in Workers : GoesOn(w)
<1> USE DEF TypeOK
<1>0. run[v] \in Run /\ Fresh \in Run /\ Fresh.got = {}
  BY FreshRun DEF Fresh
<1>stop. ShouldStop(v)
  BY DEF ShouldStop
<1>1. CASE VisitMirror(v)
  <2>1. \/ run' = [run EXCEPT ![v] = run[v]]
        \/ run' = [run EXCEPT ![v] = [run[v] EXCEPT !.todo = {}, !.stopped = TRUE]]
    BY <1>stop, <1>1 DEF VisitMirror, Set
  <2>2. Goto(v, "qna")
    BY <1>stop, <1>1 DEF VisitMirror
  <2>3. run'[v].got = run[v].got
    <3>1. [run[v] EXCEPT !.todo = {}, !.stopped = TRUE].got = run[v].got
      BY <1>0 DEF Run
    <3>2. QED
      BY <2>1, <3>1
  <2>4. \A w \in Workers \ {v} : run'[w] = run[w]
    BY <2>1
  <2>5. QED
    BY <2>2, <2>3, <2>4 DEF Goto, GoesOn
<1>2. CASE NextChunk(v)
  <2>1. \/ run' = [run EXCEPT ![v] =
                     [run[v] EXCEPT !.heads[run[v].mirror] = HeadReached(run[v])]]
        \/ run' = [run EXCEPT ![v] = [run[v] EXCEPT !.stopped = TRUE]]
    BY <1>stop, <1>2 DEF NextChunk, Set
  <2>2. Goto(v, "mirror")
    BY <1>stop, <1>2 DEF NextChunk
  <2>3. run'[v].got = run[v].got
    BY <1>0, <2>1 DEF Run
  <2>4. \A w \in Workers \ {v} : run'[w] = run[w]
    BY <2>1
  <2>5. QED
    BY <2>2, <2>3, <2>4 DEF Goto, GoesOn
<1>3. CASE ReadChunk(v)
  <2>1. \/ run' = run
        \/ run' = [run EXCEPT ![v] = [run[v] EXCEPT !.ok = FALSE]]
        \/ run' = [run EXCEPT ![v] = [run[v] EXCEPT !.changed = TRUE]]
    BY <1>3 DEF ReadChunk, Set
  <2>2. Goto(v, "chunk") \/ Goto(v, "commit")
    BY <1>3 DEF ReadChunk
  <2>3. run'[v].got = run[v].got
    <3>1. /\ [run[v] EXCEPT !.ok = FALSE].got = run[v].got
          /\ [run[v] EXCEPT !.changed = TRUE].got = run[v].got
      BY <1>0 DEF Run
    <3>2. QED
      BY <2>1, <3>1
  <2>4. \A w \in Workers \ {v} : run'[w] = run[w]
    BY <2>1
  <2>5. QED
    BY <2>2, <2>3, <2>4 DEF Goto, GoesOn
<1>4. CASE CommitChunk(v) \/ CommitRun(v) \/ MarkIngested(v)
  BY <1>4 DEF CommitChunk, CommitRun, MarkIngested, Goto, GoesOn
<1>5. CASE ListAnswers(v)
  BY <1>5 DEF ListAnswers, Goto, Set, GoesOn
<1>6. CASE ReadAnswer(v)
  <2>1. \/ run' = run
        \/ run' = [run EXCEPT ![v] = [run[v] EXCEPT !.left = {}, !.stopped = TRUE]]
    BY <1>stop, <1>6 DEF ReadAnswer, Set
  <2>2. Goto(v, "final")
    BY <1>stop, <1>6 DEF ReadAnswer
  <2>3. run'[v].got = run[v].got
    <3>1. [run[v] EXCEPT !.left = {}, !.stopped = TRUE].got = run[v].got
      BY <1>0 DEF Run
    <3>2. QED
      BY <2>1, <3>1
  <2>4. \A w \in Workers \ {v} : run'[w] = run[w]
    BY <2>1
  <2>5. QED
    BY <2>2, <2>3, <2>4 DEF Goto, GoesOn
<1>7. CASE SetCursor(v)
  BY <1>7 DEF SetCursor, Set, GoesOn
<1>8. CASE EndRun(v) \/ FailRun(v)
  BY <1>0, <1>8 DEF EndRun, FailRun, Goto, GoesOn
<1>9. QED
  BY <1>1, <1>2, <1>3, <1>4, <1>5, <1>6, <1>7, <1>8 DEF RunStep

\* However many workers, repositories and answers there are, once the console
\* has paused the build no chunk and no answer is begun, wherever a run is
\* (should_stop, worker/runner.py).
THEOREM PauseHolds == Spec => PauseStopsReading
<1>1. IndInv /\ [Next]_vars =>
        [control.paused =>
           \A w \in Workers :
             /\ pc'[w] = "read" => pc[w] = "read"
             /\ run'[w].got \subseteq run[w].got]_vars
  <2>1. SUFFICES ASSUME IndInv, Next, control.paused
                 PROVE  \A w \in Workers : GoesOn(w)
    BY DEF GoesOn
  <2>2. TypeOK /\ Fresh.got = {}
    BY <2>1 DEF IndInv, Fresh
  <2>3. CASE Screen
    BY <2>3 DEF Screen, RequestStart, RequestStop, CheckRebuild, DeleteCursors,
       StartRebuild, GoesOn
  <2>4. ASSUME NEW v \in Workers, Boot(v) \/ Work(v) \/ Signal(v) \/ Crash(v)
        PROVE  \A w \in Workers : GoesOn(w)
    <3>1. CASE Boot(v) \/ Signal(v) \/ Crash(v)
      BY <2>2, <3>1 DEF Boot, Signal, Crash, Goto, TypeOK, GoesOn
    <3>2. CASE SyncSource(v) \/ Sleep(v) \/ TakeWake(v)
      BY <2>2, <3>2 DEF SyncSource, Sleep, TakeWake, Goto, TypeOK, GoesOn
    <3>3. CASE StartRun(v)
      BY <2>1, <2>2, <3>3 DEF StartRun, Goto, TypeOK, GoesOn
    <3>4. CASE RunStep(v)
      BY <2>1, <2>2, <3>4, PausedRunGoesOn
    <3>5. QED
      BY <2>4, <3>1, <3>2, <3>3, <3>4 DEF Work
  <2>5. QED
    BY <2>1, <2>3, <2>4 DEF Next
<1>2. QED
  BY <1>1, BuildInvariant, PTL DEF Spec, PauseStopsReading

-----------------------------------------------------------------------------
(* One worker, the way the service is operated *)

\* operations/build.py:323 counts on it: the worker is one, its tick sequential.
OneWorker == \A v, w \in Workers : v = w

\* Where a run has not made its last commit yet.
Saving == {"mirror", "chunk", "read", "commit", "qna", "answer", "final"}

\* What is uncommitted belongs to the run that is under way, which knows that
\* it changed something and has its last commit before it.
DirtyIsOwned ==
  dirty # {} => \A w \in Workers : pc[w] \in Saving /\ run[w].changed

OneRun == OpenRunIsLive /\ DirtyIsOwned

\* With one worker the table and the tree tell of that worker only.
LEMMA OneRunOf ==
  ASSUME OneWorker, NEW w \in Workers,
         w \in open' <=> pc'[w] \in InRun,
         stale' => pc'[w] = "down",
         dirty' # {} => pc'[w] \in Saving /\ run'[w].changed
  PROVE  OneRun'
BY DEF OneWorker, OneRun, OpenRunIsLive, DirtyIsOwned

\* The worker's locals and its place after a step that stores them.
LEMMA Stored ==
  ASSUME TypeOK, NEW w \in Workers
  PROVE  /\ \A r : Set(w, r) => run'[w] = r
         /\ \A there : Goto(w, there) => pc'[w] = there
BY DEF TypeOK, Set, Goto

\* Outside of its run the worker has nothing uncommitted and no open run.
LEMMA LoopOneRun ==
  ASSUME IndInv, OneWorker, OneRun, NEW w \in Workers,
         \/ Boot(w) \/ SyncSource(w) \/ StartRun(w) \/ Sleep(w) \/ TakeWake(w)
         \/ Signal(w) \/ Crash(w) \/ EndRun(w) \/ FailRun(w)
  PROVE  OneRun'
<1>1. TypeOK /\ open \subseteq Workers
  BY DEF IndInv, TypeOK
<1>2. /\ w \in open <=> pc[w] \in InRun
      /\ stale => pc[w] = "down"
      /\ dirty # {} => pc[w] \in Saving /\ run[w].changed
  BY DEF OneRun, OpenRunIsLive, DirtyIsOwned
<1>3. CASE Boot(w)
  BY <1>1, <1>2, <1>3, Stored, OneRunOf DEF Boot, tree, InRun, Saving
<1>4. CASE SyncSource(w)
  BY <1>1, <1>2, <1>4, Stored, OneRunOf
  DEF SyncSource, tree, rows, InRun, Saving
<1>5. CASE StartRun(w)
  <2>1. pc'[w] \in {"sleep", "mirror"} /\ dirty' = {} /\ ~stale'
    BY <1>1, <1>2, <1>5, Stored DEF StartRun, tree, Saving
  <2>2. w \in open' <=> pc'[w] = "mirror"
    BY <1>1, <1>2, <1>5, Stored DEF StartRun, InRun
  <2> QED BY <2>1, <2>2, OneRunOf DEF InRun
<1>6. CASE Sleep(w) \/ TakeWake(w)
  <2>1. /\ pc'[w] \in {"down", "woken", "tick"}
        /\ dirty' = {} /\ ~stale' /\ w \notin open'
    BY <1>1, <1>2, <1>6, Stored
    DEF Sleep, TakeWake, tree, rows, Saving, InRun
  <2> QED BY <2>1, OneRunOf DEF InRun
<1>7. CASE Signal(w)
  BY <1>2, <1>7, OneRunOf DEF Signal, rows, tree
<1>8. CASE Crash(w)
  BY <1>1, <1>8, Stored, OneRunOf DEF Crash, LeaveTree, InRun
<1>9. CASE EndRun(w)
  BY <1>1, <1>2, <1>9, Stored, OneRunOf DEF EndRun, tree, InRun, Saving
<1>10. CASE FailRun(w)
  BY <1>1, <1>2, <1>10, Stored, OneRunOf DEF FailRun, LeaveTree, InRun
<1> QED BY <1>3, <1>4, <1>5, <1>6, <1>7, <1>8, <1>9, <1>10

\* A run notes that it changed something when it saves, never forgets it, and
\* goes to its marks through a commit.
LEMMA RunOneRun ==
  ASSUME IndInv, OneWorker, OneRun, NEW w \in Workers,
         \/ VisitMirror(w) \/ NextChunk(w) \/ ReadChunk(w) \/ CommitChunk(w)
         \/ ListAnswers(w) \/ ReadAnswer(w) \/ CommitRun(w) \/ SetCursor(w)
         \/ MarkIngested(w)
  PROVE  OneRun'
<1> DEFINE r == run[w]
<1>1. TypeOK /\ r \in Run
  BY DEF IndInv, TypeOK
<1>2. /\ w \in open <=> pc[w] \in InRun
      /\ stale => pc[w] = "down"
      /\ dirty # {} => pc[w] \in Saving /\ r.changed
  BY DEF OneRun, OpenRunIsLive, DirtyIsOwned
<1>3. ASSUME pc[w] \in InRun, pc'[w] \in InRun, UNCHANGED rows,
             dirty' # {} => pc'[w] \in Saving /\ run'[w].changed
      PROVE  OneRun'
  BY <1>2, <1>3, OneRunOf DEF rows, InRun
<1>4. CASE VisitMirror(w)
  <2>1. run'[w].changed = r.changed
    BY <1>1, <1>4, Stored DEF VisitMirror, Run
  <2>2. pc[w] = "mirror" /\ pc'[w] \in {"mirror", "chunk", "qna"}
    BY <1>1, <1>4, Stored DEF VisitMirror
  <2> QED
    BY <1>2, <1>3, <1>4, <2>1, <2>2 DEF VisitMirror, tree, InRun, Saving
<1>5. CASE NextChunk(w)
  <2>1. run'[w].changed = r.changed
    BY <1>1, <1>5, Stored DEF NextChunk, Run
  <2>2. pc[w] = "chunk" /\ pc'[w] \in {"mirror", "read"}
    BY <1>1, <1>5, Stored DEF NextChunk
  <2> QED BY <1>2, <1>3, <1>5, <2>1, <2>2 DEF NextChunk, tree, InRun, Saving
<1>6. CASE ReadChunk(w)
  <2>1. \/ dirty' = dirty /\ run'[w].changed = r.changed
        \/ run'[w].changed
    BY <1>1, <1>6, Stored DEF ReadChunk, Run
  <2>2. pc[w] = "read" /\ pc'[w] \in {"chunk", "commit"}
    BY <1>1, <1>6, Stored DEF ReadChunk
  <2> QED BY <1>2, <1>3, <1>6, <2>1, <2>2 DEF ReadChunk, InRun, Saving
<1>7. CASE CommitChunk(w)
  BY <1>1, <1>3, <1>7, Stored DEF CommitChunk, CommitTree, InRun
<1>8. CASE ListAnswers(w)
  <2>1. run'[w].changed = r.changed
    BY <1>1, <1>8, Stored DEF ListAnswers, Run
  <2> QED
    BY <1>1, <1>2, <1>3, <1>8, <2>1, Stored
    DEF ListAnswers, tree, InRun, Saving
<1>9. CASE ReadAnswer(w)
  <2>1. \/ dirty' = dirty /\ run'[w].changed = r.changed
        \/ run'[w].changed
    <3>1. CASE run' = run /\ dirty' = dirty
      BY <3>1
    <3>2. CASE UNCHANGED dirty /\ Set(w, [r EXCEPT !.left = {}, !.stopped = TRUE])
      BY <1>1, <3>2, Stored DEF Run
    <3>3. ASSUME NEW a, UNCHANGED dirty,
                 \/ Set(w, [r EXCEPT !.left = @ \ {a}])
                 \/ Set(w, [r EXCEPT !.left = @ \ {a}, !.got = @ \union {a}])
          PROVE  dirty' = dirty /\ run'[w].changed = r.changed
      <4>1. /\ [r EXCEPT !.left = @ \ {a}].changed = r.changed
            /\ [r EXCEPT !.left = @ \ {a},
                         !.got = @ \union {a}].changed = r.changed
        BY <1>1 DEF Run
      <4> QED BY <1>1, <3>3, <4>1, Stored
    <3>4. ASSUME NEW a, Set(w, [r EXCEPT !.left = @ \ {a},
                                         !.got = @ \union {a},
                                         !.changed = TRUE])
          PROVE  run'[w].changed
      <4>1. [r EXCEPT !.left = @ \ {a}, !.got = @ \union {a},
                      !.changed = TRUE].changed = TRUE
        BY <1>1 DEF Run
      <4> QED BY <1>1, <3>4, <4>1, Stored
    <3> QED BY <1>9, <3>1, <3>2, <3>3, <3>4 DEF ReadAnswer
  <2>2. pc[w] = "answer" /\ pc'[w] \in {"answer", "final"}
    BY <1>1, <1>9, Stored DEF ReadAnswer
  <2> QED BY <1>2, <1>3, <1>9, <2>1, <2>2 DEF ReadAnswer, InRun, Saving
<1>10. CASE CommitRun(w)
  <2>1. dirty' = {} /\ pc[w] = "final" /\ pc'[w] = "cursors"
    BY <1>1, <1>2, <1>10, Stored DEF CommitRun, CommitTree, tree
  <2> QED BY <1>3, <1>10, <2>1 DEF CommitRun, InRun
<1>11. CASE SetCursor(w)
  BY <1>2, <1>3, <1>11 DEF SetCursor, tree, InRun, Saving
<1>12. CASE MarkIngested(w)
  BY <1>1, <1>2, <1>3, <1>12, Stored DEF MarkIngested, tree, InRun, Saving
<1> QED
  BY <1>4, <1>5, <1>6, <1>7, <1>8, <1>9, <1>10, <1>11, <1>12

\* With one worker every step keeps it, those of the build screen by leaving
\* the worker, its runs and the tree alone.
LEMMA NextOneRun == OneWorker /\ IndInv /\ OneRun /\ [Next]_vars => OneRun'
<1> SUFFICES ASSUME OneWorker, IndInv, OneRun, [Next]_vars PROVE OneRun'
  OBVIOUS
<1>1. ASSUME NEW w \in Workers, Boot(w) \/ Work(w) \/ Signal(w) \/ Crash(w)
      PROVE  OneRun'
  BY <1>1, LoopOneRun, RunOneRun DEF Work, RunStep
<1>2. CASE Screen \/ UNCHANGED vars
  <2>1. UNCHANGED <<open, stale, dirty, pc, run>>
    BY <1>2
    DEF Screen, RequestStart, RequestStop, CheckRebuild, DeleteCursors,
        StartRebuild, rows, tree, vars
  <2> QED BY <2>1 DEF OneRun, OpenRunIsLive, DirtyIsOwned
<1> QED BY <1>1, <1>2 DEF Next

\* With one worker, through crashes, signals, failed runs and rebuilds: the
\* runs in ingest_run and the uncommitted tree are accounted for.
THEOREM OneRunInvariant == OneWorker => (Spec => [](IndInv /\ OneRun))
<1> SUFFICES ASSUME OneWorker PROVE Spec => [](IndInv /\ OneRun)
  OBVIOUS
<1>1. Init => OneRun
  BY DEF Init, OneRun, OpenRunIsLive, DirtyIsOwned, InRun
<1>2. IndInv /\ OneRun /\ [Next]_vars => OneRun'
  BY NextOneRun
<1> QED BY <1>1, <1>2, InitIndInv, NextIndInv, PTL DEF Spec

\* The build screen says "running" of a run that runs, or of one whose worker
\* is dead and which the next worker closes.
THEOREM ScreenIsTrue == OneWorker => (Spec => []OpenRunIsLive)
<1> SUFFICES ASSUME OneWorker PROVE Spec => []OpenRunIsLive
  OBVIOUS
<1>1. IndInv /\ OneRun => OpenRunIsLive
  BY DEF OneRun
<1> QED BY <1>1, OneRunInvariant, PTL

\* What a run saved is committed before its cursors and its marks move.
THEOREM CommitsFirst == OneWorker => (Spec => []CommitBeforeMarks)
<1> SUFFICES ASSUME OneWorker PROVE Spec => []CommitBeforeMarks
  OBVIOUS
<1>1. IndInv /\ OneRun => CommitBeforeMarks
  BY DEF OneRun, DirtyIsOwned, CommitBeforeMarks, Saving
<1> QED BY <1>1, OneRunInvariant, PTL

=============================================================================
