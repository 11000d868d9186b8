----------------------------- MODULE PoolProofs -----------------------------
(***************************************************************************)
(* Proofs about Pool for any number of workers, any row counts and chunk   *)
(* sizes and any number of jobs, when every AP is ready by the deadline of *)
(* start_workers.                                                          *)
(***************************************************************************)
EXTENDS Pool, FiniteSetTheorems, TLAPS

Posted  == Draining \cup {"spin"}          \* the main core, job published
Busy    == Draining \cup {"fetch", "bump"} \* a worker, inside a job
Entered == {w \in Workers : pc[w] \notin NotEntered}

MainPc   == {"boot", "wait", "count", "activate", "idle", "inline", "inlined", "spin"}
            \cup Draining \cup Storing
WorkerPc == {"off", "entry", "snap", "poll"} \cup Busy

\* Each kind of process stays in its own code.
PcInv ==
    /\ pc[Main] \in MainPc
    /\ \A w \in Workers : pc[w] \in WorkerPc

\* Bring-up: ready counts the workers that have entered, and the pool is
\* activated with all of them or not at all.
ReadyInv ==
    /\ pc[Main] = "boot" => \A w \in Workers : pc[w] = "off"
    /\ ready = Cardinality(Entered)
    /\ pc[Main] \in {"count", "activate"} => Entered = Workers
    /\ pc[Main] = "activate" => n = Cardinality(Workers)
    /\ workers # 0 => workers = Cardinality(Workers) /\ Entered = Workers
    /\ pc[Main] \in Posted \cup Storing => workers # 0 /\ n = workers

\* A worker is inside a job only while the main core waits for that job, and
\* has not been counted for it.
JobInv ==
    /\ pc[Main] \notin Posted =>
         \A w \in Workers : pc[w] \notin Busy /\ (pc[w] = "poll" => last[w] = seq)
    /\ pc[Main] \in Posted \cup {"task", "seq"} => done = Cardinality(bumped)
    /\ pc[Main] \in {"task", "seq"} => bumped = {}
    /\ pc[Main] \in Posted =>
         \A w \in Workers :
            /\ pc[w] \in Busy => w \notin bumped /\ last[w] = seq
            /\ w \in bumped => pc[w] = "poll" /\ last[w] = seq

\* The published Task is the one on the main core's stack.
TaskInv ==
    /\ pc[Main] \in Storing \cup Posted => live # 0
    /\ pc[Main] \in {"seq"} \cup Posted => task = live
    /\ \A p \in Procs : pc[p] \in Draining => ptr[p] = live

\* Everyone in a job works with that job's total and chunk.
ShareInv ==
    /\ runs \in [0..(arg - 1) -> Nat]
    /\ pc[Main] \in {"boot", "wait", "count", "activate"} => arg = 0
    /\ pc[Main] \in {"cursor", "chunk", "done", "task", "seq"} \cup Posted => total = arg
    /\ \A p \in Procs :
         /\ pc[p] \in {"lchunk", "claim", "exec"} => tot[p] = arg
         /\ pc[p] \in {"claim", "exec"} => chk[p] = AtLeast(chunk, 1)

Covered(r) == \E p \in Procs : pc[p] = "exec" /\ lo[p] <= r /\ r < hi[p]

\* Rows below the cursor have been run once or are being run by exactly one
\* process; rows above have not been touched.
RowInv ==
    /\ pc[Main] \in Storing => \A r \in 0..(arg - 1) : runs[r] = 0
    /\ pc[Main] \in {"chunk", "done", "task", "seq"} => cursor = 0
    /\ pc[Main] = "inline" => \A r \in 0..(arg - 1) : runs[r] = 0
    /\ pc[Main] = "inlined" => \A r \in 0..(arg - 1) : runs[r] = 1
    /\ pc[Main] \in Posted =>
         \A r \in 0..(arg - 1) :
            runs[r] = IF r < cursor /\ ~Covered(r) THEN 1 ELSE 0
    /\ \A p \in Procs : pc[p] = "exec" => hi[p] <= cursor
    /\ \A p, q \in Procs :
         p # q /\ pc[p] = "exec" /\ pc[q] = "exec" => hi[p] <= lo[q] \/ hi[q] <= lo[p]
    /\ pc[Main] = "spin" => cursor >= arg
    /\ pc[Main] = "idle" => \A r \in 0..(arg - 1) : runs[r] = 1

IInv == TypeOK /\ PcInv /\ ReadyInv /\ JobInv /\ TaskInv /\ ShareInv /\ RowInv

-----------------------------------------------------------------------------
(* Workers, counted *)

\* There are finitely many workers.
LEMMA CardWorkers == Cardinality(Workers) \in Nat
BY PoolAssumption, FS_CardinalityType

\* Cardinalities of sets of workers, as ready and done count them.
LEMMA SubsetCard ==
    \A S \in SUBSET Workers :
        /\ Cardinality(S) \in Nat
        /\ Cardinality(S) <= Cardinality(Workers)
        /\ Cardinality(S) >= Cardinality(Workers) => S = Workers
        /\ \A w \in Workers \ S : Cardinality(S \cup {w}) = Cardinality(S) + 1
<1> TAKE S \in SUBSET Workers
<1>1. IsFiniteSet(S) /\ Cardinality(S) <= Cardinality(Workers)
      /\ (Cardinality(S) = Cardinality(Workers) => S = Workers)
  BY PoolAssumption, FS_Subset
<1>2. Cardinality(S) \in Nat /\ Cardinality(Workers) \in Nat
  BY <1>1, PoolAssumption, FS_CardinalityType
<1>3. \A w \in Workers \ S : Cardinality(S \cup {w}) = Cardinality(S) + 1
  BY <1>1, FS_AddElement
<1> QED
  BY <1>1, <1>2, <1>3

\* The workers that have entered are among these.
LEMMA EnteredCard ==
    /\ Cardinality(Entered) \in Nat
    /\ Cardinality(Entered) <= Cardinality(Workers)
    /\ Cardinality(Entered) >= Cardinality(Workers) => Entered = Workers
BY SubsetCard DEF Entered

\* Every step keeps the variables in their types.
LEMMA TypeStep ==
    ASSUME TypeOK, [Next]_vars
    PROVE  TypeOK'
<1> USE PoolAssumption, CardWorkers
        DEF TypeOK, AtLeast, AtMost, Draining, Storing, Goto, atomics, locals, history, Procs
<1>1. CASE NoWorkers
  BY <1>1 DEF NoWorkers
<1>2. CASE StartupAllAps
  BY <1>2 DEF StartupAllAps
<1>3. CASE WaitReady
  BY <1>3 DEF WaitReady
<1>4. CASE CountReady
  BY <1>4 DEF CountReady
<1>5. CASE Activate
  BY <1>5 DEF Activate
<1>6. CASE RunInline
  BY <1>6 DEF RunInline
<1>7. CASE ReturnInline
  BY <1>7 DEF ReturnInline
<1>8. CASE StoreTotal
  BY <1>8 DEF StoreTotal
<1>9. CASE StoreCursor
  BY <1>9 DEF StoreCursor
<1>10. CASE StoreChunk
  BY <1>10 DEF StoreChunk
<1>11. CASE StoreDone
  BY <1>11 DEF StoreDone
<1>12. CASE StoreTask
  BY <1>12 DEF StoreTask
<1>13. CASE Post
  BY <1>13 DEF Post
<1>14. CASE Return
  BY <1>14 DEF Return
<1>15. ASSUME NEW t \in Totals, Call(t) PROVE TypeOK'
  <2> HIDE DEF TypeOK, AtLeast, AtMost, Draining, Storing, Goto, atomics, locals, history, Procs
  <2>1. t \in Nat /\ seq \in Nat /\ workers \in Nat /\ Main \in Procs
    BY DEF TypeOK, Procs
  <2>2. runs' \in [DOMAIN runs' -> Nat] /\ n' \in Nat /\ arg' \in Nat
    BY <1>15, <2>1 DEF Call
  <2>3. CASE pc' = [pc EXCEPT ![Main] = "inline"] /\ live' = live
    BY <1>15, <2>1, <2>2, <2>3 DEF Call, TypeOK, Draining, Storing, atomics, locals
  <2>4. CASE pc' = [pc EXCEPT ![Main] = "total"] /\ live' = seq + 1
    <3>1. live' \in Nat
      BY <2>1, <2>4
    <3> QED
      BY <1>15, <3>1, <2>1, <2>2, <2>4 DEF Call, TypeOK, Draining, Storing, atomics, locals
  <2> QED
    BY <1>15, <2>3, <2>4 DEF Call, Goto
<1>16. ASSUME NEW w \in Workers, Enter(w) PROVE TypeOK'
  BY <1>16 DEF Enter
<1>17. ASSUME NEW w \in Workers, Snapshot(w) PROVE TypeOK'
  BY <1>17 DEF Snapshot
<1>18. ASSUME NEW w \in Workers, Poll(w) PROVE TypeOK'
  BY <1>18 DEF Poll
<1>19. ASSUME NEW w \in Workers, FetchTask(w) PROVE TypeOK'
  BY <1>19 DEF FetchTask
<1>20. ASSUME NEW w \in Workers, BumpDone(w) PROVE TypeOK'
  BY <1>20 DEF BumpDone
<1>21. ASSUME NEW p \in Procs, LoadTotal(p) PROVE TypeOK'
  BY <1>21 DEF LoadTotal
<1>22. ASSUME NEW p \in Procs, LoadChunk(p) PROVE TypeOK'
  BY <1>22 DEF LoadChunk
<1>23. ASSUME NEW p \in Procs, Claim(p) PROVE TypeOK'
  BY <1>23 DEF Claim
<1>24. ASSUME NEW p \in Procs, Exec(p) PROVE TypeOK'
  BY <1>24 DEF Exec
<1>25. CASE UNCHANGED vars
  BY <1>25 DEF vars
<1> QED
  BY <1>1, <1>2, <1>3, <1>4, <1>5, <1>6, <1>7, <1>8, <1>9, <1>10, <1>11, <1>12,
     <1>13, <1>14, <1>15, <1>16, <1>17, <1>18, <1>19, <1>20, <1>21, <1>22, <1>23, <1>24, <1>25
  DEF Next, Bringup, Run, WorkerLoop, Drain

\* Control never crosses from the main core's code to the workers' or back.
LEMMA PcStep ==
    ASSUME TypeOK, PcInv, [Next]_vars
    PROVE  PcInv'
<1> USE PoolAssumption DEF TypeOK, PcInv, MainPc, WorkerPc, Posted, Busy, Draining, Storing, Goto, atomics, locals, history, Procs
<1>1. CASE NoWorkers
  BY <1>1 DEF NoWorkers
<1>2. CASE StartupAllAps
  BY <1>2 DEF StartupAllAps
<1>3. CASE WaitReady
  BY <1>3 DEF WaitReady
<1>4. CASE CountReady
  BY <1>4 DEF CountReady
<1>5. CASE Activate
  BY <1>5 DEF Activate
<1>6. CASE RunInline
  BY <1>6 DEF RunInline
<1>7. CASE ReturnInline
  BY <1>7 DEF ReturnInline
<1>8. CASE StoreTotal
  BY <1>8 DEF StoreTotal
<1>9. CASE StoreCursor
  BY <1>9 DEF StoreCursor
<1>10. CASE StoreChunk
  BY <1>10 DEF StoreChunk
<1>11. CASE StoreDone
  BY <1>11 DEF StoreDone
<1>12. CASE StoreTask
  BY <1>12 DEF StoreTask
<1>13. CASE Post
  BY <1>13 DEF Post
<1>14. CASE Return
  BY <1>14 DEF Return
<1>15. ASSUME NEW t \in Totals, Call(t) PROVE PcInv'
  BY <1>15 DEF Call
<1>16. ASSUME NEW w \in Workers, Enter(w) PROVE PcInv'
  BY <1>16 DEF Enter
<1>17. ASSUME NEW w \in Workers, Snapshot(w) PROVE PcInv'
  BY <1>17 DEF Snapshot
<1>18. ASSUME NEW w \in Workers, Poll(w) PROVE PcInv'
  BY <1>18 DEF Poll
<1>19. ASSUME NEW w \in Workers, FetchTask(w) PROVE PcInv'
  BY <1>19 DEF FetchTask
<1>20. ASSUME NEW w \in Workers, BumpDone(w) PROVE PcInv'
  BY <1>20 DEF BumpDone
<1>21. ASSUME NEW p \in Procs, LoadTotal(p) PROVE PcInv'
  BY <1>21 DEF LoadTotal
<1>22. ASSUME NEW p \in Procs, LoadChunk(p) PROVE PcInv'
  BY <1>22 DEF LoadChunk
<1>23. ASSUME NEW p \in Procs, Claim(p) PROVE PcInv'
  BY <1>23 DEF Claim
<1>24. ASSUME NEW p \in Procs, Exec(p) PROVE PcInv'
  BY <1>24 DEF Exec
<1>25. CASE UNCHANGED vars
  BY <1>25 DEF vars
<1> QED
  BY <1>1, <1>2, <1>3, <1>4, <1>5, <1>6, <1>7, <1>8, <1>9, <1>10, <1>11, <1>12,
     <1>13, <1>14, <1>15, <1>16, <1>17, <1>18, <1>19, <1>20, <1>21, <1>22, <1>23, <1>24, <1>25
  DEF Next, Bringup, Run, WorkerLoop, Drain

\* Bring-up under the deadline activates all the workers or none.
LEMMA ReadyStep ==
    ASSUME OnTime, TypeOK, PcInv, ReadyInv, [Next]_vars
    PROVE  ReadyInv'
<1> USE PoolAssumption, CardWorkers, EnteredCard
        DEF TypeOK, ReadyInv, Entered, NotEntered, AtMost, PcInv, MainPc, WorkerPc, Posted, Busy, Draining, Storing, Goto, atomics, locals, history, Procs
<1>1. CASE NoWorkers
  BY <1>1 DEF NoWorkers
<1>2. CASE StartupAllAps
  <2>1. Entered = {} /\ Entered' = {}
    BY <1>2 DEF StartupAllAps
  <2> QED
    BY <1>2, <2>1, FS_EmptySet DEF StartupAllAps
<1>3. CASE WaitReady
  BY <1>3 DEF WaitReady
<1>4. CASE CountReady
  BY <1>4 DEF CountReady
<1>5. CASE Activate
  BY <1>5 DEF Activate
<1>6. CASE RunInline
  BY <1>6 DEF RunInline
<1>7. CASE ReturnInline
  BY <1>7 DEF ReturnInline
<1>8. CASE StoreTotal
  BY <1>8 DEF StoreTotal
<1>9. CASE StoreCursor
  BY <1>9 DEF StoreCursor
<1>10. CASE StoreChunk
  BY <1>10 DEF StoreChunk
<1>11. CASE StoreDone
  BY <1>11 DEF StoreDone
<1>12. CASE StoreTask
  BY <1>12 DEF StoreTask
<1>13. CASE Post
  BY <1>13 DEF Post
<1>14. CASE Return
  BY <1>14 DEF Return
<1>15. ASSUME NEW t \in Totals, Call(t) PROVE ReadyInv'
  BY <1>15 DEF Call
<1>16. ASSUME NEW w \in Workers, Enter(w) PROVE ReadyInv'
  <2>1. w \notin Entered /\ Entered' = Entered \cup {w} /\ Entered \subseteq Workers
    BY <1>16 DEF Enter
  <2>2. Cardinality(Entered') = Cardinality(Entered) + 1 /\ Entered # Workers
    <3> HIDE DEF Entered
    <3> QED
      BY <2>1, SubsetCard
  <2>3. pc'[Main] = pc[Main] /\ ready' = Cardinality(Entered') /\ pc[Main] # "boot"
    <3> HIDE DEF Entered
    <3> QED
      BY <1>16, <2>2 DEF Enter
  <2>4. pc[Main] \notin {"count", "activate"} /\ workers = 0 /\ UNCHANGED <<workers, n>>
    <3> HIDE DEF Entered
    <3> QED
      BY <1>16, <2>2 DEF Enter
  <2> QED
    BY <2>3, <2>4
<1>17. ASSUME NEW w \in Workers, Snapshot(w) PROVE ReadyInv'
  BY <1>17 DEF Snapshot
<1>18. ASSUME NEW w \in Workers, Poll(w) PROVE ReadyInv'
  BY <1>18 DEF Poll
<1>19. ASSUME NEW w \in Workers, FetchTask(w) PROVE ReadyInv'
  BY <1>19 DEF FetchTask
<1>20. ASSUME NEW w \in Workers, BumpDone(w) PROVE ReadyInv'
  BY <1>20 DEF BumpDone
<1>21. ASSUME NEW p \in Procs, LoadTotal(p) PROVE ReadyInv'
  BY <1>21 DEF LoadTotal
<1>22. ASSUME NEW p \in Procs, LoadChunk(p) PROVE ReadyInv'
  BY <1>22 DEF LoadChunk
<1>23. ASSUME NEW p \in Procs, Claim(p) PROVE ReadyInv'
  <2>1. CASE cursor >= tot[p]
    BY <1>23, <2>1, ZenonT(40) DEF Claim
  <2>2. CASE ~(cursor >= tot[p])
    BY <1>23, <2>2 DEF Claim
  <2> QED
    BY <2>1, <2>2
<1>24. ASSUME NEW p \in Procs, Exec(p) PROVE ReadyInv'
  BY <1>24 DEF Exec
<1>25. CASE UNCHANGED vars
  BY <1>25 DEF vars
<1> QED
  BY <1>1, <1>2, <1>3, <1>4, <1>5, <1>6, <1>7, <1>8, <1>9, <1>10, <1>11, <1>12,
     <1>13, <1>14, <1>15, <1>16, <1>17, <1>18, <1>19, <1>20, <1>21, <1>22, <1>23, <1>24, <1>25
  DEF Next, Bringup, Run, WorkerLoop, Drain

\* A job is over only when every worker has been counted for it.
LEMMA JobStep ==
    ASSUME TypeOK, PcInv, ReadyInv, JobInv, [Next]_vars
    PROVE  JobInv'
<1> USE PoolAssumption, CardWorkers
        DEF TypeOK, ReadyInv, JobInv, PcInv, MainPc, WorkerPc, Posted, Busy, Draining, Storing, Goto, atomics, locals, history, Procs
<1>1. CASE NoWorkers
  BY <1>1 DEF NoWorkers
<1>2. CASE StartupAllAps
  BY <1>2 DEF StartupAllAps
<1>3. CASE WaitReady
  BY <1>3 DEF WaitReady
<1>4. CASE CountReady
  BY <1>4 DEF CountReady
<1>5. CASE Activate
  BY <1>5 DEF Activate
<1>6. CASE RunInline
  BY <1>6 DEF RunInline
<1>7. CASE ReturnInline
  BY <1>7 DEF ReturnInline
<1>8. CASE StoreTotal
  BY <1>8 DEF StoreTotal
<1>9. CASE StoreCursor
  BY <1>9 DEF StoreCursor
<1>10. CASE StoreChunk
  BY <1>10 DEF StoreChunk
<1>11. CASE StoreDone
  BY <1>11, FS_EmptySet DEF StoreDone
<1>12. CASE StoreTask
  BY <1>12 DEF StoreTask
<1>13. CASE Post
  BY <1>13 DEF Post
<1>14. CASE Return
  <2>1. Cardinality(bumped) >= Cardinality(Workers) /\ bumped \in SUBSET Workers
    BY <1>14 DEF Return
  <2>2. bumped = Workers
    BY <2>1, SubsetCard
  <2> QED
    BY <1>14, <2>2 DEF Return
<1>15. ASSUME NEW t \in Totals, Call(t) PROVE JobInv'
  BY <1>15 DEF Call
<1>16. ASSUME NEW w \in Workers, Enter(w) PROVE JobInv'
  BY <1>16 DEF Enter
<1>17. ASSUME NEW w \in Workers, Snapshot(w) PROVE JobInv'
  BY <1>17 DEF Snapshot
<1>18. ASSUME NEW w \in Workers, Poll(w) PROVE JobInv'
  BY <1>18 DEF Poll
<1>19. ASSUME NEW w \in Workers, FetchTask(w) PROVE JobInv'
  BY <1>19 DEF FetchTask
<1>20. ASSUME NEW w \in Workers, BumpDone(w) PROVE JobInv'
  <2>1. pc[Main] \in Posted /\ pc'[Main] = pc[Main] /\ w \notin bumped /\ bumped \in SUBSET Workers
    BY <1>20 DEF BumpDone
  <2>2. done' = Cardinality(bumped')
    BY <1>20, <2>1, SubsetCard DEF BumpDone
  <2> QED
    BY <1>20, <2>1, <2>2 DEF BumpDone
<1>21. ASSUME NEW p \in Procs, LoadTotal(p) PROVE JobInv'
  BY <1>21 DEF LoadTotal
<1>22. ASSUME NEW p \in Procs, LoadChunk(p) PROVE JobInv'
  BY <1>22 DEF LoadChunk
<1>23. ASSUME NEW p \in Procs, Claim(p) PROVE JobInv'
  BY <1>23 DEF Claim
<1>24. ASSUME NEW p \in Procs, Exec(p) PROVE JobInv'
  BY <1>24 DEF Exec
<1>25. CASE UNCHANGED vars
  BY <1>25 DEF vars
<1> QED
  BY <1>1, <1>2, <1>3, <1>4, <1>5, <1>6, <1>7, <1>8, <1>9, <1>10, <1>11, <1>12,
     <1>13, <1>14, <1>15, <1>16, <1>17, <1>18, <1>19, <1>20, <1>21, <1>22, <1>23, <1>24, <1>25
  DEF Next, Bringup, Run, WorkerLoop, Drain

\* No process holds a Task other than the one alive.
LEMMA TaskStep ==
    ASSUME TypeOK, PcInv, JobInv, JobInv', TaskInv, [Next]_vars
    PROVE  TaskInv'
<1> USE PoolAssumption DEF TypeOK, JobInv, TaskInv, PcInv, MainPc, WorkerPc, Posted, Busy, Draining, Storing, Goto, atomics, locals, history, Procs
<1>1. CASE NoWorkers
  BY <1>1 DEF NoWorkers
<1>2. CASE StartupAllAps
  BY <1>2 DEF StartupAllAps
<1>3. CASE WaitReady
  BY <1>3 DEF WaitReady
<1>4. CASE CountReady
  BY <1>4 DEF CountReady
<1>5. CASE Activate
  BY <1>5 DEF Activate
<1>6. CASE RunInline
  BY <1>6 DEF RunInline
<1>7. CASE ReturnInline
  BY <1>7 DEF ReturnInline
<1>8. CASE StoreTotal
  BY <1>8 DEF StoreTotal
<1>9. CASE StoreCursor
  BY <1>9 DEF StoreCursor
<1>10. CASE StoreChunk
  BY <1>10 DEF StoreChunk
<1>11. CASE StoreDone
  BY <1>11 DEF StoreDone
<1>12. CASE StoreTask
  BY <1>12 DEF StoreTask
<1>13. CASE Post
  BY <1>13 DEF Post
<1>14. CASE Return
  <2>1. \A q \in Procs : pc'[q] \notin Draining
    BY <1>14 DEF Return
  <2> QED
    BY <1>14, <2>1 DEF Return
<1>15. ASSUME NEW t \in Totals, Call(t) PROVE TaskInv'
  <2>1. \A q \in Procs : pc'[q] \notin Draining
    BY <1>15 DEF Call
  <2> HIDE DEF TypeOK, JobInv, PcInv, MainPc, WorkerPc, Draining, atomics, locals, history
  <2>2. seq \in Nat /\ pc \in [Procs -> {pc[q] : q \in Procs}] /\ Main \in Procs
    BY DEF TypeOK
  <2>3. (live' # 0 /\ pc'[Main] = "total") \/ pc'[Main] = "inline"
    BY <1>15, <2>2 DEF Call
  <2> QED
    BY <2>1, <2>3 DEF Draining
<1>16. ASSUME NEW w \in Workers, Enter(w) PROVE TaskInv'
  BY <1>16 DEF Enter
<1>17. ASSUME NEW w \in Workers, Snapshot(w) PROVE TaskInv'
  BY <1>17 DEF Snapshot
<1>18. ASSUME NEW w \in Workers, Poll(w) PROVE TaskInv'
  BY <1>18 DEF Poll
<1>19. ASSUME NEW w \in Workers, FetchTask(w) PROVE TaskInv'
  BY <1>19 DEF FetchTask
<1>20. ASSUME NEW w \in Workers, BumpDone(w) PROVE TaskInv'
  BY <1>20 DEF BumpDone
<1>21. ASSUME NEW p \in Procs, LoadTotal(p) PROVE TaskInv'
  BY <1>21 DEF LoadTotal
<1>22. ASSUME NEW p \in Procs, LoadChunk(p) PROVE TaskInv'
  BY <1>22 DEF LoadChunk
<1>23. ASSUME NEW p \in Procs, Claim(p) PROVE TaskInv'
  BY <1>23 DEF Claim
<1>24. ASSUME NEW p \in Procs, Exec(p) PROVE TaskInv'
  BY <1>24 DEF Exec
<1>25. CASE UNCHANGED vars
  BY <1>25 DEF vars
<1> QED
  BY <1>1, <1>2, <1>3, <1>4, <1>5, <1>6, <1>7, <1>8, <1>9, <1>10, <1>11, <1>12,
     <1>13, <1>14, <1>15, <1>16, <1>17, <1>18, <1>19, <1>20, <1>21, <1>22, <1>23, <1>24, <1>25
  DEF Next, Bringup, Run, WorkerLoop, Drain

\* A job's total and chunk do not change under the processes working on it.
LEMMA ShareStep ==
    ASSUME TypeOK, PcInv, JobInv, ShareInv, [Next]_vars
    PROVE  ShareInv'
<1> USE PoolAssumption DEF TypeOK, JobInv, ShareInv, AtLeast, PcInv, MainPc, WorkerPc, Posted, Busy, Draining, Storing, Goto, atomics, locals, history, Procs
<1>1. CASE NoWorkers
  BY <1>1 DEF NoWorkers
<1>2. CASE StartupAllAps
  BY <1>2 DEF StartupAllAps
<1>3. CASE WaitReady
  BY <1>3 DEF WaitReady
<1>4. CASE CountReady
  BY <1>4 DEF CountReady
<1>5. CASE Activate
  BY <1>5 DEF Activate
<1>6. CASE RunInline
  BY <1>6 DEF RunInline
<1>7. CASE ReturnInline
  BY <1>7 DEF ReturnInline
<1>8. CASE StoreTotal
  BY <1>8 DEF StoreTotal
<1>9. CASE StoreCursor
  BY <1>9 DEF StoreCursor
<1>10. CASE StoreChunk
  BY <1>10 DEF StoreChunk
<1>11. CASE StoreDone
  BY <1>11 DEF StoreDone
<1>12. CASE StoreTask
  BY <1>12 DEF StoreTask
<1>13. CASE Post
  BY <1>13 DEF Post
<1>14. CASE Return
  BY <1>14 DEF Return
<1>15. ASSUME NEW t \in Totals, Call(t) PROVE ShareInv'
  BY <1>15 DEF Call
<1>16. ASSUME NEW w \in Workers, Enter(w) PROVE ShareInv'
  BY <1>16 DEF Enter
<1>17. ASSUME NEW w \in Workers, Snapshot(w) PROVE ShareInv'
  BY <1>17 DEF Snapshot
<1>18. ASSUME NEW w \in Workers, Poll(w) PROVE ShareInv'
  BY <1>18 DEF Poll
<1>19. ASSUME NEW w \in Workers, FetchTask(w) PROVE ShareInv'
  BY <1>19 DEF FetchTask
<1>20. ASSUME NEW w \in Workers, BumpDone(w) PROVE ShareInv'
  BY <1>20 DEF BumpDone
<1>21. ASSUME NEW p \in Procs, LoadTotal(p) PROVE ShareInv'
  BY <1>21 DEF LoadTotal
<1>22. ASSUME NEW p \in Procs, LoadChunk(p) PROVE ShareInv'
  BY <1>22 DEF LoadChunk
<1>23. ASSUME NEW p \in Procs, Claim(p) PROVE ShareInv'
  BY <1>23, SMTT(20) DEF Claim
<1>24. ASSUME NEW p \in Procs, Exec(p) PROVE ShareInv'
  <2>1. runs' \in [0..(arg - 1) -> Nat]
    <3>1. runs \in [0..(arg - 1) -> Nat]
      OBVIOUS
    <3> HIDE DEF TypeOK, JobInv, ShareInv, PcInv
    <3> QED
      BY <1>24, <3>1 DEF Exec
  <2> QED
    BY <1>24, <2>1 DEF Exec
<1>25. CASE UNCHANGED vars
  BY <1>25 DEF vars
<1> QED
  BY <1>1, <1>2, <1>3, <1>4, <1>5, <1>6, <1>7, <1>8, <1>9, <1>10, <1>11, <1>12,
     <1>13, <1>14, <1>15, <1>16, <1>17, <1>18, <1>19, <1>20, <1>21, <1>22, <1>23, <1>24, <1>25
  DEF Next, Bringup, Run, WorkerLoop, Drain

\* Every row below the cursor is run once or is being run by one process.
LEMMA RowStep ==
    ASSUME TypeOK, PcInv, JobInv, JobInv', ShareInv, ShareInv', RowInv, [Next]_vars
    PROVE  RowInv'
<1> USE PoolAssumption DEF TypeOK, JobInv, ShareInv, RowInv, Covered, AtLeast, AtMost,
        PcInv, MainPc, WorkerPc, Posted, Busy, Draining, Storing, Goto, atomics, locals, history, Procs
<1>1. CASE NoWorkers
  BY <1>1 DEF NoWorkers
<1>2. CASE StartupAllAps
  BY <1>2 DEF StartupAllAps
<1>3. CASE WaitReady
  BY <1>3 DEF WaitReady
<1>4. CASE CountReady
  BY <1>4 DEF CountReady
<1>5. CASE Activate
  BY <1>5 DEF Activate
<1>6. CASE RunInline
  BY <1>6 DEF RunInline
<1>7. CASE ReturnInline
  BY <1>7 DEF ReturnInline
<1>8. CASE StoreTotal
  BY <1>8 DEF StoreTotal
<1>9. CASE StoreCursor
  BY <1>9 DEF StoreCursor
<1>10. CASE StoreChunk
  BY <1>10 DEF StoreChunk
<1>11. CASE StoreDone
  BY <1>11 DEF StoreDone
<1>12. CASE StoreTask
  BY <1>12 DEF StoreTask
<1>13. CASE Post
  BY <1>13 DEF Post
<1>14. CASE Return
  <2>1. \A q \in Procs : pc[q] # "exec" /\ pc'[q] # "exec"
    BY <1>14 DEF Return
  <2>2. cursor >= arg /\ \A r \in 0..(arg - 1) : runs[r] = 1
    BY <1>14, <2>1 DEF Return
  <2> QED
    BY <1>14, <2>1, <2>2 DEF Return
<1>15. ASSUME NEW t \in Totals, Call(t) PROVE RowInv'
  BY <1>15 DEF Call
<1>16. ASSUME NEW w \in Workers, Enter(w) PROVE RowInv'
  BY <1>16, ZenonT(40) DEF Enter
<1>17. ASSUME NEW w \in Workers, Snapshot(w) PROVE RowInv'
  BY <1>17, ZenonT(40) DEF Snapshot
<1>18. ASSUME NEW w \in Workers, Poll(w) PROVE RowInv'
  BY <1>18, ZenonT(40) DEF Poll
<1>19. ASSUME NEW w \in Workers, FetchTask(w) PROVE RowInv'
  BY <1>19 DEF FetchTask
<1>20. ASSUME NEW w \in Workers, BumpDone(w) PROVE RowInv'
  BY <1>20, ZenonT(40) DEF BumpDone
<1>21. ASSUME NEW p \in Procs, LoadTotal(p) PROVE RowInv'
  BY <1>21, ZenonT(40) DEF LoadTotal
<1>22. ASSUME NEW p \in Procs, LoadChunk(p) PROVE RowInv'
  BY <1>22, ZenonT(40) DEF LoadChunk
<1>23. ASSUME NEW p \in Procs, Claim(p) PROVE RowInv'
  <2> HIDE DEF TypeOK, JobInv, ShareInv, RowInv, Covered, AtLeast, AtMost, PcInv, MainPc, WorkerPc,
               Posted, Busy, Draining, Storing, Goto, atomics, locals, history, Procs
  <2>1. /\ arg \in Nat /\ cursor \in Nat /\ chunk \in Nat
        /\ lo \in [Procs -> Nat] /\ hi \in [Procs -> Nat] /\ DOMAIN pc = Procs
        /\ Main \in Procs
    BY DEF TypeOK, Procs
  <2>2. tot[p] = arg /\ chk[p] \in Nat /\ chk[p] >= 1
    <3>1. pc[p] = "claim"
      BY <1>23 DEF Claim
    <3>2. tot[p] = arg /\ chk[p] = AtLeast(chunk, 1)
      BY <3>1 DEF ShareInv
    <3> QED
      BY <2>1, <3>2 DEF AtLeast
  <2>3. pc[Main] \in Posted
    BY <1>23 DEF Claim, JobInv, Posted, Busy, Draining, Procs
  <2>4. UNCHANGED <<arg, runs>> /\ cursor' = cursor + chk[p]
    BY <1>23 DEF Claim, history
  <2>5. CASE cursor >= tot[p]
    <3>1. /\ UNCHANGED <<lo, hi>>
          /\ \A q \in Procs : pc'[q] = "exec" <=> pc[q] = "exec"
          /\ \A q \in Procs \ {p} : pc'[q] = pc[q]
          /\ pc'[p] = IF p = Main THEN "spin" ELSE "bump"
      BY <1>23, <2>1, <2>5 DEF Claim, Goto
    <3>2. \A r \in 0..(arg - 1) : Covered(r)' <=> Covered(r)
      BY <3>1 DEF Covered
    <3>3. \A r \in 0..(arg - 1) : runs'[r] = IF r < cursor' /\ ~Covered(r)' THEN 1 ELSE 0
      BY <2>1, <2>2, <2>3, <2>4, <2>5, <3>2 DEF RowInv
    <3>4. cursor' >= arg /\ cursor' >= cursor /\ cursor' \in Nat
      BY <2>1, <2>2, <2>4, <2>5
    <3>5. pc'[Main] \in Posted
      BY <2>1, <2>3, <3>1 DEF Posted
    <3>6. \A q \in Procs : pc'[q] = "exec" => hi'[q] <= cursor'
      BY <2>1, <3>1, <3>4 DEF RowInv
    <3> QED
      BY <2>4, <3>1, <3>3, <3>4, <3>5, <3>6 DEF RowInv, Posted, Storing, Draining
  <2>6. CASE cursor < tot[p]
    <3>1. /\ pc' = [pc EXCEPT ![p] = "exec"]
          /\ lo' = [lo EXCEPT ![p] = cursor]
          /\ hi' = [hi EXCEPT ![p] = AtMost(cursor + chk[p], arg)]
      BY <1>23, <2>1, <2>2, <2>6 DEF Claim, Goto
    <3>2. /\ lo'[p] = cursor /\ hi'[p] \in Nat /\ hi'[p] <= cursor'
          /\ \A r \in 0..(arg - 1) : r < cursor' <=> r < cursor \/ r < hi'[p]
      BY <2>1, <2>2, <2>4, <2>6, <3>1 DEF AtMost
    <3>3. ASSUME NEW r \in 0..(arg - 1)
          PROVE  Covered(r)' <=> Covered(r) \/ (cursor <= r /\ r < hi'[p])
      BY <1>23, <2>1, <3>1, <3>2 DEF Covered, Claim
    <3>4. \A r \in 0..(arg - 1) : runs'[r] = IF r < cursor' /\ ~Covered(r)' THEN 1 ELSE 0
      <4>1. \A r \in 0..(arg - 1) : Covered(r) => r < cursor
        BY <2>1 DEF RowInv, Covered
      <4> QED
        BY <2>1, <2>3, <2>4, <3>2, <3>3, <4>1 DEF RowInv
    <3>5. \A q \in Procs : pc'[q] = "exec" => hi'[q] <= cursor'
      BY <2>1, <2>2, <2>4, <3>1, <3>2 DEF RowInv
    <3>6. \A q, q2 \in Procs : q # q2 /\ pc'[q] = "exec" /\ pc'[q2] = "exec"
                                  => hi'[q] <= lo'[q2] \/ hi'[q2] <= lo'[q]
      BY <2>1, <3>1, <3>2 DEF RowInv
    <3>7. pc'[Main] \in Posted \ {"spin"}
      BY <1>23, <2>1, <2>2, <2>3, <2>6, <3>1 DEF Posted, Claim, Draining, RowInv
    <3> QED
      BY <2>4, <3>4, <3>5, <3>6, <3>7 DEF RowInv, Posted, Storing, Draining
  <2> QED
    BY <2>1, <2>2, <2>5, <2>6
<1>24. ASSUME NEW p \in Procs, Exec(p) PROVE RowInv'
  <2> HIDE DEF TypeOK, JobInv, ShareInv, RowInv, Covered, AtLeast, AtMost, PcInv, MainPc, WorkerPc,
               Posted, Busy, Draining, Storing, Goto, atomics, locals, history, Procs
  <2>1. /\ arg \in Nat /\ cursor \in Nat /\ runs \in [0..(arg - 1) -> Nat]
        /\ lo \in [Procs -> Nat] /\ hi \in [Procs -> Nat] /\ DOMAIN pc = Procs
        /\ Main \in Procs
    BY DEF TypeOK, ShareInv, Procs
  <2>2. pc[Main] \in Posted
    BY <1>24 DEF Exec, JobInv, Posted, Busy, Draining, Procs
  <2>3. /\ pc' = [pc EXCEPT ![p] = "claim"]
        /\ UNCHANGED <<arg, cursor, lo, hi>>
    BY <1>24 DEF Exec, Goto, atomics, locals
  <2>4. ASSUME NEW r \in 0..(arg - 1)
        PROVE  Covered(r)' <=> Covered(r) /\ ~(lo[p] <= r /\ r < hi[p])
    <3>1. pc[p] = "exec" /\ \A q \in Procs : pc'[q] = "exec" <=> q # p /\ pc[q] = "exec"
      BY <1>24, <2>1, <2>3 DEF Exec
    <3>2. \A q \in Procs \ {p} : pc[q] = "exec" => hi[p] <= lo[q] \/ hi[q] <= lo[p]
      BY <3>1 DEF RowInv
    <3>3. Covered(r)' <=> \E q \in Procs \ {p} : pc[q] = "exec" /\ lo[q] <= r /\ r < hi[q]
      BY <2>3, <3>1 DEF Covered
    <3>4. Covered(r) <=> \/ lo[p] <= r /\ r < hi[p]
                         \/ \E q \in Procs \ {p} : pc[q] = "exec" /\ lo[q] <= r /\ r < hi[q]
      BY <3>1 DEF Covered
    <3>5. ASSUME NEW q \in Procs \ {p}, pc[q] = "exec", lo[q] <= r, r < hi[q]
          PROVE  ~(lo[p] <= r /\ r < hi[p])
      <4>1. lo[p] \in Nat /\ hi[p] \in Nat /\ lo[q] \in Nat /\ hi[q] \in Nat /\ r \in Nat
        BY <2>1
      <4>2. hi[p] <= lo[q] \/ hi[q] <= lo[p]
        BY <3>2, <3>5
      <4> QED
        BY <3>5, <4>1, <4>2
    <3> QED
      BY <3>3, <3>4, <3>5
  <2>5. ASSUME NEW r \in 0..(arg - 1)
        PROVE  runs'[r] = IF r < cursor' /\ ~Covered(r)' THEN 1 ELSE 0
    <3>1. CASE lo[p] <= r /\ r < hi[p]
      <4>1. Covered(r) /\ r < cursor /\ runs[r] = 0
        BY <1>24, <2>1, <2>2, <3>1 DEF Exec, Covered, RowInv
      <4>2. runs'[r] = 1
        BY <1>24, <2>1, <3>1, <4>1 DEF Exec
      <4> QED
        BY <2>3, <2>4, <3>1, <4>1, <4>2
    <3>2. CASE ~(lo[p] <= r /\ r < hi[p])
      <4>1. runs'[r] = runs[r]
        BY <1>24, <2>1, <3>2 DEF Exec
      <4> QED
        BY <2>2, <2>3, <2>4, <3>2, <4>1 DEF RowInv
    <3> QED
      BY <3>1, <3>2
  <2>6. pc'[Main] \in Posted /\ (pc'[Main] = "spin" => pc[Main] = "spin")
    BY <2>1, <2>2, <2>3 DEF Posted, Draining
  <2> QED
    BY <2>1, <2>3, <2>5, <2>6 DEF RowInv, Posted, Storing, Draining
<1>25. CASE UNCHANGED vars
  BY <1>25 DEF vars
<1> QED
  BY <1>1, <1>2, <1>3, <1>4, <1>5, <1>6, <1>7, <1>8, <1>9, <1>10, <1>11, <1>12,
     <1>13, <1>14, <1>15, <1>16, <1>17, <1>18, <1>19, <1>20, <1>21, <1>22, <1>23, <1>24, <1>25
  DEF Next, Bringup, Run, WorkerLoop, Drain

-----------------------------------------------------------------------------
LEMMA InitIInv == Init => IInv
<1> SUFFICES ASSUME Init PROVE IInv
  OBVIOUS
<1> USE PoolAssumption DEF Init, Procs
<1>1. Entered = {} /\ ready = Cardinality(Entered)
  BY FS_EmptySet DEF Entered, NotEntered
<1>2. TypeOK /\ PcInv
  BY DEF TypeOK, PcInv, MainPc, WorkerPc, Busy, Draining, Storing
<1>3. ReadyInv /\ JobInv /\ TaskInv
  BY <1>1 DEF ReadyInv, JobInv, TaskInv, Posted, Busy, Draining, Storing
<1>4. ShareInv /\ RowInv
  BY DEF ShareInv, RowInv, Posted, Draining, Storing
<1> QED
  BY <1>2, <1>3, <1>4 DEF IInv

LEMMA NextIInv ==
    ASSUME OnTime, IInv, [Next]_vars
    PROVE  IInv'
<1> USE DEF IInv
<1>1. TypeOK' /\ PcInv'
  BY TypeStep, PcStep
<1>2. ReadyInv' /\ JobInv'
  BY ReadyStep, JobStep
<1>3. TaskInv' /\ ShareInv'
  BY <1>2, TaskStep, ShareStep
<1>4. RowInv'
  BY <1>2, <1>3, RowStep
<1> QED
  BY <1>1, <1>2, <1>3, <1>4

\* The type invariant holds of the pool whatever the processors' speed.
THEOREM TypeCorrect == Spec => []TypeOK
<1>1. Init => TypeOK
  BY InitIInv DEF IInv
<1>2. TypeOK /\ [Next]_vars => TypeOK'
  BY TypeStep
<1> QED
  BY <1>1, <1>2, PTL DEF Spec

LEMMA IInvAlways == ASSUME OnTime PROVE Spec => []IInv
<1>1. Init => IInv
  BY InitIInv
<1>2. IInv /\ [Next]_vars => IInv'
  BY NextIInv
<1> QED
  BY <1>1, <1>2, PTL DEF Spec

\* When every AP is ready by the deadline, no worker ever uses a Task that
\* "run" has already dropped: the SAFETY comment in worker_loop is right.
THEOREM TaskLifetime == ASSUME OnTime PROVE Spec => []TaskAlive
<1>1. IInv => TaskAlive
  BY DEF IInv, PcInv, WorkerPc, JobInv, TaskInv, TaskAlive, Posted, Busy, Draining, Procs
<1> QED
  BY <1>1, IInvAlways, PTL

LEMMA RangesDisjointI == ASSUME IInv PROVE DisjointRanges
<1>1. SUFFICES ASSUME NEW p \in Procs, pc[p] = "exec",
                      NEW r \in DOMAIN runs, lo[p] <= r, r < hi[p]
               PROVE  runs[r] = 0
  BY DEF IInv, RowInv, DisjointRanges
<1>2. r \in 0..(arg - 1) /\ Covered(r)
  BY <1>1 DEF IInv, ShareInv, Covered
<1>3. pc[Main] \in Posted
  BY <1>1 DEF IInv, JobInv, Posted, Busy, Draining, Procs
<1> QED
  BY <1>2, <1>3 DEF IInv, RowInv

\* When every AP is ready by the deadline, the ranges handed to the closure
\* never overlap, at the same time or in sequence.
THEOREM RangesDisjoint == ASSUME OnTime PROVE Spec => []DisjointRanges
<1>1. IInv => DisjointRanges
  BY RangesDisjointI
<1> QED
  BY <1>1, IInvAlways, PTL

\* When every AP is ready by the deadline, a "run" that returns has run every
\* row exactly once and has no worker left inside it.
THEOREM RunIsBarrier == ASSUME OnTime PROVE Spec => []ReturnComplete
<1>1. IInv => ReturnComplete
  BY DEF IInv, JobInv, ShareInv, RowInv, ReturnComplete, Posted, Busy, Draining
<1> QED
  BY <1>1, IInvAlways, PTL

\* When every AP is ready by the deadline, the pool implements the parallel
\* loop: the promise every kernel that calls "run" relies on.
THEOREM PoolIsLoop == ASSUME OnTime PROVE Spec => ImplementsLoop
<1>1. Init => Loop!Init
  BY DEF Init, Loop!Init, InRun, Procs
<1>2. ASSUME IInv, [Next]_vars PROVE [Loop!Next]_<<InRun, runs>>
  <2> USE <1>2, PoolAssumption DEF IInv, InRun
  <2>0. Main \in Procs /\ DOMAIN pc = Procs /\ runs \in [0..(arg - 1) -> Nat]
    BY DEF TypeOK, Procs, ShareInv
  <2>1. ASSUME NEW t \in Totals, Call(t) PROVE Loop!Call(t)
    BY <2>0, <2>1 DEF Call, Loop!Call, Goto
  <2>2. CASE RunInline
    <3>1. \A r \in DOMAIN runs : runs[r] = 0 /\ runs'[r] = 1
      BY <2>0, <2>2 DEF RunInline, RowInv
    <3> QED
      BY <2>0, <2>2, <3>1 DEF RunInline, Loop!RunRows, Loop!Next, Goto
  <2>3. CASE ReturnInline
    BY <2>0, <2>3 DEF ReturnInline, Loop!Finish, Loop!Next, Goto, RowInv, history
  <2>4. CASE Return
    <3>1. ReturnComplete'
      BY NextIInv DEF JobInv, ShareInv, RowInv, ReturnComplete, Posted, Busy, Draining
    <3> QED
      BY <2>0, <2>4, <3>1 DEF Return, Loop!Finish, Loop!Next, Goto, ReturnComplete
  <2>5. ASSUME NEW p \in Procs, Exec(p) PROVE Loop!RunRows
    <3>1. DisjointRanges
      BY RangesDisjointI
    <3>2. InRun
      BY <2>5 DEF Exec, JobInv, Posted, Busy, Draining, Procs
    <3>3. InRun' = InRun
      BY <2>0, <2>5, <3>2 DEF Exec, Goto
    <3> QED
      BY <2>0, <2>5, <3>1, <3>2, <3>3 DEF Exec, Loop!RunRows, DisjointRanges
  <2>6. CASE Bringup
    BY <2>0, <2>6 DEF Bringup, NoWorkers, StartupAllAps, WaitReady, CountReady, Activate, Goto, history
  <2>7. CASE StoreTotal \/ StoreCursor \/ StoreChunk \/ StoreDone \/ StoreTask \/ Post
    BY <2>0, <2>7 DEF StoreTotal, StoreCursor, StoreChunk, StoreDone, StoreTask, Post, Goto, history
  <2>8. ASSUME NEW p \in Procs, LoadTotal(p) \/ LoadChunk(p) \/ Claim(p)
        PROVE  UNCHANGED <<InRun, runs>>
    BY <2>0, <2>8 DEF LoadTotal, LoadChunk, Claim, Goto, history
  <2>9. ASSUME NEW w \in Workers, Enter(w) \/ Snapshot(w) \/ Poll(w) \/ FetchTask(w) \/ BumpDone(w)
        PROVE  UNCHANGED <<InRun, runs>>
    BY <2>0, <2>9 DEF Enter, Snapshot, Poll, FetchTask, BumpDone, Goto, history
  <2>10. CASE UNCHANGED vars
    BY <2>10 DEF vars, history
  <2> QED
    BY <2>1, <2>2, <2>3, <2>4, <2>5, <2>6, <2>7, <2>8, <2>9, <2>10
    DEF Next, Run, WorkerLoop, Drain, Procs, Loop!Next
<1> QED
  BY <1>1, <1>2, IInvAlways, PTL DEF Spec, ImplementsLoop, Loop!Spec
=============================================================================
