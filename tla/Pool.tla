-------------------------------- MODULE Pool --------------------------------
(***************************************************************************)
(* The spin-worker pool that splits matrix rows across cores               *)
(* (crates/nr-tensor/src/parallel.rs) and its bring-up on UEFI             *)
(* (crates/nr-boot/src/smp.rs).                                            *)
(*                                                                         *)
(* Every SeqCst access of an atomic is one step.  The main core and the    *)
(* workers (application processors) are the processes; "pc" names the      *)
(* access a process is about to make.  The pointer to a Task is modelled   *)
(* by the number of the job it was built for; "live" is the Task that is   *)
(* on the main core's stack, 0 when "run" has returned.                    *)
(***************************************************************************)
EXTENDS Integers, FiniteSets

CONSTANTS
    Workers,        \* the application processors that startup_all_aps starts
    Main,           \* the core that runs the application
    Totals,         \* the row counts "run" is called with
    InlineBelow,    \* "total < 128" runs inline
    MinChunk,       \* ".max(16)": the smallest chunk posted
    ChunksPerCore,  \* "(n + 1) * 4": chunks per participating core
    MaxJobs,        \* bound on the jobs posted to the pool
    OnTime          \* whether the processors keep the deadline, see below

(***************************************************************************)
(* The code relies on something about time that it does not enforce: every *)
(* AP counts itself ready within start_workers' 500 waits of 2 ms, so that *)
(* the wait never gives up on one that comes up later.  OnTime assumes it; *)
(* a run or a theorem that needs it says so.                               *)
(***************************************************************************)
ASSUME PoolAssumption ==
    /\ IsFiniteSet(Workers)
    /\ Main \notin Workers
    /\ Totals \subseteq Nat
    /\ InlineBelow \in Nat \ {0}
    /\ MinChunk \in Nat
    /\ ChunksPerCore \in Nat \ {0}
    /\ MaxJobs \in Nat
    /\ OnTime \in BOOLEAN

VARIABLES
    \* the atomics of struct Pool
    seq, cursor, total, chunk, done, task, workers, ready,
    \* where each process is, and its local variables
    pc, last, ptr, tot, chk, lo, hi,
    \* locals of "start_workers" and of "run" on the main core
    n, arg,
    \* history: the Task alive, how often each row of the job has been run,
    \* and who has bumped "done" since it was last cleared
    live, runs, bumped

atomics == <<seq, cursor, total, chunk, done, task, workers, ready>>
locals  == <<last, ptr, tot, chk, lo, hi>>
history == <<live, runs, bumped>>
vars    == <<atomics, pc, locals, n, arg, history>>

Procs == Workers \cup {Main}

AtLeast(x, y) == IF x < y THEN y ELSE x
AtMost(x, y)  == IF x > y THEN y ELSE x

NotEntered == {"off", "entry"}
Draining   == {"ltotal", "lchunk", "claim", "exec"}
Storing    == {"total", "cursor", "chunk", "done", "task", "seq"}

Goto(p, l) == pc' = [pc EXCEPT ![p] = l]

Init ==
    /\ seq = 0 /\ cursor = 0 /\ total = 0 /\ chunk = 1
    /\ done = 0 /\ task = 0 /\ workers = 0 /\ ready = 0
    /\ pc = [p \in Procs |-> IF p = Main THEN "boot" ELSE "off"]
    /\ last = [p \in Procs |-> 0] /\ ptr = [p \in Procs |-> 0]
    /\ tot = [p \in Procs |-> 0]  /\ chk = [p \in Procs |-> 0]
    /\ lo = [p \in Procs |-> 0]   /\ hi = [p \in Procs |-> 0]
    /\ n = 0 /\ arg = 0
    /\ live = 0 /\ runs = [r \in {} |-> 0] /\ bumped = {}

-----------------------------------------------------------------------------
(* start_workers *)

\* No MP services, busy, count failed, a single core, no event or a failed
\* startup: the pool stays without workers and everything runs inline.
NoWorkers ==
    /\ pc[Main] = "boot"
    /\ Goto(Main, "idle")
    /\ UNCHANGED <<atomics, locals, n, arg, history>>

\* startup_all_aps: every AP is about to run worker_entry.
StartupAllAps ==
    /\ pc[Main] = "boot"
    /\ Workers # {}
    /\ pc' = [p \in Procs |-> IF p = Main THEN "wait" ELSE "entry"]
    /\ UNCHANGED <<atomics, locals, n, arg, history>>

\* The wait loop ends when all have counted themselves ready, or after its
\* deadline with whoever has.
WaitReady ==
    /\ pc[Main] = "wait"
    /\ ready >= Cardinality(Workers) \/ ~OnTime
    /\ Goto(Main, "count")
    /\ UNCHANGED <<atomics, locals, n, arg, history>>

CountReady ==
    /\ pc[Main] = "count"
    /\ n' = AtMost(ready, Cardinality(Workers))
    /\ Goto(Main, IF n' = 0 THEN "idle" ELSE "activate")
    /\ UNCHANGED <<atomics, locals, arg, history>>

\* Mutant of Activate: the main core is counted as a worker.
ActivateOneMore ==
    /\ pc[Main] = "activate"
    /\ ready >= n
    /\ workers' = n + 1
    /\ Goto(Main, "idle")
    /\ UNCHANGED <<seq, cursor, total, chunk, done, task, ready, locals, n, arg, history>>

\* "assert!(ready >= n)": the core stops here if it fails.
Activate ==
    /\ pc[Main] = "activate"
    /\ ready >= n
    /\ workers' = n
    /\ Goto(Main, "idle")
    /\ UNCHANGED <<seq, cursor, total, chunk, done, task, ready, locals, n, arg, history>>

-----------------------------------------------------------------------------
(* worker_loop *)

Enter(w) ==
    /\ pc[w] = "entry"
    /\ ready' = ready + 1
    /\ Goto(w, "snap")
    /\ UNCHANGED <<seq, cursor, total, chunk, done, task, workers, locals, n, arg, history>>

\* let mut last = self.seq.load(SeqCst)
Snapshot(w) ==
    /\ pc[w] = "snap"
    /\ last' = [last EXCEPT ![w] = seq]
    /\ Goto(w, "poll")
    /\ UNCHANGED <<atomics, ptr, tot, chk, lo, hi, n, arg, history>>

\* One turn of the loop: a changed seq is a job; an unchanged one is a spin.
Poll(w) ==
    /\ pc[w] = "poll"
    /\ last' = [last EXCEPT ![w] = seq]
    /\ Goto(w, IF seq # last[w] THEN "fetch" ELSE "poll")
    /\ UNCHANGED <<atomics, ptr, tot, chk, lo, hi, n, arg, history>>

FetchTask(w) ==
    /\ pc[w] = "fetch"
    /\ ptr' = [ptr EXCEPT ![w] = task]
    /\ Goto(w, "ltotal")
    /\ UNCHANGED <<atomics, last, tot, chk, lo, hi, n, arg, history>>

BumpDone(w) ==
    /\ pc[w] = "bump"
    /\ done' = done + 1
    /\ bumped' = bumped \cup {w}
    /\ Goto(w, "poll")
    /\ UNCHANGED <<seq, cursor, total, chunk, task, workers, ready, locals, n, arg, live, runs>>

-----------------------------------------------------------------------------
(* drain, executed by the workers and by the main core *)

LoadTotal(p) ==
    /\ pc[p] = "ltotal"
    /\ tot' = [tot EXCEPT ![p] = total]
    /\ Goto(p, "lchunk")
    /\ UNCHANGED <<atomics, last, ptr, chk, lo, hi, n, arg, history>>

LoadChunk(p) ==
    /\ pc[p] = "lchunk"
    /\ chk' = [chk EXCEPT ![p] = AtLeast(chunk, 1)]
    /\ Goto(p, "claim")
    /\ UNCHANGED <<atomics, last, ptr, tot, lo, hi, n, arg, history>>

\* Mutant of Claim: the cursor advances by one row.
ClaimByOne(p) ==
    /\ pc[p] = "claim"
    /\ cursor' = cursor + 1
    /\ IF cursor >= tot[p]
       THEN /\ Goto(p, IF p = Main THEN "spin" ELSE "bump")
            /\ UNCHANGED <<lo, hi>>
       ELSE /\ lo' = [lo EXCEPT ![p] = cursor]
            /\ hi' = [hi EXCEPT ![p] = AtMost(cursor + chk[p], tot[p])]
            /\ Goto(p, "exec")
    /\ UNCHANGED <<seq, total, chunk, done, task, workers, ready,
                   last, ptr, tot, chk, n, arg, history>>

\* cursor.fetch_add, then either the loop breaks or the range is this
\* process's to run.
Claim(p) ==
    /\ pc[p] = "claim"
    /\ cursor' = cursor + chk[p]
    /\ IF cursor >= tot[p]
       THEN /\ Goto(p, IF p = Main THEN "spin" ELSE "bump")
            /\ UNCHANGED <<lo, hi>>
       ELSE /\ lo' = [lo EXCEPT ![p] = cursor]
            /\ hi' = [hi EXCEPT ![p] = AtMost(cursor + chk[p], tot[p])]
            /\ Goto(p, "exec")
    /\ UNCHANGED <<seq, total, chunk, done, task, workers, ready,
                   last, ptr, tot, chk, n, arg, history>>

\* (task.run)(start, end)
Exec(p) ==
    /\ pc[p] = "exec"
    /\ runs' = [r \in DOMAIN runs |->
                  IF lo[p] <= r /\ r < hi[p] THEN runs[r] + 1 ELSE runs[r]]
    /\ Goto(p, "claim")
    /\ UNCHANGED <<atomics, locals, n, arg, live, bumped>>

-----------------------------------------------------------------------------
(* run, executed by the main core only *)

\* The test at the head of "run"; the Task is built when the job is pooled.
Call(t) ==
    /\ pc[Main] = "idle"
    /\ arg' = t
    /\ n' = workers
    /\ runs' = [r \in 0..(t - 1) |-> 0]
    /\ \/ /\ workers = 0 \/ t < InlineBelow
          /\ Goto(Main, "inline")
          /\ UNCHANGED live
       \/ /\ workers # 0 /\ t >= InlineBelow
          /\ seq < MaxJobs
          /\ live' = seq + 1
          /\ Goto(Main, "total")
    /\ UNCHANGED <<atomics, locals, bumped>>

RunInline ==
    /\ pc[Main] = "inline"
    /\ runs' = [r \in DOMAIN runs |-> runs[r] + 1]
    /\ Goto(Main, "inlined")
    /\ UNCHANGED <<atomics, locals, n, arg, live, bumped>>

ReturnInline ==
    /\ pc[Main] = "inlined"
    /\ Goto(Main, "idle")
    /\ UNCHANGED <<atomics, locals, n, arg, history>>

StoreTotal ==
    /\ pc[Main] = "total"
    /\ total' = arg
    /\ Goto(Main, "cursor")
    /\ UNCHANGED <<seq, cursor, chunk, done, task, workers, ready, locals, n, arg, history>>

StoreCursor ==
    /\ pc[Main] = "cursor"
    /\ cursor' = 0
    /\ Goto(Main, "chunk")
    /\ UNCHANGED <<seq, total, chunk, done, task, workers, ready, locals, n, arg, history>>

StoreChunk ==
    /\ pc[Main] = "chunk"
    /\ chunk' = AtLeast(arg \div ((n + 1) * ChunksPerCore), MinChunk)
    /\ Goto(Main, "done")
    /\ UNCHANGED <<seq, cursor, total, done, task, workers, ready, locals, n, arg, history>>

\* Mutant of StoreDone: the count of the previous job is kept.
StoreDoneForgotten ==
    /\ pc[Main] = "done"
    /\ Goto(Main, "task")
    /\ UNCHANGED <<atomics, locals, n, arg, history>>

StoreDone ==
    /\ pc[Main] = "done"
    /\ done' = 0
    /\ bumped' = {}
    /\ Goto(Main, "task")
    /\ UNCHANGED <<seq, cursor, total, chunk, task, workers, ready, locals, n, arg, live, runs>>

StoreTask ==
    /\ pc[Main] = "task"
    /\ task' = live
    /\ Goto(Main, "seq")
    /\ UNCHANGED <<seq, cursor, total, chunk, done, workers, ready, locals, n, arg, history>>

\* seq.fetch_add publishes the job; the main core then drains its own Task.
Post ==
    /\ pc[Main] = "seq"
    /\ seq' = seq + 1
    /\ ptr' = [ptr EXCEPT ![Main] = live]
    /\ Goto(Main, "ltotal")
    /\ UNCHANGED <<cursor, total, chunk, done, task, workers, ready,
                   last, tot, chk, lo, hi, n, arg, history>>

\* Mutant of Return: one worker is not waited for.
ReturnEarly ==
    /\ pc[Main] = "spin"
    /\ done + 1 >= n
    /\ live' = 0
    /\ Goto(Main, "idle")
    /\ UNCHANGED <<atomics, locals, n, arg, runs, bumped>>

\* The spin ends, "run" returns and its Task goes out of scope.
Return ==
    /\ pc[Main] = "spin"
    /\ done >= n
    /\ live' = 0
    /\ Goto(Main, "idle")
    /\ UNCHANGED <<atomics, locals, n, arg, runs, bumped>>

-----------------------------------------------------------------------------
Bringup == NoWorkers \/ StartupAllAps \/ WaitReady \/ CountReady \/ Activate

Drain(p) == LoadTotal(p) \/ LoadChunk(p) \/ Claim(p) \/ Exec(p)

WorkerLoop(w) == Enter(w) \/ Snapshot(w) \/ Poll(w) \/ FetchTask(w) \/ BumpDone(w) \/ Drain(w)

Run == \/ RunInline \/ ReturnInline \/ StoreTotal \/ StoreCursor \/ StoreChunk \/ StoreDone
       \/ StoreTask \/ Post \/ Return \/ Drain(Main)

Next ==
    \/ Bringup
    \/ \E t \in Totals : Call(t)
    \/ Run
    \/ \E w \in Workers : WorkerLoop(w)

Spec == Init /\ [][Next]_vars

\* Every core that runs keeps executing instructions; whether the
\* application calls "run" again is its own choice.
Fairness == WF_vars(Bringup) /\ WF_vars(Run) /\ \A w \in Workers : WF_vars(WorkerLoop(w))

FairSpec == Spec /\ Fairness

-----------------------------------------------------------------------------

\* The types of the atomics of struct Pool, of the locals of worker_loop,
\* drain and run, and of the program counters.
TypeOK ==
    /\ seq \in Nat /\ cursor \in Nat /\ total \in Nat /\ chunk \in Nat
    /\ done \in Nat /\ task \in Nat /\ workers \in Nat /\ ready \in Nat
    /\ pc \in [Procs -> {"boot", "wait", "count", "activate", "idle", "inline", "inlined",
                         "off", "entry", "snap", "poll", "fetch", "bump", "spin"}
                        \cup Draining \cup Storing]
    /\ last \in [Procs -> Nat] /\ ptr \in [Procs -> Nat]
    /\ tot \in [Procs -> Nat] /\ chk \in [Procs -> Nat]
    /\ lo \in [Procs -> Nat] /\ hi \in [Procs -> Nat]
    /\ n \in Nat /\ arg \in Nat
    /\ live \in Nat /\ bumped \subseteq Workers
    /\ runs \in [DOMAIN runs -> Nat]

\* A process that holds a reference to a Task holds the one that is alive on
\* the main core's stack: the SAFETY comment of worker_loop, "run keeps the
\* Task alive until every worker has bumped done for this seq".
TaskAlive == \A p \in Procs : pc[p] \in Draining => ptr[p] = live /\ live # 0

\* Ranges being run at the same time are disjoint, and no row of a range being
\* run has been run before: the closures given to "run" write rows through
\* raw pointers and are only safe on disjoint ranges.
DisjointRanges ==
    \A p \in Procs : pc[p] = "exec" =>
        /\ \A q \in Procs \ {p} : pc[q] = "exec" => hi[p] <= lo[q] \/ hi[q] <= lo[p]
        /\ \A r \in DOMAIN runs : lo[p] <= r /\ r < hi[p] => runs[r] = 0

\* Between calls every row of the last job has been run exactly once and no
\* worker is still inside it: "run" is a barrier.
ReturnComplete ==
    pc[Main] = "idle" =>
        /\ \A r \in DOMAIN runs : runs[r] = 1
        /\ \A w \in Workers : pc[w] \notin Draining

\* A call of "run" returns if every worker has made its first load of seq by
\* the time the job is being stored: each worker counted then takes the job
\* and bumps done.
RunReturns ==
    (pc[Main] \in Storing /\ \A w \in Workers : pc[w] # "snap") ~> (pc[Main] = "idle")

\* Every call of "run" returns, as "Wait for every AP to reach the spin loop
\* before activating the pool" (start_workers) sets out to ensure.
EveryRunReturns == (pc[Main] \in Storing) ~> (pc[Main] = "idle")

InRun == pc[Main] \notin {"boot", "wait", "count", "activate", "idle"}

Loop == INSTANCE ParallelFor WITH busy <- InRun

\* "run" is the parallel loop its callers rely on: every step of the pool
\* applies the closure to rows it has not been applied to yet or is invisible,
\* and "run" only returns when all rows are done.
ImplementsLoop == Loop!Spec
=============================================================================
