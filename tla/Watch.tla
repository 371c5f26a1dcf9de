------------------------------- MODULE Watch -------------------------------
(***************************************************************************)
(* The file watch (runtime/src/watch.c): every watch is a job in a list of *)
(* at most MaxJobs (FDN_WATCH_MAX_JOBS) with a thread of its own, which    *)
(* polls the file until it differs, a read fails or the job is cancelled,  *)
(* and writes the event into the task's frame.                             *)
(***************************************************************************)
EXTENDS Reactor

CONSTANTS
    Watchers,   \* the tasks that watch a file
    MaxJobs

ASSUME WatchAssumption == Watchers \subseteq Tasks /\ MaxJobs \in Nat

VARIABLES
    jobs,       \* fdn_watch_jobs: the watchers in the list
    jobCount,   \* fdn_watch_job_count
    stop,       \* fdn_watch_job.cancelled
    worker,     \* the job's thread: "none", "polling", "leaving" (it will
                \* take the job out), "finishing" (it will complete)
    outcome     \* the status it will report

watchVars == <<jobs, jobCount, stop, worker, outcome>>

WatchInit ==
    /\ jobs = {} /\ jobCount = 0
    /\ stop = [t \in Watchers |-> FALSE]
    /\ worker = [t \in Watchers |-> "none"]
    /\ outcome = [t \in Watchers |-> 0]

(* foundation_runtime_fs_watch_start: an invalid request (3) or one job    *)
(* too many (4) is answered at once, any other becomes a job ...           *)
Watch(t, valid) ==
    /\ t \in Watchers
    /\ \/ ~valid /\ Poll(t, Call("complete", t, 3, "polled")) /\ UNCHANGED <<jobs, jobCount>>
       \/ /\ valid /\ jobCount >= MaxJobs
          /\ Poll(t, Call("complete", t, 4, "polled")) /\ UNCHANGED <<jobs, jobCount>>
       \/ /\ valid /\ jobCount < MaxJobs /\ jobs' = jobs \cup {t} /\ jobCount' = jobCount + 1
          /\ Poll(t, Call("spawn", t, 0, "polled"))
    /\ UNCHANGED <<stop, worker, outcome>>

(* fdn_watch_remove: a job that is listed and not counted is a panic.      *)
Removes(t) ==
    /\ jobs' = jobs \ {t}
    /\ jobCount' = IF t \in jobs THEN jobCount - 1 ELSE jobCount
    /\ panic' = (t \in jobs /\ jobCount = 0)

(* ... whose thread starts, or does not: then fdn_watch_finish runs here.  *)
WatchSpawn(e, ok) ==
    /\ At(e, "spawn")
    /\ LET t == call[e].task
       IN IF ok
          THEN /\ worker' = [worker EXCEPT ![t] = "polling"] /\ Become(e, Polled(t))
               /\ UNCHANGED <<jobs, jobCount, panic>>
          ELSE Removes(t) /\ Become(e, Call("complete", t, 1, "polled")) /\ UNCHANGED worker
    /\ UNCHANGED <<st, cancelled, completed, requested, status, queue, operations, open, stop, outcome>>

(* foundation_runtime_fs_watch_cancel: a job that is gone needs no flag.   *)
WatchCancel(e) ==
    /\ At(e, "cancel") /\ call[e].task \in Watchers
    /\ stop' = [stop EXCEPT ![call[e].task] = @ \/ call[e].task \in jobs]
    /\ Become(e, Free)
    /\ UNCHANGED <<st, cancelled, completed, requested, status, queue, operations, open, panic,
                   jobs, jobCount, worker, outcome>>

Watched(t) == t \in Watchers /\ Resume(t, Free) /\ UNCHANGED watchVars

(* fdn_watch_run: the file changed (0), a read failed (1), or the flag was *)
(* seen between two slices of the interval (2).                            *)
WorkerSees(t, s) ==
    /\ ~panic /\ worker[t] = "polling" /\ (s = 2 => stop[t])
    /\ worker' = [worker EXCEPT ![t] = "leaving"]
    /\ outcome' = [outcome EXCEPT ![t] = s]
    /\ UNCHANGED <<reactorVars, jobs, jobCount, stop>>

(* fdn_watch_finish: out of the list first, then the completion.           *)
MutWorkerLeaves(t) ==
    /\ ~panic /\ worker[t] = "leaving"
    /\ worker' = [worker EXCEPT ![t] = IF completed[t] THEN "none" ELSE "leaving"]
    /\ IF completed[t] THEN Removes(t) /\ UNCHANGED <<completed, status, queue>>
       ELSE Completes(t, outcome[t]) /\ UNCHANGED <<jobs, jobCount>>
    /\ UNCHANGED <<st, cancelled, requested, operations, open, call, stop, outcome>>
WorkerLeaves(t) ==
    /\ ~panic /\ worker[t] = "leaving"
    /\ worker' = [worker EXCEPT ![t] = "finishing"]
    /\ Removes(t)
    /\ UNCHANGED <<st, cancelled, completed, requested, status, queue, operations, open, call, stop, outcome>>

WorkerCompletes(t) ==
    /\ ~panic /\ worker[t] = "finishing"
    /\ worker' = [worker EXCEPT ![t] = "none"]
    /\ stop' = [stop EXCEPT ![t] = FALSE]
    /\ outcome' = [outcome EXCEPT ![t] = 0]
    /\ Completes(t, outcome[t])
    /\ UNCHANGED <<st, cancelled, requested, operations, open, call, jobs, jobCount>>

WatchWorker(t) == (\E s \in 0 .. 2 : WorkerSees(t, s)) \/ WorkerLeaves(t) \/ WorkerCompletes(t)
WatchNext ==
    \/ \E t \in Tasks : Watched(t) \/ \E b \in BOOLEAN : Watch(t, b)
    \/ \E e \in Threads : WatchCancel(e) \/ \E b \in BOOLEAN : WatchSpawn(e, b)
    \/ \E t \in Watchers : WatchWorker(t)
=============================================================================
