---------------------------- MODULE ParallelPool ----------------------------
(***************************************************************************)
(* The parallel pool (runtime/src/pool.c) with the part of task.c it runs: *)
(* a task is moved out of its executor into the pool's queue, a worker     *)
(* thread runs it on an executor of its own, and the pool is shut down     *)
(* with or without cancellation.                                           *)
(*                                                                         *)
(* Cancellation crosses threads as a flag in the job, which the worker     *)
(* only looks at between two polls of its executor; a worker whose task is *)
(* parked therefore sleeps with a deadline.  What the cancellation then    *)
(* does depends on the wait: a channel lets a cancelled task go at once,   *)
(* a blocking call or a reactor operation is only told.  Everything a      *)
(* thread does under the pool's lock is one action.                        *)
(***************************************************************************)
EXTENDS Integers, Sequences, FiniteSets

CONSTANTS
    Jobs,       \* the tasks that may be submitted; a job is named by its task
    Endless,    \* jobs that wait for something that never comes
    Deaf,       \* those whose native calls do not return when cancelled either
    Workers,    \* the pool's threads
    MaxTurns,   \* bound: how often a job that is not endless yields or parks
    NoJob

ASSUME JobsAssumption == NoJob \notin Jobs /\ Endless \subseteq Jobs /\ Deaf \subseteq Endless
ASSUME WorkersAssumption == IsFiniteSet(Workers) /\ Workers # {}
ASSUME MaxTurnsAssumption == MaxTurns \in Nat

VARIABLES
    job,        \* where a job is, see JobStates
    task,       \* its task on the worker's executor, see TaskStates
    turns,      \* how often it gave way (bounds the model)
    flag,       \* fdn_parallel_job.cancellation_requested
    cancelled,  \* fdn_task.cancellation_requested
    pending,    \* submitted jobs no worker took, oldest first
    pc,         \* where the owner of the pool is, see OwnerStates
    cancelling, \* its fdn_parallel_join cancels
    wpc,        \* where a worker is, see WorkerStates
    wjob        \* the job it runs

jobVars == <<job, task, turns, flag, cancelled>>
ownerVars == <<pc, cancelling>>
workerVars == <<wpc, wjob>>
vars == <<jobVars, pending, ownerVars, workerVars>>

(* "done" is a job whose task was released and that is still in the list   *)
(* of all jobs.                                                            *)
JobStates == {"new", "pending", "running", "done", "removed"}
Waits == {"channel", "call"}
TaskStates == {"queued"} \cup Waits
Listed(j) == job[j] \in {"pending", "running", "done"}
OwnerStates == {"closed", "run", "join", "joined", "released"}
Stopping == pc \in {"join", "joined", "released"}

(* "check" is the top of fdn_parallel_worker; "exec" the top of the loop   *)
(* of fdn_task_run_until, "turn" after it polled for cancellation, "idle"  *)
(* asleep in fdn_task_external_wait.                                       *)
WorkerStates == {"off", "check", "asleep", "exec", "turn", "idle", "finished",
                 "exited"}
In(state) == {w \in Workers : wpc[w] = state}
Goto(w, state) == wpc' = [wpc EXCEPT ![w] = state]

Init ==
    /\ job = [j \in Jobs |-> "new"] /\ task = [j \in Jobs |-> "queued"]
    /\ turns = [j \in Jobs |-> 0]
    /\ flag = [j \in Jobs |-> FALSE] /\ cancelled = [j \in Jobs |-> FALSE]
    /\ pending = <<>>
    /\ pc = "closed" /\ cancelling = FALSE
    /\ wpc = [w \in Workers |-> "off"] /\ wjob = [w \in Workers |-> NoJob]

-----------------------------------------------------------------------------
(* The owner of the pool.                                                  *)

(* foundation_runtime_pool_open.                                           *)
Open ==
    /\ pc = "closed" /\ pc' = "run"
    /\ wpc' = [w \in Workers |-> "check"]
    /\ UNCHANGED <<jobVars, pending, cancelling, wjob>>

(* fdn_parallel_signal: one sleeper, if there is one, goes back to the top *)
(* of its loop.                                                            *)
Signalled(w) == {w} \cap In("asleep")

(* foundation_runtime_pool_submit, with fdn_task_transfer_out.             *)
Submit(j, w) ==
    /\ pc = "run" /\ job[j] = "new"
    /\ In("asleep") # {} => w \in In("asleep")
    /\ job' = [job EXCEPT ![j] = "pending"]
    /\ pending' = Append(pending, j)
    /\ wpc' = [v \in Workers |-> IF v \in Signalled(w) THEN "check" ELSE wpc[v]]
    /\ UNCHANGED <<task, turns, flag, cancelled, ownerVars, wjob>>

(* fdn_parallel_join until it unlocks: pool_wait, or pool_cancel with      *)
(* every listed job's flag.                                                *)
Shutdown(cancel) ==
    /\ pc = "run" /\ pc' = "join" /\ cancelling' = cancel
    /\ flag' = [j \in Jobs |-> flag[j] \/ (cancel /\ Listed(j))]
    /\ wpc' = [w \in Workers |-> IF wpc[w] = "asleep" THEN "check" ELSE wpc[w]]
    /\ UNCHANGED <<job, task, turns, cancelled, pending, wjob>>

(* The joins and the rest of fdn_parallel_join.                            *)
Join ==
    /\ pc = "join" /\ \A w \in Workers : wpc[w] = "exited"
    /\ pc' = "joined"
    /\ UNCHANGED <<jobVars, pending, cancelling, workerVars>>

(* foundation_runtime_pool_release.                                        *)
Release ==
    /\ pc = "joined" /\ pc' = "released"
    /\ UNCHANGED <<jobVars, pending, cancelling, workerVars>>

-----------------------------------------------------------------------------
(* A worker thread, fdn_parallel_worker: the queue.                        *)

Sleep(w) ==
    /\ wpc[w] = "check" /\ pending = <<>> /\ ~Stopping /\ Goto(w, "asleep")
    /\ UNCHANGED <<jobVars, pending, ownerVars, wjob>>

(* A condition wait may return without a signal.                           *)
Spurious(w) ==
    /\ wpc[w] = "asleep" /\ Goto(w, "check")
    /\ UNCHANGED <<jobVars, pending, ownerVars, wjob>>

MutMayExit == Stopping
MayExit == Stopping /\ pending = <<>>
Exit(w) ==
    /\ wpc[w] = "check" /\ MayExit /\ Goto(w, "exited")
    /\ UNCHANGED <<jobVars, pending, ownerVars, wjob>>

(* It pops a job and enqueues its task in fdn_task_run_transferred.        *)
Take(w) ==
    /\ wpc[w] = "check" /\ pending # <<>> /\ Goto(w, "exec")
    /\ wjob' = [wjob EXCEPT ![w] = Head(pending)]
    /\ job' = [job EXCEPT ![Head(pending)] = "running"]
    /\ pending' = Tail(pending)
    /\ UNCHANGED <<task, turns, flag, cancelled, ownerVars>>

-----------------------------------------------------------------------------
(* A worker thread: the transferred task, fdn_task_run_until.              *)

(* cancel_wait of a task that is cancelled: fdn_channel_cancel_wait takes  *)
(* it out of its queue, fdn_blocking_cancel_wait and                       *)
(* fdn_reactor_cancel_wait tell the call, and the task stays parked.       *)
MutUnparked(j) == task[j]
Unparked(j) == IF task[j] = "channel" THEN "queued" ELSE task[j]

(* fdn_task_poll_transfer_cancellation; the walk stops at a task that was  *)
(* cancelled before, so cancel_wait is called once.                        *)
PollCancellation(w) ==
    /\ wpc[w] = "exec" /\ Goto(w, "turn")
    /\ LET j == wjob[w]
       IN  /\ cancelled' = [cancelled EXCEPT ![j] = @ \/ flag[j]]
           /\ task' = [task EXCEPT ![j] = IF flag[j] /\ ~cancelled[j] THEN Unparked(j) ELSE @]
    /\ UNCHANGED <<job, turns, flag, pending, ownerVars, wjob>>

(* A poll that returns pending.  An operation on a channel of a cancelled  *)
(* task returns at once, a call begins all the same and knows from the     *)
(* start.  A cancelled job is at its end: its turns are bounded too.       *)
Counted(j) == j \notin Endless \/ cancelled[j]
Park(w, wait) ==
    /\ wpc[w] = "turn" /\ task[wjob[w]] = "queued"
    /\ wait = "channel" => ~cancelled[wjob[w]]
    /\ Counted(wjob[w]) => turns[wjob[w]] < MaxTurns
    /\ Goto(w, "exec")
    /\ task' = [task EXCEPT ![wjob[w]] = wait]
    /\ turns' = [turns EXCEPT ![wjob[w]] = IF Counted(wjob[w]) THEN @ + 1 ELSE @]
    /\ UNCHANGED <<job, flag, cancelled, pending, ownerVars, wjob>>

Yield(w) ==
    /\ wpc[w] = "turn" /\ task[wjob[w]] = "queued" /\ turns[wjob[w]] < MaxTurns
    /\ Goto(w, "exec")
    /\ turns' = [turns EXCEPT ![wjob[w]] = @ + 1]
    /\ UNCHANGED <<job, task, flag, cancelled, pending, ownerVars, wjob>>

(* A poll that returns ready: the task is released.                        *)
Ready(w) ==
    /\ wpc[w] = "turn" /\ task[wjob[w]] = "queued"
    /\ wjob[w] \in Endless => cancelled[wjob[w]]
    /\ job' = [job EXCEPT ![wjob[w]] = "done"]
    /\ Goto(w, "finished")
    /\ UNCHANGED <<task, turns, flag, cancelled, pending, ownerVars, wjob>>

(* fdn_parallel_remove.                                                    *)
Remove(w) ==
    /\ wpc[w] = "finished" /\ Goto(w, "check")
    /\ job' = [job EXCEPT ![wjob[w]] = "removed"]
    /\ wjob' = [wjob EXCEPT ![w] = NoJob]
    /\ UNCHANGED <<task, turns, flag, cancelled, pending, ownerVars>>

(* fdn_task_run_one has nothing to run and waits on the hub, at most for   *)
(* the cancellation interval.                                              *)
Wait(w) ==
    /\ wpc[w] = "turn" /\ task[wjob[w]] \in Waits /\ Goto(w, "idle")
    /\ UNCHANGED <<jobVars, pending, ownerVars, wjob>>

(* The wake a parked task waited for arrives through the mailbox; a call   *)
(* that takes cancellations ends once it was told of one.                  *)
Answered(j) == j \notin Endless \/ (task[j] = "call" /\ cancelled[j] /\ j \notin Deaf)
Woken(w) ==
    /\ wpc[w] = "idle" /\ Answered(wjob[w]) /\ Goto(w, "exec")
    /\ task' = [task EXCEPT ![wjob[w]] = "queued"]
    /\ UNCHANGED <<job, turns, flag, cancelled, pending, ownerVars, wjob>>

(* The deadline passes: there is one while fdn_task_transfer_target is set. *)
Timeout(w) ==
    /\ wpc[w] = "idle" /\ wjob[w] # NoJob /\ Goto(w, "exec")
    /\ UNCHANGED <<jobVars, pending, ownerVars, wjob>>

-----------------------------------------------------------------------------
Owner ==
    \/ Open \/ Join \/ Release
    \/ \E j \in Jobs, w \in Workers : Submit(j, w)
    \/ \E cancel \in BOOLEAN : Shutdown(cancel)

(* What a worker does by itself, and what the world does to it.            *)
Progress(w) ==
    \/ Sleep(w) \/ Exit(w) \/ Take(w) \/ Remove(w)
    \/ PollCancellation(w) \/ (\E wait \in Waits : Park(w, wait)) \/ Yield(w) \/ Ready(w) \/ Wait(w)
Worker(w) == Progress(w) \/ Spurious(w) \/ Woken(w) \/ Timeout(w)

Next ==
    \/ Owner \/ \E w \in Workers : Worker(w)
    \/ pc = "released" /\ UNCHANGED vars

Spec == Init /\ [][Next]_vars

(* Threads run and deadlines pass.  A job that is not endless is answered, *)
(* and so is a cancelled call unless it is deaf: the wake stays in the     *)
(* mailbox while the worker wakes up for deadlines, hence strong fairness. *)
(* Nothing obliges the owner to submit or to stop.                         *)
Fairness ==
    /\ WF_vars(Join)
    /\ \A w \in Workers :
          WF_vars(Progress(w)) /\ WF_vars(Timeout(w)) /\ SF_vars(Woken(w))
FairSpec == Spec /\ Fairness

-----------------------------------------------------------------------------
TypeOK ==
    /\ job \in [Jobs -> JobStates] /\ task \in [Jobs -> TaskStates]
    /\ turns \in [Jobs -> 0..MaxTurns]
    /\ flag \in [Jobs -> BOOLEAN] /\ cancelled \in [Jobs -> BOOLEAN]
    /\ pending \in Seq(Jobs)
    /\ pc \in OwnerStates /\ cancelling \in BOOLEAN
    /\ wpc \in [Workers -> WorkerStates] /\ wjob \in [Workers -> Jobs \cup {NoJob}]

(* A shutdown loses nothing: the pool is joined only when every submitted  *)
(* job was run to its end and left the lists (the panic "parallel pool     *)
(* joined with live work").                                                *)
JoinedIsEmpty ==
    pc \in {"joined", "released"} => pending = <<>> /\ \A j \in Jobs : ~Listed(j)

(* What makes it inductive: every listed job is in the queue or with one   *)
(* worker, and a worker leaves only a stopping pool without pending jobs.  *)
Busy(w) == wpc[w] \in {"exec", "turn", "idle", "finished"}
JobsPlaced ==
    /\ \A i \in DOMAIN pending : job[pending[i]] = "pending"
    /\ \A i, k \in DOMAIN pending : pending[i] = pending[k] => i = k
    /\ \A j \in Jobs : job[j] = "pending" => \E i \in DOMAIN pending : pending[i] = j
    /\ \A j \in Jobs : job[j] \in {"running", "done"} => \E w \in Workers : Busy(w) /\ wjob[w] = j
    /\ \A w \in Workers : Busy(w) => wjob[w] \in Jobs /\ job[wjob[w]] \in {"running", "done"}
    /\ \A v, w \in Workers : (Busy(v) /\ Busy(w) /\ wjob[v] = wjob[w]) => v = w
    /\ \A w \in Workers : wpc[w] = "exited" => Stopping /\ pending = <<>>
    /\ pc = "closed" => \A w \in Workers : wpc[w] = "off"
(* The inductive invariant of the proofs.                                  *)
PoolInv == TypeOK /\ JobsPlaced /\ JoinedIsEmpty

(* What the refinement needs besides: a worker is where its job is.        *)
WorkersFollow ==
    \A w \in Workers : Busy(w) => job[wjob[w]] = IF wpc[w] = "finished" THEN "done" ELSE "running"

(* A shutdown that waits ends when no submitted job is endless.  One that  *)
(* cancels ends though jobs wait for what never comes, in a channel or in  *)
(* a call, and whether they park before the flag, before the worker looks  *)
(* at it or after; only a call that takes no cancellation and never        *)
(* returns holds it up (docs/stdlib/concurrent.md:86).                     *)
CanEnd ==
    \/ \A j \in Endless : job[j] = "new"
    \/ cancelling /\ \A j \in Deaf : job[j] = "new"
ShutdownEnds == (pc = "join" /\ CanEnd) ~> pc = "joined"

(* The pool as a job service.                                              *)
Service == INSTANCE JobService WITH
    Capacity <- Cardinality(Workers),
    queue <- pending,
    running <- {j \in Jobs : job[j] = "running"},
    finished <- {j \in Jobs : job[j] = "done"},
    phase <- CASE pc = "run" -> "accepting" [] pc = "join" -> "draining" [] OTHER -> "closed"
(* Submission, the workers and fdn_parallel_join implement that service:   *)
(* jobs start in order, run once, and none is left when the pool closes.   *)
ImplementsService == Service!Spec
============================================================================
