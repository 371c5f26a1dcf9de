------------------------------ MODULE Blocking ------------------------------
(***************************************************************************)
(* The blocking executor (runtime/src/blocking.c): one executor thread     *)
(* parks tasks on native work that runs on worker threads.                 *)
(*                                                                         *)
(* The pool opens with the first job, grows by one worker whenever as many *)
(* jobs are live as there are workers, and is stopped, joined and freed    *)
(* when the last job's task has resumed.  A task has one job at a time, so *)
(* a job is named by its task.  Everything a thread does under the pool's  *)
(* lock is one action.                                                     *)
(***************************************************************************)
EXTENDS Integers, Sequences, FiniteSets

CONSTANTS
    Tasks,
    Endless,          \* tasks whose work returns only once it is cancelled
    InitialWorkers,   \* FDN_BLOCKING_INITIAL_WORKERS
    WorkerLimit,      \* FDN_BLOCKING_WORKER_LIMIT
    MaxCalls,         \* bound: how many blocking calls one task makes
    NoTask

ASSUME TasksAssumption == NoTask \notin Tasks /\ Endless \subseteq Tasks
ASSUME WorkersAssumption ==
    /\ InitialWorkers \in Nat \ {0} /\ WorkerLimit \in Nat
    /\ InitialWorkers <= WorkerLimit
ASSUME MaxCallsAssumption == MaxCalls \in Nat

VARIABLES
    job,        \* where the job of a task is, see JobStates
    calls,      \* how many blocking calls a task made (bounds the model)
    cancelled,  \* fdn_task.cancellation_requested
    flag,       \* fdn_blocking_job.cancellation_requested
    pending,    \* jobs no worker took, oldest first
    complete,   \* jobs whose work returned, oldest first
    jobs,       \* fdn_blocking_executor.jobs
    stopping,
    open,       \* the pool and its wake source are allocated
    count,      \* worker_count
    pc,         \* where the executor thread is, see OwnerStates
    caller,     \* the task whose fdn_blocking_poll opened the pool
    wpc,        \* where a worker is, see WorkerStates
    wjob,       \* the job it executes
    fault       \* a worker used a freed pool

jobVars == <<job, calls, cancelled, flag>>
poolVars == <<pending, complete, jobs, stopping, open, count>>
ownerVars == <<pc, caller>>
workerVars == <<wpc, wjob>>
vars == <<jobVars, poolVars, ownerVars, workerVars, fault>>

(* The task of a "pending", "running" or "complete" job is parked.         *)
JobStates == {"none", "pending", "running", "complete", "woken"}
Parked(t) == job[t] \in {"pending", "running", "complete"}

(* A worker that sleeps in its condition wait is "asleep"; "check" is the  *)
(* top of its loop; "pushed" is between queueing the completion and        *)
(* notifying the source.                                                   *)
OwnerStates == {"run", "submit", "stop", "join"}
WorkerStates == {"off", "check", "asleep", "work", "pushed", "exited"}

Workers == 1..WorkerLimit
In(state) == {w \in Workers : wpc[w] = state}

Init ==
    /\ job = [t \in Tasks |-> "none"]
    /\ calls = [t \in Tasks |-> 0]
    /\ cancelled = [t \in Tasks |-> FALSE]
    /\ flag = [t \in Tasks |-> FALSE]
    /\ pending = <<>> /\ complete = <<>>
    /\ jobs = 0 /\ stopping = FALSE /\ open = FALSE /\ count = 0
    /\ pc = "run" /\ caller = NoTask
    /\ wpc = [w \in Workers |-> "off"]
    /\ wjob = [w \in Workers |-> NoTask]
    /\ fault = FALSE

-----------------------------------------------------------------------------
(* The executor thread.                                                    *)

(* fdn_blocking_poll with an empty slot, until it takes the lock: the job  *)
(* is created with its task's cancellation, and the workers of a pool that *)
(* it opened run from here on.                                             *)
MutFirstFlag(t) == FALSE
FirstFlag(t) == cancelled[t]
Open(t) ==
    /\ pc = "run" /\ job[t] = "none" /\ calls[t] < MaxCalls
    /\ pc' = "submit" /\ caller' = t
    /\ calls' = [calls EXCEPT ![t] = @ + 1]
    /\ flag' = [flag EXCEPT ![t] = FirstFlag(t)]
    /\ IF open
       THEN UNCHANGED <<open, count, wpc>>
       ELSE /\ open' = TRUE /\ count' = InitialWorkers
            /\ wpc' = [w \in Workers |-> IF w <= InitialWorkers THEN "check" ELSE "off"]
    /\ UNCHANGED <<job, cancelled, pending, complete, jobs, stopping, wjob, fault>>

(* fdn_blocking_start_worker in fdn_blocking_poll.                         *)
MutGrown == IF jobs > count /\ count < WorkerLimit THEN count + 1 ELSE count
Grown == IF jobs >= count /\ count < WorkerLimit THEN count + 1 ELSE count

(* fdn_blocking_signal_work: one sleeper, if there is one, goes back to    *)
(* the top of its loop.                                                    *)
MutSignalled(w) == IF pending = <<>> THEN {w} \cap In("asleep") ELSE {}
Signalled(w) == {w} \cap In("asleep")

(* The critical section of fdn_blocking_poll.                              *)
Submit(w) ==
    /\ pc = "submit" /\ (In("asleep") # {} => w \in In("asleep"))
    /\ LET t == caller
       IN  /\ job' = [job EXCEPT ![t] = "pending"]
           /\ pending' = Append(pending, t)
    /\ jobs' = jobs + 1 /\ count' = Grown
    /\ wpc' = [v \in Workers |->
                  IF v \in Signalled(w) \/ (v > count /\ v <= Grown) THEN "check" ELSE wpc[v]]
    /\ pc' = "run" /\ caller' = NoTask
    /\ UNCHANGED <<calls, cancelled, flag, complete, stopping, open, wjob, fault>>

(* fdn_task_request_cancellation, with fdn_blocking_cancel_wait when the   *)
(* task is parked.                                                         *)
Cancel(t) ==
    /\ pc = "run" /\ ~cancelled[t]
    /\ cancelled' = [cancelled EXCEPT ![t] = TRUE]
    /\ flag' = [flag EXCEPT ![t] = @ \/ Parked(t)]
    /\ UNCHANGED <<job, calls, poolVars, ownerVars, workerVars, fault>>

(* One turn of the loop of fdn_blocking_wake_completed.                    *)
WakeCompleted ==
    /\ pc = "run" /\ complete # <<>>
    /\ job' = [job EXCEPT ![Head(complete)] = "woken"]
    /\ complete' = Tail(complete)
    /\ UNCHANGED <<calls, cancelled, flag, pending, jobs, stopping, open, count,
                   ownerVars, workerVars, fault>>

(* fdn_blocking_poll of a resumed task, until it unlocks.                  *)
MutLastJob == pending = <<>> /\ In("work") = {}
LastJob == jobs = 1
Resume(t) ==
    /\ pc = "run" /\ job[t] = "woken"
    /\ job' = [job EXCEPT ![t] = "none"]
    /\ jobs' = jobs - 1
    /\ pc' = IF LastJob THEN "stop" ELSE "run"
    /\ UNCHANGED <<calls, cancelled, flag, pending, complete, stopping, open, count,
                   caller, workerVars, fault>>

(* The critical section of fdn_blocking_stop, with its broadcast.          *)
Stop ==
    /\ pc = "stop" /\ pc' = "join" /\ stopping' = TRUE
    /\ wpc' = [w \in Workers |-> IF wpc[w] = "asleep" THEN "check" ELSE wpc[w]]
    /\ UNCHANGED <<jobVars, pending, complete, jobs, open, count, caller, wjob, fault>>

(* The joins of fdn_blocking_stop, then fdn_task_external_source_close and *)
(* fdn_blocking_destroy.                                                   *)
MutAllJoined == TRUE
AllJoined == \A w \in 1..count : wpc[w] = "exited"
Join ==
    /\ pc = "join" /\ AllJoined
    /\ pc' = "run" /\ open' = FALSE /\ stopping' = FALSE /\ count' = 0
    /\ wpc' = [w \in Workers |-> IF wpc[w] = "exited" THEN "off" ELSE wpc[w]]
    /\ UNCHANGED <<jobVars, pending, complete, jobs, caller, wjob, fault>>

-----------------------------------------------------------------------------
(* A worker thread, fdn_blocking_worker.                                   *)

(* It takes the lock at the top of its loop.                               *)
Sleep(w) ==
    /\ wpc[w] = "check" /\ pending = <<>> /\ ~stopping
    /\ wpc' = [wpc EXCEPT ![w] = "asleep"]
    /\ UNCHANGED <<jobVars, poolVars, ownerVars, wjob, fault>>

Exit(w) ==
    /\ wpc[w] = "check" /\ stopping
    /\ wpc' = [wpc EXCEPT ![w] = "exited"]
    /\ UNCHANGED <<jobVars, poolVars, ownerVars, wjob, fault>>

Take(w) ==
    /\ wpc[w] = "check" /\ pending # <<>> /\ ~stopping
    /\ wpc' = [wpc EXCEPT ![w] = "work"]
    /\ wjob' = [wjob EXCEPT ![w] = Head(pending)]
    /\ job' = [job EXCEPT ![Head(pending)] = "running"]
    /\ pending' = Tail(pending)
    /\ UNCHANGED <<calls, cancelled, flag, complete, jobs, stopping, open, count,
                   ownerVars, fault>>

(* A condition wait may return without a signal.                           *)
Spurious(w) ==
    /\ wpc[w] = "asleep"
    /\ wpc' = [wpc EXCEPT ![w] = "check"]
    /\ UNCHANGED <<jobVars, poolVars, ownerVars, wjob, fault>>

(* The work returns; under the lock the job joins the completions.         *)
Returns(t) == t \in Endless => flag[t]
Finish(w) ==
    /\ wpc[w] = "work" /\ Returns(wjob[w])
    /\ complete' = Append(complete, wjob[w])
    /\ job' = [job EXCEPT ![wjob[w]] = "complete"]
    /\ wpc' = [wpc EXCEPT ![w] = "pushed"]
    /\ wjob' = [wjob EXCEPT ![w] = NoTask]
    /\ UNCHANGED <<calls, cancelled, flag, pending, jobs, stopping, open, count,
                   ownerVars, fault>>

(* fdn_task_external_source_notify(executor->source).                      *)
Notify(w) ==
    /\ wpc[w] = "pushed"
    /\ wpc' = [wpc EXCEPT ![w] = "check"]
    /\ fault' = ~open
    /\ UNCHANGED <<jobVars, poolVars, ownerVars, wjob>>

-----------------------------------------------------------------------------
AllDone == \A t \in Tasks : job[t] = "none" /\ calls[t] = MaxCalls

Owner ==
    \/ \E t \in Tasks : Open(t) \/ Cancel(t) \/ Resume(t)
    \/ \E w \in Workers : Submit(w)
    \/ WakeCompleted \/ Stop \/ Join

Worker(w) == Sleep(w) \/ Exit(w) \/ Take(w) \/ Spurious(w) \/ Finish(w) \/ Notify(w)

Next ==
    \/ ~fault /\ (Owner \/ \E w \in Workers : Worker(w))
    \/ pc = "run" /\ ~open /\ AllDone /\ UNCHANGED vars

Spec == Init /\ [][Next]_vars

(* The executor keeps polling, threads keep running, and work that may     *)
(* return does.  Nothing obliges a task to call or to be cancelled.        *)
Fairness ==
    /\ WF_vars(~fault /\ ((\E w \in Workers : Submit(w)) \/ Stop \/ Join))
    /\ WF_vars(~fault /\ WakeCompleted)
    /\ \A t \in Tasks : WF_vars(~fault /\ Resume(t))
    /\ \A w \in Workers :
          WF_vars(~fault /\ (Sleep(w) \/ Exit(w) \/ Take(w) \/ Finish(w) \/ Notify(w)))
FairSpec == Spec /\ Fairness

-----------------------------------------------------------------------------
(* The type invariant: job counts stay natural and the worker count within *)
(* FDN_BLOCKING_WORKER_LIMIT.                                              *)
TypeOK ==
    /\ job \in [Tasks -> JobStates]
    /\ calls \in [Tasks -> 0..MaxCalls]
    /\ cancelled \in [Tasks -> BOOLEAN] /\ flag \in [Tasks -> BOOLEAN]
    /\ pending \in Seq(Tasks) /\ complete \in Seq(Tasks)
    /\ jobs \in Nat /\ stopping \in BOOLEAN /\ open \in BOOLEAN
    /\ count \in 0..WorkerLimit
    /\ pc \in OwnerStates /\ caller \in Tasks \cup {NoTask}
    /\ wpc \in [Workers -> WorkerStates]
    /\ wjob \in [Workers -> Tasks \cup {NoTask}]
    /\ fault \in BOOLEAN

(* No job waits behind another one while the limit is not reached: there   *)
(* is a worker without work for every pending job.                         *)
WorkerForEveryJob ==
    jobs <= WorkerLimit =>
        Len(pending) <= Cardinality(In("check") \cup In("asleep") \cup In("pushed"))

(* A worker never notifies through a pool that was freed.                  *)
NotifyFindsPool == ~fault

(* What makes it inductive: a worker that was started and not joined has   *)
(* its pool, and is one of the workers the stop joins.                     *)
WorkersHavePool ==
    /\ \A w \in Workers : wpc[w] # "off" => open /\ w <= count
    /\ pc = "submit" => open

(* Work that was not collected yet sees that its task was cancelled,       *)
(* whether the request came before or after the call.                      *)
CancelledWorkKnows ==
    \A t \in Tasks : (cancelled[t] /\ Parked(t)) => flag[t]

(* What makes it inductive: the job about to be queued knows as well, and  *)
(* queues and workers hold the jobs that are in that state, each once.     *)
CallerKnows ==
    pc = "submit" => /\ caller \in Tasks /\ job[caller] = "none"
                     /\ cancelled[caller] => flag[caller]
QueuesAgree ==
    /\ \A i \in DOMAIN pending : job[pending[i]] = "pending"
    /\ \A i \in DOMAIN complete : job[complete[i]] = "complete"
    /\ \A i, j \in DOMAIN pending : pending[i] = pending[j] => i = j
    /\ \A i, j \in DOMAIN complete : complete[i] = complete[j] => i = j
    /\ \A w \in Workers : wpc[w] = "work" => wjob[w] \in Tasks /\ job[wjob[w]] = "running"
    /\ \A v, w \in Workers :
          (wpc[v] = "work" /\ wpc[w] = "work" /\ wjob[v] = wjob[w]) => v = w

(* What the refinement and the worker count need besides: every live job   *)
(* is counted, a running one is with a worker, the pool stops when none is *)
(* left, and until then every worker it started serves it.                 *)
Live == {t \in Tasks : job[t] # "none"}
LiveAreCounted == IsFiniteSet(Live) /\ jobs = Cardinality(Live)
RunningHaveWorkers ==
    \A t \in Tasks : job[t] = "running" => \E w \in Workers : wpc[w] = "work" /\ wjob[w] = t
StopsWhenEmpty ==
    /\ pc \in {"stop", "join"} => open /\ jobs = 0
    /\ stopping <=> pc = "join"
    /\ ~open => jobs = 0
WorkersServe ==
    /\ count \in 0..WorkerLimit /\ (open => jobs <= count \/ count = WorkerLimit)
    /\ ~stopping => \A w \in Workers : w <= count => wpc[w] \notin {"off", "exited"}

(* The inductive invariant of the proofs: the pool, its workers and the    *)
(* place of every job agree in every state.                                *)
BlockingInv == TypeOK /\ NotifyFindsPool /\ WorkersHavePool /\ CancelledWorkKnows
                  /\ CallerKnows /\ QueuesAgree
                  /\ LiveAreCounted /\ RunningHaveWorkers /\ StopsWhenEmpty /\ WorkersServe

(* Every call returns, if its work may return and a worker comes to it:    *)
(* fewer endless works than WorkerLimit, as in the instance TLC checks.    *)
CallReturns ==
    \A t \in Tasks :
        (job[t] = "pending" /\ (t \in Endless => cancelled[t])) ~> job[t] = "none"

(* The pool as a job service.                                              *)
Service == INSTANCE JobService WITH
    Jobs <- Tasks,
    Capacity <- WorkerLimit,
    queue <- pending,
    running <- {t \in Tasks : job[t] = "running"},
    finished <- {t \in Tasks : job[t] \in {"complete", "woken"}},
    phase <- IF ~open THEN "closed" ELSE IF stopping THEN "draining" ELSE "accepting"
(* Submission, the workers and the stop implement that service: jobs start *)
(* in order, run once, and none is left when the pool goes.                *)
ImplementsService == Service!Spec
============================================================================
