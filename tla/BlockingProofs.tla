---------------------------- MODULE BlockingProofs ----------------------------
(* Proofs about Blocking: the pool outlives its workers' notifications,    *)
(* and cancelled work knows of it, for any number of tasks and workers.    *)
EXTENDS Blocking, FiniteSetTheorems, TLAPS

(* The kinds of steps.                                                     *)
LEMMA StepCases ==
    ASSUME [Next]_vars
    PROVE  \/ \E t \in Tasks : Open(t)
           \/ \E t \in Tasks : Cancel(t)
           \/ \E t \in Tasks : Resume(t)
           \/ \E w \in Workers : Submit(w)
           \/ WakeCompleted \/ Stop \/ Join
           \/ \E w \in Workers : Sleep(w) \/ Exit(w) \/ Spurious(w)
           \/ \E w \in Workers : Take(w)
           \/ \E w \in Workers : Finish(w)
           \/ \E w \in Workers : Notify(w)
           \/ UNCHANGED vars
  BY DEF Next, Owner, Worker

(* The part of TypeOK the proofs need.                                     *)
Types ==
    /\ count \in Int /\ open \in BOOLEAN /\ fault \in BOOLEAN
    /\ wpc \in [Workers -> WorkerStates]

(* What is proved about the life of the pool.                              *)
PoolInv == Types /\ NotifyFindsPool /\ WorkersHavePool

(* Every step keeps the pool allocated for the workers it started.         *)
LEMMA PoolStep ==
    ASSUME PoolInv, [Next]_vars
    PROVE  PoolInv'
  <1> USE WorkersAssumption, TasksAssumption
      DEF PoolInv, Types, NotifyFindsPool, WorkersHavePool, WorkerStates, Workers
  <1>1. CASE UNCHANGED vars
    BY <1>1 DEF vars, jobVars, poolVars, ownerVars, workerVars
  <1>2. CASE \E t \in Tasks : Open(t)
    <2>1. PICK t \in Tasks : Open(t)
      BY <1>2
    <2>2. CASE open
      BY <2>1, <2>2 DEF Open
    <2>3. CASE ~open
      <3>1. wpc' = [w \in Workers |-> IF w <= InitialWorkers THEN "check" ELSE "off"]
        BY <2>1, <2>3 DEF Open
      <3>2. open' = TRUE /\ count' = InitialWorkers /\ fault' = fault
        BY <2>1, <2>3 DEF Open
      <3>3. wpc' \in [Workers -> WorkerStates]
        BY <3>1
      <3>4. \A w \in Workers : wpc'[w] # "off" => w <= InitialWorkers
        BY <3>1
      <3> QED
        BY <3>2, <3>3, <3>4
    <2> QED
      BY <2>2, <2>3
  <1>3. CASE \E t \in Tasks : Cancel(t)
    BY <1>3 DEF Cancel, poolVars, ownerVars, workerVars
  <1>4. CASE \E t \in Tasks : Resume(t)
    BY <1>4 DEF Resume, workerVars
  <1>5. CASE \E w \in Workers : Submit(w)
    BY <1>5 DEF Submit, Grown, Signalled, In
  <1>6. CASE WakeCompleted
    BY <1>6 DEF WakeCompleted, ownerVars, workerVars
  <1>7. CASE Stop
    BY <1>7 DEF Stop, jobVars
  <1>8. CASE Join
    <2>1. \A w \in Workers : wpc[w] \in {"off", "exited"}
      <3>1. \A w \in Workers : w \in 1..count => wpc[w] = "exited"
        BY <1>8 DEF Join, AllJoined
      <3> QED
        BY <3>1
    <2>2. wpc' = [w \in Workers |-> "off"]
      BY <1>8, <2>1 DEF Join
    <2>3. wpc' \in [Workers -> WorkerStates] /\ \A w \in Workers : wpc'[w] = "off"
      BY <2>2
    <2>4. /\ pc' = "run" /\ count' = 0 /\ ~open' /\ ~fault'
          /\ open' \in BOOLEAN /\ fault' \in BOOLEAN
      BY <1>8 DEF Join
    <2> QED
      BY <2>3, <2>4
  <1>9. CASE \E w \in Workers : Sleep(w) \/ Exit(w) \/ Spurious(w)
    BY <1>9 DEF Sleep, Exit, Spurious, jobVars, poolVars, ownerVars
  <1>10. CASE \E w \in Workers : Take(w)
    BY <1>10 DEF Take, ownerVars
  <1>11. CASE \E w \in Workers : Finish(w)
    BY <1>11 DEF Finish, ownerVars
  <1>12. CASE \E w \in Workers : Notify(w)
    BY <1>12 DEF Notify, jobVars, poolVars, ownerVars
  <1> QED
    BY <1>1, <1>2, <1>3, <1>4, <1>5, <1>6, <1>7, <1>8, <1>9, <1>10, <1>11, <1>12,
       StepCases

(* No pool, no worker.                                                     *)
LEMMA PoolInit == Init => PoolInv
  <1> SUFFICES ASSUME Init PROVE PoolInv
    OBVIOUS
  <1>1. wpc \in [Workers -> WorkerStates] /\ \A w \in Workers : wpc[w] = "off"
    BY DEF Init, WorkerStates
  <1>2. /\ pc = "run" /\ count = 0 /\ ~open /\ ~fault
        /\ open \in BOOLEAN /\ fault \in BOOLEAN
    BY DEF Init
  <1> QED
    BY <1>1, <1>2 DEF PoolInv, Types, NotifyFindsPool, WorkersHavePool

(* fdn_blocking_stop joins every worker before the source is closed, so no *)
(* worker notifies through a freed pool.                                   *)
THEOREM PoolOutlivesItsWorkers == Spec => []NotifyFindsPool
  <1>1. PoolInv => NotifyFindsPool
    BY DEF PoolInv
  <1> QED
    BY <1>1, PoolInit, PoolStep, PTL DEF Spec

-----------------------------------------------------------------------------
(* The types of the job records and of the two queues.                     *)
JobTypes ==
    /\ job \in [Tasks -> JobStates]
    /\ cancelled \in [Tasks -> BOOLEAN] /\ flag \in [Tasks -> BOOLEAN]
    /\ pending \in Seq(Tasks) /\ complete \in Seq(Tasks)
    /\ wpc \in [Workers -> WorkerStates]
    /\ wjob \in [Workers -> Tasks \cup {NoTask}]

(* What is proved about jobs and their cancellation.                       *)
JobInv == JobTypes /\ CancelledWorkKnows /\ CallerKnows /\ QueuesAgree

(* Removing the oldest element of a queue.                                 *)
LEMMA TailFacts ==
    ASSUME NEW S, NEW q \in Seq(S), q # <<>>
    PROVE  /\ Tail(q) \in Seq(S) /\ Head(q) \in S /\ Head(q) = q[1] /\ 1 \in DOMAIN q
           /\ \A i \in DOMAIN Tail(q) : i + 1 \in DOMAIN q /\ i + 1 # 1 /\ i \in Nat
                                        /\ Tail(q)[i] = q[i + 1]
  OBVIOUS

(* Adding an element at the end of a queue.                                *)
LEMMA AppendFacts ==
    ASSUME NEW S, NEW q \in Seq(S), NEW x \in S
    PROVE  /\ Append(q, x) \in Seq(S)
           /\ \A i \in DOMAIN Append(q, x) :
                 \/ i \in DOMAIN q /\ Append(q, x)[i] = q[i]
                 \/ i = Len(q) + 1 /\ i \notin DOMAIN q /\ Append(q, x)[i] = x
  OBVIOUS

(* A worker takes the oldest pending job.                                  *)
LEMMA TakeStep ==
    ASSUME JobInv, NEW w \in Workers, Take(w)
    PROVE  JobInv'
  <1> USE DEF JobInv, JobTypes, JobStates, WorkerStates
  <1> DEFINE t == Head(pending)
  <1>1. /\ t \in Tasks /\ pending' \in Seq(Tasks) /\ job[t] = "pending"
        /\ \A i \in DOMAIN pending' : pending'[i] # t /\ job[pending'[i]] = "pending"
        /\ \A i, j \in DOMAIN pending' : pending'[i] = pending'[j] => i = j
    BY TailFacts DEF Take, QueuesAgree
  <1>2. /\ job' = [job EXCEPT ![t] = "running"]
        /\ wpc' = [wpc EXCEPT ![w] = "work"] /\ wjob' = [wjob EXCEPT ![w] = t]
        /\ UNCHANGED <<cancelled, flag, complete, pc, caller>>
    BY DEF Take, ownerVars
  <1>3. \A i \in DOMAIN pending' : pending'[i] \in Tasks
    BY <1>1
  <1>4. \A i \in DOMAIN complete : complete[i] \in Tasks
    OBVIOUS
  <1> HIDE DEF t
  <1>5. JobTypes'
    BY <1>1, <1>2
  <1>6. CancelledWorkKnows' /\ CallerKnows'
    BY <1>1, <1>2 DEF CancelledWorkKnows, CallerKnows, Parked
  <1>7. QueuesAgree'
    BY <1>1, <1>2, <1>3, <1>4 DEF QueuesAgree
  <1> QED
    BY <1>5, <1>6, <1>7

(* The executor queues the caller's job.                                   *)
LEMMA SubmitStep ==
    ASSUME JobInv, NEW w \in Workers, Submit(w)
    PROVE  JobInv'
  <1> USE DEF JobInv, JobTypes, JobStates, WorkerStates
  <1>1. /\ caller \in Tasks /\ job[caller] = "none"
        /\ cancelled[caller] => flag[caller]
    BY DEF CallerKnows, Submit
  <1>2. /\ job' = [job EXCEPT ![caller] = "pending"]
        /\ pending' = Append(pending, caller) /\ pc' = "run"
        /\ UNCHANGED <<cancelled, flag, complete, wjob>>
    BY DEF Submit
  <1>3. /\ wpc' \in [Workers -> WorkerStates]
        /\ \A v \in Workers : wpc'[v] = "work" => wpc[v] = "work"
    BY DEF Submit
  <1>4. \A i \in DOMAIN pending : pending[i] \in Tasks /\ pending[i] # caller
    BY <1>1 DEF QueuesAgree
  <1>5. \A i \in DOMAIN complete : complete[i] \in Tasks /\ complete[i] # caller
    BY <1>1 DEF QueuesAgree
  <1>6. /\ pending' \in Seq(Tasks)
        /\ \A i \in DOMAIN pending' : job'[pending'[i]] = "pending"
        /\ \A i, j \in DOMAIN pending' : pending'[i] = pending'[j] => i = j
    BY <1>1, <1>2, <1>4, AppendFacts DEF QueuesAgree
  <1>7. JobTypes'
    BY <1>1, <1>2, <1>3, <1>6
  <1>8. CancelledWorkKnows' /\ CallerKnows'
    BY <1>1, <1>2 DEF CancelledWorkKnows, CallerKnows, Parked
  <1>9. QueuesAgree'
    BY <1>1, <1>2, <1>3, <1>5, <1>6 DEF QueuesAgree
  <1> QED
    BY <1>7, <1>8, <1>9

(* A worker queues the completion.                                         *)
LEMMA FinishStep ==
    ASSUME JobInv, NEW w \in Workers, Finish(w)
    PROVE  JobInv'
  <1> USE TasksAssumption DEF JobInv, JobTypes, JobStates, WorkerStates
  <1> DEFINE t == wjob[w]
  <1>1. t \in Tasks /\ job[t] = "running"
    BY DEF QueuesAgree, Finish
  <1>2. /\ job' = [job EXCEPT ![t] = "complete"] /\ complete' = Append(complete, t)
        /\ wpc' = [wpc EXCEPT ![w] = "pushed"] /\ wjob' = [wjob EXCEPT ![w] = NoTask]
        /\ UNCHANGED <<cancelled, flag, pending, pc, caller>>
    BY DEF Finish, ownerVars
  <1>3. \A v \in Workers : (wpc[v] = "work" /\ v # w) => wjob[v] # t
    BY DEF QueuesAgree, Finish
  <1> HIDE DEF t
  <1>4. \A i \in DOMAIN pending : pending[i] \in Tasks /\ pending[i] # t
    BY <1>1 DEF QueuesAgree
  <1>5. \A i \in DOMAIN complete : complete[i] \in Tasks /\ complete[i] # t
    BY <1>1 DEF QueuesAgree
  <1>6. /\ complete' \in Seq(Tasks)
        /\ \A i \in DOMAIN complete' : job'[complete'[i]] = "complete"
        /\ \A i, j \in DOMAIN complete' : complete'[i] = complete'[j] => i = j
    BY <1>1, <1>2, <1>5, AppendFacts DEF QueuesAgree
  <1>7. JobTypes'
    BY <1>1, <1>2, <1>6
  <1>8. CancelledWorkKnows' /\ CallerKnows'
    BY <1>1, <1>2 DEF CancelledWorkKnows, CallerKnows, Parked
  <1>9. QueuesAgree'
    BY <1>1, <1>2, <1>3, <1>4, <1>6 DEF QueuesAgree
  <1> QED
    BY <1>7, <1>8, <1>9

(* The executor wakes the task of the oldest completion.                   *)
LEMMA WakeStep ==
    ASSUME JobInv, WakeCompleted
    PROVE  JobInv'
  <1> USE DEF JobInv, JobTypes, JobStates, WorkerStates
  <1> DEFINE t == Head(complete)
  <1>1. /\ t \in Tasks /\ complete' \in Seq(Tasks) /\ job[t] = "complete"
        /\ \A i \in DOMAIN complete' : complete'[i] # t /\ job[complete'[i]] = "complete"
        /\ \A i, j \in DOMAIN complete' : complete'[i] = complete'[j] => i = j
    BY TailFacts DEF WakeCompleted, QueuesAgree
  <1>2. /\ job' = [job EXCEPT ![t] = "woken"]
        /\ UNCHANGED <<cancelled, flag, pending, pc, caller, wpc, wjob>>
    BY DEF WakeCompleted, ownerVars, workerVars
  <1>3. \A i \in DOMAIN complete' : complete'[i] \in Tasks
    BY <1>1
  <1>4. \A i \in DOMAIN pending : pending[i] \in Tasks
    OBVIOUS
  <1> HIDE DEF t
  <1>5. JobTypes'
    BY <1>1, <1>2
  <1>6. CancelledWorkKnows' /\ CallerKnows'
    BY <1>1, <1>2 DEF CancelledWorkKnows, CallerKnows, Parked
  <1>7. QueuesAgree'
    BY <1>1, <1>2, <1>3, <1>4 DEF QueuesAgree
  <1> QED
    BY <1>5, <1>6, <1>7

(* Every step keeps the queues, the workers and the jobs in agreement.     *)
LEMMA JobStep ==
    ASSUME JobInv, [Next]_vars
    PROVE  JobInv'
  <1> USE DEF JobInv, JobTypes, JobStates, WorkerStates
  <1>1. CASE UNCHANGED vars
    BY <1>1 DEF vars, jobVars, poolVars, ownerVars, workerVars, CancelledWorkKnows,
                CallerKnows, QueuesAgree, Parked
  <1>2. CASE \E t \in Tasks : Open(t)
    <2>1. PICK t \in Tasks : Open(t)
      BY <1>2
    <2>2. UNCHANGED <<job, cancelled, pending, complete, wjob>>
      BY <2>1 DEF Open
    <2>3. /\ wpc' \in [Workers -> WorkerStates]
          /\ \A v \in Workers : wpc'[v] = "work" => wpc[v] = "work"
      BY <2>1 DEF Open
    <2>4. flag' = [flag EXCEPT ![t] = cancelled[t]] /\ caller' = t /\ job[t] = "none"
      BY <2>1 DEF Open, FirstFlag
    <2>5. CancelledWorkKnows' /\ CallerKnows'
      BY <2>2, <2>4 DEF CancelledWorkKnows, CallerKnows, Parked
    <2>6. QueuesAgree'
      BY <2>2, <2>3 DEF QueuesAgree
    <2> QED
      BY <2>2, <2>3, <2>4, <2>5, <2>6
  <1>3. CASE \E t \in Tasks : Cancel(t)
    <2>1. PICK t \in Tasks : Cancel(t)
      BY <1>3
    <2>2. UNCHANGED <<job, pending, complete, pc, caller, wpc, wjob>> /\ pc = "run"
      BY <2>1 DEF Cancel, poolVars, ownerVars, workerVars
    <2>3. /\ cancelled' = [cancelled EXCEPT ![t] = TRUE]
          /\ flag' = [flag EXCEPT ![t] = flag[t] \/ Parked(t)]
      BY <2>1 DEF Cancel
    <2>4. CancelledWorkKnows' /\ CallerKnows'
      BY <2>2, <2>3 DEF CancelledWorkKnows, CallerKnows, Parked
    <2>5. QueuesAgree'
      BY <2>2 DEF QueuesAgree
    <2> QED
      BY <2>2, <2>3, <2>4, <2>5 DEF Parked
  <1>4. CASE \E t \in Tasks : Resume(t)
    <2>1. PICK t \in Tasks : Resume(t)
      BY <1>4
    <2>2. /\ job' = [job EXCEPT ![t] = "none"] /\ job[t] = "woken" /\ pc' # "submit"
          /\ UNCHANGED <<cancelled, flag, pending, complete, wpc, wjob>>
      BY <2>1 DEF Resume, workerVars
    <2>3. /\ \A i \in DOMAIN pending : pending[i] \in Tasks
          /\ \A i \in DOMAIN complete : complete[i] \in Tasks
      OBVIOUS
    <2>4. CancelledWorkKnows' /\ CallerKnows'
      BY <2>2 DEF CancelledWorkKnows, CallerKnows, Parked
    <2>5. QueuesAgree'
      BY <2>2, <2>3 DEF QueuesAgree
    <2> QED
      BY <2>2, <2>4, <2>5
  <1>5. CASE Stop \/ Join
    <2>1. UNCHANGED <<job, cancelled, flag, pending, complete, wjob>> /\ pc' # "submit"
      BY <1>5 DEF Stop, Join, jobVars
    <2>2. /\ wpc' \in [Workers -> WorkerStates]
          /\ \A v \in Workers : wpc'[v] = "work" => wpc[v] = "work"
      BY <1>5 DEF Stop, Join
    <2>3. CancelledWorkKnows' /\ CallerKnows' /\ QueuesAgree'
      BY <2>1, <2>2 DEF CancelledWorkKnows, CallerKnows, Parked, QueuesAgree
    <2> QED
      BY <2>1, <2>2, <2>3
  <1>6. CASE \E w \in Workers : Sleep(w) \/ Exit(w) \/ Spurious(w) \/ Notify(w)
    <2>1. UNCHANGED <<job, cancelled, flag, pending, complete, wjob, pc, caller>>
      BY <1>6 DEF Sleep, Exit, Spurious, Notify, jobVars, poolVars, ownerVars
    <2>2. /\ wpc' \in [Workers -> WorkerStates]
          /\ \A v \in Workers : wpc'[v] = "work" => wpc[v] = "work"
      BY <1>6 DEF Sleep, Exit, Spurious, Notify
    <2>3. CancelledWorkKnows' /\ CallerKnows' /\ QueuesAgree'
      BY <2>1, <2>2 DEF CancelledWorkKnows, CallerKnows, Parked, QueuesAgree
    <2> QED
      BY <2>1, <2>2, <2>3
  <1> HIDE DEF JobInv
  <1> QED
    BY <1>1, <1>2, <1>3, <1>4, <1>5, <1>6, TakeStep, SubmitStep, FinishStep, WakeStep,
       StepCases

(* Empty queues agree with no jobs.                                        *)
LEMMA JobInit == Init => JobInv
  <1> SUFFICES ASSUME Init PROVE JobInv
    OBVIOUS
  <1>1. JobTypes
    BY DEF Init, JobTypes, JobStates, WorkerStates
  <1>2. CancelledWorkKnows /\ CallerKnows /\ QueuesAgree
    BY DEF Init, CancelledWorkKnows, CallerKnows, QueuesAgree
  <1> QED
    BY <1>1, <1>2 DEF JobInv

(* Work that was not collected yet sees that its task was cancelled, for   *)
(* any number of tasks and workers: fdn_blocking_poll copies a request     *)
(* that came before the call, fdn_blocking_cancel_wait forwards a later    *)
(* one.                                                                    *)
THEOREM CancellationReachesWork == Spec => []CancelledWorkKnows
  <1>1. JobInv => CancelledWorkKnows
    BY DEF JobInv
  <1> QED
    BY <1>1, JobInit, JobStep, PTL DEF Spec

-----------------------------------------------------------------------------
(* Jobs and workers are counted.                                           *)
AccountInv ==
    PoolInv /\ JobInv /\ LiveAreCounted /\ RunningHaveWorkers /\ StopsWhenEmpty /\ WorkersServe

(* The steps that leave every job live or not, and what they are counted   *)
(* by.                                                                     *)
LEMMA SameLive ==
    ASSUME LiveAreCounted, jobs' = jobs, \A t \in Tasks : job'[t] = "none" <=> job[t] = "none"
    PROVE  LiveAreCounted'
  <1>1. Live' = Live
    BY DEF Live
  <1> QED
    BY <1>1 DEF LiveAreCounted

LEMMA CountTypes ==
    ASSUME AccountInv
    PROVE  /\ jobs \in Nat /\ count \in 0..WorkerLimit /\ WorkerLimit \in Nat
           /\ job \in [Tasks -> JobStates] /\ wpc \in [Workers -> WorkerStates]
           /\ wjob \in [Workers -> Tasks \cup {NoTask}]
           /\ pending \in Seq(Tasks) /\ complete \in Seq(Tasks)
           /\ open \in BOOLEAN
  BY FS_CardinalityType, WorkersAssumption
     DEF AccountInv, LiveAreCounted, WorkersServe, PoolInv, Types, JobInv, JobTypes

LEMMA OpenAccount ==
    ASSUME AccountInv, NEW t \in Tasks, Open(t)
    PROVE  LiveAreCounted' /\ RunningHaveWorkers' /\ StopsWhenEmpty' /\ WorkersServe'
  <1> USE DEF AccountInv
  <1>1. /\ UNCHANGED <<job, jobs, stopping, wjob>> /\ pc = "run" /\ pc' = "submit"
    BY DEF Open
  <1>2. LiveAreCounted'
    BY <1>1, SameLive
  <1>3. CASE open
    BY <1>1, <1>2, <1>3 DEF Open, RunningHaveWorkers, StopsWhenEmpty, WorkersServe
  <1>4. CASE ~open
    <2>1. /\ open' = TRUE /\ count' = InitialWorkers /\ jobs = 0
          /\ \A w \in Workers : wpc[w] = "off"
          /\ \A w \in Workers : wpc'[w] = IF w <= InitialWorkers THEN "check" ELSE "off"
      BY <1>4 DEF Open, StopsWhenEmpty, PoolInv, WorkersHavePool
    <2>2. \A u \in Tasks : job[u] # "running"
      BY <2>1 DEF RunningHaveWorkers
    <2>3. RunningHaveWorkers' /\ StopsWhenEmpty'
      BY <1>1, <2>1, <2>2 DEF RunningHaveWorkers, StopsWhenEmpty
    <2>4. WorkersServe'
      BY <1>1, <2>1, WorkersAssumption DEF WorkersServe, Workers
    <2> QED
      BY <1>2, <2>3, <2>4
  <1> QED
    BY <1>3, <1>4

LEMMA SubmitAccount ==
    ASSUME AccountInv, NEW w \in Workers, Submit(w)
    PROVE  LiveAreCounted' /\ RunningHaveWorkers' /\ StopsWhenEmpty' /\ WorkersServe'
  <1> USE DEF AccountInv
  <1>1. /\ caller \in Tasks /\ job[caller] = "none" /\ pc = "submit" /\ open
    BY DEF Submit, JobInv, CallerKnows, PoolInv, WorkersHavePool
  <1>2. /\ job' = [job EXCEPT ![caller] = "pending"] /\ jobs' = jobs + 1 /\ count' = Grown
        /\ pc' = "run" /\ UNCHANGED <<open, stopping, wjob>>
    BY DEF Submit
  <1>3. \A v \in Workers : /\ wpc'[v] = wpc[v] \/ (wpc'[v] = "check" /\ wpc[v] # "work")
                           /\ (v > count /\ v <= Grown) => wpc'[v] = "check"
    <2>1. \A v \in Workers : v > count => wpc[v] = "off"
      BY CountTypes DEF PoolInv, WorkersHavePool, Workers
    <2> QED
      BY <2>1 DEF Submit, Signalled, In
  <1>4. LiveAreCounted'
    <2>1. Live' = Live \cup {caller} /\ caller \notin Live
      BY <1>1, <1>2, CountTypes DEF Live, JobStates
    <2> QED
      BY <1>2, <2>1, FS_AddElement DEF LiveAreCounted
  <1>5. RunningHaveWorkers'
    <2> SUFFICES ASSUME NEW t \in Tasks, job'[t] = "running"
                 PROVE  \E v \in Workers : wpc'[v] = "work" /\ wjob'[v] = t
      BY DEF RunningHaveWorkers
    <2>1. job[t] = "running"
      BY <1>1, <1>2, CountTypes
    <2>2. PICK v \in Workers : wpc[v] = "work" /\ wjob[v] = t
      BY <2>1 DEF RunningHaveWorkers
    <2> QED
      BY <1>2, <1>3, <2>2
  <1>6. StopsWhenEmpty'
    BY <1>1, <1>2, CountTypes DEF StopsWhenEmpty
  <1>7. WorkersServe'
    <2>1. Grown \in 0..WorkerLimit /\ count <= Grown /\ (jobs + 1 <= Grown \/ Grown = WorkerLimit)
      BY <1>1, CountTypes DEF Grown, WorkersServe
    <2>2. ~stopping => \A v \in Workers : v <= Grown => wpc'[v] \notin {"off", "exited"}
      <3> SUFFICES ASSUME ~stopping, NEW v \in Workers, v <= Grown PROVE wpc'[v] \notin {"off", "exited"}
        OBVIOUS
      <3>1. v <= count \/ v > count
        BY CountTypes DEF Workers
      <3>2. v <= count => wpc[v] \notin {"off", "exited"}
        BY DEF WorkersServe
      <3>3. wpc'[v] = wpc[v] \/ wpc'[v] = "check"
        BY <1>3
      <3>4. v > count => wpc'[v] = "check"
        BY <1>3
      <3> QED
        BY <3>1, <3>2, <3>3, <3>4
    <2> QED
      BY <1>2, <2>1, <2>2 DEF WorkersServe
  <1> QED
    BY <1>4, <1>5, <1>6, <1>7

LEMMA ResumeAccount ==
    ASSUME AccountInv, NEW t \in Tasks, Resume(t)
    PROVE  LiveAreCounted' /\ RunningHaveWorkers' /\ StopsWhenEmpty' /\ WorkersServe'
  <1> USE DEF AccountInv
  <1>1. /\ job' = [job EXCEPT ![t] = "none"] /\ jobs' = jobs - 1 /\ job[t] = "woken"
        /\ UNCHANGED <<stopping, open, count, wpc, wjob>> /\ pc = "run"
        /\ pc' = IF jobs = 1 THEN "stop" ELSE "run"
    BY DEF Resume, workerVars, LastJob
  <1>2. Live' = Live \ {t} /\ t \in Live
    BY <1>1, CountTypes DEF Live
  <1>3. jobs > 0
    BY <1>2, CountTypes, FS_EmptySet DEF LiveAreCounted
  <1>4. LiveAreCounted'
    BY <1>1, <1>2, FS_RemoveElement DEF LiveAreCounted
  <1>5. RunningHaveWorkers'
    BY <1>1, CountTypes DEF RunningHaveWorkers
  <1>6. StopsWhenEmpty'
    BY <1>1, <1>3, CountTypes DEF StopsWhenEmpty
  <1>7. WorkersServe'
    BY <1>1, CountTypes DEF WorkersServe
  <1> QED
    BY <1>4, <1>5, <1>6, <1>7

LEMMA TakeAccount ==
    ASSUME AccountInv, NEW w \in Workers, Take(w) \/ Finish(w)
    PROVE  LiveAreCounted' /\ RunningHaveWorkers' /\ StopsWhenEmpty' /\ WorkersServe'
  <1> USE DEF AccountInv
  <1>1. UNCHANGED <<jobs, stopping, open, count, pc>>
    BY DEF Take, Finish, ownerVars
  <1>2. CASE Take(w)
    <2> DEFINE t == Head(pending)
    <2>1. /\ wpc[w] = "check" /\ wpc' = [wpc EXCEPT ![w] = "work"] /\ wjob' = [wjob EXCEPT ![w] = t]
          /\ job' = [job EXCEPT ![t] = "running"]
      BY <1>2 DEF Take
    <2>2. t \in Tasks /\ job[t] = "pending"
      BY <1>2, CountTypes, TailFacts DEF Take, JobInv, QueuesAgree
    <2> HIDE DEF t
    <2>3. LiveAreCounted'
      BY <1>1, <2>1, <2>2, CountTypes, SameLive
    <2>4. RunningHaveWorkers'
      BY <2>1, <2>2, CountTypes DEF RunningHaveWorkers
    <2> QED
      BY <1>1, <2>1, <2>3, <2>4, CountTypes DEF StopsWhenEmpty, WorkersServe
  <1>3. CASE Finish(w)
    <2>1. /\ wpc[w] = "work" /\ wpc' = [wpc EXCEPT ![w] = "pushed"] /\ wjob' = [wjob EXCEPT ![w] = NoTask]
          /\ job' = [job EXCEPT ![wjob[w]] = "complete"]
      BY <1>3 DEF Finish
    <2>2. wjob[w] \in Tasks /\ job[wjob[w]] = "running"
      BY <2>1 DEF JobInv, QueuesAgree
    <2>3. LiveAreCounted'
      BY <1>1, <2>1, <2>2, CountTypes, SameLive
    <2>4. RunningHaveWorkers'
      BY <2>1, <2>2, CountTypes DEF RunningHaveWorkers
    <2> QED
      BY <1>1, <2>1, <2>3, <2>4, CountTypes DEF StopsWhenEmpty, WorkersServe
  <1> QED
    BY <1>2, <1>3

LEMMA StopAccount ==
    ASSUME AccountInv, Stop \/ Join
    PROVE  LiveAreCounted' /\ RunningHaveWorkers' /\ StopsWhenEmpty' /\ WorkersServe'
  <1> USE DEF AccountInv
  <1>1. UNCHANGED <<job, jobs, wjob>>
    BY DEF Stop, Join, jobVars
  <1>2. LiveAreCounted'
    BY <1>1, SameLive
  <1>3. CASE Stop
    <2>1. /\ pc = "stop" /\ pc' = "join" /\ stopping' = TRUE /\ UNCHANGED <<open, count>>
          /\ \A w \in Workers : wpc[w] = "work" => wpc'[w] = "work"
      BY <1>3, CountTypes DEF Stop
    <2> QED
      BY <1>1, <1>2, <2>1 DEF RunningHaveWorkers, StopsWhenEmpty, WorkersServe
  <1>4. CASE Join
    <2>1. /\ pc = "join" /\ pc' = "run" /\ open' = FALSE /\ stopping' = FALSE /\ count' = 0
          /\ \A w \in Workers : wpc[w] = "work" => wpc'[w] = "work"
      BY <1>4, CountTypes DEF Join
    <2>2. WorkersServe'
      BY <2>1, CountTypes DEF WorkersServe, Workers
    <2> QED
      BY <1>1, <1>2, <2>1, <2>2 DEF RunningHaveWorkers, StopsWhenEmpty
  <1> QED
    BY <1>3, <1>4

(* Every step keeps the accounts.                                          *)
LEMMA AccountStep ==
    ASSUME AccountInv, [Next]_vars
    PROVE  AccountInv'
  <1>1. PoolInv' /\ JobInv'
    BY PoolStep, JobStep DEF AccountInv
  <1>2. SUFFICES LiveAreCounted' /\ RunningHaveWorkers' /\ StopsWhenEmpty' /\ WorkersServe'
    BY <1>1 DEF AccountInv
  <1>3. CASE UNCHANGED vars
    BY <1>3 DEF vars, jobVars, poolVars, ownerVars, workerVars, AccountInv, LiveAreCounted, Live,
                RunningHaveWorkers, StopsWhenEmpty, WorkersServe
  <1>4. CASE \E t \in Tasks : Cancel(t)
    BY <1>4 DEF Cancel, poolVars, ownerVars, workerVars, AccountInv, LiveAreCounted, Live,
                RunningHaveWorkers, StopsWhenEmpty, WorkersServe
  <1>5. CASE WakeCompleted
    <2>1. /\ job' = [job EXCEPT ![Head(complete)] = "woken"]
          /\ UNCHANGED <<jobs, stopping, open, count, pc, wpc, wjob>>
      BY <1>5 DEF WakeCompleted, ownerVars, workerVars
    <2>2. Head(complete) \in Tasks /\ job[Head(complete)] = "complete"
      BY <1>5, CountTypes, TailFacts DEF WakeCompleted, AccountInv, JobInv, QueuesAgree
    <2>3. LiveAreCounted'
      BY <2>1, <2>2, CountTypes, SameLive DEF AccountInv
    <2>4. RunningHaveWorkers'
      BY <2>1, <2>2, CountTypes DEF AccountInv, RunningHaveWorkers
    <2> QED
      BY <2>1, <2>3, <2>4 DEF AccountInv, StopsWhenEmpty, WorkersServe
  <1>6. ASSUME NEW w \in Workers, Sleep(w) \/ Exit(w) \/ Spurious(w) \/ Notify(w)
        PROVE  LiveAreCounted' /\ RunningHaveWorkers' /\ StopsWhenEmpty' /\ WorkersServe'
    <2>1. /\ UNCHANGED <<job, jobs, stopping, open, count, pc, wjob>> /\ wpc[w] # "work"
          /\ \E to \in {"asleep", "check", "exited"} :
                wpc' = [wpc EXCEPT ![w] = to] /\ (to = "exited" => stopping)
      BY <1>6 DEF Sleep, Exit, Spurious, Notify, jobVars, poolVars, ownerVars
    <2>2. LiveAreCounted'
      BY <2>1, SameLive DEF AccountInv
    <2>3. RunningHaveWorkers'
      BY <2>1, CountTypes DEF AccountInv, RunningHaveWorkers
    <2>4. StopsWhenEmpty' /\ WorkersServe'
      BY <2>1, CountTypes DEF AccountInv, StopsWhenEmpty, WorkersServe
    <2> QED
      BY <2>2, <2>3, <2>4
  <1> QED
    BY <1>3, <1>4, <1>5, <1>6, StepCases, OpenAccount, SubmitAccount, ResumeAccount, TakeAccount, StopAccount

LEMMA AccountInit == Init => AccountInv
  <1> SUFFICES ASSUME Init PROVE AccountInv
    OBVIOUS
  <1>1. Live = {}
    BY DEF Init, Live
  <1>2. LiveAreCounted
    BY <1>1, FS_EmptySet DEF Init, LiveAreCounted
  <1>3. RunningHaveWorkers /\ StopsWhenEmpty
    BY DEF Init, RunningHaveWorkers, StopsWhenEmpty
  <1>4. WorkersServe
    BY WorkersAssumption DEF Init, WorkersServe, Workers
  <1> QED
    BY <1>2, <1>3, <1>4, PoolInit, JobInit DEF AccountInv

-----------------------------------------------------------------------------
(* How many jobs are pending and running, and how many workers are free.   *)
Pending == {pending[i] : i \in 1..Len(pending)}
Running == {t \in Tasks : job[t] = "running"}
Free == In("check") \cup In("asleep") \cup In("pushed")

LEMMA PendingCount ==
    ASSUME AccountInv
    PROVE  IsFiniteSet(Pending) /\ Cardinality(Pending) = Len(pending)
  <1> DEFINE n == Len(pending)
             f == [i \in 1..n |-> pending[i]]
  <1>1. n \in Nat /\ DOMAIN pending = 1..n
    BY CountTypes
  <1>2. \A i, k \in 1..n : pending[i] = pending[k] => i = k
    BY <1>1 DEF AccountInv, JobInv, QueuesAgree
  <1>3. f \in [1..n -> Pending] /\ DOMAIN f = 1..n /\ \A i \in 1..n : f[i] = pending[i]
    BY DEF Pending
  <1> HIDE DEF n, f
  <1>4. f \in Bijection(1..n, Pending)
    BY <1>2, <1>3 DEF Bijection, Injection, Surjection, IsInjective, Pending, n
  <1>5. ExistsBijection(1..n, Pending)
    BY <1>4 DEF ExistsBijection
  <1> QED
    BY <1>1, <1>5, FS_CountingElements, FS_NatBijection DEF n

(* Distinct workers run distinct jobs, and every running job has one.      *)
LEMMA RunningCount ==
    ASSUME AccountInv
    PROVE  /\ IsFiniteSet(In("work")) /\ IsFiniteSet(Running)
           /\ Cardinality(In("work")) = Cardinality(Running)
           /\ Cardinality(Running) \in Nat
  <1> DEFINE W == In("work")
             f == [w \in W |-> wjob[w]]
  <1>1. IsFiniteSet(W)
    <2>1. 1 \in Int /\ WorkerLimit \in Int
      BY WorkersAssumption
    <2>2. IsFiniteSet(Workers)
      BY <2>1, FS_Interval DEF Workers
    <2> QED
      BY <2>2, FS_Subset DEF In
  <1>2. \A w \in W : wjob[w] \in Running
    BY DEF AccountInv, JobInv, QueuesAgree, Running, In
  <1>3. \A v, w \in W : wjob[v] = wjob[w] => v = w
    BY DEF AccountInv, JobInv, QueuesAgree, In
  <1>4. \A t \in Running : \E w \in W : wjob[w] = t
    BY DEF AccountInv, RunningHaveWorkers, Running, In
  <1>5. f \in [W -> Running] /\ DOMAIN f = W /\ \A w \in W : f[w] = wjob[w]
    BY <1>2
  <1> HIDE DEF W, f
  <1>6. f \in Injection(W, Running) /\ f \in Surjection(W, Running)
    BY <1>3, <1>4, <1>5 DEF Injection, Surjection, IsInjective
  <1>7. IsFiniteSet(Running)
    BY <1>1, <1>6, FS_Surjection
  <1>8. Cardinality(W) = Cardinality(Running)
    BY <1>6, <1>7, FS_Injection
  <1> QED
    BY <1>1, <1>7, <1>8, FS_CardinalityType DEF W

LEMMA LiveCount ==
    ASSUME AccountInv
    PROVE  Len(pending) + Cardinality(Running) <= jobs
  <1>1. IsFiniteSet(Pending) /\ IsFiniteSet(Running)
    BY PendingCount, RunningCount
  <1>2. Pending \cap Running = {} /\ Pending \cup Running \subseteq Live
    BY CountTypes DEF AccountInv, JobInv, QueuesAgree, Pending, Running, Live
  <1>3. Cardinality(Pending \cup Running) = Cardinality(Pending) + Cardinality(Running)
    <2>1. Cardinality(Pending) \in Nat /\ Cardinality(Running) \in Nat
      BY <1>1, FS_CardinalityType
    <2>2. Cardinality(Pending \cap Running) = 0
      BY <1>2, FS_EmptySet
    <2>3. Cardinality(Pending \cup Running) =
             Cardinality(Pending) + Cardinality(Running) - Cardinality(Pending \cap Running)
      BY <1>1, FS_Union
    <2> QED
      BY <2>1, <2>2, <2>3
  <1>4. Cardinality(Pending \cup Running) <= Cardinality(Live)
    BY <1>2, FS_Subset DEF AccountInv, LiveAreCounted
  <1> QED
    BY <1>3, <1>4, PendingCount, CountTypes DEF AccountInv, LiveAreCounted

LEMMA FreeCount ==
    ASSUME AccountInv, ~stopping
    PROVE  count - Cardinality(Running) <= Cardinality(Free)
  <1> DEFINE W == In("work")
             N == 1..count
  <1>1. W \subseteq N /\ N \subseteq Workers
    BY CountTypes DEF In, AccountInv, PoolInv, WorkersHavePool, Workers
  <1>2. N \ W \subseteq Free
    BY <1>1, CountTypes DEF In, Free, AccountInv, WorkersServe, WorkerStates
  <1>3. IsFiniteSet(Workers)
    <2>1. 1 \in Int /\ WorkerLimit \in Int
      BY WorkersAssumption
    <2> QED
      BY <2>1, FS_Interval DEF Workers
  <1>4. IsFiniteSet(Free) /\ Cardinality(Free) \in Nat
    <2>1. Free \in SUBSET Workers
      BY DEF Free, In
    <2> QED
      BY <1>3, <2>1, FS_Subset, FS_CardinalityType
  <1>5. IsFiniteSet(N) /\ Cardinality(N) = count
    <2>1. 1 \in Int /\ count \in Int /\ count >= 0
      BY CountTypes
    <2>2. IsFiniteSet(N) /\ Cardinality(N) = IF 1 > count THEN 0 ELSE count - 1 + 1
      BY <2>1, FS_Interval
    <2> QED
      BY <2>1, <2>2
  <1>6. N \cap W = W
    BY <1>1
  <1> HIDE DEF N, W
  <1>7. Cardinality(N \ W) = Cardinality(N) - Cardinality(W)
    BY <1>5, <1>6, FS_Difference
  <1>8. Cardinality(N \ W) <= Cardinality(Free)
    BY <1>2, <1>4, FS_Subset
  <1> QED
    BY <1>4, <1>5, <1>7, <1>8, RunningCount DEF W

(* fdn_blocking_poll adds a worker whenever as many jobs are live as there *)
(* are workers: below FDN_BLOCKING_WORKER_LIMIT no job waits behind        *)
(* another one's work, for any limit and any number of tasks.              *)
THEOREM EveryJobHasAWorker == Spec => []WorkerForEveryJob
  <1>1. AccountInv => WorkerForEveryJob
    <2> SUFFICES ASSUME AccountInv, jobs <= WorkerLimit PROVE Len(pending) <= Cardinality(Free)
      BY DEF WorkerForEveryJob, Free
    <2>1. /\ Len(pending) + Cardinality(Running) <= jobs /\ Len(pending) \in Nat
          /\ Cardinality(Running) \in Nat /\ jobs \in Nat /\ count \in Nat
      BY LiveCount, RunningCount, CountTypes
    <2>2. IsFiniteSet(Free) /\ Cardinality(Free) \in Nat
      <3>1. 1 \in Int /\ WorkerLimit \in Int
        BY WorkersAssumption
      <3>2. Free \in SUBSET Workers /\ IsFiniteSet(Workers)
        BY <3>1, FS_Interval DEF Free, In, Workers
      <3> QED
        BY <3>2, FS_Subset, FS_CardinalityType
    <2>3. CASE ~open \/ stopping
      <3>1. jobs = 0
        BY <2>3 DEF AccountInv, StopsWhenEmpty
      <3> QED
        BY <2>1, <2>2, <3>1
    <2>4. CASE open /\ ~stopping
      <3>1. jobs <= count
        BY <2>4, CountTypes DEF AccountInv, WorkersServe
      <3> QED
        BY <2>1, <2>2, <2>4, <3>1, FreeCount
    <2> QED
      BY <2>3, <2>4
  <1> QED
    BY <1>1, AccountInit, AccountStep, PTL DEF Spec

-----------------------------------------------------------------------------
(* The pool implements the job service.                                    *)
Finished == {t \in Tasks : job[t] \in {"complete", "woken"}}
Phase == IF ~open THEN "closed" ELSE IF stopping THEN "draining" ELSE "accepting"

(* Cardinality is the same operator in the service's module.               *)
LEMMA SameCardinality ==
    ASSUME NEW S
    PROVE  Service!Cardinality(S) = Cardinality(S)
  BY DEF Service!Cardinality, Cardinality

(* A worker that is free for a job is one that no running job has.         *)
LEMMA CapacityLeft ==
    ASSUME AccountInv, NEW w \in Workers, wpc[w] # "work"
    PROVE  Cardinality(Running) < WorkerLimit
  <1>1. 1 \in Int /\ WorkerLimit \in Int /\ WorkerLimit >= 1
    BY WorkersAssumption
  <1>2. IsFiniteSet(Workers) /\ Cardinality(Workers) = WorkerLimit
    <2>1. IsFiniteSet(Workers) /\ Cardinality(Workers) = IF 1 > WorkerLimit THEN 0 ELSE WorkerLimit - 1 + 1
      BY <1>1, FS_Interval DEF Workers
    <2> QED
      BY <1>1, <2>1
  <1>3. IsFiniteSet(Workers \ {w}) /\ Cardinality(Workers \ {w}) = Cardinality(Workers) - 1
    BY <1>2, FS_RemoveElement
  <1>4. In("work") \in SUBSET (Workers \ {w})
    BY DEF In
  <1>5. Cardinality(In("work")) <= Cardinality(Workers \ {w})
    BY <1>3, <1>4, FS_Subset
  <1> QED
    BY <1>1, <1>2, <1>3, <1>5, RunningCount

(* The pool that stops has no job left.                                    *)
LEMMA NoneLeft ==
    ASSUME AccountInv, jobs = 0
    PROVE  pending = <<>> /\ Running = {} /\ Finished = {}
  <1>1. Live = {}
    BY FS_EmptySet DEF AccountInv, LiveAreCounted
  <1>2. \A t \in Tasks : job[t] = "none"
    BY <1>1 DEF Live
  <1>3. pending = <<>>
    BY <1>2, CountTypes DEF AccountInv, JobInv, QueuesAgree
  <1> QED
    BY <1>2, <1>3 DEF Running, Finished

(* Every step of the pool is a step of the service, or none.               *)
LEMMA ServiceStep ==
    ASSUME AccountInv, [Next]_vars
    PROVE  [Service!Next]_(Service!vars)
  <1>1. UNCHANGED <<pending, Running, Finished, Phase>> => UNCHANGED Service!vars
    BY DEF Service!vars, Running, Finished, Phase
  <1>2. ASSUME NEW t \in Tasks, Open(t) PROVE [Service!Next]_(Service!vars)
    <2>1. UNCHANGED <<job, pending, stopping>> /\ pc = "run"
      BY <1>2 DEF Open
    <2>2. CASE open
      BY <1>1, <1>2, <2>1, <2>2 DEF Open, Running, Finished, Phase
    <2>3. CASE ~open
      <3>1. ~stopping /\ open'
        BY <1>2, <2>1, <2>3 DEF Open, AccountInv, StopsWhenEmpty
      <3>2. Service!Open
        BY <2>1, <2>3, <3>1 DEF Service!Open
      <3> QED
        BY <3>2 DEF Service!Next
    <2> QED
      BY <2>2, <2>3
  <1>3. ASSUME NEW w \in Workers, Submit(w) PROVE Service!Next
    <2>1. PICK t \in Tasks : t = caller /\ job[t] = "none"
      BY <1>3 DEF Submit, AccountInv, JobInv, CallerKnows
    <2>2. /\ pending' = Append(pending, t) /\ job' = [job EXCEPT ![t] = "pending"]
          /\ UNCHANGED <<open, stopping>> /\ open /\ ~stopping
      BY <1>3, <2>1 DEF Submit, AccountInv, PoolInv, WorkersHavePool, StopsWhenEmpty
    <2>3. t \notin Service!Known
      BY <2>1 DEF Service!Known, Service!Waiting, AccountInv, JobInv, QueuesAgree
    <2>4. Running' = Running /\ Finished' = Finished
      BY <2>1, <2>2, CountTypes DEF Running, Finished
    <2>5. Service!Submit(t)
      BY <2>2, <2>3, <2>4 DEF Service!Submit, Running, Finished
    <2> QED
      BY <2>5 DEF Service!Next
  <1>4. ASSUME NEW w \in Workers, Take(w) PROVE Service!Next
    <2>1. /\ wpc[w] = "check" /\ pending # <<>> /\ pending' = Tail(pending)
          /\ job' = [job EXCEPT ![Head(pending)] = "running"] /\ UNCHANGED <<open, stopping>>
      BY <1>4 DEF Take
    <2>2. Head(pending) \in Tasks /\ job[Head(pending)] = "pending"
      BY <2>1, CountTypes, TailFacts DEF AccountInv, JobInv, QueuesAgree
    <2>3. Running' = Running \cup {Head(pending)} /\ Finished' = Finished
      BY <2>1, <2>2, CountTypes DEF Running, Finished
    <2>4. Cardinality(Running) < WorkerLimit
      BY <2>1, CapacityLeft
    <2>5. Service!Start
      BY <2>1, <2>3, <2>4, SameCardinality DEF Service!Start, Running, Finished
    <2> QED
      BY <2>5 DEF Service!Next
  <1>5. ASSUME NEW w \in Workers, Finish(w) PROVE Service!Next
    <2>1. /\ wpc[w] = "work" /\ job' = [job EXCEPT ![wjob[w]] = "complete"]
          /\ UNCHANGED <<pending, open, stopping>>
      BY <1>5 DEF Finish
    <2>2. PICK t \in Tasks : t = wjob[w] /\ job[t] = "running"
      BY <2>1 DEF AccountInv, JobInv, QueuesAgree
    <2>3. t \in Running /\ Running' = Running \ {t} /\ Finished' = Finished \cup {t}
      BY <2>1, <2>2, CountTypes DEF Running, Finished
    <2>4. Service!Finish(t)
      BY <2>1, <2>3 DEF Service!Finish, Running, Finished
    <2> QED
      BY <2>4 DEF Service!Next
  <1>6. ASSUME NEW t \in Tasks, Resume(t) PROVE Service!Next
    <2>1. job' = [job EXCEPT ![t] = "none"] /\ job[t] = "woken" /\ UNCHANGED <<pending, open, stopping>>
      BY <1>6 DEF Resume
    <2>2. t \in Finished /\ Running' = Running /\ Finished' = Finished \ {t}
      BY <2>1, CountTypes DEF Running, Finished
    <2>3. Service!Forget(t)
      BY <2>1, <2>2 DEF Service!Forget, Running, Finished
    <2> QED
      BY <2>3 DEF Service!Next
  <1>7. CASE Stop
    <2>1. UNCHANGED <<job, pending, open>> /\ open /\ ~stopping /\ stopping'
      BY <1>7 DEF Stop, jobVars, AccountInv, StopsWhenEmpty
    <2>2. Service!Stop
      BY <2>1 DEF Service!Stop
    <2> QED
      BY <2>2 DEF Service!Next
  <1>8. CASE Join
    <2>1. UNCHANGED <<job, pending>> /\ open /\ stopping /\ ~open' /\ jobs = 0
      BY <1>8 DEF Join, jobVars, AccountInv, StopsWhenEmpty
    <2>2. Service!Known = {}
      BY <2>1, NoneLeft DEF Service!Known, Service!Waiting, Running, Finished
    <2>3. Service!Close
      BY <2>1, <2>2 DEF Service!Close
    <2> QED
      BY <2>3 DEF Service!Next
  <1>9. CASE WakeCompleted
    <2>1. job' = [job EXCEPT ![Head(complete)] = "woken"] /\ UNCHANGED <<pending, open, stopping>>
      BY <1>9 DEF WakeCompleted
    <2>2. Head(complete) \in Tasks /\ job[Head(complete)] = "complete"
      BY <1>9, CountTypes, TailFacts DEF WakeCompleted, AccountInv, JobInv, QueuesAgree
    <2>3. Running' = Running /\ Finished' = Finished
      BY <2>1, <2>2, CountTypes DEF Running, Finished
    <2> QED
      BY <1>1, <2>1, <2>3 DEF Phase
  <1>10. CASE UNCHANGED vars \/ (\E t \in Tasks : Cancel(t))
              \/ \E w \in Workers : Sleep(w) \/ Exit(w) \/ Spurious(w) \/ Notify(w)
    <2>1. UNCHANGED <<job, pending, open, stopping>>
      BY <1>10 DEF vars, Cancel, Sleep, Exit, Spurious, Notify, jobVars, poolVars
    <2> QED
      BY <1>1, <2>1 DEF Running, Finished, Phase
  <1> QED
    BY <1>2, <1>3, <1>4, <1>5, <1>6, <1>7, <1>8, <1>9, <1>10, StepCases

(* blocking.c is a job service, for any number of tasks and workers: jobs  *)
(* start in the order of the calls, each runs once and on a worker of its  *)
(* own, at most FDN_BLOCKING_WORKER_LIMIT at a time, and the pool that is  *)
(* stopped, joined and freed has no job left.                              *)
THEOREM ExecutorImplementsService == Spec => ImplementsService
  <1>1. Init => Service!Init
    BY DEF Init, Service!Init
  <1>2. AccountInv /\ [Next]_vars => AccountInv'
    BY AccountStep
  <1>3. AccountInv /\ [Next]_vars => [Service!Next]_(Service!vars)
    BY ServiceStep
  <1> QED
    BY <1>1, <1>2, <1>3, AccountInit, PTL DEF Spec, ImplementsService, Service!Spec
============================================================================
