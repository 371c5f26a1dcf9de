------------------------- MODULE ParallelPoolProofs -------------------------
(* Proofs about ParallelPool: a joined pool is empty, for any number of    *)
(* jobs and workers.                                                       *)
EXTENDS ParallelPool, FiniteSetTheorems, TLAPS

(* What the tail and the extension of a queue are made of.                 *)
LEMMA TailFacts ==
    ASSUME NEW S, NEW s \in Seq(S), s # <<>>
    PROVE  /\ Tail(s) \in Seq(S) /\ Head(s) \in S /\ Head(s) = s[1]
           /\ 1 \in DOMAIN s
           /\ \A i \in DOMAIN Tail(s) : i + 1 \in DOMAIN s /\ Tail(s)[i] = s[i + 1] /\ i + 1 # 1
           /\ \A i \in DOMAIN s : i # 1 => i - 1 \in DOMAIN Tail(s) /\ Tail(s)[i - 1] = s[i]
           /\ \A i, k \in DOMAIN Tail(s) : i + 1 = k + 1 => i = k
  OBVIOUS

(* What a sequence extended at its end is made of.                         *)
LEMMA AppendFacts ==
    ASSUME NEW S, NEW s \in Seq(S), NEW x \in S
    PROVE  /\ Append(s, x) \in Seq(S)
           /\ DOMAIN s \subseteq DOMAIN Append(s, x)
           /\ \A i \in DOMAIN s : Append(s, x)[i] = s[i]
           /\ \A i \in DOMAIN Append(s, x) : i \in DOMAIN s \/ i = Len(s) + 1
           /\ Len(s) + 1 \in DOMAIN Append(s, x)
           /\ Append(s, x)[Len(s) + 1] = x
           /\ Len(s) + 1 \notin DOMAIN s
  OBVIOUS

(* The empty queue.                                                        *)
LEMMA EmptyFacts ==
    ASSUME NEW S, NEW s \in Seq(S)
    PROVE  s = <<>> <=> \A i \in DOMAIN s : FALSE
  OBVIOUS

(* A worker's task parks, in either kind of wait.                          *)
Parks(w) == \E wait \in Waits : Park(w, wait)

(* The kinds of steps: those of the owner, those of a worker at the queue, *)
(* and those of a worker's executor that leave every job where it is.      *)
LEMMA StepCases ==
    ASSUME [Next]_vars
    PROVE  \/ Open \/ Join \/ Release
           \/ \E j \in Jobs, w \in Workers : Submit(j, w)
           \/ \E cancel \in BOOLEAN : Shutdown(cancel)
           \/ \E w \in Workers : Sleep(w) \/ Spurious(w)
           \/ \E w \in Workers : Exit(w)
           \/ \E w \in Workers : Take(w)
           \/ \E w \in Workers : Remove(w)
           \/ \E w \in Workers : Ready(w)
           \/ \E w \in Workers : \/ PollCancellation(w) \/ Parks(w) \/ Yield(w)
                                 \/ Wait(w) \/ Woken(w) \/ Timeout(w)
           \/ UNCHANGED vars
  BY DEF Next, Owner, Worker, Progress, Parks

(* Type correctness is inductive with the place of the jobs.               *)
LEMMA TypeStep ==
    ASSUME PoolInv, [Next]_vars
    PROVE  TypeOK'
  <1> USE JobsAssumption, WorkersAssumption, MaxTurnsAssumption
      DEF PoolInv, TypeOK, JobStates, OwnerStates, WorkerStates, Goto
  <1>1. CASE UNCHANGED vars
    BY <1>1 DEF vars, jobVars, ownerVars, workerVars
  <1>2. CASE Open \/ Join \/ Release
    BY <1>2 DEF Open, Join, Release, jobVars, ownerVars, workerVars
  <1>3. ASSUME NEW j \in Jobs, NEW v \in Workers, Submit(j, v)
        PROVE  TypeOK'
    <2>1. pending' \in Seq(Jobs)
      BY <1>3, AppendFacts DEF Submit
    <2>2. wpc' \in [Workers -> WorkerStates]
      BY <1>3 DEF Submit
    <2> QED BY <1>3, <2>1, <2>2 DEF Submit, ownerVars
  <1>4. ASSUME NEW cancel \in BOOLEAN, Shutdown(cancel)
        PROVE  TypeOK'
    BY <1>4 DEF Shutdown
  <1>5. ASSUME NEW w \in Workers, Sleep(w) \/ Spurious(w) \/ Exit(w)
        PROVE  TypeOK'
    BY <1>5 DEF Sleep, Spurious, Exit, jobVars, ownerVars
  <1>6. ASSUME NEW w \in Workers, Take(w)
        PROVE  TypeOK'
    <2>1. Tail(pending) \in Seq(Jobs) /\ Head(pending) \in Jobs
      BY <1>6, TailFacts DEF Take
    <2> QED BY <1>6, <2>1 DEF Take, ownerVars
  <1>7. ASSUME NEW w \in Workers, Remove(w)
        PROVE  TypeOK'
    BY <1>7 DEF Remove, ownerVars
  <1>8. ASSUME NEW w \in Workers, Ready(w)
        PROVE  TypeOK'
    BY <1>8 DEF Ready, ownerVars
  <1>9. ASSUME NEW w \in Workers, Busy(w), PollCancellation(w) \/ Parks(w) \/ Yield(w)
        PROVE  TypeOK'
    <2>1. wjob[w] \in Jobs
      BY <1>9 DEF JobsPlaced
    <2>2. CASE PollCancellation(w)
      <3>1. cancelled' \in [Jobs -> BOOLEAN]
        BY <2>1, <2>2 DEF PollCancellation
      <3>2. task' \in [Jobs -> TaskStates]
        BY <2>1, <2>2 DEF PollCancellation, Unparked, TaskStates
      <3> QED BY <2>2, <3>1, <3>2 DEF PollCancellation, ownerVars
    <2>3. CASE Parks(w)
      <3>1. PICK wait \in Waits : Park(w, wait)
        BY <2>3 DEF Parks
      <3>2. turns' \in [Jobs -> 0..MaxTurns]
        BY <2>1, <3>1 DEF Park, Counted
      <3>3. task' \in [Jobs -> TaskStates]
        BY <2>1, <3>1 DEF Park, TaskStates
      <3> QED BY <3>1, <3>2, <3>3 DEF Park, ownerVars
    <2>4. CASE Yield(w)
      <3>1. turns' \in [Jobs -> 0..MaxTurns]
        BY <2>1, <2>4 DEF Yield
      <3> QED BY <2>4, <3>1 DEF Yield, ownerVars
    <2> QED BY <1>9, <2>2, <2>3, <2>4
  <1>10. ASSUME NEW w \in Workers, Wait(w) \/ Woken(w) \/ Timeout(w)
        PROVE  TypeOK'
    <2>1. CASE Wait(w) \/ Timeout(w)
      BY <2>1 DEF Wait, Timeout, jobVars, ownerVars
    <2>2. CASE Woken(w)
      <3>1. task' \in [Jobs -> TaskStates]
        BY <2>2 DEF Woken, TaskStates
      <3>2. wpc' \in [Workers -> WorkerStates]
        BY <2>2 DEF Woken
      <3> QED BY <2>2, <3>1, <3>2 DEF Woken, ownerVars
    <2> QED BY <1>10, <2>1, <2>2
  <1>11. ASSUME NEW w \in Workers
        PROVE  (PollCancellation(w) \/ Parks(w) \/ Yield(w)) => Busy(w)
    BY DEF PollCancellation, Parks, Park, Yield, Busy
  <1> QED BY <1>1, <1>2, <1>3, <1>4, <1>5, <1>6, <1>7, <1>8, <1>9, <1>10, <1>11, StepCases

(* A step that moves no job keeps them placed, when a worker that was busy *)
(* stays busy, one that was not stays so, and none leaves.                 *)
LEMMA PlacedUnmoved ==
    ASSUME PoolInv, job' = job, pending' = pending, wjob' = wjob,
           \A w \in Workers : Busy(w)' <=> Busy(w),
           \A w \in Workers : wpc'[w] = "exited" => wpc[w] = "exited" \/ MayExit,
           Stopping => Stopping', pc' # "closed" \/ UNCHANGED <<pc, wpc>>
    PROVE  JobsPlaced'
  BY DEF PoolInv, JobsPlaced, MayExit

(* Every step keeps the jobs placed.                                       *)
LEMMA PlacedStep ==
    ASSUME PoolInv, [Next]_vars
    PROVE  JobsPlaced'
  <1> USE JobsAssumption, WorkersAssumption DEF PoolInv, WorkerStates
  <1>1. CASE UNCHANGED vars
    BY <1>1, PlacedUnmoved DEF vars, jobVars, ownerVars, workerVars, Busy, Stopping
  <1>2. CASE Open
    BY <1>2, PlacedUnmoved DEF Open, jobVars, Busy, Stopping, JobsPlaced
  <1>3. CASE Join \/ Release
    BY <1>3, PlacedUnmoved DEF Join, Release, jobVars, ownerVars, workerVars, Busy, Stopping
  <1>4. ASSUME NEW j \in Jobs, NEW v \in Workers, Submit(j, v)
        PROVE  JobsPlaced'
    <2> DEFINE q == pending
               q1 == Append(pending, j)
    <2>1. /\ pc = "run" /\ job[j] = "new" /\ pending' = q1 /\ pc' = pc /\ wjob' = wjob
          /\ job' = [job EXCEPT ![j] = "pending"]
          /\ \A w \in Workers : wpc'[w] = wpc[w] \/ (wpc[w] = "asleep" /\ wpc'[w] = "check")
      BY <1>4 DEF Submit, Signalled, In, ownerVars
    <2>2. \A w \in Workers : Busy(w)' <=> Busy(w)
      BY <2>1 DEF Busy
    <2>3. \A i \in DOMAIN q : job[q[i]] = "pending"
      BY DEF JobsPlaced
    <2>4. pending \in Seq(Jobs) /\ job \in [Jobs -> JobStates]
      BY DEF TypeOK
    <2> HIDE DEF q1
    <2>5. \A i \in DOMAIN q1 : (i \in DOMAIN q /\ q1[i] = q[i]) \/ (i = Len(q) + 1 /\ q1[i] = j)
      BY <2>4, AppendFacts DEF q1
    <2>6. \A i \in DOMAIN q : i \in DOMAIN q1 /\ q1[i] = q[i]
      BY <2>4, AppendFacts DEF q1
    <2>7. Len(q) + 1 \in DOMAIN q1 /\ q1[Len(q) + 1] = j
      BY <2>4, AppendFacts DEF q1
    <2>8. \A i \in DOMAIN q : q[i] \in Jobs
      BY <2>4
    <2>9. \A i \in DOMAIN q1 : job'[q1[i]] = "pending"
      BY <2>1, <2>3, <2>4, <2>5, <2>8
    <2>10. \A i, k \in DOMAIN q1 : q1[i] = q1[k] => i = k
      BY <2>1, <2>3, <2>5 DEF JobsPlaced
    <2>11. \A h \in Jobs : job'[h] = "pending" => \E i \in DOMAIN q1 : q1[i] = h
      BY <2>1, <2>4, <2>6, <2>7 DEF JobsPlaced
    <2>12. \A h \in Jobs : job'[h] \in {"running", "done"} =>
                  \E w \in Workers : Busy(w)' /\ wjob'[w] = h
      BY <2>1, <2>2, <2>4 DEF JobsPlaced
    <2>13. \A w \in Workers : Busy(w)' => wjob'[w] \in Jobs /\ job'[wjob'[w]] \in {"running", "done"}
      BY <2>1, <2>2, <2>4 DEF JobsPlaced
    <2>14. \A w \in Workers : wpc'[w] # "exited"
      BY <2>1 DEF JobsPlaced, Stopping
    <2>15. \A u, w \in Workers : (Busy(u)' /\ Busy(w)' /\ wjob'[u] = wjob'[w]) => u = w
      BY <2>1, <2>2 DEF JobsPlaced
    <2> QED BY <2>1, <2>9, <2>10, <2>11, <2>12, <2>13, <2>14, <2>15 DEF JobsPlaced
  <1>5. ASSUME NEW cancel \in BOOLEAN, Shutdown(cancel)
        PROVE  JobsPlaced'
    BY <1>5, PlacedUnmoved DEF Shutdown, Busy, Stopping, TypeOK
  <1>6. ASSUME NEW w \in Workers, Sleep(w) \/ Spurious(w) \/ Exit(w)
        PROVE  JobsPlaced'
    <2>1. pc # "closed"
      BY <1>6 DEF Sleep, Spurious, Exit, JobsPlaced
    <2> QED BY <1>6, <2>1, PlacedUnmoved
            DEF Sleep, Spurious, Exit, Goto, jobVars, ownerVars, Busy, Stopping, TypeOK
  <1>7. ASSUME NEW v \in Workers, Take(v)
        PROVE  JobsPlaced'
    <2> DEFINE q == pending
               q1 == Tail(pending)
               h == Head(pending)
    <2>1. /\ pending' = q1 /\ pc' = pc /\ wjob' = [wjob EXCEPT ![v] = h]
          /\ job' = [job EXCEPT ![h] = "running"] /\ wpc' = [wpc EXCEPT ![v] = "exec"]
          /\ wpc[v] = "check" /\ pending # <<>>
      BY <1>7 DEF Take, ownerVars, Goto
    <2>2. /\ pending \in Seq(Jobs) /\ job \in [Jobs -> JobStates]
          /\ wpc \in [Workers -> WorkerStates] /\ wjob \in [Workers -> Jobs \cup {NoJob}]
      BY DEF TypeOK
    <2> HIDE DEF q1, h
    <2>3. 1 \in DOMAIN q /\ h = q[1] /\ h \in Jobs /\ job[h] = "pending"
      BY <2>1, <2>2, TailFacts DEF h, JobsPlaced
    <2>4. \A i \in DOMAIN q1 : i + 1 \in DOMAIN q /\ q1[i] = q[i + 1] /\ i + 1 # 1
      BY <2>1, <2>2, TailFacts DEF q1
    <2>5. \A i \in DOMAIN q : i # 1 => i - 1 \in DOMAIN q1 /\ q1[i - 1] = q[i]
      BY <2>1, <2>2, TailFacts DEF q1
    <2>6. \A i, k \in DOMAIN q1 : i + 1 = k + 1 => i = k
      BY <2>1, <2>2, TailFacts DEF q1
    <2>7. \A i \in DOMAIN q1 : q1[i] # h /\ q1[i] \in Jobs
      BY <2>2, <2>3, <2>4 DEF JobsPlaced
    <2>8. \A w \in Workers : Busy(w)' <=> (Busy(w) \/ w = v)
      BY <2>1, <2>2 DEF Busy
    <2>9. ~Busy(v)
      BY <2>1 DEF Busy
    <2>10. \A i \in DOMAIN q1 : job'[q1[i]] = "pending"
      BY <2>1, <2>2, <2>4, <2>7 DEF JobsPlaced
    <2>11. \A i, k \in DOMAIN q1 : q1[i] = q1[k] => i = k
      BY <2>4, <2>6 DEF JobsPlaced
    <2>12. \A g \in Jobs : job'[g] = "pending" => \E i \in DOMAIN q1 : q1[i] = g
      BY <2>1, <2>2, <2>3, <2>5 DEF JobsPlaced
    <2>13. \A g \in Jobs : job'[g] \in {"running", "done"} =>
                  \E w \in Workers : Busy(w)' /\ wjob'[w] = g
      <3> SUFFICES ASSUME NEW g \in Jobs, job'[g] \in {"running", "done"}
                   PROVE  \E w \in Workers : Busy(w)' /\ wjob'[w] = g
        OBVIOUS
      <3>1. CASE g = h
        BY <2>1, <2>2, <2>8, <3>1
      <3>2. CASE g # h
        <4>1. PICK w \in Workers : Busy(w) /\ wjob[w] = g
          BY <2>1, <2>2, <3>2 DEF JobsPlaced
        <4> QED BY <2>1, <2>2, <2>8, <2>9, <4>1
      <3> QED BY <3>1, <3>2
    <2>14. \A w \in Workers : Busy(w)' => wjob'[w] \in Jobs /\ job'[wjob'[w]] \in {"running", "done"}
      BY <2>1, <2>2, <2>3, <2>8 DEF JobsPlaced
    <2>15. \A u, w \in Workers : (Busy(u)' /\ Busy(w)' /\ wjob'[u] = wjob'[w]) => u = w
      BY <2>1, <2>2, <2>3, <2>8 DEF JobsPlaced
    <2>16. \A w \in Workers : wpc'[w] # "exited"
      BY <2>1, <2>2 DEF JobsPlaced
    <2>17. pc # "closed"
      BY <2>1 DEF JobsPlaced
    <2> QED BY <2>1, <2>10, <2>11, <2>12, <2>13, <2>14, <2>15, <2>16, <2>17 DEF JobsPlaced
  <1>8. ASSUME NEW v \in Workers, Remove(v)
        PROVE  JobsPlaced'
    <2>1. /\ pending' = pending /\ pc' = pc /\ wjob' = [wjob EXCEPT ![v] = NoJob]
          /\ job' = [job EXCEPT ![wjob[v]] = "removed"] /\ wpc' = [wpc EXCEPT ![v] = "check"]
          /\ wpc[v] = "finished"
      BY <1>8 DEF Remove, ownerVars, Goto
    <2>2. /\ job \in [Jobs -> JobStates] /\ pending \in Seq(Jobs)
          /\ wpc \in [Workers -> WorkerStates] /\ wjob \in [Workers -> Jobs \cup {NoJob}]
      BY DEF TypeOK
    <2>3. Busy(v) /\ wjob[v] \in Jobs /\ job[wjob[v]] \in {"running", "done"}
      BY <2>1 DEF Busy, JobsPlaced
    <2>4. \A w \in Workers : Busy(w)' <=> (Busy(w) /\ w # v)
      BY <2>1, <2>2 DEF Busy
    <2>5. \A i \in DOMAIN pending : job[pending[i]] = "pending" /\ pending[i] \in Jobs
      BY <2>2 DEF JobsPlaced
    <2>6. \A i \in DOMAIN pending : job'[pending[i]] = "pending"
      BY <2>1, <2>2, <2>3, <2>5
    <2>7. \A g \in Jobs : job'[g] = "pending" => \E i \in DOMAIN pending : pending[i] = g
      BY <2>1, <2>2, <2>3 DEF JobsPlaced
    <2>8. \A g \in Jobs : job'[g] \in {"running", "done"} =>
                  \E w \in Workers : Busy(w)' /\ wjob'[w] = g
      BY <2>1, <2>2, <2>3, <2>4 DEF JobsPlaced
    <2>9. \A w \in Workers : Busy(w)' => wjob'[w] \in Jobs /\ job'[wjob'[w]] \in {"running", "done"}
      BY <2>1, <2>2, <2>3, <2>4 DEF JobsPlaced
    <2>10. \A u, w \in Workers : (Busy(u)' /\ Busy(w)' /\ wjob'[u] = wjob'[w]) => u = w
      BY <2>1, <2>2, <2>4 DEF JobsPlaced
    <2>11. \A w \in Workers : wpc'[w] = "exited" => Stopping' /\ pending' = <<>>
      BY <2>1, <2>2 DEF JobsPlaced, Stopping
    <2>12. pc # "closed"
      BY <2>1 DEF JobsPlaced
    <2> QED BY <2>1, <2>6, <2>7, <2>8, <2>9, <2>10, <2>11, <2>12 DEF JobsPlaced
  <1>9. ASSUME NEW v \in Workers, Ready(v)
        PROVE  JobsPlaced'
    <2>1. /\ pending' = pending /\ pc' = pc /\ wjob' = wjob
          /\ job' = [job EXCEPT ![wjob[v]] = "done"] /\ wpc' = [wpc EXCEPT ![v] = "finished"]
          /\ wpc[v] = "turn"
      BY <1>9 DEF Ready, ownerVars, Goto
    <2>2. /\ job \in [Jobs -> JobStates] /\ pending \in Seq(Jobs)
          /\ wpc \in [Workers -> WorkerStates]
      BY DEF TypeOK
    <2>3. Busy(v) /\ wjob[v] \in Jobs /\ job[wjob[v]] \in {"running", "done"}
      BY <2>1 DEF Busy, JobsPlaced
    <2>4. \A w \in Workers : Busy(w)' <=> Busy(w)
      BY <2>1, <2>2 DEF Busy
    <2>5. \A i \in DOMAIN pending : job[pending[i]] = "pending" /\ pending[i] \in Jobs
      BY <2>2 DEF JobsPlaced
    <2>6. \A i \in DOMAIN pending : job'[pending[i]] = "pending"
      BY <2>1, <2>2, <2>3, <2>5
    <2>7. \A g \in Jobs : job'[g] = "pending" => \E i \in DOMAIN pending : pending[i] = g
      BY <2>1, <2>2, <2>3 DEF JobsPlaced
    <2>8. \A g \in Jobs : job'[g] \in {"running", "done"} =>
                  \E w \in Workers : Busy(w)' /\ wjob'[w] = g
      BY <2>1, <2>2, <2>3, <2>4 DEF JobsPlaced
    <2>9. \A w \in Workers : Busy(w)' => wjob'[w] \in Jobs /\ job'[wjob'[w]] \in {"running", "done"}
      BY <2>1, <2>2, <2>3, <2>4 DEF JobsPlaced
    <2>10. \A u, w \in Workers : (Busy(u)' /\ Busy(w)' /\ wjob'[u] = wjob'[w]) => u = w
      BY <2>1, <2>4 DEF JobsPlaced
    <2>11. \A w \in Workers : wpc'[w] = "exited" => Stopping' /\ pending' = <<>>
      BY <2>1, <2>2 DEF JobsPlaced, Stopping
    <2>12. pc # "closed"
      BY <2>1 DEF JobsPlaced
    <2> QED BY <2>1, <2>6, <2>7, <2>8, <2>9, <2>10, <2>11, <2>12 DEF JobsPlaced
  <1>10. ASSUME NEW w \in Workers,
                \/ PollCancellation(w) \/ Parks(w) \/ Yield(w)
                \/ Wait(w) \/ Woken(w) \/ Timeout(w)
         PROVE  JobsPlaced'
    <2>1. /\ job' = job /\ pending' = pending /\ wjob' = wjob /\ pc' = pc
          /\ Busy(w) /\ wpc[w] # "exited"
          /\ \E s \in {"exec", "turn", "idle"} : wpc' = [wpc EXCEPT ![w] = s]
      BY <1>10 DEF PollCancellation, Parks, Park, Yield, Wait, Woken, Timeout, Goto, Busy, jobVars, ownerVars
    <2>2. pc # "closed"
      BY <2>1 DEF Busy, JobsPlaced
    <2> QED BY <2>1, <2>2, PlacedUnmoved DEF Busy, Stopping, TypeOK
  <1> QED BY <1>1, <1>2, <1>3, <1>4, <1>5, <1>6, <1>7, <1>8, <1>9, <1>10, StepCases

(* The pool only becomes joined when all workers left, and then no job is  *)
(* at one of them or in the queue.                                         *)
LEMMA JoinedStep ==
    ASSUME PoolInv, [Next]_vars
    PROVE  JoinedIsEmpty'
  <1> USE JobsAssumption, WorkersAssumption DEF PoolInv, JoinedIsEmpty, Listed
  <1>1. CASE Join
    <2>1. PICK v \in Workers : wpc[v] = "exited"
      BY <1>1 DEF Join
    <2>2. pending = <<>>
      BY <2>1 DEF JobsPlaced
    <2>3. \A w \in Workers : ~Busy(w)
      BY <1>1 DEF Join, Busy
    <2>4. \A j \in Jobs : ~Listed(j)
      BY <2>2, <2>3 DEF JobsPlaced
    <2> QED BY <1>1, <2>2, <2>4 DEF Join, jobVars
  <1>2. CASE pc \in {"joined", "released"} /\ ~Join
    <2>1. ASSUME NEW w \in Workers PROVE ~Busy(w)
      BY <1>2 DEF JobsPlaced
    <2>2. UNCHANGED <<job, pending>>
      BY <1>2, <2>1, StepCases
         DEF Open, Release, Submit, Shutdown, Sleep, Spurious, Exit, Take, Remove, Ready,
             PollCancellation, Parks, Park, Yield, Wait, Woken, Timeout, vars, jobVars, Busy
    <2> QED BY <1>2, <2>2
  <1>3. CASE pc \notin {"joined", "released"} /\ ~Join
    <2>1. pc' \notin {"joined", "released"}
      BY <1>3, StepCases
         DEF Open, Release, Submit, Shutdown, Sleep, Spurious, Exit, Take, Remove, Ready,
             PollCancellation, Parks, Park, Yield, Wait, Woken, Timeout, vars, ownerVars
    <2> QED BY <2>1
  <1> QED BY <1>1, <1>2, <1>3

LEMMA PoolInit == Init => PoolInv
  <1> SUFFICES ASSUME Init PROVE PoolInv
    OBVIOUS
  <1> USE JobsAssumption, WorkersAssumption, MaxTurnsAssumption
  <1>1. TypeOK
    <2>1. turns \in [Jobs -> 0..MaxTurns] /\ pending \in Seq(Jobs)
      BY DEF Init
    <2>2. flag \in [Jobs -> BOOLEAN] /\ cancelled \in [Jobs -> BOOLEAN] /\ cancelling \in BOOLEAN
      BY Zenon DEF Init
    <2> QED BY <2>1, <2>2 DEF Init, TypeOK, JobStates, TaskStates, OwnerStates, WorkerStates
  <1>2. JobsPlaced
    BY DEF Init, JobsPlaced, Busy
  <1>3. JoinedIsEmpty
    BY DEF Init, JoinedIsEmpty
  <1> QED BY <1>1, <1>2, <1>3 DEF PoolInv

LEMMA PoolStep ==
    ASSUME PoolInv, [Next]_vars
    PROVE  PoolInv'
  BY TypeStep, PlacedStep, JoinedStep DEF PoolInv

(* A shutdown loses nothing, fdn_parallel_join: a joined pool has no       *)
(* pending, running or unreleased job.                                     *)
THEOREM JoinedPoolIsEmpty == Spec => []JoinedIsEmpty
  <1>1. PoolInv => JoinedIsEmpty
    BY DEF PoolInv
  <1> QED BY <1>1, PoolInit, PoolStep, PTL DEF Spec

-----------------------------------------------------------------------------
(* The pool implements the job service.                                    *)

(* A worker is where its job is, and stays so.                             *)
LEMMA FollowStep ==
    ASSUME PoolInv, WorkersFollow, [Next]_vars
    PROVE  WorkersFollow'
  <1>1. /\ job \in [Jobs -> JobStates] /\ pending \in Seq(Jobs)
        /\ wpc \in [Workers -> WorkerStates] /\ wjob \in [Workers -> Jobs \cup {NoJob}]
    BY DEF PoolInv, TypeOK
  <1>2. \A w \in Workers : Busy(w) => wjob[w] \in Jobs /\ job[wjob[w]] \in {"running", "done"}
    BY DEF PoolInv, JobsPlaced
  <1>3. \A v, w \in Workers : (Busy(v) /\ Busy(w) /\ wjob[v] = wjob[w]) => v = w
    BY DEF PoolInv, JobsPlaced
  <1>4. ASSUME NEW j \in Jobs, NEW v \in Workers, Submit(j, v) PROVE WorkersFollow'
    <2>1. /\ job[j] = "new" /\ wjob' = wjob /\ job' = [job EXCEPT ![j] = "pending"]
          /\ \A w \in Workers : wpc'[w] = wpc[w] \/ (wpc[w] = "asleep" /\ wpc'[w] = "check")
      BY <1>4 DEF Submit, Signalled, In
    <2> QED
      BY <1>1, <1>2, <2>1 DEF WorkersFollow, Busy
  <1>5. ASSUME NEW v \in Workers, Take(v) PROVE WorkersFollow'
    <2> DEFINE h == Head(pending)
    <2>1. /\ wjob' = [wjob EXCEPT ![v] = h] /\ job' = [job EXCEPT ![h] = "running"]
          /\ wpc' = [wpc EXCEPT ![v] = "exec"] /\ wpc[v] = "check"
      BY <1>5 DEF Take, Goto
    <2>2. h \in Jobs /\ job[h] = "pending"
      BY <1>1, <1>5, TailFacts DEF Take, PoolInv, JobsPlaced
    <2> HIDE DEF h
    <2> QED
      BY <1>1, <1>2, <2>1, <2>2 DEF WorkersFollow, Busy
  <1>6. ASSUME NEW v \in Workers, Remove(v) \/ Ready(v) PROVE WorkersFollow'
    <2>1. PICK to \in {"done", "removed"} :
             /\ job' = [job EXCEPT ![wjob[v]] = to] /\ Busy(v)
             /\ to = "done" => wjob' = wjob /\ wpc' = [wpc EXCEPT ![v] = "finished"]
             /\ to = "removed" => wjob' = [wjob EXCEPT ![v] = NoJob] /\ wpc' = [wpc EXCEPT ![v] = "check"]
      BY <1>6 DEF Remove, Ready, Goto, Busy
    <2>2. SUFFICES ASSUME NEW w \in Workers, Busy(w)'
                   PROVE  job'[wjob'[w]] = IF wpc'[w] = "finished" THEN "done" ELSE "running"
      BY DEF WorkersFollow
    <2>3. CASE w = v
      BY <1>1, <1>2, <2>1, <2>2, <2>3 DEF Busy
    <2>4. CASE w # v
      BY <1>1, <1>2, <1>3, <2>1, <2>2, <2>4 DEF Busy, WorkersFollow
    <2> QED
      BY <2>3, <2>4
  <1>7. ASSUME NEW v \in Workers,
               \/ PollCancellation(v) \/ Parks(v) \/ Yield(v)
               \/ Wait(v) \/ Woken(v) \/ Timeout(v)
        PROVE  WorkersFollow'
    <2>1. /\ job' = job /\ wjob' = wjob /\ wpc[v] \in {"exec", "turn", "idle"}
          /\ \E s \in {"exec", "turn", "idle"} : wpc' = [wpc EXCEPT ![v] = s]
      BY <1>7 DEF PollCancellation, Parks, Park, Yield, Wait, Woken, Timeout, Goto, jobVars
    <2> QED
      BY <1>1, <2>1 DEF WorkersFollow, Busy
  <1>8. ASSUME NEW v \in Workers, Sleep(v) \/ Spurious(v) \/ Exit(v) PROVE WorkersFollow'
    <2>1. /\ job' = job /\ wjob' = wjob /\ wpc[v] \in {"check", "asleep"}
          /\ \E s \in {"check", "asleep", "exited"} : wpc' = [wpc EXCEPT ![v] = s]
      BY <1>8 DEF Sleep, Spurious, Exit, Goto, jobVars
    <2> QED
      BY <1>1, <2>1 DEF WorkersFollow, Busy
  <1>9. CASE \E cancel \in BOOLEAN : Shutdown(cancel)
    BY <1>1, <1>9 DEF Shutdown, WorkersFollow, Busy
  <1>10. CASE Open
    BY <1>1, <1>10 DEF Open, jobVars, WorkersFollow, Busy
  <1>11. CASE Join \/ Release \/ UNCHANGED vars
    BY <1>11 DEF Join, Release, vars, jobVars, workerVars, WorkersFollow, Busy
  <1> QED
    BY <1>4, <1>5, <1>6, <1>7, <1>8, <1>9, <1>10, <1>11, StepCases

(* A worker that is free for a job is one that no running job has.         *)
LEMMA CapacityLeft ==
    ASSUME PoolInv, NEW v \in Workers, ~Busy(v)
    PROVE  Cardinality({j \in Jobs : job[j] = "running"}) < Cardinality(Workers)
  <1> DEFINE R == {j \in Jobs : job[j] = "running"}
             f == [j \in R |-> CHOOSE w \in Workers : Busy(w) /\ wjob[w] = j]
  <1>1. \A j \in R : \E w \in Workers : Busy(w) /\ wjob[w] = j
    BY DEF PoolInv, JobsPlaced
  <1>2. \A j \in R : f[j] \in Workers /\ Busy(f[j]) /\ wjob[f[j]] = j
    BY <1>1
  <1>3. f \in [R -> Workers \ {v}] /\ DOMAIN f = R
    BY <1>2
  <1> HIDE DEF R, f
  <1>4. f \in Injection(R, Workers \ {v})
    BY <1>2, <1>3 DEF Injection, IsInjective
  <1>5. IsFiniteSet(Workers) /\ Cardinality(Workers) \in Nat
    BY WorkersAssumption, FS_CardinalityType
  <1>6. IsFiniteSet(Workers \ {v}) /\ Cardinality(Workers \ {v}) = Cardinality(Workers) - 1
    BY <1>5, FS_RemoveElement
  <1>7. IsFiniteSet(R) /\ Cardinality(R) <= Cardinality(Workers \ {v})
    BY <1>4, <1>6, FS_Injection
  <1>8. Cardinality(R) \in Nat
    BY <1>7, FS_CardinalityType
  <1>9. Cardinality(R) < Cardinality(Workers)
    BY <1>5, <1>6, <1>7, <1>8
  <1> QED
    BY <1>9 DEF R

(* Cardinality is the same operator in the service's module.               *)
LEMMA SameCardinality ==
    ASSUME NEW S
    PROVE  Service!Cardinality(S) = Cardinality(S)
  BY DEF Service!Cardinality, Cardinality

(* The mapped state.                                                       *)
Running == {j \in Jobs : job[j] = "running"}
Finished == {j \in Jobs : job[j] = "done"}
Phase == CASE pc = "run" -> "accepting" [] pc = "join" -> "draining" [] OTHER -> "closed"

(* Every step of the pool is a step of the service, or none.               *)
LEMMA ServiceStep ==
    ASSUME PoolInv, WorkersFollow, [Next]_vars
    PROVE  [Service!Next]_(Service!vars)
  <1>1. /\ job \in [Jobs -> JobStates] /\ pending \in Seq(Jobs) /\ pc \in OwnerStates
    BY DEF PoolInv, TypeOK
  <1>2. UNCHANGED <<job, pending, Phase>> => UNCHANGED Service!vars
    BY DEF Service!vars, Phase
  <1>3. CASE Open
    <2>1. Service!Open
      BY <1>3 DEF Open, jobVars, Service!Open
    <2> QED
      BY <2>1 DEF Service!Next
  <1>4. CASE Join
    <2>1. /\ pending = <<>> /\ \A j \in Jobs : ~Listed(j)
      <3>1. JoinedIsEmpty' /\ pc' = "joined" /\ UNCHANGED <<job, pending>>
        BY <1>4, JoinedStep DEF Join, jobVars
      <3> QED
        BY <3>1 DEF JoinedIsEmpty, Listed
    <2>2. Service!Known = {}
      BY <2>1 DEF Service!Known, Service!Waiting, Listed
    <2>3. Service!Close
      BY <1>4, <2>2 DEF Join, jobVars, Service!Close
    <2> QED
      BY <2>3 DEF Service!Next
  <1>5. ASSUME NEW j \in Jobs, NEW v \in Workers, Submit(j, v) PROVE Service!Next
    <2>1. /\ pc = "run" /\ pc' = pc /\ job[j] = "new" /\ job' = [job EXCEPT ![j] = "pending"]
          /\ pending' = Append(pending, j)
      BY <1>5 DEF Submit, ownerVars
    <2>2. j \notin Service!Known
      BY <2>1 DEF Service!Known, Service!Waiting, PoolInv, JobsPlaced
    <2>3. Running' = Running /\ Finished' = Finished
      BY <1>1, <2>1 DEF Running, Finished
    <2>4. Service!Submit(j)
      BY <2>1, <2>2, <2>3 DEF Service!Submit, Running, Finished
    <2> QED
      BY <2>4 DEF Service!Next
  <1>6. ASSUME NEW cancel \in BOOLEAN, Shutdown(cancel) PROVE Service!Next
    <2>1. Service!Stop
      BY <1>6 DEF Shutdown, Service!Stop
    <2> QED
      BY <2>1 DEF Service!Next
  <1>7. ASSUME NEW v \in Workers, Take(v) PROVE Service!Next
    <2>1. /\ wpc[v] = "check" /\ pending # <<>> /\ pc' = pc /\ pending' = Tail(pending)
          /\ job' = [job EXCEPT ![Head(pending)] = "running"]
      BY <1>7 DEF Take, ownerVars
    <2>2. Head(pending) \in Jobs /\ job[Head(pending)] = "pending"
      BY <1>1, <2>1, TailFacts DEF PoolInv, JobsPlaced
    <2>3. Running' = Running \cup {Head(pending)} /\ Finished' = Finished
      BY <1>1, <2>1, <2>2 DEF Running, Finished
    <2>4. Cardinality(Running) < Cardinality(Workers)
      BY <2>1, CapacityLeft DEF Busy, Running
    <2>5. Service!Start
      BY <2>1, <2>3, <2>4, SameCardinality DEF Service!Start, Running, Finished
    <2> QED
      BY <2>5 DEF Service!Next
  <1>8. ASSUME NEW v \in Workers, Ready(v) PROVE Service!Next
    <2>1. wpc[v] = "turn" /\ job' = [job EXCEPT ![wjob[v]] = "done"] /\ UNCHANGED <<pending, pc>>
      BY <1>8 DEF Ready, ownerVars
    <2>2. PICK h \in Jobs : h = wjob[v] /\ job[h] = "running"
      BY <2>1 DEF PoolInv, JobsPlaced, WorkersFollow, Busy
    <2>3. h \in Running /\ Running' = Running \ {h} /\ Finished' = Finished \cup {h}
      BY <1>1, <2>1, <2>2 DEF Running, Finished
    <2>4. Service!Finish(h)
      BY <2>1, <2>3 DEF Service!Finish, Running, Finished
    <2> QED
      BY <2>4 DEF Service!Next
  <1>9. ASSUME NEW v \in Workers, Remove(v) PROVE Service!Next
    <2>1. wpc[v] = "finished" /\ job' = [job EXCEPT ![wjob[v]] = "removed"] /\ UNCHANGED <<pending, pc>>
      BY <1>9 DEF Remove, ownerVars
    <2>2. PICK h \in Jobs : h = wjob[v] /\ job[h] = "done"
      BY <2>1 DEF PoolInv, JobsPlaced, WorkersFollow, Busy
    <2>3. h \in Finished /\ Running' = Running /\ Finished' = Finished \ {h}
      BY <1>1, <2>1, <2>2 DEF Running, Finished
    <2>4. Service!Forget(h)
      BY <2>1, <2>3 DEF Service!Forget, Running, Finished
    <2> QED
      BY <2>4 DEF Service!Next
  <1>10. CASE Release \/ UNCHANGED vars \/
              \E w \in Workers : \/ Sleep(w) \/ Spurious(w) \/ Exit(w) \/ PollCancellation(w) \/ Parks(w)
                                 \/ Yield(w) \/ Wait(w) \/ Woken(w) \/ Timeout(w)
    <2>1. UNCHANGED <<job, pending, Phase>>
      BY <1>10 DEF Release, vars, Sleep, Spurious, Exit, PollCancellation, Parks, Park, Yield, Wait, Woken, Timeout,
                   jobVars, ownerVars, Phase
    <2> QED
      BY <1>2, <2>1
  <1> QED
    BY <1>3, <1>4, <1>5, <1>6, <1>7, <1>8, <1>9, <1>10, StepCases

(* pool.c is a job service, for any number of jobs and workers: jobs start *)
(* in the order of their submission, each runs once and on a worker of its *)
(* own, and the pool closes only when none is left.                        *)
THEOREM PoolImplementsService == Spec => ImplementsService
  <1>1. Init => Service!Init
    BY DEF Init, Service!Init
  <1>2. Init => WorkersFollow
    BY DEF Init, WorkersFollow, Busy
  <1>3. PoolInv /\ WorkersFollow /\ [Next]_vars => (PoolInv /\ WorkersFollow)'
    BY PoolStep, FollowStep
  <1>4. PoolInv /\ WorkersFollow /\ [Next]_vars => [Service!Next]_(Service!vars)
    BY ServiceStep
  <1> QED
    BY <1>1, <1>2, <1>3, <1>4, PoolInit, PTL DEF Spec, ImplementsService, Service!Spec
=============================================================================
