---------------------------- MODULE MailboxProofs ----------------------------
(* Proofs about Mailbox: type correctness, no lost wake-up, and the        *)
(* lifetime of the hub when no awaited object escapes its task's frame.    *)
EXTENDS Mailbox, TLAPS

(* The kinds of steps, one disjunct per action that a proof treats apart.  *)
LEMMA StepCases ==
    ASSUME [Next]_vars
    PROVE  \/ \E t \in Tasks : Spawn(t)
           \/ \E t \in Tasks : WakeLocal(t)
           \/ \E t \in Tasks : Complete(t)
           \/ \E t \in Tasks : Release(t)
           \/ \E t \in Tasks, s \in Sources : Park(t, s)
           \/ Idle \/ Scanned \/ Resume
           \/ \E s \in Sources : Drain(s)
           \/ \E w \in Wakers, t \in Tasks : Claim(w, t)
           \/ \E w \in Wakers : Push(w)
           \/ \E w \in Wakers : Notify(w)
           \/ UNCHANGED vars
  BY DEF Next, Owner, Waker, WaitNotified, WaitTimeout

-----------------------------------------------------------------------------
(* Every variable keeps its type (the state of fdn_task, of the hub and of *)
(* the threads in fdn_task_wake), and a thread outside fdn_task_wake names *)
(* no task.                                                                *)
LEMMA TypeStep ==
    ASSUME TypeOK, WakerOK, [Next]_vars
    PROVE  TypeOK' /\ WakerOK'
  <1> USE TasksAssumption DEF TypeOK, WakerOK, TaskStates, OwnerStates, WakerStates
  <1>1. CASE UNCHANGED vars
    BY <1>1 DEF vars, ownerVars, wakerVars
  <1>2. CASE \E t \in Tasks : Spawn(t)
    BY <1>2 DEF Spawn, wakerVars
  <1>3. CASE \E t \in Tasks : WakeLocal(t)
    BY <1>3 DEF WakeLocal, ownerVars, wakerVars
  <1>4. CASE \E t \in Tasks : Complete(t)
    BY <1>4 DEF Complete, ownerVars, wakerVars
  <1>5. CASE \E t \in Tasks : Release(t)
    <2>1. PICK t \in Tasks : Release(t)
      BY <1>5
    <2>2. task' \in [Tasks -> TaskStates]
      BY <2>1 DEF Release
    <2>3. open' \in BOOLEAN /\ pc' \in OwnerStates
      BY <2>1 DEF Release
    <2>4. UNCHANGED <<src, parks, box, notified, epoch, todo, woke, wpc, wtask, wepoch>>
      BY <2>1 DEF Release, wakerVars
    <2> QED
      BY <2>2, <2>3, <2>4
  <1>6. CASE \E t \in Tasks, s \in Sources : Park(t, s)
    BY <1>6 DEF Park, ownerVars, wakerVars
  <1>7. CASE Idle
    BY <1>7 DEF Idle, wakerVars
  <1>8. CASE Scanned
    BY <1>8 DEF Scanned, wakerVars
  <1>9. CASE Resume
    BY <1>9 DEF Resume, wakerVars
  <1>10. CASE \E s \in Sources : Drain(s)
    BY <1>10 DEF Drain, wakerVars
  <1>11. CASE \E w \in Wakers, t \in Tasks : Claim(w, t)
    BY <1>11 DEF Claim, ownerVars
  <1>12. CASE \E w \in Wakers : Push(w)
    <2>1. PICK w \in Wakers : Push(w)
      BY <1>12
    <2>2. wtask[w] \in Tasks
      BY <2>1 DEF Push
    <2> QED BY <2>1, <2>2 DEF Push, ownerVars
  <1>13. CASE \E w \in Wakers : Notify(w)
    BY <1>13 DEF Notify, ownerVars
  <1> QED
    BY <1>1, <1>2, <1>3, <1>4, <1>5, <1>6, <1>7, <1>8, <1>9, <1>10, <1>11,
       <1>12, <1>13, StepCases

(* The initial state has the types.                                        *)
LEMMA TypeInit == Init => TypeOK /\ WakerOK
  <1> DEFINE first == CHOOSE s \in Sources : TRUE
  <1>1. first \in Sources
    BY SourcesAssumption, Zenon
  <1>2. src = [t \in Tasks |-> first] => src \in [Tasks -> Sources]
    BY <1>1
  <1>3. Init => src = [t \in Tasks |-> first]
    BY DEF Init
  <1>4. SUFFICES ASSUME Init PROVE TypeOK /\ WakerOK
    OBVIOUS
  <1>5. task \in [Tasks -> TaskStates] /\ parks \in [Tasks -> Nat]
    BY <1>4 DEF Init, TaskStates
  <1>6. box \in [Sources -> SUBSET Tasks] /\ todo \in SUBSET Sources
    BY <1>4 DEF Init
  <1>7. /\ notified \in BOOLEAN /\ open \in BOOLEAN /\ epoch \in Nat
        /\ pc \in OwnerStates /\ woke \in BOOLEAN
    BY <1>4 DEF Init, OwnerStates
  <1>8. /\ wpc \in [Wakers -> WakerStates]
        /\ wtask \in [Wakers -> Tasks \cup {NoTask}]
        /\ wepoch \in [Wakers -> Nat]
    BY <1>4 DEF Init, WakerStates
  <1>9. WakerOK
    BY <1>4 DEF Init, WakerOK
  <1> QED
    BY <1>2, <1>3, <1>4, <1>5, <1>6, <1>7, <1>8, <1>9 DEF TypeOK

(* Type correctness of the mailbox protocol for any number of tasks,       *)
(* sources and foreign threads.                                            *)
THEOREM TypeCorrect == Spec => [](TypeOK /\ WakerOK)
  BY TypeInit, TypeStep, PTL DEF Spec

-----------------------------------------------------------------------------
(* A step keeps every wake that the scan has left behind announced.        *)
LEMMA ScanStep ==
    ASSUME TypeOK, WakerOK, ScanInv, [Next]_vars
    PROVE  ScanInv'
  <1> USE DEF ScanInv, Announced
  <1>1. CASE UNCHANGED vars
    BY <1>1 DEF vars, ownerVars, wakerVars
  <1>2. CASE \E t \in Tasks : Spawn(t)
    BY <1>2 DEF Spawn
  <1>3. CASE \E t \in Tasks : WakeLocal(t)
    BY <1>3 DEF WakeLocal, ownerVars
  <1>4. CASE \E t \in Tasks : Complete(t)
    BY <1>4 DEF Complete, ownerVars
  <1>5. CASE \E t \in Tasks : Release(t)
    BY <1>5 DEF Release
  <1>6. CASE \E t \in Tasks, s \in Sources : Park(t, s)
    BY <1>6 DEF Park, ownerVars
  <1>7. CASE Idle
    BY <1>7 DEF Idle
  <1>8. CASE Scanned
    BY <1>8 DEF Scanned, wakerVars
  <1>9. CASE Resume
    BY <1>9 DEF Resume
  <1>10. CASE \E s \in Sources : Drain(s)
    BY <1>10 DEF Drain, wakerVars, TypeOK
  <1>11. CASE \E w \in Wakers, t \in Tasks : Claim(w, t)
    BY <1>11 DEF Claim, ownerVars, TypeOK, WakerStates
  <1>12. CASE \E w \in Wakers : Push(w)
    BY <1>12 DEF Push, ownerVars, TypeOK, WakerStates
  <1>13. CASE \E w \in Wakers : Notify(w)
    BY <1>13 DEF Notify, ownerVars
  <1> QED
    BY <1>1, <1>2, <1>3, <1>4, <1>5, <1>6, <1>7, <1>8, <1>9, <1>10, <1>11,
       <1>12, <1>13, StepCases

(* The initial state is not in a scan.                                     *)
LEMMA ScanInit == Init => ScanInv
  BY DEF Init, ScanInv

(* No wake-up is lost between fdn_task_poll_idle_sources and               *)
(* fdn_task_external_wait, however many sources share the hub's flag.      *)
THEOREM WakeupsAreNotLost == Spec => []NoLostWakeup
  <1>1. ScanInv => NoLostWakeup
    BY DEF ScanInv, NoLostWakeup
  <1> QED
    BY <1>1, TypeCorrect, ScanInit, ScanStep, PTL DEF Spec

-----------------------------------------------------------------------------
(* The facts about wakes in flight, and that no panic was raised.          *)
HubInv == WakeInv /\ HoldInv /\ NotifyFindsHub

(* Steps of the owner that only move a task between live states that no    *)
(* foreign thread and no queue refers to.                                  *)
LEMMA LocalStep ==
    ASSUME TypeOK, WakerOK, HubInv,
           NEW t \in Tasks, NEW a \in {"ready", "parked"},
           NEW b \in {"ready", "parked", "finished"},
           task[t] = a, task' = [task EXCEPT ![t] = b],
           \A u \in Tasks \ {t} : src'[u] = src[u],
           UNCHANGED <<box, open, epoch, pc, wakerVars, fault>>
    PROVE  HubInv'
  <1> USE DEF HubInv, TypeOK, TaskStates
  <1>1. WakeInv'
    BY DEF WakeInv, Live, wakerVars, WakerOK
  <1>2. HoldInv'
    BY DEF HoldInv, Live, wakerVars, WakerOK
  <1> QED
    BY <1>1, <1>2 DEF NotifyFindsHub

(* fdn_task_spawn keeps them: it opens an executor only when none is, and  *)
(* then no foreign thread is in fdn_task_wake.                             *)
LEMMA SpawnStep ==
    ASSUME TypeOK, WakerOK, HubInv, NEW t \in Tasks, Spawn(t)
    PROVE  HubInv'
  <1> USE DEF HubInv, TypeOK, TaskStates, Spawn, wakerVars
  <1>1. \A w \in Wakers : wpc[w] # "idle" => open
    BY DEF HoldInv, WakeInv, WakerOK
  <1>2. WakeInv'
    BY DEF WakeInv, Live, WakerOK
  <1>3. HoldInv'
    BY <1>1 DEF HoldInv, Live, WakerOK
  <1> QED
    BY <1>2, <1>3 DEF NotifyFindsHub

(* fdn_task_release keeps them when no awaited object escapes: the task it *)
(* frees is in no foreign thread's hands and in no queue.                  *)
LEMMA ReleaseStep ==
    ASSUME Escaping = {}, TypeOK, WakerOK, HubInv, NEW t \in Tasks, Release(t)
    PROVE  HubInv'
  <1> USE DEF HubInv, TypeOK, TaskStates, Release, wakerVars
  <1>1. \A w \in Wakers : wtask[w] # t
    BY DEF FrameDropped
  <1>2. \A s \in Sources : \A u \in box[s] : u # t /\ Live(u)
    BY DEF WakeInv, Live
  <1>3. fault' = "none"
    BY <1>2 DEF NotifyFindsHub
  <1>4. WakeInv'
    <2>1. \A u \in Tasks \ {t} : task'[u] = task[u] /\ (Live(u)' <=> Live(u))
      BY DEF Live
    <2>2. task'[t] = "released" /\ ~Live(t)'
      BY DEF Live
    <2>3. open' <=> \E u \in Tasks : Live(u)'
      BY <2>1, <2>2
    <2>4. open' <=> pc' # "closed"
      OBVIOUS
    <2>5. \A s \in Sources : \A u \in box'[s] : task'[u] = "posted" /\ src'[u] = s
      BY <1>2, <2>1 DEF WakeInv
    <2>6. \A w \in Wakers : wpc'[w] = "claimed" => task'[wtask'[w]] = "claimed"
      <3>1. \A w \in Wakers : wpc[w] = "claimed" => wtask[w] \in Tasks \ {t}
        BY <1>1 DEF WakerOK
      <3>2. wpc' = wpc /\ wtask' = wtask
        OBVIOUS
      <3> HIDE DEF Release, TypeOK
      <3> QED
        BY <2>1, <3>1, <3>2 DEF WakeInv
    <2>7. \A v, w \in Wakers : (wpc'[v] = "claimed" /\ wpc'[w] = "claimed" /\ v # w)
                                   => wtask'[v] # wtask'[w]
      BY DEF WakeInv
    <2> HIDE DEF Release
    <2> QED
      BY <2>3, <2>4, <2>5, <2>6, <2>7 DEF WakeInv
  <1>5. HoldInv'
    BY <1>1 DEF HoldInv, Live, WakerOK
  <1> QED
    BY <1>3, <1>4, <1>5 DEF NotifyFindsHub

(* fdn_task_executor_drain keeps them: it empties one queue.               *)
LEMMA DrainStep ==
    ASSUME TypeOK, WakerOK, HubInv, NEW s \in Sources, Drain(s)
    PROVE  HubInv'
  <1> USE DEF HubInv, TypeOK, TaskStates, Drain, wakerVars
  <1>1. \A t \in Tasks : Live(t)' <=> Live(t)
    BY DEF WakeInv, Live
  <1>2. \A u \in Sources : \A t \in box'[u] : u # s /\ t \in box[u]
    OBVIOUS
  <1>3. \A u \in Sources : \A t \in box'[u] : task'[t] = "posted" /\ src'[t] = u
    BY <1>2 DEF WakeInv
  <1>4. \A t \in Tasks : task[t] = "claimed" => task'[t] = "claimed"
    BY DEF WakeInv
  <1>5. WakeInv'
    BY <1>1, <1>3, <1>4 DEF WakeInv, WakerOK
  <1>6. HoldInv'
    BY <1>1 DEF HoldInv, WakerOK
  <1> QED
    BY <1>5, <1>6 DEF NotifyFindsHub

(* Taking a parked task off its queue keeps them.                          *)
LEMMA ClaimStep ==
    ASSUME TypeOK, WakerOK, HubInv, NEW w \in Wakers, NEW t \in Tasks, Claim(w, t)
    PROVE  HubInv'
  <1> USE DEF HubInv, TypeOK, TaskStates, WakerStates, Claim, ownerVars
  <1>1. \A u \in Tasks : Live(u)' <=> Live(u)
    BY DEF Live
  <1>2. \A v \in Wakers \ {w} : wpc[v] = "claimed" => wtask[v] # t
    BY DEF WakeInv
  <1>3. WakeInv'
    BY <1>1, <1>2 DEF WakeInv, WakerOK
  <1>4. HoldInv'
    BY <1>1 DEF HoldInv, WakerOK, Live
  <1> QED
    BY <1>3, <1>4 DEF NotifyFindsHub

(* Queueing the wake keeps them.                                           *)
LEMMA PushStep ==
    ASSUME TypeOK, WakerOK, HubInv, NEW w \in Wakers, Push(w)
    PROVE  HubInv'
  <1> USE DEF HubInv, TypeOK, TaskStates, WakerStates, Push, ownerVars
  <1>1. wtask[w] \in Tasks /\ task[wtask[w]] = "claimed"
    BY DEF WakerOK, WakeInv
  <1>2. \A u \in Tasks : Live(u)' <=> Live(u)
    BY <1>1 DEF Live
  <1>3. \A s \in Sources : \A t \in box'[s] : task'[t] = "posted" /\ src'[t] = s
    BY <1>1 DEF WakeInv
  <1>4. \A v \in Wakers : wpc'[v] = "claimed" => v # w /\ wtask[v] # wtask[w]
    BY DEF WakeInv
  <1>5. WakeInv'
    BY <1>1, <1>2, <1>3, <1>4 DEF WakeInv, WakerOK
  <1>6. HoldInv'
    BY <1>1, <1>2 DEF HoldInv, WakerOK
  <1> QED
    BY <1>5, <1>6 DEF NotifyFindsHub

(* The notification finds the hub, because the task being woken is live.   *)
LEMMA NotifyStep ==
    ASSUME TypeOK, WakerOK, HubInv, NEW w \in Wakers, Notify(w)
    PROVE  HubInv'
  <1> USE DEF HubInv, TypeOK, WakerStates, ownerVars
  <1>1. wtask[w] \in Tasks /\ Live(wtask[w]) /\ wepoch[w] = epoch
    BY DEF Notify, WakerOK, HoldInv
  <1>2. HubReachable(w)
    BY <1>1 DEF WakeInv, HubReachable
  <1>3. WakeInv'
    BY <1>2 DEF WakeInv, Notify, Live, WakerOK
  <1>4. HoldInv'
    BY <1>2 DEF HoldInv, Notify, Live, WakerOK
  <1> QED
    BY <1>2, <1>3, <1>4 DEF NotifyFindsHub, Notify

(* Every step keeps them when no awaited object escapes its task's frame.  *)
LEMMA HubStep ==
    ASSUME Escaping = {}, TypeOK, WakerOK, HubInv, [Next]_vars
    PROVE  HubInv'
  <1>1. CASE UNCHANGED vars
    BY <1>1 DEF vars, ownerVars, wakerVars, HubInv, WakeInv, HoldInv, Live,
                NotifyFindsHub
  <1>2. CASE \E t \in Tasks : Spawn(t)
    BY <1>2, SpawnStep
  <1>3. CASE \E t \in Tasks : WakeLocal(t)
    BY <1>3, LocalStep DEF WakeLocal, ownerVars
  <1>4. CASE \E t \in Tasks : Complete(t)
    BY <1>4, LocalStep DEF Complete, ownerVars
  <1>5. CASE \E t \in Tasks : Release(t)
    BY <1>5, ReleaseStep
  <1>6. CASE \E t \in Tasks, s \in Sources : Park(t, s)
    BY <1>6, LocalStep DEF Park, ownerVars, TypeOK
  <1>7. CASE Idle \/ Scanned \/ Resume
    <2>1. pc # "closed" /\ pc' # "closed"
      BY <1>7 DEF Idle, Scanned, Resume
    <2> QED
      BY <1>7, <2>1 DEF Idle, Scanned, Resume, wakerVars, HubInv, WakeInv, HoldInv,
                        Live, NotifyFindsHub
  <1>8. CASE \E s \in Sources : Drain(s)
    BY <1>8, DrainStep
  <1>9. CASE \E w \in Wakers, t \in Tasks : Claim(w, t)
    BY <1>9, ClaimStep
  <1>10. CASE \E w \in Wakers : Push(w)
    BY <1>10, PushStep
  <1>11. CASE \E w \in Wakers : Notify(w)
    BY <1>11, NotifyStep
  <1> QED
    BY <1>1, <1>2, <1>3, <1>4, <1>5, <1>6, <1>7, <1>8, <1>9, <1>10, <1>11, StepCases

(* They hold at first: no task, no executor, no wake.                      *)
LEMMA HubInit == Init => HubInv
  BY DEF Init, HubInv, WakeInv, HoldInv, Live, NotifyFindsHub

(* When every object a task waits on is dropped with the task's frame, a   *)
(* foreign fdn_task_wake never notifies a freed hub and the executor never *)
(* closes over a queued wake, for any number of tasks, sources and threads.*)
THEOREM HubOutlivesItsWakers ==
    ASSUME Escaping = {}
    PROVE  Spec => []NotifyFindsHub
  <1>1. TypeOK /\ WakerOK /\ HubInv /\ [Next]_vars => HubInv'
    BY HubStep
  <1>2. HubInv => NotifyFindsHub
    BY DEF HubInv
  <1> QED
    BY <1>1, <1>2, TypeCorrect, HubInit, PTL DEF Spec
============================================================================
