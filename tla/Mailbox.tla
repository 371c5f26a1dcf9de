------------------------------- MODULE Mailbox -------------------------------
(***************************************************************************)
(* How other threads wake the tasks of one executor (runtime/src/task.c).  *)
(*                                                                         *)
(* The owner thread runs its ready tasks; when none is left it polls every *)
(* wake source of its hub and then sleeps on the hub's condition variable. *)
(* A foreign thread claims a parked task under the lock of whatever the    *)
(* task waits on, pushes a wake into a queue of that source, and notifies  *)
(* the hub.  The push and the notification take different locks, so the    *)
(* owner may run between them: drain the wake, finish the task, release    *)
(* it, and with the last task free the mailbox, the source and the hub.    *)
(*                                                                         *)
(* A source is the executor's own mailbox or the completion queue of the   *)
(* reactor; they share the one "notified" flag of the hub.  (The blocking  *)
(* executor registers a source too, but joins its workers before it goes:  *)
(* module Blocking.)  Queues are sets: a task has at most one wake.        *)
(***************************************************************************)
EXTENDS Integers, FiniteSets

CONSTANTS
    Tasks,      \* the tasks of the owner executor
    Sources,    \* the wake sources registered in its hub
    Wakers,     \* foreign threads
    Escaping,   \* tasks whose awaited object outlives their frame, so that
                \* releasing the task does not take that object's lock again
    MaxParks,   \* bound: how often one task parks
    NoTask

ASSUME TasksAssumption == NoTask \notin Tasks /\ Escaping \subseteq Tasks
ASSUME SourcesAssumption == Sources # {}
ASSUME MaxParksAssumption == MaxParks \in Nat

VARIABLES
    task,       \* where a task is, see TaskStates
    src,        \* the source a parked task is woken through
    parks,      \* how often a task parked (bounds the model)
    box,        \* the wakes queued in a source
    notified,   \* fdn_task_external_hub.notified
    open,       \* the executor, its source and its hub are allocated
    epoch,      \* how often the executor was opened: names its allocation
    pc,         \* where the owner thread is, see OwnerStates
    todo,       \* sources the current fdn_task_poll_idle_sources still visits
    woke,       \* its result so far
    wpc,        \* where a foreign thread is in fdn_task_wake
    wtask,      \* the task it wakes
    wepoch,     \* the executor it read from task->executor
    fault       \* the panic the runtime raised, "none" if it did not

ownerVars == <<pc, todo, woke>>
wakerVars == <<wpc, wtask, wepoch>>
vars == <<task, src, parks, box, notified, open, epoch, ownerVars, wakerVars, fault>>

(* "claimed" is a parked task a foreign thread has taken off its queue,    *)
(* "posted" one whose wake sits in a source, "finished" one whose poll     *)
(* returned ready and that was not released yet.                           *)
TaskStates == {"none", "ready", "parked", "claimed", "posted", "finished", "released"}
Live(t) == task[t] \notin {"none", "released"}
Unfinished(t) == task[t] \in {"ready", "parked", "claimed", "posted"}

(* "scan" is the first fdn_task_poll_idle_sources of a turn of run_one,    *)
(* "rescan" the one after fdn_task_external_wait.                          *)
OwnerStates == {"closed", "run", "scan", "wait", "rescan"}
WakerStates == {"idle", "claimed", "pushed"}

Init ==
    /\ task = [t \in Tasks |-> "none"]
    /\ src = [t \in Tasks |-> CHOOSE s \in Sources : TRUE]
    /\ parks = [t \in Tasks |-> 0]
    /\ box = [s \in Sources |-> {}]
    /\ notified = FALSE /\ open = FALSE /\ epoch = 0
    /\ pc = "closed" /\ todo = {} /\ woke = FALSE
    /\ wpc = [w \in Wakers |-> "idle"]
    /\ wtask = [w \in Wakers |-> NoTask]
    /\ wepoch = [w \in Wakers |-> 0]
    /\ fault = "none"

-----------------------------------------------------------------------------
(* The owner thread.                                                       *)

(* fdn_task_spawn: the first task opens the executor, its mailbox source   *)
(* and the hub.                                                            *)
Spawn(t) ==
    /\ pc \in {"closed", "run"} /\ task[t] = "none"
    /\ task' = [task EXCEPT ![t] = "ready"]
    /\ pc' = "run" /\ open' = TRUE
    /\ epoch' = IF open THEN epoch ELSE epoch + 1
    /\ notified' = (open /\ notified)
    /\ UNCHANGED <<src, parks, box, todo, woke, wakerVars, fault>>

(* A poll that returns pending after fdn_task_park_current.                *)
Park(t, s) ==
    /\ pc = "run" /\ task[t] = "ready" /\ parks[t] < MaxParks
    /\ task' = [task EXCEPT ![t] = "parked"]
    /\ src' = [src EXCEPT ![t] = s]
    /\ parks' = [parks EXCEPT ![t] = @ + 1]
    /\ UNCHANGED <<box, notified, open, epoch, ownerVars, wakerVars, fault>>

(* fdn_task_wake of a task of the running executor: a peer on this         *)
(* executor or a cancellation.                                             *)
WakeLocal(t) ==
    /\ pc = "run" /\ task[t] = "parked"
    /\ task' = [task EXCEPT ![t] = "ready"]
    /\ UNCHANGED <<src, parks, box, notified, open, epoch, ownerVars, wakerVars, fault>>

(* A poll that returns ready.                                              *)
Complete(t) ==
    /\ pc = "run" /\ task[t] = "ready"
    /\ task' = [task EXCEPT ![t] = "finished"]
    /\ UNCHANGED <<src, parks, box, notified, open, epoch, ownerVars, wakerVars, fault>>

(* Dropping the frame takes the lock of the object the task waited on (a   *)
(* channel endpoint in the frame), which a foreign thread holds until its  *)
(* fdn_task_wake returned.                                                 *)
MutFrameDropped(t) == TRUE
FrameDropped(t) == t \in Escaping \/ \A w \in Wakers : wtask[w] # t

(* fdn_task_release and fdn_task_executor_close_if_idle.                   *)
Release(t) ==
    /\ pc = "run" /\ task[t] = "finished" /\ FrameDropped(t)
    /\ task' = [task EXCEPT ![t] = "released"]
    /\ LET last == \A u \in Tasks \ {t} : ~Live(u)
       IN  /\ open' = ~last
           /\ pc' = IF last THEN "closed" ELSE "run"
           /\ fault' = IF last /\ \E s \in Sources : box[s] # {}
                       THEN "mailbox closed with pending wakes" ELSE fault
    /\ UNCHANGED <<src, parks, box, notified, epoch, todo, woke, wakerVars>>

(* fdn_task_run_one finds the ready queue empty.                           *)
Idle ==
    /\ pc = "run" /\ \A t \in Tasks : task[t] # "ready"
    /\ \E t \in Tasks : Unfinished(t)
    /\ pc' = "scan" /\ todo' = Sources /\ woke' = FALSE
    /\ UNCHANGED <<task, src, parks, box, notified, open, epoch, wakerVars, fault>>

(* One source of fdn_task_poll_idle_sources: fdn_task_executor_drain takes *)
(* the whole queue and wakes every task in it.                             *)
Drain(s) ==
    /\ pc \in {"scan", "rescan"} /\ s \in todo
    /\ task' = [t \in Tasks |-> IF t \in box[s] THEN "ready" ELSE task[t]]
    /\ box' = [box EXCEPT ![s] = {}]
    /\ todo' = todo \ {s}
    /\ woke' = (woke \/ box[s] # {})
    /\ UNCHANGED <<src, parks, notified, open, epoch, pc, wakerVars, fault>>

(* The end of fdn_task_poll_idle_sources.                                  *)
MutScanned ==
    /\ pc \in {"scan", "rescan"} /\ todo = {}
    /\ pc' = IF woke THEN "run" ELSE IF pc = "scan" THEN "wait" ELSE "scan"
    /\ todo' = IF ~woke /\ pc = "rescan" THEN Sources ELSE {}
    /\ woke' = FALSE
    /\ notified' = (woke /\ notified)
    /\ UNCHANGED <<task, src, parks, box, open, epoch, wakerVars, fault>>
Scanned ==
    /\ pc \in {"scan", "rescan"} /\ todo = {}
    /\ pc' = IF woke THEN "run" ELSE IF pc = "scan" THEN "wait" ELSE "scan"
    /\ todo' = IF ~woke /\ pc = "rescan" THEN Sources ELSE {}
    /\ woke' = FALSE
    /\ UNCHANGED <<task, src, parks, box, notified, open, epoch, wakerVars, fault>>

(* fdn_task_external_wait returns because the hub was notified, or, when   *)
(* some deadline was pending, because it passed.  Both clear the flag.     *)
Resume ==
    /\ pc = "wait" /\ pc' = "rescan" /\ todo' = Sources /\ woke' = FALSE
    /\ notified' = FALSE
    /\ UNCHANGED <<task, src, parks, box, open, epoch, wakerVars, fault>>
WaitNotified == notified /\ Resume
WaitTimeout == ~notified /\ Resume

-----------------------------------------------------------------------------
(* A foreign thread.                                                       *)

(* It takes a parked task off its wait queue, or claims its select.        *)
Claim(w, t) ==
    /\ wpc[w] = "idle" /\ task[t] = "parked"
    /\ task' = [task EXCEPT ![t] = "claimed"]
    /\ wpc' = [wpc EXCEPT ![w] = "claimed"]
    /\ wtask' = [wtask EXCEPT ![w] = t]
    /\ wepoch' = [wepoch EXCEPT ![w] = epoch]
    /\ UNCHANGED <<src, parks, box, notified, open, epoch, ownerVars, fault>>

(* The first critical section of fdn_task_wake: queue the wake.            *)
Push(w) ==
    /\ wpc[w] = "claimed"
    /\ LET t == wtask[w]
       IN  /\ box' = [box EXCEPT ![src[t]] = @ \cup {t}]
           /\ task' = [task EXCEPT ![t] = "posted"]
    /\ wpc' = [wpc EXCEPT ![w] = "pushed"]
    /\ UNCHANGED <<src, parks, notified, open, epoch, ownerVars, wtask, wepoch, fault>>

(* fdn_task_external_source_notify through executor->source; afterwards    *)
(* the thread drops the lock it claimed the task under.                    *)
HubReachable(w) == open /\ wepoch[w] = epoch
MutNotify(w) ==
    /\ wpc[w] = "pushed"
    /\ wpc' = [wpc EXCEPT ![w] = "idle"]
    /\ wtask' = [wtask EXCEPT ![w] = NoTask]
    /\ UNCHANGED <<task, src, parks, box, notified, open, epoch, ownerVars, wepoch,
                   fault>>
Notify(w) ==
    /\ wpc[w] = "pushed"
    /\ IF HubReachable(w)
       THEN /\ notified' = TRUE
            /\ wpc' = [wpc EXCEPT ![w] = "idle"]
            /\ wtask' = [wtask EXCEPT ![w] = NoTask]
            /\ UNCHANGED fault
       ELSE /\ fault' = "invalid task external source notification"
            /\ UNCHANGED <<notified, wpc, wtask>>
    /\ UNCHANGED <<task, src, parks, box, open, epoch, ownerVars, wepoch>>

-----------------------------------------------------------------------------
AllReleased == \A t \in Tasks : task[t] = "released"
Finished == AllReleased /\ \A w \in Wakers : wpc[w] = "idle"

Owner ==
    \/ \E t \in Tasks : Spawn(t) \/ WakeLocal(t) \/ Complete(t) \/ Release(t)
    \/ \E t \in Tasks, s \in Sources : Park(t, s)
    \/ Idle \/ Scanned \/ WaitNotified \/ WaitTimeout
    \/ \E s \in Sources : Drain(s)

Waker(w) == (\E t \in Tasks : Claim(w, t)) \/ Push(w) \/ Notify(w)

Next ==
    \/ fault = "none" /\ (Owner \/ \E w \in Wakers : Waker(w))
    \/ Finished /\ UNCHANGED vars

Spec == Init /\ [][Next]_vars

(* The owner keeps running its loop; a foreign thread that claimed a task  *)
(* finishes its wake.  Nothing obliges a thread to claim, a task to be     *)
(* spawned or a deadline to pass.                                          *)
RunsPolls == \E t \in Tasks : Complete(t) \/ Release(t)
Fairness ==
    /\ WF_vars(fault = "none" /\ RunsPolls)
    /\ WF_vars(fault = "none" /\ (Idle \/ Scanned \/ WaitNotified))
    /\ WF_vars(fault = "none" /\ \E s \in Sources : Drain(s))
    /\ \A w \in Wakers : WF_vars(fault = "none" /\ (Push(w) \/ Notify(w)))
FairSpec == Spec /\ Fairness

-----------------------------------------------------------------------------
TypeOK ==
    /\ task \in [Tasks -> TaskStates]
    /\ src \in [Tasks -> Sources]
    /\ parks \in [Tasks -> Nat]
    /\ box \in [Sources -> SUBSET Tasks]
    /\ notified \in BOOLEAN /\ open \in BOOLEAN /\ epoch \in Nat
    /\ pc \in OwnerStates /\ todo \in SUBSET Sources /\ woke \in BOOLEAN
    /\ wpc \in [Wakers -> WakerStates]
    /\ wtask \in [Wakers -> Tasks \cup {NoTask}]
    /\ wepoch \in [Wakers -> Nat]

(* A foreign thread names the task it wakes exactly while it wakes it.     *)
WakerOK == \A w \in Wakers : wpc[w] = "idle" <=> wtask[w] = NoTask

(* No lost wake-up: when the owner sleeps while a wake is queued, either   *)
(* the flag that ends its sleep is set or the thread that queued the wake  *)
(* has not notified yet.                                                   *)
Announced == notified \/ \E w \in Wakers : wpc[w] = "pushed"
NoLostWakeup == (pc = "wait" /\ \E s \in Sources : box[s] # {}) => Announced

(* What makes NoLostWakeup inductive: a source that was already visited in *)
(* the scan before a sleep and has a wake again has it announced.          *)
ScanInv ==
    /\ pc \in {"scan", "wait"} =>
          \A s \in Sources \ todo : box[s] # {} => Announced
    /\ pc = "wait" => todo = {}

(* Every notification finds the executor it was posted to: the source and  *)
(* its hub are never freed between the push and the notification (the      *)
(* panic "invalid task external source notification"), and the mailbox is  *)
(* never freed with a wake in it.                                          *)
NotifyFindsHub == fault = "none"

(* What makes NotifyFindsHub inductive: a queued wake names a task that    *)
(* only waits to be drained, from that queue; a claimed task belongs to    *)
(* one foreign thread; and a foreign thread inside fdn_task_wake keeps the *)
(* task it wakes unreleased, hence the executor open and the same.         *)
WakeInv ==
    /\ \A s \in Sources : \A t \in box[s] : task[t] = "posted" /\ src[t] = s
    /\ \A w \in Wakers : wpc[w] = "claimed" => task[wtask[w]] = "claimed"
    /\ \A v, w \in Wakers : (wpc[v] = "claimed" /\ wpc[w] = "claimed" /\ v # w)
                               => wtask[v] # wtask[w]
    /\ open <=> \E t \in Tasks : Live(t)
    /\ open <=> pc # "closed"
HoldInv ==
    \A w \in Wakers : wpc[w] # "idle" => Live(wtask[w]) /\ wepoch[w] = epoch

(* The inductive invariant of the proofs: the scan, the wakes under way    *)
(* and the executor they were posted to agree in every state.              *)
MailboxInv == TypeOK /\ WakerOK /\ ScanInv /\ WakeInv /\ HoldInv /\ NotifyFindsHub

(* A wake that was posted is delivered: the task runs again.               *)
PostedRuns == \A t \in Tasks : task[t] = "posted" ~> task[t] # "posted"
============================================================================
