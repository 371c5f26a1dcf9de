------------------------------ MODULE Bulkhead ------------------------------
(***************************************************************************)
(* The bulkhead (runtime/src/resiliency.c, foundation/resiliency/          *)
(* resiliency.fn): at most MaxConcurrent permits, at most MaxQueue waiters *)
(* in order of arrival, and handles that share it by reference count.      *)
(* One lock guards every bulkhead; an operation is completed after the     *)
(* lock was left.                                                          *)
(***************************************************************************)
EXTENDS Reactor

CONSTANTS
    Callers,        \* the tasks that run acquireBulkhead
    MaxConcurrent,
    MaxQueue        \* bound: the largest max_queue it is opened with

ASSUME BulkheadAssumption ==
    /\ Callers \subseteq Tasks
    /\ MaxConcurrent \in Nat \ {0} /\ MaxQueue \in Nat

(* A Bulkhead has a drop method and is not Transferable, so a handle stays *)
(* on the thread that created it (sema.cpp, parallelTransferSafe).         *)
ASSUME BulkheadIsLocal == \A t \in Callers, u \in Callers : Home(t) = Home(u)

VARIABLES
    maxQueue,   \* fdn_bulkhead.max_queue, as it was opened
    running,    \* fdn_bulkhead.running
    waiters,    \* the list at fdn_bulkhead.head
    queued,     \* fdn_bulkhead.queued, and fdn_bulkhead_waiter_count
    references, \* fdn_bulkhead.references
    owner,      \* the program still has the Bulkhead it created
    handles,    \* the tasks whose frame owns a clone of it
    permit      \* the tasks whose Permit was not released

bulkheadVars == <<maxQueue, running, waiters, queued, references, owner, handles, permit>>

BulkheadInit ==
    /\ maxQueue \in 0 .. MaxQueue /\ running = 0 /\ waiters = <<>> /\ queued = 0
    /\ references = 1 /\ owner = TRUE /\ handles = {} /\ permit = {}

(* fdn_bulkhead_registered: its last reference takes it out of the list.   *)
Registered == references # 0

Queued(t) == \E i \in DOMAIN waiters : waiters[i] = t

(* The list without its i-th waiter.                                       *)
Unlink(list, i) == [j \in 1 .. Len(list) - 1 |-> IF j < i THEN list[j] ELSE list[j + 1]]

(* Bulkhead.Acquire clones the handle (foundation_runtime_bulkhead_retain, *)
(* which panics when the bulkhead is gone) and spawns the task with it.    *)
Spawn(t) ==
    /\ At(Home(t), "run") /\ t \in Callers \ handles /\ st[t] = "new" /\ owner
    /\ handles' = handles \cup {t}
    /\ references' = references + 1
    /\ panic' = ~Registered
    /\ UNCHANGED <<st, cancelled, completed, requested, status, queue, operations, open, call,
                   maxQueue, running, waiters, queued, owner, permit>>

(* foundation_runtime_bulkhead_acquire, at the task's first poll, answers  *)
(* with a permit (0), a full queue (1) or a bulkhead that is gone (3), or  *)
(* queues the task.                                                        *)
Admits == Registered /\ running < MaxConcurrent
Queues == Registered /\ running >= MaxConcurrent /\ queued < maxQueue
Acquire(t) ==
    /\ t \in handles
    /\ \/ /\ Admits /\ running' = running + 1
          /\ Poll(t, Call("complete", t, 0, "polled")) /\ UNCHANGED <<waiters, queued>>
       \/ /\ ~Admits /\ ~Queues
          /\ Poll(t, Call("complete", t, IF Registered THEN 1 ELSE 3, "polled"))
          /\ UNCHANGED <<running, waiters, queued>>
       \/ /\ Queues /\ waiters' = Append(waiters, t) /\ queued' = queued + 1
          /\ Poll(t, Polled(t)) /\ UNCHANGED running
    /\ UNCHANGED <<maxQueue, references, owner, handles, permit>>

(* foundation_runtime_bulkhead_cancel under the lock: an operation whose   *)
(* waiter is gone is a panic, and so is a waiter that is not counted.      *)
Cancel(e) ==
    /\ At(e, "cancel") /\ call[e].task \in Callers
    /\ LET t == call[e].task
       IN IF Queued(t)
          THEN /\ \E i \in DOMAIN waiters : waiters[i] = t /\ waiters' = Unlink(waiters, i)
               /\ queued' = queued - 1 /\ panic' = (queued = 0)
               /\ Become(e, Call("complete", t, 2, "run"))
          ELSE panic' = TRUE /\ UNCHANGED <<waiters, queued, call>>
    /\ UNCHANGED <<st, cancelled, completed, requested, status, queue, operations, open,
                   maxQueue, running, references, owner, handles, permit>>

(* acquireBulkhead after the wait: the permit takes over the reference of  *)
(* the task, or the task drops it.                                         *)
Acquired(t) ==
    /\ t \in Callers
    /\ IF status[t] = 0
       THEN Resume(t, Free) /\ permit' = permit \cup {t}
       ELSE Resume(t, Call("unref", t, 0, "run")) /\ UNCHANGED permit
    /\ handles' = handles \ {t}
    /\ UNCHANGED <<maxQueue, running, waiters, queued, references, owner>>

(* foundation_runtime_bulkhead_permit_release under the lock, from Permit. *)
(* Release or drop: the slot goes to the oldest waiter.  A bulkhead that   *)
(* is gone or runs nothing is a panic, and so is a waiter not counted.     *)
MutHandsOver == running' = running - 1 /\ waiters' = Tail(waiters) /\ queued' = queued - 1
HandsOver == running' = running /\ waiters' = Tail(waiters) /\ queued' = queued - 1
PermitRelease(t) ==
    LET e == Home(t)
    IN /\ At(e, "run") /\ t \in permit
       /\ permit' = permit \ {t}
       /\ IF waiters = <<>>
          THEN running' = running - 1 /\ UNCHANGED <<waiters, queued>> /\ Become(e, Call("unref", t, 0, "run"))
          ELSE HandsOver /\ Become(e, Call("complete", Head(waiters), 0, "unref"))
       /\ panic' = (~Registered \/ running = 0 \/ (waiters # <<>> /\ queued = 0))
       /\ UNCHANGED <<st, cancelled, completed, requested, status, queue, operations, open,
                      maxQueue, references, owner, handles>>

(* foundation_runtime_bulkhead_release: the last reference destroys it; to *)
(* release one that is gone, or the last of a bulkhead in use, is a panic. *)
Unreference(e) ==
    /\ references' = references - 1
    /\ panic' = (~Registered \/ (references = 1 /\ (running # 0 \/ queued # 0 \/ waiters # <<>>)))
    /\ Become(e, Free)
    /\ UNCHANGED <<st, cancelled, completed, requested, status, queue, operations, open,
                   maxQueue, running, waiters, queued, handles, permit>>

Release(e) == At(e, "unref") /\ Unreference(e) /\ UNCHANGED owner
OwnerDrop(e) ==
    /\ At(e, "run") /\ (\E t \in Callers : Home(t) = e) /\ owner /\ owner' = FALSE /\ Unreference(e)

BulkheadNext ==
    \/ \E t \in Tasks : Spawn(t) \/ Acquire(t) \/ Acquired(t) \/ PermitRelease(t)
    \/ \E e \in Threads : Cancel(e) \/ Release(e) \/ OwnerDrop(e)
=============================================================================
