------------------------------ MODULE TaskTree ------------------------------
(***************************************************************************)
(* The structured tasks of one executor (runtime/src/task.c): spawning,    *)
(* suspending and driving waits, dropping a live handle, the cancellation  *)
(* walk along waiting_on, and the release of a task with everything its    *)
(* frame still holds.                                                      *)
(*                                                                         *)
(* An executor is one thread.  fdn_task_wait and fdn_task_drop called from *)
(* a task's poll run the executor's loop again, below that poll on the C   *)
(* stack, and the inner loop may poll any queued task; the stack is        *)
(* therefore part of the state.  What a task does between two calls of the *)
(* runtime is its program's choice.                                        *)
(***************************************************************************)
EXTENDS Integers, Sequences

CONSTANTS
    Tasks,      \* the tasks that may be spawned
    Main,       \* the code outside every task
    Drivers,    \* tasks whose program waits for or drops a live task from
                \* within its poll, in place of suspending
    MaxTurns,   \* bound: how often a task yields or parks
    Nobody

ASSUME NamesAssumption ==
    /\ Main \notin Tasks /\ Nobody \notin Tasks /\ Main # Nobody
    /\ Drivers \subseteq Tasks
ASSUME MaxTurnsAssumption == MaxTurns \in Nat

VARIABLES
    st,         \* where a task is, see TaskStates
    holder,     \* who owns its handle
    cancelled,  \* fdn_task.cancellation_requested
    waitingOn,  \* fdn_task.waiting_on
    waiter,     \* fdn_task.waiter
    turns,      \* how often it gave way (bounds the model)
    queue,      \* the ready queue, oldest first
    stack       \* the C stack, innermost call first

vars == <<st, holder, cancelled, waitingOn, waiter, turns, queue, stack>>

(* A "polling" task has its poll on the stack; a "waiting" one suspended   *)
(* on a child, a "parked" one on something outside the tree; a "freed" one *)
(* is in fdn_task_release.                                                 *)
TaskStates == {"unborn", "queued", "polling", "waiting", "parked", "ready",
               "freed", "released"}
Live(t) == st[t] \notin {"unborn", "released"}

(* A call on the stack: a task's poll; fdn_task_wait or fdn_task_drop of a *)
(* task, which runs the loop until it is ready; fdn_task_release of a task *)
(* while it drops what the frame holds.                                    *)
Calls == [op : {"poll", "wait", "drop", "free"}, task : Tasks]
Call(op, t) == [op |-> op, task |-> t]
Innermost(op, t) == stack # <<>> /\ Head(stack) = Call(op, t)
Pushed(op, t) == <<Call(op, t)>> \o stack

Runs(a) == (a = Main /\ stack = <<>>) \/ Innermost("poll", a)
Held(a) == {c \in Tasks : holder[c] = a}

(* fdn_task_run_until asks for a task that is not ready.                   *)
Looping == \E t \in Tasks : (Innermost("wait", t) \/ Innermost("drop", t)) /\ st[t] # "ready"
Idle == Looping /\ queue = <<>>

Init ==
    /\ st = [t \in Tasks |-> "unborn"]
    /\ holder = [t \in Tasks |-> Nobody]
    /\ cancelled = [t \in Tasks |-> FALSE]
    /\ waitingOn = [t \in Tasks |-> Nobody]
    /\ waiter = [t \in Tasks |-> Nobody]
    /\ turns = [t \in Tasks |-> 0]
    /\ queue = <<>> /\ stack = <<>>

-----------------------------------------------------------------------------
(* Cancellation.                                                           *)

(* fdn_task_request_cancellation goes from a task to what it waits on, and *)
(* stops at the first task that is already cancelled: the least set that   *)
(* is closed under that step.                                              *)
Walked(c, S) ==
    /\ ~cancelled[c] => c \in S
    /\ \A d \in S : (waitingOn[d] # Nobody /\ ~cancelled[waitingOn[d]]) => waitingOn[d] \in S
CancelWalk(c) == {d \in Tasks : \A S \in SUBSET Tasks : Walked(c, S) => d \in S}
CancelledBy(c) == [d \in Tasks |-> cancelled[d] \/ d \in CancelWalk(c)]

(* cancel_wait at the end of the walk: a channel takes the parked task out *)
(* of its wait at once (now), a blocking call only when it returns.        *)
MutInterrupted(c, now) == {d \in CancelWalk(c) : now /\ st[d] # "ready"}
Interrupted(c, now) == {d \in CancelWalk(c) : now /\ st[d] = "parked"}
Woken(S) == [d \in Tasks |-> IF d \in S THEN "queued" ELSE st[d]]
Enqueued(S) == IF S = {} THEN queue ELSE Append(queue, CHOOSE d \in S : TRUE)

-----------------------------------------------------------------------------
(* What the running code calls: a is Main or the task whose poll is        *)
(* innermost.                                                              *)

(* fdn_task_spawn; the new task's frame takes over some of a's handles.    *)
Spawn(a, c, given) ==
    /\ Runs(a) /\ st[c] = "unborn" /\ given \subseteq Held(a)
    /\ st' = [st EXCEPT ![c] = "queued"]
    /\ queue' = Append(queue, c)
    /\ holder' = [d \in Tasks |-> IF d = c THEN a ELSE IF d \in given THEN c ELSE holder[d]]
    /\ UNCHANGED <<cancelled, waitingOn, waiter, turns, stack>>

(* A task that does not drive the loop only drops handles of ready tasks.  *)
MayDrive(a, c) == a \in Drivers \cup {Main} \/ st[c] = "ready"

(* fdn_task_drop until it enters the loop.                                 *)
Drop(a, c, now) ==
    /\ Runs(a) /\ c \in Held(a) /\ MayDrive(a, c)
    /\ cancelled' = CancelledBy(c)
    /\ st' = Woken(Interrupted(c, now)) /\ queue' = Enqueued(Interrupted(c, now))
    /\ holder' = [holder EXCEPT ![c] = Nobody]
    /\ stack' = Pushed("drop", c)
    /\ UNCHANGED <<waitingOn, waiter, turns>>

(* Waiting hands a cancelled task's cancellation on to the child.          *)
MutInherits(a) == FALSE
Inherits(a) == a # Main /\ cancelled[a]

(* fdn_task_wait until it enters the loop.                                 *)
Wait(a, c, now) ==
    /\ Runs(a) /\ c \in Held(a) /\ a \in Drivers \cup {Main}
    /\ LET woken == IF Inherits(a) THEN Interrupted(c, now) ELSE {}
       IN  st' = Woken(woken) /\ queue' = Enqueued(woken)
    /\ cancelled' = IF Inherits(a) THEN CancelledBy(c) ELSE cancelled
    /\ holder' = [holder EXCEPT ![c] = Nobody]
    /\ stack' = Pushed("wait", c)
    /\ UNCHANGED <<waitingOn, waiter, turns>>

(* fdn_task_poll_wait of a task that is not ready; the poll returns.       *)
PollWait(t, c, now) ==
    /\ Innermost("poll", t) /\ c \in Held(t) /\ st[c] # "ready"
    /\ LET woken == IF Inherits(t) THEN Interrupted(c, now) ELSE {}
       IN  /\ st' = [Woken(woken) EXCEPT ![t] = "waiting"]
           /\ queue' = Enqueued(woken)
    /\ cancelled' = IF Inherits(t) THEN CancelledBy(c) ELSE cancelled
    /\ waitingOn' = [waitingOn EXCEPT ![t] = c]
    /\ waiter' = [waiter EXCEPT ![c] = t]
    /\ stack' = Tail(stack)
    /\ UNCHANGED <<holder, turns>>

(* fdn_task_poll_wait of a ready task: it is released, the poll goes on.   *)
PollWaitReady(t, c) ==
    /\ Innermost("poll", t) /\ c \in Held(t) /\ st[c] = "ready"
    /\ holder' = [holder EXCEPT ![c] = Nobody]
    /\ st' = [st EXCEPT ![c] = "freed"]
    /\ stack' = Pushed("free", c)
    /\ UNCHANGED <<cancelled, waitingOn, waiter, turns, queue>>

(* The poll returns pending without a wait: fdn_task_run_one queues it.    *)
Yield(t) ==
    /\ Innermost("poll", t) /\ turns[t] < MaxTurns
    /\ turns' = [turns EXCEPT ![t] = @ + 1]
    /\ st' = [st EXCEPT ![t] = "queued"] /\ queue' = Append(queue, t)
    /\ stack' = Tail(stack)
    /\ UNCHANGED <<holder, cancelled, waitingOn, waiter>>

(* The poll returns pending after fdn_task_park_current.                   *)
Park(t) ==
    /\ Innermost("poll", t) /\ turns[t] < MaxTurns
    /\ turns' = [turns EXCEPT ![t] = @ + 1]
    /\ st' = [st EXCEPT ![t] = "parked"]
    /\ stack' = Tail(stack)
    /\ UNCHANGED <<holder, cancelled, waitingOn, waiter, queue>>

(* The poll returns ready: fdn_task_wake_waiter unlinks and queues the one *)
(* that waits for the task.                                                *)
MutWaiters(t) == {}
Waiters(t) == IF waiter[t] = Nobody THEN {} ELSE {waiter[t]}
MutUnlinked(t) == waiter
Unlinked(t) == [waiter EXCEPT ![t] = Nobody]
Ready(t) ==
    /\ Innermost("poll", t) /\ (t \in Drivers \/ Held(t) = {})
    /\ st' = [Woken(Waiters(t)) EXCEPT ![t] = "ready"]
    /\ queue' = Enqueued(Waiters(t))
    /\ waitingOn' = [d \in Tasks |-> IF d \in Waiters(t) THEN Nobody ELSE waitingOn[d]]
    /\ waiter' = Unlinked(t)
    /\ stack' = Tail(stack)
    /\ UNCHANGED <<holder, cancelled, turns>>

-----------------------------------------------------------------------------
(* The executor.                                                           *)

(* fdn_task_run_one polls the oldest queued task.                          *)
RunOne ==
    /\ Looping /\ queue # <<>>
    /\ st' = [st EXCEPT ![Head(queue)] = "polling"]
    /\ stack' = Pushed("poll", Head(queue))
    /\ queue' = Tail(queue)
    /\ UNCHANGED <<holder, cancelled, waitingOn, waiter, turns>>

(* What a parked task waits for comes: from running code on this executor, *)
(* or through a source that is only scanned when the queue is empty.       *)
Wake(t) ==
    /\ st[t] = "parked" /\ (Idle \/ \E a \in Tasks \cup {Main} : Runs(a))
    /\ st' = [st EXCEPT ![t] = "queued"] /\ queue' = Append(queue, t)
    /\ UNCHANGED <<holder, cancelled, waitingOn, waiter, turns, stack>>

(* fdn_task_run_until returns and fdn_task_release begins.                 *)
Return(c) ==
    /\ (Innermost("wait", c) \/ Innermost("drop", c)) /\ st[c] = "ready"
    /\ st' = [st EXCEPT ![c] = "freed"]
    /\ stack' = <<Call("free", c)>> \o Tail(stack)
    /\ UNCHANGED <<holder, cancelled, waitingOn, waiter, turns, queue>>

(* drop_frame drops a handle the frame still holds.                        *)
DropHeld(t, c, now) ==
    /\ Innermost("free", t) /\ c \in Held(t)
    /\ cancelled' = CancelledBy(c)
    /\ st' = Woken(Interrupted(c, now)) /\ queue' = Enqueued(Interrupted(c, now))
    /\ holder' = [holder EXCEPT ![c] = Nobody]
    /\ stack' = Pushed("drop", c)
    /\ UNCHANGED <<waitingOn, waiter, turns>>

MutFrameDropped(t) == TRUE
FrameDropped(t) == Held(t) = {}
Release(t) ==
    /\ Innermost("free", t) /\ FrameDropped(t)
    /\ st' = [st EXCEPT ![t] = "released"]
    /\ stack' = Tail(stack)
    /\ UNCHANGED <<holder, cancelled, waitingOn, waiter, turns, queue>>

-----------------------------------------------------------------------------
Running(a) ==
    \/ \E c \in Tasks, given \in SUBSET Held(a) : Spawn(a, c, given)
    \/ \E c \in Tasks, now \in BOOLEAN : Drop(a, c, now) \/ Wait(a, c, now)
Polling(t) ==
    \/ \E c \in Tasks : PollWaitReady(t, c) \/ \E now \in BOOLEAN : PollWait(t, c, now)
    \/ Yield(t) \/ Park(t) \/ Ready(t)
Executor ==
    \/ RunOne
    \/ \E t \in Tasks : Wake(t) \/ Return(t) \/ Release(t)
    \/ \E t, c \in Tasks, now \in BOOLEAN : DropHeld(t, c, now)
Next ==
    \/ \E a \in Tasks \cup {Main} : Running(a)
    \/ \E t \in Tasks : Polling(t)
    \/ Executor

Spec == Init /\ [][Next]_vars

(* One thread that runs; programs whose tasks return, and answers that     *)
(* come.                                                                   *)
FairSpec == Spec /\ WF_vars(Next)

-----------------------------------------------------------------------------
(* Cancellation reaches what a cancelled task waits on, whether it waited  *)
(* before or after it was cancelled; otherwise the early stop of the walk  *)
(* in fdn_task_request_cancellation would leave a join without an end.     *)
CancellationReaches ==
    \A t \in Tasks : (cancelled[t] /\ waitingOn[t] # Nobody) => cancelled[waitingOn[t]]

(* A task is waited for by the one that holds its handle and by nobody     *)
(* else: no wait, drop or release meets the panics "task already has a     *)
(* waiter", "invalid task waiter" or "cannot release an incomplete task".  *)
WaiterHolds ==
    /\ \A c \in Tasks : waiter[c] # Nobody =>
          waitingOn[waiter[c]] = c /\ holder[c] = waiter[c] /\ st[waiter[c]] = "waiting"
    /\ \A t \in Tasks : waitingOn[t] # Nobody <=> st[t] = "waiting"
    /\ \A t \in Tasks : waitingOn[t] # Nobody => waiter[waitingOn[t]] = t

(* "never silent detachment": every live task has a live holder, or a call *)
(* on the stack joins it.                                                  *)
Joined(t) == \E i \in DOMAIN stack : stack[i].op # "poll" /\ stack[i].task = t
NeverDetached ==
    \A t \in Tasks : Live(t) =>
        \/ holder[t] \notin Tasks \cup {Nobody}
        \/ holder[t] \in Tasks /\ Live(holder[t])
        \/ Joined(t)

(* No call is entered again below itself: a task's poll, or its release,   *)
(* is on the stack once, and a task that is queued is queued once and      *)
(* nowhere else ("invalid task enqueue").                                  *)
StackOK ==
    /\ \A i \in DOMAIN stack :
          /\ stack[i].op = "poll" => st[stack[i].task] = "polling"
          /\ stack[i].op = "free" => st[stack[i].task] = "freed"
    /\ \A i, k \in DOMAIN stack :
          (stack[i] = stack[k] /\ stack[i].op \in {"poll", "free"}) => i = k
QueueOK ==
    /\ \A i \in DOMAIN queue : st[queue[i]] = "queued"
    /\ \A i, k \in DOMAIN queue : queue[i] = queue[k] => i = k
NoReentrancy == StackOK /\ QueueOK

(* A loop waits, directly or through the waits of others, for a task whose *)
(* poll is further down its own C stack: it cannot end, for that poll      *)
(* cannot go on before the loop does.                                      *)
WaitsFor(t) ==
    {d \in Tasks : \A S \in SUBSET Tasks :
        (t \in S /\ \A e \in S : waitingOn[e] # Nobody => waitingOn[e] \in S) => d \in S}
Buried ==
    \E i, j \in DOMAIN stack :
        i < j /\ stack[i].op \in {"wait", "drop"} /\ stack[j].op = "poll"
              /\ stack[j].task \in WaitsFor(stack[i].task)
=============================================================================
