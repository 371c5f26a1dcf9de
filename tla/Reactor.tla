------------------------------ MODULE Reactor ------------------------------
(***************************************************************************)
(* The callback reactor (runtime/src/reactor.c): a task hands an operation *)
(* to a service, parks, and is woken when any thread completes the         *)
(* operation.  Every executor thread has a reactor of its own while it has *)
(* operations.  A service starts an operation and cancels it on the task's *)
(* thread, and completes it on whichever thread it likes.                  *)
(*                                                                         *)
(* A step is one critical section; what a thread does between two of them  *)
(* is in call.  The services are modules that extend this one.             *)
(***************************************************************************)
EXTENDS Integers, Sequences, FiniteSets

CONSTANTS
    Threads,    \* the executor threads
    Tasks,
    Home(_),    \* the thread a task runs on
    Cancellable,\* the tasks whose handle is dropped while they run
    Programs    \* the sets of tasks that run together

ASSUME HomeAssumption ==
    /\ IsFiniteSet(Threads) /\ IsFiniteSet(Tasks) /\ Cancellable \subseteq Tasks
    /\ \A t \in Tasks : Home(t) \in Threads
    /\ Programs \subseteq SUBSET Tasks

VARIABLES
    st,         \* "new", "waiting" (parked), "woken", "ready"
    cancelled,  \* fdn_task.cancellation_requested
    completed,  \* fdn_reactor_operation.completed
    requested,  \* fdn_reactor_operation.cancellation_requested
    status,     \* fdn_reactor_operation.status
    queue,      \* the thread's complete_head list
    operations, \* fdn_reactor.operations
    open,       \* fdn_reactor_current # NULL
    call,       \* where the thread is between two critical sections
    panic       \* the process panicked

reactorVars == <<st, cancelled, completed, requested, status, queue, operations, open, call, panic>>

(* A call that is not finished: what the thread does next, for which task's *)
(* operation, with which status, and what it does after a completion.      *)
Call(do, t, s, then) == [do |-> do, task |-> t, status |-> s, then |-> then]
Free == [do |-> "run"]
At(e, do) == ~panic /\ call[e].do = do
Become(e, c) == call' = [call EXCEPT ![e] = c]

(* A task that is not in the program is over before it starts.             *)
ReactorInit ==
    /\ \E tasks \in Programs : st = [t \in Tasks |-> IF t \in tasks THEN "new" ELSE "ready"]
    /\ cancelled = [t \in Tasks |-> FALSE]
    /\ completed = [t \in Tasks |-> FALSE]
    /\ requested = [t \in Tasks |-> FALSE]
    /\ status = [t \in Tasks |-> 0]
    /\ queue = [e \in Threads |-> <<>>]
    /\ operations = [e \in Threads |-> 0]
    /\ open = [e \in Threads |-> FALSE]
    /\ call = [e \in Threads |-> Free]
    /\ panic = FALSE

-----------------------------------------------------------------------------
(* fdn_reactor_poll after the service's start: a task that was cancelled   *)
(* before it parked asks for the cancellation now.                         *)
MutPolled(t) == Free
Polled(t) == IF cancelled[t] THEN Call("request", t, 0, "run") ELSE Free

(* fdn_reactor_poll, the first time: the operation is counted and the task *)
(* parks before the service hears of it, so nobody can complete it between *)
(* the two; `then' is what start leaves to be done.                        *)
Poll(t, then) ==
    /\ At(Home(t), "run") /\ st[t] = "new"
    /\ st' = [st EXCEPT ![t] = "waiting"]
    /\ open' = [open EXCEPT ![Home(t)] = TRUE]
    /\ operations' = [operations EXCEPT ![Home(t)] = @ + 1]
    /\ Become(Home(t), then)
    /\ UNCHANGED <<cancelled, completed, requested, status, queue, panic>>

(* A task is cancelled from its own thread.  The wait's callback leads to  *)
(* fdn_reactor_request_cancellation.                                       *)
CancelTask(t) ==
    /\ At(Home(t), "run") /\ t \in Cancellable /\ ~cancelled[t] /\ st[t] \in {"new", "waiting", "woken"}
    /\ cancelled' = [cancelled EXCEPT ![t] = TRUE]
    /\ IF st[t] = "waiting" THEN Become(Home(t), Call("request", t, 0, "run")) ELSE UNCHANGED call
    /\ UNCHANGED <<st, completed, requested, status, queue, operations, open, panic>>

(* The decision is taken under the reactor's lock, the service is called   *)
(* after it.                                                               *)
MutAsks(t) == ~requested[t]
Asks(t) == ~completed[t] /\ ~requested[t]
RequestCancellation(e) ==
    /\ At(e, "request")
    /\ LET t == call[e].task
       IN IF Asks(t)
          THEN requested' = [requested EXCEPT ![t] = TRUE] /\ Become(e, [call[e] EXCEPT !.do = "cancel"])
          ELSE Become(e, Free) /\ UNCHANGED requested
    /\ UNCHANGED <<st, cancelled, completed, status, queue, operations, open, panic>>

(* fdn_reactor_complete, on any thread: twice is a panic, and so is, here, *)
(* the operation of a task that went on, which is freed memory.            *)
Completes(t, s) ==
    IF completed[t] \/ st[t] # "waiting"
    THEN panic' = TRUE /\ UNCHANGED <<completed, status, queue>>
    ELSE /\ completed' = [completed EXCEPT ![t] = TRUE]
         /\ status' = [status EXCEPT ![t] = s]
         /\ queue' = [queue EXCEPT ![Home(t)] = Append(@, t)]
         /\ UNCHANGED panic

Complete(e) ==
    /\ At(e, "complete")
    /\ Completes(call[e].task, call[e].status)
    /\ Become(e, CASE call[e].then = "run" -> Free
                   [] call[e].then = "polled" -> Polled(call[e].task)
                   [] call[e].then = "unref" -> [call[e] EXCEPT !.do = "unref"])
    /\ UNCHANGED <<st, cancelled, requested, operations, open>>

(* fdn_reactor_wake_completed: its loop ends when it finds the list empty. *)
WakeCompleted(e) ==
    /\ At(e, "run") /\ queue[e] # <<>>
    /\ st' = [t \in Tasks |-> IF \E i \in DOMAIN queue[e] : queue[e][i] = t THEN "woken" ELSE st[t]]
    /\ queue' = [queue EXCEPT ![e] = <<>>]
    /\ UNCHANGED <<cancelled, completed, requested, status, operations, open, call, panic>>

(* fdn_reactor_poll of a woken task frees its operation; the last one      *)
(* takes the reactor with it.  It panics when nobody completed the         *)
(* operation, when none is counted, and when the reactor goes with a       *)
(* completion in its list.  What the task does with the status is `then'.  *)
Resume(t, then) ==
    LET e == Home(t)
    IN /\ At(e, "run") /\ st[t] = "woken"
       /\ st' = [st EXCEPT ![t] = "ready"]
       /\ operations' = [operations EXCEPT ![e] = @ - 1]
       /\ open' = [open EXCEPT ![e] = operations[e] > 1]
       /\ panic' = (~completed[t] \/ operations[e] = 0 \/ (operations[e] = 1 /\ queue[e] # <<>>))
       /\ completed' = [completed EXCEPT ![t] = FALSE]
       /\ requested' = [requested EXCEPT ![t] = FALSE]
       /\ status' = [status EXCEPT ![t] = 0]
       /\ Become(e, then)
       /\ UNCHANGED <<cancelled, queue>>
=============================================================================
