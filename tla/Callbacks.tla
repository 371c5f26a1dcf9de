----------------------------- MODULE Callbacks -----------------------------
(***************************************************************************)
(* Two services on the reactors of several threads: the bulkhead, whose    *)
(* operations are completed by whoever releases a permit, and the file     *)
(* watch, whose operations are completed by a thread of their own.         *)
(***************************************************************************)
EXTENDS Bulkhead, Watch

(* A task waits for a permit or for a file.                                *)
ASSUME ServicesAreApart == Callers \cap Watchers = {}

vars == <<reactorVars, bulkheadVars, watchVars>>

Init == ReactorInit /\ BulkheadInit /\ WatchInit

ReactorNext ==
    \/ \E e \in Threads : RequestCancellation(e) \/ Complete(e) \/ WakeCompleted(e)
    \/ \E t \in Tasks : CancelTask(t)

Next ==
    \/ ReactorNext /\ UNCHANGED <<bulkheadVars, watchVars>>
    \/ BulkheadNext /\ UNCHANGED watchVars
    \/ WatchNext /\ UNCHANGED bulkheadVars

Spec == Init /\ [][Next]_vars

(* The threads run: an executor finishes its calls, wakes what is complete *)
(* and resumes what is woken; a permit is released some day; a watch's     *)
(* thread sees its flag and finishes.                                      *)
Executor(e) ==
    \/ (RequestCancellation(e) \/ Complete(e) \/ WakeCompleted(e)) /\ UNCHANGED <<bulkheadVars, watchVars>>
    \/ (Cancel(e) \/ Release(e)) /\ UNCHANGED watchVars
    \/ (WatchCancel(e) \/ \E b \in BOOLEAN : WatchSpawn(e, b)) /\ UNCHANGED bulkheadVars
Resumes(t) ==
    \/ (Acquired(t) \/ PermitRelease(t)) /\ UNCHANGED watchVars
    \/ Watched(t) /\ UNCHANGED bulkheadVars
Worker(t) ==
    (WorkerSees(t, 2) \/ WorkerLeaves(t) \/ WorkerCompletes(t)) /\ UNCHANGED bulkheadVars

FairSpec ==
    /\ Spec
    /\ \A e \in Threads : WF_vars(Executor(e))
    /\ \A t \in Tasks : SF_vars(Resumes(t))
    /\ \A t \in Watchers : WF_vars(Worker(t))

-----------------------------------------------------------------------------
(* Who counts in `running': holders of a permit, operations granted and    *)
(* not yet resumed, and grants on their way from a releasing thread.       *)
Granted == permit \cup {t \in Callers : completed[t] /\ status[t] = 0 /\ st[t] # "ready"}
                  \cup {call[e].task : e \in {f \in Threads : call[f].do = "complete" /\ call[f].status = 0}}

(* A bulkhead admits at most maxConcurrent permits (docs/framework/        *)
(* resiliency.md:59), and no slot is lost: the counter is what is held, on *)
(* its way to a task, or granted to a task that is being cancelled.        *)
PermitsAreCounted ==
    ~panic => /\ running = Cardinality(Granted \cap Callers) /\ running <= MaxConcurrent
              /\ waiters # <<>> => running = MaxConcurrent

(* A service's thread that will complete an operation, or write into the   *)
(* task's frame, finds the task parked on it: an operation is completed    *)
(* once, and not after its task went on.                                   *)
WritersFindOperation ==
    ~panic =>
        /\ \A e \in Threads : call[e].do = "complete" =>
               st[call[e].task] = "waiting" /\ ~completed[call[e].task]
        /\ \A t \in Watchers : (worker[t] # "none" \/ t \in jobs) => st[t] = "waiting" /\ ~completed[t]
        /\ \A e \in Threads, f \in Threads : (e # f /\ call[e].do = "complete" /\ call[f].do = "complete")
               => call[e].task # call[f].task

(* None of the panics about operations, waiters, jobs and counts happens   *)
(* (reactor.c:136, 185, 192, 244; resiliency.c:171, 186, 193, 263, 270,    *)
(* 282, 294; watch.c:207): an operation is completed once and resumed      *)
(* after it, the reactor goes without completions, no count falls below    *)
(* zero, nobody retains, releases or gives a permit back to a bulkhead     *)
(* that is gone, and the last handle finds it idle.  Dropping a queued     *)
(* task removes it from the queue (docs/framework/resiliency.md:60).       *)
NoPanic == ~panic

(* A queued caller gets its permit once the permits before it are          *)
(* released, and a cancelled watch returns, unless the process panics.     *)
WaitReturns ==
    \A t \in Callers \cup Cancellable : (st[t] = "waiting" /\ (t \in Callers \/ cancelled[t])) ~> (st[t] = "ready" \/ panic)
-----------------------------------------------------------------------------
(* The invariant behind them, in parts.                                    *)
Calls ==
    [do : {"request", "cancel", "complete", "spawn", "unref"}, task : Tasks, status : Nat,
     then : {"run", "polled", "unref"}]

TypeOK ==
    /\ st \in [Tasks -> {"new", "waiting", "woken", "ready"}] /\ status \in [Tasks -> Nat]
    /\ cancelled \in [Tasks -> BOOLEAN] /\ completed \in [Tasks -> BOOLEAN] /\ requested \in [Tasks -> BOOLEAN]
    /\ queue \in [Threads -> Seq(Tasks)] /\ operations \in [Threads -> Int] /\ open \in [Threads -> BOOLEAN]
    /\ call \in [Threads -> {Free} \cup Calls] /\ panic \in BOOLEAN
    /\ maxQueue \in Nat /\ running \in Int /\ waiters \in Seq(Callers) /\ references \in Int
    /\ queued \in Int /\ owner \in BOOLEAN /\ handles \subseteq Callers /\ permit \subseteq Callers
    /\ jobs \subseteq Watchers /\ jobCount \in Int /\ stop \in [Watchers -> BOOLEAN] /\ outcome \in [Watchers -> Nat]
    /\ worker \in [Watchers -> {"none", "polling", "leaving", "finishing"}]

(* A thread's call is about a task of its own, so no two threads handle    *)
(* one operation; the operation it is about to touch is still there.       *)
CallsStayHome ==
    \A e \in Threads : call[e].do # "run" =>
        /\ Home(call[e].task) = e
        /\ call[e].do \in {"request", "cancel", "complete", "spawn"} => st[call[e].task] = "waiting"
        /\ call[e].do \in {"complete", "spawn"} => ~completed[call[e].task]
        /\ call[e].do = "spawn" => call[e].task \in Watchers

(* An operation lives from the task's park to its resumption.              *)
OperationsArePolled ==
    \A t \in Tasks :
        /\ completed[t] => st[t] \in {"waiting", "woken"}
        /\ st[t] = "woken" => completed[t]
        /\ t \in permit => st[t] = "ready"

CompletedAreQueued ==
    \A e \in Threads : \A i \in DOMAIN queue[e] :
        Home(queue[e][i]) = e /\ st[queue[e][i]] = "waiting" /\ completed[queue[e][i]]

(* A waiter of the bulkhead is listed once, and nobody has answered it.    *)
WaitersAreParked ==
    /\ \A i \in DOMAIN waiters : st[waiters[i]] = "waiting" /\ ~completed[waiters[i]]
    /\ \A i \in DOMAIN waiters, j \in DOMAIN waiters : waiters[i] = waiters[j] => i = j

(* A caller that waits is listed or about to be answered, never both; one  *)
(* whose cancellation is under way is listed still.                        *)
CallersAreListed ==
    /\ \A e \in Threads : (call[e].do = "complete" \/ call[e].do = "spawn") => ~Queued(call[e].task)
    /\ \A e \in Threads : (call[e].do = "cancel" /\ call[e].task \in Callers) => Queued(call[e].task)
    /\ \A t \in Callers : (st[t] = "waiting" /\ ~completed[t]) =>
           Queued(t) \/ (call[Home(t)].do = "complete" /\ call[Home(t)].task = t)

(* A watch belongs to its thread, or to the call that starts or refuses it. *)
JobsAreWaitedFor ==
    /\ \A t \in Watchers : (worker[t] # "none" \/ t \in jobs) => st[t] = "waiting" /\ ~completed[t]
    /\ \A t \in Watchers : worker[t] = "finishing" => t \notin jobs
    /\ \A e \in Threads : (call[e].do \in {"complete", "spawn"} /\ call[e].task \in Watchers) =>
           worker[call[e].task] = "none" /\ (call[e].do = "complete" => call[e].task \notin jobs)

Parked(e) == {t \in Tasks : Home(t) = e /\ st[t] \in {"waiting", "woken"}}
OperationsAreCounted == \A e \in Threads : operations[e] = Cardinality(Parked(e))

(* Every reference to the bulkhead is the owner's, a task's that acquires, *)
(* a permit's, or that of a thread on its way to give it up; who waits has *)
(* one.                                                                    *)
Waiting == {t \in Callers : st[t] \in {"waiting", "woken"}}
Leaving == {e \in Threads : call[e].do = "unref" \/ (call[e].do = "complete" /\ call[e].then = "unref")}
ReferencesAreHeld ==
    /\ references = (IF owner THEN 1 ELSE 0) + Cardinality(handles) + Cardinality(permit) + Cardinality(Leaving)
    /\ Waiting \subseteq handles

(* The counters beside the two lists.                                      *)
ListsAreCounted == queued = Len(waiters) /\ jobCount = Cardinality(jobs)

CallbackInv ==
    /\ TypeOK /\ NoPanic /\ PermitsAreCounted
    /\ CallsStayHome /\ OperationsArePolled /\ CompletedAreQueued /\ WaitersAreParked
    /\ CallersAreListed /\ JobsAreWaitedFor /\ OperationsAreCounted /\ ReferencesAreHeld
    /\ ListsAreCounted
=============================================================================
