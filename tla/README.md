# Verification of Foundation

Foundation is a compiled language whose tasks run on a cooperative runtime written in C
(`runtime/src`); its compiler and package tool are written in C++ (`compiler/src`). This directory
holds TLA+ models of the parts in which threads, tasks, processes, cancellations and deadlines meet
and of the compiler's ownership analysis, TLC configurations that check them on small instances, and
TLAPS proofs of the results that hold for every instance. `PROJECT.json` maps every definition to the
lines it models and lists components, runs, hazards, findings and theorems.

## 1. The system and what is hard about it

| Part | Source | State | Operations | Meets |
|---|---|---|---|---|
| channels and select | `runtime/src/channel.c` | buffer, two wait queues, select registrations, endpoint counts, holds | send, receive, select, clone, drop, cancel a wait, expire a deadline | tasks of several executors under one lock per channel |
| executor wake-up | `runtime/src/task.c` | ready queue, mailbox of remote wakes, hub with one `notified` flag, list of sources | spawn, park, wake (local or remote), poll the idle sources, sleep, close | every thread that wakes a task |
| task tree | `runtime/src/task.c` | waiter / waiting_on links, cancellation flags, handles in frames, the C stack | spawn, wait, drop, cancel, release | the ready queue; loops nested in polls |
| supervisor | `runtime/src/task.c`, `foundation/worker` | adopted list, closed flag, join frame | adopt, shut down, cancel, in place or by a join task, drop | the task tree |
| blocking executor | `runtime/src/blocking.c` | pending and completed jobs, workers, stopping | submit, run, complete, cancel, stop and join | hub of its owner |
| parallel pool | `runtime/src/pool.c` | jobs, workers, stopping, joined | submit (transfer out), run, wait, cancel, release | an executor per worker |
| reactor | `runtime/src/reactor.c` | operations, completion queue | start, complete, cancel | native callbacks on any thread |
| bulkhead, file watch | `runtime/src/resiliency.c`, `watch.c` | permits and waiters; job list and threads | acquire, release, cancel; start, finish, cancel | the reactor |
| network service | `runtime/src/net.c` | requests, wake-up pipe, thread, sockets shared by halves and controllers | accept, connect, read, write, close, abort, cancel | a thread of its own, the kernel's descriptor numbers |
| ownership analysis | `compiler/src/sema.cpp`, `codegen.cpp` | move, loan and Result state of each local, scopes, the states a loop or branch began with | one rule per statement form; drop lists; the emitted C | what the program then does |
| package cache, lock file | `compiler/src/package_*.cpp` | cache directories, staging, `foundation.lock` | resolve, fetch, verify, prune | other processes, and their death |
| framework packages | `foundation/*` | breakers, locks, groups, schedules, sagas | written in Foundation itself | tasks and channels |

How they interact. An executor is one thread with a queue of ready tasks. A task gives way by
returning from its poll: it waits for a child (task tree), or parks on a channel, a timer, a blocking
job or a reactor operation, each of which keeps a `cancel_wait` callback. Whoever completes the wait
calls `fdn_task_wake`: on the same executor that queues the task, on another it posts to the mailbox
and notifies the hub the owner sleeps on. Blocking jobs and reactor completions come back through
other sources of the same hub. Bulkheads, watches and the network service are services of the
reactor: they start an operation on the task's thread and complete it on another. The parallel pool moves
a whole task to a worker that opens an executor for it; cancellation reaches it as a flag. Dropping a
handle cancels along `waiting_on` and runs the loop until the task is ready. The compiler decides
where handles and other owners are dropped.

What makes each part correct, and hard: a channel delivers every accepted message once and in order
while tasks of other threads close it, select on it, time out or are cancelled; a wake is neither lost
between a scan and a sleep nor sent to an executor that has been freed; a pool neither sleeps over
work nor closes with work left; a cancellation reaches everything it should whatever came first; a
drop joins; a service completes an operation once and touches only what still exists; an accepted
program frees each owner once; a cache entry has the digest it is named by. The `hazards` of
`PROJECT.json` give the line of each.

## 2. Modules

| Module | Models | Composes |
|---|---|---|
| `Channel`, `ChannelProofs` | `channel.c`, with the local/remote split of `fdn_task_wake` | several channels, tasks, executors and their mailboxes |
| `Mailbox`, `MailboxProofs` | wake-up of one executor, `task.c` | owner thread, foreign threads, any number of sources |
| `JobService` | what a thread pool promises (abstract) | |
| `Blocking`, `BlockingProofs` | `blocking.c` | executor thread and workers; implements `JobService` |
| `ParallelPool`, `ParallelPoolProofs` | `pool.c` with `fdn_task_run_transferred` | owner, workers and their executors; implements `JobService` |
| `TaskTree`, `TaskTreeProofs` | task handles, waits, drops and cancellation, `task.c` | all tasks of one executor and its C stack |
| `Supervisor` | adoption and joins, `task.c`, `worker.fn` | extends `TaskTree`; proved in `TaskTreeProofs` |
| `Reactor` | `reactor.c` | the executors' threads |
| `Bulkhead`, `Watch` | `resiliency.c`, `watch.c` | each extends `Reactor` |
| `Callbacks`, `CallbacksProofs` | both services on the same reactors | `Bulkhead`, `Watch` and the watch threads |
| `NetSockets` | sockets, halves and controllers of `net.c` | the kernel's descriptor numbers |
| `NetService`, `NetServiceProofs` | requests and the service thread of `net.c` | extends `NetSockets` |
| `Ownership` | flow analysis, drop lists and emitted code | analyser, then program |
| `PackageStore`, `PackageStoreProofs` | package cache and lock file | several processes |
| `MC*` | the instances TLC checks | |

What a thread does under one lock is one action; where the code unlocks, a step ends. Data is reduced
to identities: a message is `<<task, operation, case>>`, a job is named by its task, native work is
"returns" or "returns only when cancelled", a read or write is complete or not, a file is as its digest
says or not.

**Channel.** `buffer`, `sendQ`, `recvQ`, `selQ`, the three counts and `live` are the fields of
`fdn_channel`; `stage`, `op`, `wake`, `slot` are what a task keeps while it is suspended. `Send`,
`Receive` and `Select` are the first polls of `fdn_channel_poll_*`; `TakeWake` is the poll after a
wake; a resumed select then takes `Unregister` once per channel and `Repoll`, since the code unlocks
between them. `Cancel` is `fdn_channel_cancel_wait` and `_cancel_select`, `Expire`/`WakeExpired` the
timers, `Drain` the mailbox. `DropReceiver` leaves the buffer to `FlushDone` because the messages are
dropped outside the lock. A task's `mailbox` holds the wakes posted for it; the order of the wakes of different
tasks, like that of the ready queue, is left out. `arrival`, `taken`, `flushed`, `verdict` are history.

**Mailbox.** `pc` goes through `fdn_task_run_one`: run, scan the sources one at a time, sleep, rescan.
A foreign thread claims a parked task, pushes, notifies, three steps. `epoch` names the allocation of
the executor, so that a late notification to a freed or reopened one is a `fault`. `FrameDropped` says
that releasing a task takes the lock of the object it waited on, which orders it after the wake;
`Escaping` are the tasks for which that is not so.

**Blocking.** `Open`, `Submit` and the growth of the pool are `fdn_blocking_poll`; a worker loops
through check, asleep, work, pushed; `WakeCompleted`, `Resume`, `Stop`, `Join` are the executor's side.
Signals go to a nondeterministic sleeper and sleepers may wake without cause.

**ParallelPool.** `Submit` includes `fdn_task_transfer_out`; `PollCancellation`, `Park`, `Yield`,
`Ready`, `Wait`, `Woken`, `Timeout` are the worker's own executor, which looks at the job's flag only
between two polls. A job parks in one of two ways, by what `cancel_wait` does to it: a "channel" lets a
cancelled task go at once and does not park it again; a "call" (blocking work, a reactor operation) is only
told, stays parked until it returns, and parks even if it is cancelled already. The walk of a cancellation
ends at tasks cancelled before, so each is told once. `Endless` jobs wait for what never comes; a call of a
`Deaf` one takes no cancellation. Waits for child tasks are those of `TaskTree`.

**TaskTree.** `stack` is the C stack: polls, the loops of `fdn_task_wait` and `fdn_task_drop`, and
releases in progress. `Drivers` are the tasks that wait or drop from within their poll instead of
suspending with `fdn_task_poll_wait`. `CancelWalk` is the loop of `fdn_task_request_cancellation` as
the least set closed under its step. A channel lets a cancelled task go at once, a blocking call only
when it returns: the parameter `now`. A new task may take over handles its parent holds.

**Supervisor.** `sup` is the `fdn_supervisor` with the frame that owns its handle; `Sup` is the holder
of what it adopted. A join in place is a call on the stack below the loops it runs (`JoinInPlace`,
`JoinNext`), also when a released frame drops its supervisor. A join task is a task like the others
whose poll is `JoinEnter`, `JoinTakes`, `JoinWaits`, `JoinEnds`; `join` is its frame. The cancellation of all
it has goes through the list, and `prompt` are the tasks it wakes at once, in that order (`Rouses`).

**Reactor, Bulkhead, Watch.** `st` is the task's side of an operation, `completed`, `requested` and
`status` are the operation's fields, and `call` holds what a thread does between two critical
sections: between the bulkhead's lock and the reactor's, a grant is in nobody's structure. `Spawn` clones
the bulkhead's handle for a task that will acquire, `Acquire` is that task's first poll with its four
answers (a permit, a place in the queue, full, no such bulkhead). `queued`, `jobCount`,
`running`, `operations` and `references` are the code's counters, kept beside the lists they count, and
`panic` is set where the code compares the two. A watch's thread goes through looking (changed, failed or
told to stop), leaving the job list, completing.

**NetSockets, NetService.** `holds` says what each descriptor number stands for now; closing frees the
number, and any socket of the process may get it. `agent` is what the owner of a handle is doing
outside a lock. `thread` is the service's thread: the snapshot it polls, the events, the request it
completes. It drains the pipe, visits the snapshot, and completes at most one request per round.
A stream ends with the line it held, with a failure or with bytes that are no line, and an accept
fails with the connection taken or left. Peers that connect, send or make room and other sockets that are
opened and closed are external.

**Ownership.** The analyser writes a body one statement at a time; an action is enabled where
`sema.cpp` reports nothing about owners, mutability, loans and Results; names and types are taken to be
right. Locals are parameters, `let` and `var` bindings, the error of a guard, the payload of an arm, the
value of a `for`'s round and the iterator it holds; its index, and values that own nothing, are left out.
`flow` is the move, Result and
loan state, `frames` the open constructs with the states their arms end in, `MergeMoves`, `MergeDue`
and `MergeLoan` the joins. A jump or an edit also records in `forgets` what the analysis does not compare.
Then `pc` runs the emitted C over `slot` and `heap`, conditions going either way.

**PackageStore.** `dirs` and `held` are the cache's directories, those under a digest and those being
staged; `lock` is `foundation.lock`, `lockDirs` the staging directories beside it. Each step is one file operation, except that a verification reads at
one point in time. `Crash` forgets what a process was doing and leaves its staging directories; its number, and so
its staging names, are used again. `hist` records what prunes took from a name since it was made. A staging name is a process number and
a sequence number up to `MaxSequence`; `MaxAttempts` is the number of names one staging tries.

## 3. Runs

| Run | Shows | Bounds |
|---|---|---|
| `channel` | FIFO and exactly once, truthful send results, destruction with the last reference, one wake per wait, no delivered message is abandoned | 3 tasks, 2 executors, 1 slot, 2 operations each, cloned senders, timed and untimed selects |
| `channel_rendezvous` | registration on two channels loses nothing; cancelled tasks return, passed deadlines end their select | 2 tasks on 2 executors, 2 rendezvous channels, selects naming them in both orders, 2 operations, cloned receivers |
| `mailbox` | no lost wake, no notification of a freed hub, posted wakes run | 2 tasks parking twice, 2 sources, 2 foreign threads |
| `mailbox_escaping` | *violated*: finding 1 | the same, one escaping task |
| `blocking` | a worker for every job below the limit, no use of a freed pool, cancellation known to the work, implements `JobService`, calls return | 3 tasks, 2 calls each, 1 worker growing to 2, one endless work |
| `pool` | joined pools are empty, implements `JobService`, shutdown ends unless it must wait for a call that takes no cancellation | 3 jobs, two endless, one of them deaf, 2 workers |
| `tasktree` | transitive cancellation, consistent waiters, no detachment, no re-entrancy; adopted tasks are attended, cancelling a supervisor reaches them; every drop, wait and join returns or is buried | 3 tasks, all of which may drive the loop, 1 yield or park each, 1 supervisor |
| `callbacks` | no panic, permits are counted, completions find their operation, queued callers get their permit, cancelled watches return | `Programs`: 2 callers of a bulkhead with 1 permit and 1 place in the queue beside a watch, or a caller and 2 watches with 1 job slot; 2 threads |
| `net` | requests are served, descriptors are closed once and not leaked, the service keeps to its sockets, requests end | listener, connect over 2 addresses, or both halves of a connection; 2 descriptor numbers, 2 service generations |
| `net_shared` | *violated*: finding 2 | both halves of one connection, the read cancelled |
| `ownership` | uses find their value, each owner freed once, loans and Results followed, outside the forms below | 8 sets of forms, bodies of up to 8 statements and block ends, 3 locals, 2 loop rounds |
| `package` | entries have their digest, the step in which a fetch fails has a prune or a changed registry for its cause | 2 process numbers, up to symmetry, 3 commands each, 2 killed, 1 package of 2 files, 3 staging names |

Why the bounds suffice for what the runs ask. Two parties are needed for every race on a channel and a
third to be overtaken in a queue; one slot makes full, empty and refill all happen. In `mailbox` a task
parks again after it was woken, the executor closes and opens again, and the flag is shared by two
sources. In `blocking` three jobs exceed the limit of two workers and the pool closes and reopens. In
`tasktree` three tasks give a chain child, grandchild and a third that cancels, or two adopted tasks and
the join task. In `callbacks` one permit and one place make grant, queue and refusal happen, and one job
slot the limit. In `net` two numbers are enough for a closed one to be used again while a request holds
it; what is cancelled or timed there is alone in its service, and `net_shared` has the shared case. Eight statements and block ends hold a loop with a branch that moves and jumps, and a loop after it. In
`package` one package suffices since no step touches the name of another; six commands allow a
prune against two fetches after a killed one. `CHECK_DEADLOCK` is off where the system may simply stop:
the task tree, whose program may return, and `callbacks`, `net`, `ownership` and `package`, whose
tasks, bodies and commands end. Elsewhere the finished system has an explicit stuttering step.

Fairness. Threads run: weak fairness for what a thread does once it may. An executor keeps polling its
ready tasks and, with none, its sources (`fdn_task_run_one`); a foreign thread that claimed a task ends
its `fdn_task_wake`; a worker goes on after its condition wait. Nothing obliges a task to start an
operation, to be cancelled, or an owner to submit or stop. In `Blocking` work returns unless it is in
`Endless`, and then once cancelled. In `ParallelPool` the answer to a parked job stays in the mailbox
while the worker wakes up for deadlines, hence strong fairness of `Woken`; a call that was told of a cancellation is answered
unless its job is deaf. A deaf call holds up a shutdown, as `docs/stdlib/concurrent.md:86` says it does, and `ShutdownEnds` leaves it out. In `TaskTree` and `Supervisor`, with a
single thread, the fairness is that of the whole next step: programs whose tasks return after finitely
many turns, and waits outside the tree that are answered. In `Callbacks` a woken task is resumed (strong, since
other calls of its thread come in between) and the holder of a permit releases it. In `NetService` the
thread and the owners in the middle of a close go on; peers owe nothing. Tasks that never park would
starve timers and mailbox by design of the cooperative scheduler; no model contains them.

## 4. Proofs

All of them hold for every number of tasks, threads, sources or workers and every bound.

- `MailboxProofs`. `WakeupsAreNotLost`: `NoLostWakeup` speaks of a sleeping owner only; what is
  inductive is `ScanInv`, that a source already visited in the scan before the sleep and filled again is announced.
  `HubOutlivesItsWakers`: from the assumption `Escaping = {}`, with `WakeInv` and `HoldInv`, that a thread inside
  `fdn_task_wake` keeps its task live and hence the executor open and the same. `TypeCorrect`.
- `BlockingProofs`. `PoolOutlivesItsWorkers` with `WorkersHavePool`: a started worker is one the stop
  will join, so its notification finds the pool. `CancellationReachesWork` with `CallerKnows` and
  `QueuesAgree`: each queue and worker holds each job once, so a job's flag is that of its task.
  `EveryJobHasAWorker` with `LiveAreCounted`, `RunningHaveWorkers`, `StopsWhenEmpty` and `WorkersServe`:
  the counter of live jobs is the cardinality of the jobs that are pending, running or completed, the running ones have
  distinct busy workers, and the pool has as many workers as live jobs until the limit, so the
  free workers outnumber the pending jobs. `ExecutorImplementsService`: each action is shown to be a step of
  `JobService` under the mapping, or to leave its variables alone.
- `ParallelPoolProofs`. `JoinedPoolIsEmpty` with `JobsPlaced`: every listed job is in the queue or with
  exactly one busy worker, and a worker leaves only a stopping pool without pending jobs.
  `PoolImplementsService` needs `WorkersFollow` besides: the job a worker is busy with is started and not over.
- `ChannelProofs`. Three invariants, each resting on the ones before. `ClaimInv`: who is in a queue is parked for that
  operation on that channel with no wake under way, who waits can be found in the queues of all its cases, a wake is sent to
  a parked task only, at most one, and a select's by whoever set `signaled`. It is stated task by task in the proof, so that
  a step is followed for the tasks it wakes, its own task and the rest. It gives `TasksAreWokenOnce` and
  `DeliveriesAreAnnounced`. `HandleInv`: the three counts are cardinalities of the handles in frames and of the flushes under
  way, and an operation keeps its handles; it gives `ChannelsOutliveTheirUsers`. `BlockInv`: while somebody waits to send
  there are receivers, no parked receiver and no room, while somebody waits to receive there is nothing to take, and only
  a select can wait on both sides at once. Each attempt leaves only waiters that are still blocked (`StaysBlocked`), since
  what changes a buffer signals. It gives `NoWakeupIsLost`.
- `ChannelProofs`, the messages. `MessagesFlowInOrder` and `VerdictsAreTrue`, from the three above and `FlowInv`. FIFO order alone is
  not inductive: a withdrawal (a cancelled sender, the last receiver's drop) takes messages out of the middle of a
  history, and takes out the right ones only if no message is in it twice. So `FlowInv` says that a message is named after
  the operation that offers it (`MsgsAreNamed`), is offered once and to one channel (`Once`), and only after the operation
  was started; that a closed channel alone was flushed; and that a suspended operation's message is in the history exactly
  if it waits in a send, or the wake it was sent, wherever that wake is, says so (`SuspendedAreTrue`). An attempt offers at
  most one message, which is new, and hands out the oldest (`Flows`), and tells whom it wakes the truth (`Tells`); a
  withdrawal tells its senders they failed (`Withdraws`). For the verdicts every step is shown to be `Honest`: it offers and
  withdraws messages of operations under way only, and judges a message when its operation ends (`JudgedAreOver`), so a
  verdict once true stays true.
- `CallbacksProofs`. `NothingPanics`, `SlotsAreNeitherLostNorDoubled`, `CompletionsFindTheirTask`, from
  `CallbackInv`, whose parts need each other. `OperationsArePolled` and `CompletedAreQueued` tie an operation's fields
  to its task's state, `WaitersAreParked` and `JobsAreWaitedFor` the services' lists to it, and `CallersAreListed` is the
  converse: who waits at the bulkhead is in its list, granted, or carried by exactly one call between two locks.
  The counters (`OperationsAreCounted`, `ReferencesAreHeld`, `PermitsAreCounted`, `ListsAreCounted`) are cardinalities of such
  sets, so each action adds or removes one element or exchanges two, and none is taken below zero; that a task keeps the handle
  it was spawned with until it was answered (`handles`) is why nobody meets a bulkhead that is gone. The panics that `NoPanic`
  speaks of are the ones its comment lists; overflow of a counter and failing locks are not modelled.
- `NetServiceProofs`. `RequestsAreNotLost`, `DescriptorsAreClosedOnce`, `CallsStayOnTheirSockets`, from `NetInv`, for any
  number of descriptor numbers, services and addresses, and any choice of the tasks that run together, have a deadline or are
  cancelled. No property is inductive by itself. The service's part (`ListsInv`, `ThreadsInv`, `EndingsInv`) stands alone:
  only the current service has requests, each once, a thread in a round visits listed requests, and a pending
  request is listed or with the one thread that took it out; so the panic "network service lost request" is unreachable.
  The sockets need the handles as well: an operation that has begun keeps its handle at rest (`HandlesInv`), what an owner
  does is in line with which halves are open (`AgentsInv`), and the references are the handles (`RefsInv`). Then
  `OwnListener`, `OwnConnection` and `OwnDial` say in both directions what a number of the kernel's table stands for: it is
  in its object, or with the one owner or thread that is about to close it. `WaitsInv` is what reuse of numbers needs: a read
  or write that is about to begin or still listed has the connection's own number and an open half, or the connection was
  aborted; no step opens a half again or gives a connection another socket (`Closes`).
- `PackageStoreProofs`. `EntriesStayWhole` from `EntryInv`: what a process has staged and verified is its own,
  since staging names contain its number and are made anew, and stays what it verified until the
  rename unless a prune came by. `FetchesFailForACause` from `FetchInv` under the assumption
  `MaxCrashes < MaxAttempts`. The assumption is needed: names are tried from the first on and a killed process
  leaves one behind, so the code, which gives up after 100, does fail when 100 were left under one process number.
  The property is about the steps in which a fetch fails (`Caused`), since `hist` of a digest starts anew when the entry is
  installed again and an earlier prune then excuses nothing. One who lost the rename and then finds nothing
  needs the argument that whoever installed again made the entry whole (`ExcusedStays`).
- `TaskTreeProofs`. `CancellationIsTransitive`, `WaitersHoldHandles`, `TasksAreNeverDetached`,
  `PollsAreNotReentered`, all from `TreeInv`: the four need each other, since e.g. a release may only
  go on because nobody waits for the task, and a task is queued by a cancellation only because it was
  parked. One lemma per action, over lemmas on pushing and popping the stack and on the queue. They hold
  for any set of `Drivers`, that is also where a join may not return. They are proved for `TaskTree` by
  itself and, as `SupervisedTreeIsSound`, with a supervisor among the holders and its joins on the stack.
  `SupervisorsJoinAll` and `SupervisorsCancelAll` come from `SupInv`: who is held is live and joined by no call
  (`HeldAreLive`, `JoinedAreOut`), the supervisor holds exactly what is in its list (`AdoptedInv`), an open one has a live
  owner, a closed one a join in place or a join task that is not ready, never both, and a released one neither
  (`OwnerInv`), and a join that cancels has cancelled all that is left (`CancelInv`). A step of the tree enters that
  argument only through its `Effect`: which tasks it may release or complete; the guards of `ReleaseFrame` and of
  the join task's poll say that these are not the owner and not the join.

Assumptions of the constants are the names being distinct, the bounds natural, at least one source and
one worker, finitely many pool workers and an initial pool not above its limit. In `Callbacks`, where counters are
compared with cardinalities, the tasks and threads are finite, all bulkhead callers are on one thread (`BulkheadIsLocal`,
a handle stays on its thread) and nobody is both a caller and a watcher at once (`ServicesAreApart`). `NetSockets` asks for
two descriptor numbers, one for a listener and one for a connection that are open when the run begins; 0 is no number.

Only model-checked: every liveness property (fairness and `ENABLED` are outside the prover) and all properties of
`Ownership`. It is about programs and their analysis, whose states are nested sequences, and what the analysis computes
from them is induction over data. Elsewhere that was avoided: what the last receiver withdraws is a function (`Withdrawn`
in `Channel`) and not the recursive `SelectSeq`, and the tasks a supervisor wakes are any sequence that `Rouses` allows
and not one computed from sets.

## 5. Findings

1. `mailbox_escaping` (code). `fdn_task_wake` notifies through `executor->source` after it unlocked the
   mailbox. A task that returns the endpoint it waited on does not take the channel's lock when it is
   released, so its executor can be freed between the push and the notification.
2. `net_shared` (code). `fdn_net_cancel` marks a request and writes a byte to the service's pipe. The
   thread drains every byte and then walks a snapshot taken before `poll`, stopping at the first request
   it completes. A read cancelled in a round that completes a write is not looked at again until its
   peer sends something, so the drop that waits for it does not return.

Cases the properties of passing runs name as exceptions, each seen as a counterexample when the
exception is taken out:

- `JoinsReturn`, `Buried`. Loops nest on the C stack (`task.c:627`, `642`, and the joins of a supervisor): a task
  polled by an inner loop may drop or wait for a task whose poll is below it, and that join never returns,
  against `docs/language.md:996`. `tasktree` shows that it is the only way for a join not to return.
- `MovesAreSound` and `LoansAreSound`, `Forgotten`, a jump. In `while c { if d { consume($x); break } } consume($x)`
  the branch does not go on, so the merge drops its state, and the loop check (`sema.cpp:3360`) compares only
  the end of the body with the state before it: the second use is accepted and finds the owner moved, against
  `docs/language.md:720`. With `continue` the next round finds it, and a `for` after the loop iterates nothing.
  `forgets` is set only where a `break` or `continue` is reached with another move of an outer local than its
  loop began with; every other jump, conditional or not, is covered.
- `LoansAreSound`, `Forgotten`, an edit. A field assignment or an edit method does not look at view loans
  (`sema.cpp:2816`), so the body of a `for` can free the elements it goes on to iterate, against
  `docs/language.md:730`. Only an edit with a view loan on its root is left out.
- `ResultsAreSound`, `ResultsOutsideLoops`. The body of a loop is analysed once: `while c { r = g() }`
  followed by a use of `r` is accepted though each round replaces a Result nobody looked at
  (`docs/language.md:769`).
- `RequestEnds`, `Renumbered`. The thread does not look at a request merely because it was closed
  (`net.c:2011`): an accept ends after its controller's Close because `poll` reports the closed number,
  unless another socket has it by then.
- `ServiceKeepsToItsSockets`. After Abort the halves may close a socket the service still has a request
  for. Only accept, receive and send are covered: `fdn_net_close_half` and `fdn_net_read_close` (`net.c:1150`,
  `1649`) call `shutdown` on a number read under a lock they have left, and it may be another socket's.
- `EntriesAreWhole` and `FetchFailsForACause`, `hist`. Prune removes staging directories of processes at work,
  one file at a time (`package_cache.cpp:326`). A failed copy or write ends a fetch too, as an I/O error
  and not as the failure the property is about. Between a fetch's verification and its rename this
  publishes an entry with a file missing, which the fetch reports as installed; a prune that is killed
  leaves one too. From then on fetch fails, since it installs only what is absent, and prune keeps the
  entry as long as the lock names it.

Two more observations. The blocking pool grows with the number of live jobs up to 256 workers, where
`docs/stdlib/concurrent.md:82` calls it fixed. `CallReturns` therefore speaks of pools with fewer endless works than that limit. What a killed resolve left next to `foundation.lock` is never removed.

## 6. Not modelled, and why

- The order in which a select locks its channels (by address), which `Channel` takes as one step.
- In `Ownership`: expression typing, closures, task frames, destructuring, state transitions, the LLVM back end.
- In `ParallelPool`: the children of a transferred task, which are `TaskTree`'s.
- In `NetService`: a second request of the same task, datagrams, local sockets, name resolution, addresses and the binding of listeners.
- In `PackageStore`: manifests, version resolution, snapshots and exports.
- Worker groups, circuit breaker, keyed lock, scheduler, saga, pooling and state machine packages: written
  in Foundation on the primitives modelled here, and sequential apart from them.
- The rest of the two compilers (lexing, parsing, typing, code generation), text, parsing, file and crypto
  packages (conversions over data TLC cannot enumerate), process, terminal and desktop I/O (operating system
  calls), plugins (validation of foreign modules), providers and release scripts.
