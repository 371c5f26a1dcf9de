-------------------------- MODULE CallbacksProofs --------------------------
(***************************************************************************)
(* Proofs about the bulkhead and the file watch on the callback reactor:   *)
(* no cancellation, completion or release panics, the slots are counted    *)
(* exactly, and whoever completes an operation finds its task parked.      *)
(***************************************************************************)
EXTENDS Callbacks, FiniteSetTheorems, TLAPS

USE DEF reactorVars, bulkheadVars, watchVars

Doings == {"request", "cancel", "complete", "spawn", "unref"}
Nexts == {"run", "polled", "unref"}

(* What a call says, and that it is a call.                                *)
LEMMA CallFields ==
    ASSUME NEW d \in Doings, NEW t \in Tasks, NEW s \in Nat, NEW n \in Nexts
    PROVE  /\ Call(d, t, s, n) \in Calls /\ Call(d, t, s, n).do = d /\ Call(d, t, s, n).task = t
           /\ Call(d, t, s, n).status = s /\ Call(d, t, s, n).then = n
BY DEF Call, Calls, Doings, Nexts

LEMMA FreeFields == Free.do = "run"
BY DEF Free

(* A thread that is not free has a call.                                   *)
LEMMA CallOf ==
    ASSUME TypeOK, NEW e \in Threads
    PROVE  /\ call[e] = Free \/ call[e] \in Calls
           /\ call[e].do # "run" =>
                /\ call[e] \in Calls /\ call[e].do \in Doings /\ call[e].task \in Tasks
                /\ call[e].status \in Nat /\ call[e].then \in Nexts
<1>1. call[e] = Free \/ call[e] \in Calls  BY DEF TypeOK
<1>2. CASE call[e] = Free  BY <1>2, FreeFields
<1>3. CASE call[e] \in Calls  BY <1>3 DEF Calls, Doings, Nexts
<1>. QED  BY <1>1, <1>2, <1>3

(* The same call with something else to do.                                *)
LEMMA CallGoesOn ==
    ASSUME NEW c \in Calls, NEW d \in Doings
    PROVE  /\ [c EXCEPT !.do = d] = Call(d, c.task, c.status, c.then)
           /\ [c EXCEPT !.do = d] \in Calls
BY DEF Call, Calls, Doings

LEMMA PolledIsCall ==
    ASSUME NEW t \in Tasks
    PROVE  /\ Polled(t) \in {Free} \cup Calls
           /\ Polled(t).do = "run" \/ (Polled(t).do = "request" /\ Polled(t).task = t)
<1>1. CASE cancelled[t]  BY <1>1, CallFields DEF Polled, Doings, Nexts
<1>2. CASE ~cancelled[t]  BY <1>2, FreeFields DEF Polled
<1>. QED  BY <1>1, <1>2

(* A list without its i-th element.                                        *)
LEMMA Unlinked ==
    ASSUME NEW S, NEW list \in Seq(S), NEW i \in DOMAIN list
    PROVE  /\ Unlink(list, i) \in Seq(S) /\ DOMAIN Unlink(list, i) = 1 .. Len(list) - 1
           /\ \A j \in 1 .. Len(list) - 1 : Unlink(list, i)[j] = IF j < i THEN list[j] ELSE list[j + 1]
<1>1. Len(list) \in Nat /\ DOMAIN list = 1 .. Len(list) /\ \A j \in 1 .. Len(list) : list[j] \in S  OBVIOUS
<1>2. \A j \in 1 .. Len(list) - 1 : (IF j < i THEN list[j] ELSE list[j + 1]) \in S  BY <1>1
<1>3. Unlink(list, i) \in [1 .. Len(list) - 1 -> S]  BY <1>1, <1>2 DEF Unlink
<1>4. Len(list) - 1 \in Nat  BY <1>1
<1>5. Unlink(list, i) \in Seq(S)  BY <1>3, <1>4
<1>. QED  BY <1>3, <1>5 DEF Unlink

-----------------------------------------------------------------------------
(* The types.                                                              *)
LEMMA BecomeIsTyped ==
    ASSUME TypeOK, NEW e \in Threads, NEW c \in {Free} \cup Calls, Become(e, c)
    PROVE  /\ call' \in [Threads -> {Free} \cup Calls]
           /\ \A f \in Threads : call'[f] = IF f = e THEN c ELSE call[f]
BY DEF TypeOK, Become

LEMMA PollIsTyped ==
    ASSUME TypeOK, NEW t \in Tasks, NEW c \in {Free} \cup Calls, Poll(t, c)
    PROVE  /\ st' \in [Tasks -> {"new", "waiting", "woken", "ready"}] /\ operations' \in [Threads -> Int]
           /\ open' \in [Threads -> BOOLEAN] /\ call' \in [Threads -> {Free} \cup Calls]
<1>1. Home(t) \in Threads  BY HomeAssumption
<1>2. call' \in [Threads -> {Free} \cup Calls]  BY <1>1, BecomeIsTyped DEF Poll
<1>3. st' \in [Tasks -> {"new", "waiting", "woken", "ready"}]  BY DEF TypeOK, Poll
<1>4. operations' \in [Threads -> Int]  BY <1>1 DEF TypeOK, Poll
<1>5. open' \in [Threads -> BOOLEAN]  BY <1>1 DEF TypeOK, Poll
<1>. QED  BY <1>2, <1>3, <1>4, <1>5

LEMMA ResumeIsTyped ==
    ASSUME TypeOK, NEW t \in Tasks, NEW c \in {Free} \cup Calls, Resume(t, c)
    PROVE  /\ st' \in [Tasks -> {"new", "waiting", "woken", "ready"}] /\ operations' \in [Threads -> Int]
           /\ open' \in [Threads -> BOOLEAN] /\ call' \in [Threads -> {Free} \cup Calls]
           /\ completed' \in [Tasks -> BOOLEAN] /\ requested' \in [Tasks -> BOOLEAN] /\ status' \in [Tasks -> Nat]
           /\ panic' \in BOOLEAN /\ UNCHANGED <<cancelled, queue>>
<1>1. Home(t) \in Threads  BY HomeAssumption
<1>2. call' \in [Threads -> {Free} \cup Calls]  BY <1>1, BecomeIsTyped DEF Resume
<1>3. operations[Home(t)] \in Int  BY <1>1 DEF TypeOK
<1>4. st' \in [Tasks -> {"new", "waiting", "woken", "ready"}]  BY DEF TypeOK, Resume
<1>5. operations' \in [Threads -> Int]  BY <1>1, <1>3 DEF TypeOK, Resume
<1>6. open' \in [Threads -> BOOLEAN] /\ panic' \in BOOLEAN  BY <1>1 DEF TypeOK, Resume
<1>7. completed' \in [Tasks -> BOOLEAN] /\ requested' \in [Tasks -> BOOLEAN] /\ status' \in [Tasks -> Nat]
  BY DEF TypeOK, Resume
<1>. QED  BY <1>2, <1>4, <1>5, <1>6, <1>7 DEF Resume

LEMMA CompletesIsTyped ==
    ASSUME TypeOK, NEW t \in Tasks, NEW s \in Nat, Completes(t, s)
    PROVE  /\ completed' \in [Tasks -> BOOLEAN] /\ status' \in [Tasks -> Nat] /\ panic' \in BOOLEAN
           /\ queue' \in [Threads -> Seq(Tasks)]
<1>1. Home(t) \in Threads  BY HomeAssumption
<1>2. queue[Home(t)] \in Seq(Tasks)  BY <1>1 DEF TypeOK
<1>3. Append(queue[Home(t)], t) \in Seq(Tasks)  BY <1>2
<1>. QED  BY <1>1, <1>3 DEF TypeOK, Completes

LEMMA ReactorKeepsType ==
    ASSUME TypeOK, ReactorNext, UNCHANGED <<bulkheadVars, watchVars>>
    PROVE  TypeOK'
<1>1. ASSUME NEW e \in Threads, RequestCancellation(e)  PROVE TypeOK'
  <2>1. call[e] \in Calls /\ call[e].task \in Tasks  BY <1>1, CallOf DEF RequestCancellation, At
  <2>2. [call[e] EXCEPT !.do = "cancel"] \in Calls  BY <2>1, CallGoesOn DEF Doings
  <2>3. call' \in [Threads -> {Free} \cup Calls]  BY <1>1, <2>2, BecomeIsTyped DEF RequestCancellation
  <2>4. requested' \in [Tasks -> BOOLEAN]  BY <1>1, <2>1 DEF RequestCancellation, TypeOK
  <2>. QED  BY <1>1, <2>3, <2>4 DEF TypeOK, RequestCancellation
<1>2. ASSUME NEW e \in Threads, Complete(e)  PROVE TypeOK'
  <2>1. call[e] \in Calls /\ call[e].task \in Tasks /\ call[e].status \in Nat /\ call[e].then \in Nexts
    BY <1>2, CallOf DEF Complete, At
  <2>2. [call[e] EXCEPT !.do = "unref"] \in Calls  BY <2>1, CallGoesOn DEF Doings
  <2>3. call' \in [Threads -> {Free} \cup Calls]
    <3>. DEFINE c == CASE call[e].then = "run" -> Free
                       [] call[e].then = "polled" -> Polled(call[e].task)
                       [] call[e].then = "unref" -> [call[e] EXCEPT !.do = "unref"]
    <3>1. c \in {Free} \cup Calls  BY <2>1, <2>2, PolledIsCall DEF Nexts
    <3>2. Become(e, c)  BY <1>2 DEF Complete
    <3>. HIDE DEF c
    <3>. QED  BY <3>1, <3>2, BecomeIsTyped
  <2>. QED  BY <1>2, <2>1, <2>3, CompletesIsTyped DEF TypeOK, Complete
<1>3. ASSUME NEW e \in Threads, WakeCompleted(e)  PROVE TypeOK'
  <2>1. <<>> \in Seq(Tasks)  OBVIOUS
  <2>. QED  BY <1>3, <2>1 DEF TypeOK, WakeCompleted
<1>4. ASSUME NEW t \in Tasks, CancelTask(t)  PROVE TypeOK'
  <2>1. Home(t) \in Threads  BY HomeAssumption
  <2>2. Call("request", t, 0, "run") \in Calls  BY CallFields DEF Doings, Nexts
  <2>3. call' \in [Threads -> {Free} \cup Calls]
    <3>1. CASE st[t] = "waiting"  BY <1>4, <3>1, <2>1, <2>2, BecomeIsTyped DEF CancelTask
    <3>2. CASE st[t] # "waiting"  BY <1>4, <3>2 DEF CancelTask, TypeOK
    <3>. QED  BY <3>1, <3>2
  <2>. QED  BY <1>4, <2>3 DEF TypeOK, CancelTask
<1>. QED  BY <1>1, <1>2, <1>3, <1>4 DEF ReactorNext

LEMMA BulkheadKeepsType ==
    ASSUME TypeOK, BulkheadNext, UNCHANGED watchVars
    PROVE  TypeOK'
<1>0. Callers \subseteq Tasks  BY BulkheadAssumption
<1>1. ASSUME NEW t \in Tasks, Acquire(t)  PROVE TypeOK'
  <2>1. /\ \A s \in Nat : Call("complete", t, s, "polled") \in Calls
        /\ Polled(t) \in {Free} \cup Calls
    BY CallFields, PolledIsCall DEF Doings, Nexts
  <2>2. PICK c \in {Free} \cup Calls : Poll(t, c)  BY <1>1, <2>1 DEF Acquire
  <2>3. waiters' \in Seq(Callers)
    <3>1. t \in Callers /\ waiters \in Seq(Callers)  BY <1>1 DEF Acquire, TypeOK
    <3>2. Append(waiters, t) \in Seq(Callers)  BY <3>1
    <3>. QED  BY <1>1, <3>1, <3>2 DEF Acquire
  <2>4. running' \in Int /\ queued' \in Int  BY <1>1 DEF Acquire, TypeOK
  <2>. QED  BY <1>1, <2>2, <2>3, <2>4, PollIsTyped DEF TypeOK, Acquire, Poll
<1>2. ASSUME NEW t \in Tasks, Acquired(t)  PROVE TypeOK'
  <2>1. Call("unref", t, 0, "run") \in Calls  BY CallFields DEF Doings, Nexts
  <2>2. PICK c \in {Free} \cup Calls : Resume(t, c)  BY <1>2, <2>1 DEF Acquired
  <2>3. permit' \subseteq Callers /\ handles' \subseteq Callers  BY <1>2 DEF Acquired, TypeOK
  <2>. QED  BY <1>2, <2>2, <2>3, ResumeIsTyped DEF TypeOK, Acquired
<1>3. ASSUME NEW t \in Tasks, PermitRelease(t)  PROVE TypeOK'
  <2>1. Home(t) \in Threads /\ waiters \in Seq(Callers) /\ running \in Int /\ queued \in Int
    BY HomeAssumption DEF TypeOK
  <2>2. CASE waiters = <<>>
    <3>1. Call("unref", t, 0, "run") \in Calls  BY CallFields DEF Doings, Nexts
    <3>2. call' \in [Threads -> {Free} \cup Calls]  BY <1>3, <2>1, <2>2, <3>1, BecomeIsTyped DEF PermitRelease
    <3>. QED  BY <1>3, <2>1, <2>2, <3>2 DEF TypeOK, PermitRelease
  <2>3. CASE waiters # <<>>
    <3>1. Head(waiters) \in Callers /\ Tail(waiters) \in Seq(Callers)  BY <2>1, <2>3
    <3>2. Call("complete", Head(waiters), 0, "unref") \in Calls  BY <1>0, <3>1, CallFields DEF Doings, Nexts
    <3>3. call' \in [Threads -> {Free} \cup Calls]  BY <1>3, <2>1, <2>3, <3>2, BecomeIsTyped DEF PermitRelease
    <3>4. waiters' \in Seq(Callers) /\ running' \in Int /\ queued' \in Int /\ permit' \subseteq Callers
      <4>1. running' = running /\ waiters' = Tail(waiters) /\ queued' = queued - 1 /\ permit' = permit \ {t}
        BY <1>3, <2>3 DEF PermitRelease, HandsOver
      <4>2. permit' \subseteq Callers  BY <4>1 DEF TypeOK
      <4>. QED  BY <2>1, <3>1, <4>1, <4>2
    <3>5. panic' \in BOOLEAN  BY <1>3 DEF PermitRelease
    <3>. QED  BY <1>3, <3>3, <3>4, <3>5 DEF TypeOK, PermitRelease
  <2>. QED  BY <2>2, <2>3
<1>4. ASSUME NEW e \in Threads, Cancel(e)  PROVE TypeOK'
  <2>. DEFINE t == call[e].task
  <2>1. t \in Tasks /\ waiters \in Seq(Callers) /\ queued \in Int  BY <1>4, CallOf DEF Cancel, At, TypeOK
  <2>2. CASE Queued(t)
    <3>1. Call("complete", t, 2, "run") \in Calls  BY <2>1, CallFields DEF Doings, Nexts
    <3>2. call' \in [Threads -> {Free} \cup Calls]  BY <1>4, <2>2, <3>1, BecomeIsTyped DEF Cancel
    <3>3. PICK i \in DOMAIN waiters : waiters' = Unlink(waiters, i)  BY <1>4, <2>2 DEF Cancel
    <3>4. waiters' \in Seq(Callers)  BY <2>1, <3>3, Unlinked
    <3>. QED  BY <1>4, <2>1, <2>2, <3>2, <3>4 DEF TypeOK, Cancel
  <2>3. CASE ~Queued(t)  BY <1>4, <2>3 DEF TypeOK, Cancel
  <2>. QED  BY <2>2, <2>3
<1>5. ASSUME NEW e \in Threads, Unreference(e), owner' \in BOOLEAN  PROVE TypeOK'
  <2>1. call' \in [Threads -> {Free} \cup Calls]  BY <1>5, BecomeIsTyped DEF Unreference
  <2>2. references' \in Int  BY <1>5 DEF Unreference, TypeOK
  <2>. QED  BY <1>5, <2>1, <2>2 DEF TypeOK, Unreference
<1>6. ASSUME NEW e \in Threads, Release(e) \/ OwnerDrop(e)  PROVE TypeOK'
  BY <1>5, <1>6 DEF Release, OwnerDrop, TypeOK
<1>7. ASSUME NEW t \in Tasks, Spawn(t)  PROVE TypeOK'
  BY <1>7 DEF Spawn, TypeOK
<1>. QED  BY <1>1, <1>2, <1>3, <1>4, <1>6, <1>7 DEF BulkheadNext

LEMMA WatchKeepsType ==
    ASSUME TypeOK, CallsStayHome, WatchNext, UNCHANGED bulkheadVars
    PROVE  TypeOK'
<1>0. Watchers \subseteq Tasks  BY WatchAssumption
<1>1. ASSUME NEW t \in Tasks, NEW b \in BOOLEAN, Watch(t, b)  PROVE TypeOK'
  <2>1. /\ Call("complete", t, 3, "polled") \in Calls /\ Call("complete", t, 4, "polled") \in Calls
        /\ Call("spawn", t, 0, "polled") \in Calls
    BY CallFields DEF Doings, Nexts
  <2>2. PICK c \in {Free} \cup Calls : Poll(t, c)  BY <1>1, <2>1 DEF Watch
  <2>3. jobs' \subseteq Watchers /\ jobCount' \in Int  BY <1>1 DEF Watch, TypeOK
  <2>. QED  BY <1>1, <2>2, <2>3, PollIsTyped DEF TypeOK, Watch, Poll
<1>2. ASSUME NEW t \in Tasks, Watched(t)  PROVE TypeOK'
  BY <1>2, ResumeIsTyped DEF TypeOK, Watched
<1>3. ASSUME NEW e \in Threads, NEW b \in BOOLEAN, WatchSpawn(e, b)  PROVE TypeOK'
  <2>. DEFINE t == call[e].task
  <2>1. t \in Tasks /\ t \in Watchers  BY <1>3, CallOf DEF WatchSpawn, At, CallsStayHome
  <2>2. Call("complete", t, 1, "polled") \in Calls /\ Polled(t) \in {Free} \cup Calls
    BY <2>1, CallFields, PolledIsCall DEF Doings, Nexts
  <2>3. call' \in [Threads -> {Free} \cup Calls]  BY <1>3, <2>2, BecomeIsTyped DEF WatchSpawn
  <2>4. /\ jobs' \subseteq Watchers /\ worker' \in [Watchers -> {"none", "polling", "leaving", "finishing"}]
        /\ jobCount' \in Int /\ panic' \in BOOLEAN
    <3>. HIDE DEF t
    <3>1. CASE b
      <4>1. worker' = [worker EXCEPT ![t] = "polling"] /\ UNCHANGED <<jobs, jobCount, panic>>
        BY <1>3, <3>1 DEF WatchSpawn, t
      <4>. QED  BY <2>1, <4>1 DEF TypeOK
    <3>2. CASE ~b
      <4>1. Removes(t) /\ UNCHANGED worker  BY <1>3, <3>2 DEF WatchSpawn, t
      <4>. QED  BY <4>1 DEF TypeOK, Removes
    <3>. QED  BY <3>1, <3>2
  <2>. QED  BY <1>3, <2>3, <2>4 DEF TypeOK, WatchSpawn
<1>4. ASSUME NEW e \in Threads, WatchCancel(e)  PROVE TypeOK'
  <2>1. call' \in [Threads -> {Free} \cup Calls]  BY <1>4, BecomeIsTyped DEF WatchCancel
  <2>2. stop' \in [Watchers -> BOOLEAN]  BY <1>4 DEF WatchCancel, TypeOK
  <2>. QED  BY <1>4, <2>1, <2>2 DEF TypeOK, WatchCancel
<1>5. ASSUME NEW t \in Watchers, NEW s \in 0 .. 2, WorkerSees(t, s)  PROVE TypeOK'
  BY <1>5 DEF TypeOK, WorkerSees
<1>6. ASSUME NEW t \in Watchers, WorkerLeaves(t)  PROVE TypeOK'
  BY <1>6 DEF TypeOK, WorkerLeaves, Removes
<1>7. ASSUME NEW t \in Watchers, WorkerCompletes(t)  PROVE TypeOK'
  <2>1. outcome[t] \in Nat  BY DEF TypeOK
  <2>. QED  BY <1>0, <1>7, <2>1, CompletesIsTyped DEF TypeOK, WorkerCompletes
<1>. QED  BY <1>1, <1>2, <1>3, <1>4, <1>5, <1>6, <1>7 DEF WatchNext, WatchWorker

-----------------------------------------------------------------------------
(* What a step of the reactor does to a task, point by point.              *)
LEMMA PollPoint ==
    ASSUME TypeOK, NEW t \in Tasks, NEW c \in {Free} \cup Calls, Poll(t, c)
    PROVE  /\ Home(t) \in Threads /\ st[t] = "new" /\ call[Home(t)].do = "run"
           /\ \A u \in Tasks : st'[u] = IF u = t THEN "waiting" ELSE st[u]
           /\ \A f \in Threads : call'[f] = IF f = Home(t) THEN c ELSE call[f]
           /\ \A f \in Threads : operations'[f] = IF f = Home(t) THEN operations[f] + 1 ELSE operations[f]
           /\ UNCHANGED <<cancelled, completed, requested, status, queue, panic>>
<1>1. Home(t) \in Threads  BY HomeAssumption
<1>2. \A f \in Threads : call'[f] = IF f = Home(t) THEN c ELSE call[f]  BY <1>1, BecomeIsTyped DEF Poll
<1>3. \A u \in Tasks : st'[u] = IF u = t THEN "waiting" ELSE st[u]  BY DEF Poll, TypeOK
<1>4. \A f \in Threads : operations'[f] = IF f = Home(t) THEN operations[f] + 1 ELSE operations[f]
  BY <1>1 DEF Poll, TypeOK
<1>. QED  BY <1>1, <1>2, <1>3, <1>4 DEF Poll, At

LEMMA ResumePoint ==
    ASSUME TypeOK, NEW t \in Tasks, NEW c \in {Free} \cup Calls, Resume(t, c)
    PROVE  /\ Home(t) \in Threads /\ st[t] = "woken" /\ call[Home(t)].do = "run"
           /\ \A u \in Tasks : st'[u] = IF u = t THEN "ready" ELSE st[u]
           /\ \A u \in Tasks : completed'[u] <=> (u # t /\ completed[u])
           /\ \A u \in Tasks : status'[u] = IF u = t THEN 0 ELSE status[u]
           /\ \A f \in Threads : call'[f] = IF f = Home(t) THEN c ELSE call[f]
           /\ \A f \in Threads : operations'[f] = IF f = Home(t) THEN operations[f] - 1 ELSE operations[f]
           /\ panic' => ~completed[t] \/ operations[Home(t)] = 0 \/ (operations[Home(t)] = 1 /\ queue[Home(t)] # <<>>)
           /\ UNCHANGED <<cancelled, queue>>
<1>1. Home(t) \in Threads  BY HomeAssumption
<1>2. \A f \in Threads : call'[f] = IF f = Home(t) THEN c ELSE call[f]  BY <1>1, BecomeIsTyped DEF Resume
<1>3. \A u \in Tasks : st'[u] = IF u = t THEN "ready" ELSE st[u]  BY DEF Resume, TypeOK
<1>4. \A f \in Threads : operations'[f] = IF f = Home(t) THEN operations[f] - 1 ELSE operations[f]
  BY <1>1 DEF Resume, TypeOK
<1>5. \A u \in Tasks : completed'[u] <=> (u # t /\ completed[u])  BY DEF Resume, TypeOK
<1>6. \A u \in Tasks : status'[u] = IF u = t THEN 0 ELSE status[u]  BY DEF Resume, TypeOK
<1>7. call[Home(t)].do = "run" /\ st[t] = "woken"  BY DEF Resume, At
<1>8. /\ panic' => ~completed[t] \/ operations[Home(t)] = 0 \/ (operations[Home(t)] = 1 /\ queue[Home(t)] # <<>>)
      /\ UNCHANGED <<cancelled, queue>>
  BY DEF Resume
<1>. QED  BY <1>1, <1>2, <1>3, <1>4, <1>5, <1>6, <1>7, <1>8

(* A completion that finds its operation.                                  *)
LEMMA CompletesPoint ==
    ASSUME TypeOK, NEW t \in Tasks, NEW s \in Nat, Completes(t, s), st[t] = "waiting", ~completed[t]
    PROVE  /\ \A u \in Tasks : completed'[u] <=> (u = t \/ completed[u])
           /\ \A u \in Tasks : status'[u] = IF u = t THEN s ELSE status[u]
           /\ \A f \in Threads : queue'[f] = IF f = Home(t) THEN Append(queue[f], t) ELSE queue[f]
           /\ UNCHANGED panic
BY HomeAssumption DEF TypeOK, Completes

(* A thread that calls is at home, as the invariant says of its call.      *)
LEMMA CallPoint ==
    ASSUME TypeOK, CallsStayHome, NEW e \in Threads, call[e].do # "run"
    PROVE  /\ call[e] \in Calls /\ call[e].do \in Doings /\ call[e].task \in Tasks
           /\ call[e].status \in Nat /\ call[e].then \in Nexts /\ Home(call[e].task) = e
BY CallOf DEF CallsStayHome

OperationInv ==
    /\ CallsStayHome /\ OperationsArePolled /\ CompletedAreQueued /\ WaitersAreParked
    /\ CallersAreListed /\ JobsAreWaitedFor

(* The lists a step leaves alone.                                          *)
LEMMA Members ==
    ASSUME TypeOK
    PROVE  /\ \A e \in Threads : \A i \in DOMAIN queue[e] : queue[e][i] \in Tasks
           /\ \A i \in DOMAIN waiters : waiters[i] \in Callers /\ waiters[i] \in Tasks
           /\ \A t \in Callers : t \in Tasks /\ Home(t) \in Threads /\ t \notin Watchers
           /\ \A t \in Watchers : t \in Tasks /\ Home(t) \in Threads /\ t \notin Callers
<1>1. \A e \in Threads : queue[e] \in Seq(Tasks)  BY DEF TypeOK
<1>2. waiters \in Seq(Callers)  BY DEF TypeOK
<1>. QED  BY <1>1, <1>2, HomeAssumption, BulkheadAssumption, WatchAssumption, ServicesAreApart

-----------------------------------------------------------------------------
(* The parks.  A task that was new is nowhere yet.                         *)
LEMMA NewIsNowhere ==
    ASSUME TypeOK, OperationInv, NEW t \in Tasks, st[t] = "new"
    PROVE  /\ ~completed[t] /\ ~Queued(t) /\ t \notin permit
           /\ t \in Watchers => t \notin jobs /\ worker[t] = "none"
           /\ \A f \in Threads : call[f].do \in {"request", "cancel", "complete", "spawn"} => call[f].task # t
<1>1. ~completed[t] /\ t \notin permit  BY DEF OperationInv, OperationsArePolled
<1>2. ~Queued(t)  BY DEF OperationInv, WaitersAreParked, Queued
<1>3. t \in Watchers => t \notin jobs /\ worker[t] = "none"  BY DEF OperationInv, JobsAreWaitedFor
<1>4. \A f \in Threads : call[f].do \in {"request", "cancel", "complete", "spawn"} => call[f].task # t
  BY DEF OperationInv, CallsStayHome
<1>. QED  BY <1>1, <1>2, <1>3, <1>4

(* A park that start answers at once.                                      *)
LEMMA AnsweredPark ==
    ASSUME TypeOK, OperationInv, NEW t \in Tasks, NEW s \in Nat, NEW n \in Nexts,
           Poll(t, Call("complete", t, s, n)), UNCHANGED <<waiters, permit, jobs, worker>>
    PROVE  OperationInv'
<1>. DEFINE c == Call("complete", t, s, n)
<1>1. c \in Calls /\ c.do = "complete" /\ c.task = t  BY CallFields DEF Doings
<1>2. Poll(t, c)  OBVIOUS
<1>. HIDE DEF c
<1>3. /\ Home(t) \in Threads /\ st[t] = "new" /\ call[Home(t)].do = "run"
      /\ \A u \in Tasks : st'[u] = IF u = t THEN "waiting" ELSE st[u]
      /\ \A f \in Threads : call'[f] = IF f = Home(t) THEN c ELSE call[f]
      /\ UNCHANGED <<cancelled, completed, requested, status, queue, panic>>
  BY <1>1, <1>2, PollPoint
<1>4. /\ ~completed[t] /\ ~Queued(t) /\ t \notin permit
      /\ t \in Watchers => t \notin jobs /\ worker[t] = "none"
      /\ \A f \in Threads : call[f].do \in {"request", "cancel", "complete", "spawn"} => call[f].task # t
  BY <1>3, NewIsNowhere
<1>5. \A f \in Threads : call[f].do # "run" => call[f].task \in Tasks /\ call[f].do \in Doings
  BY CallPoint DEF OperationInv
<1>6. CallsStayHome'  BY <1>1, <1>3, <1>4, <1>5 DEF OperationInv, CallsStayHome, Doings
<1>7. OperationsArePolled'  BY <1>3, <1>4 DEF OperationInv, OperationsArePolled
<1>8. CompletedAreQueued'  BY <1>3, <1>4, Members DEF OperationInv, CompletedAreQueued
<1>9. WaitersAreParked'  BY <1>3, <1>4, Members DEF OperationInv, WaitersAreParked
<1>10. CallersAreListed'  BY <1>1, <1>3, <1>4, <1>5, Members DEF OperationInv, CallersAreListed, Queued
<1>11. JobsAreWaitedFor'  BY <1>1, <1>3, <1>4, <1>5, Members DEF OperationInv, JobsAreWaitedFor
<1>. QED  BY <1>6, <1>7, <1>8, <1>9, <1>10, <1>11 DEF OperationInv

(* A caller that joins the queue.                                          *)
LEMMA QueuedPark ==
    ASSUME TypeOK, OperationInv, NEW t \in Callers, Poll(t, Polled(t)), waiters' = Append(waiters, t),
           UNCHANGED <<permit, jobs, worker>>
    PROVE  OperationInv'
<1>. DEFINE c == Polled(t)
<1>0. t \in Tasks /\ Home(t) \in Threads /\ t \notin Watchers  BY Members
<1>1. c \in {Free} \cup Calls /\ (c.do = "run" \/ (c.do = "request" /\ c.task = t))  BY <1>0, PolledIsCall
<1>2. Poll(t, c)  OBVIOUS
<1>. HIDE DEF c
<1>3. /\ st[t] = "new" /\ call[Home(t)].do = "run"
      /\ \A u \in Tasks : st'[u] = IF u = t THEN "waiting" ELSE st[u]
      /\ \A f \in Threads : call'[f] = IF f = Home(t) THEN c ELSE call[f]
      /\ UNCHANGED <<cancelled, completed, requested, status, queue, panic>>
  BY <1>0, <1>1, <1>2, PollPoint
<1>4. /\ ~completed[t] /\ ~Queued(t) /\ t \notin permit
      /\ \A f \in Threads : call[f].do \in {"request", "cancel", "complete", "spawn"} => call[f].task # t
  BY <1>0, <1>3, NewIsNowhere
<1>5. \A f \in Threads : call[f].do # "run" => call[f].task \in Tasks /\ call[f].do \in Doings
  BY CallPoint DEF OperationInv
<1>6. /\ Len(waiters) \in Nat /\ DOMAIN waiters = 1 .. Len(waiters) /\ DOMAIN waiters' = 1 .. Len(waiters) + 1
      /\ \A i \in 1 .. Len(waiters) : waiters'[i] = waiters[i]
      /\ waiters'[Len(waiters) + 1] = t
  BY DEF TypeOK
<1>7. \A u : Queued(u)' <=> (Queued(u) \/ u = t)  BY <1>6 DEF Queued
<1>8. CallsStayHome'  BY <1>0, <1>1, <1>3, <1>4, <1>5 DEF OperationInv, CallsStayHome, Doings
<1>9. OperationsArePolled'  BY <1>0, <1>3, <1>4 DEF OperationInv, OperationsArePolled
<1>10. CompletedAreQueued'  BY <1>0, <1>3, <1>4, Members DEF OperationInv, CompletedAreQueued
<1>11. WaitersAreParked'
  <2>1. \A i \in DOMAIN waiters' : st'[waiters'[i]] = "waiting" /\ ~completed'[waiters'[i]]
    BY <1>0, <1>3, <1>4, <1>6, Members DEF OperationInv, WaitersAreParked
  <2>2. \A i \in DOMAIN waiters', j \in DOMAIN waiters' : waiters'[i] = waiters'[j] => i = j
    BY <1>4, <1>6 DEF OperationInv, WaitersAreParked, Queued
  <2>. QED  BY <2>1, <2>2 DEF WaitersAreParked
<1>12. CallersAreListed'
  BY <1>0, <1>1, <1>3, <1>4, <1>5, <1>7, Members DEF OperationInv, CallersAreListed, Doings
<1>13. JobsAreWaitedFor'  BY <1>0, <1>1, <1>3, <1>4, <1>5, Members DEF OperationInv, JobsAreWaitedFor
<1>. QED  BY <1>8, <1>9, <1>10, <1>11, <1>12, <1>13 DEF OperationInv

(* A watch that becomes a job.                                             *)
LEMMA JobPark ==
    ASSUME TypeOK, OperationInv, NEW t \in Watchers, Poll(t, Call("spawn", t, 0, "polled")),
           jobs' = jobs \cup {t}, UNCHANGED <<waiters, permit, worker>>
    PROVE  OperationInv'
<1>. DEFINE c == Call("spawn", t, 0, "polled")
<1>0. t \in Tasks /\ Home(t) \in Threads /\ t \notin Callers  BY Members
<1>1. c \in Calls /\ c.do = "spawn" /\ c.task = t  BY <1>0, CallFields DEF Doings, Nexts
<1>2. Poll(t, c)  OBVIOUS
<1>. HIDE DEF c
<1>3. /\ st[t] = "new" /\ call[Home(t)].do = "run"
      /\ \A u \in Tasks : st'[u] = IF u = t THEN "waiting" ELSE st[u]
      /\ \A f \in Threads : call'[f] = IF f = Home(t) THEN c ELSE call[f]
      /\ UNCHANGED <<cancelled, completed, requested, status, queue, panic>>
  BY <1>0, <1>1, <1>2, PollPoint
<1>4. /\ ~completed[t] /\ ~Queued(t) /\ t \notin permit /\ t \notin jobs /\ worker[t] = "none"
      /\ \A f \in Threads : call[f].do \in {"request", "cancel", "complete", "spawn"} => call[f].task # t
  BY <1>0, <1>3, NewIsNowhere
<1>5. \A f \in Threads : call[f].do # "run" => call[f].task \in Tasks /\ call[f].do \in Doings
  BY CallPoint DEF OperationInv
<1>6. CallsStayHome'  BY <1>0, <1>1, <1>3, <1>4, <1>5 DEF OperationInv, CallsStayHome, Doings
<1>7. OperationsArePolled'  BY <1>0, <1>3, <1>4 DEF OperationInv, OperationsArePolled
<1>8. CompletedAreQueued'  BY <1>0, <1>3, <1>4, Members DEF OperationInv, CompletedAreQueued
<1>9. WaitersAreParked'  BY <1>0, <1>3, <1>4, Members DEF OperationInv, WaitersAreParked
<1>10. CallersAreListed'  BY <1>0, <1>1, <1>3, <1>4, <1>5, Members DEF OperationInv, CallersAreListed, Queued
<1>11. JobsAreWaitedFor'  BY <1>0, <1>1, <1>3, <1>4, <1>5, Members DEF OperationInv, JobsAreWaitedFor
<1>. QED  BY <1>6, <1>7, <1>8, <1>9, <1>10, <1>11 DEF OperationInv

-----------------------------------------------------------------------------
(* The resumption.  A task that was woken is nowhere any more.             *)
LEMMA WokenIsNowhere ==
    ASSUME TypeOK, OperationInv, NEW t \in Tasks, st[t] = "woken"
    PROVE  /\ completed[t] /\ ~Queued(t) /\ t \notin permit
           /\ t \in Watchers => t \notin jobs /\ worker[t] = "none"
           /\ \A f \in Threads : call[f].do \in {"request", "cancel", "complete", "spawn"} => call[f].task # t
           /\ \A f \in Threads : \A i \in DOMAIN queue[f] : queue[f][i] # t
<1>1. completed[t] /\ t \notin permit  BY DEF OperationInv, OperationsArePolled
<1>2. ~Queued(t)  BY DEF OperationInv, WaitersAreParked, Queued
<1>3. t \in Watchers => t \notin jobs /\ worker[t] = "none"  BY DEF OperationInv, JobsAreWaitedFor
<1>4. \A f \in Threads : call[f].do \in {"request", "cancel", "complete", "spawn"} => call[f].task # t
  BY DEF OperationInv, CallsStayHome
<1>5. \A f \in Threads : \A i \in DOMAIN queue[f] : queue[f][i] # t  BY DEF OperationInv, CompletedAreQueued
<1>. QED  BY <1>1, <1>2, <1>3, <1>4, <1>5

LEMMA ResumeStep ==
    ASSUME TypeOK, OperationInv, NEW t \in Tasks, NEW c \in {Free} \cup Calls, Resume(t, c),
           c.do = "run" \/ (c.do = "unref" /\ c.task = t),
           permit' \in {permit, permit \cup {t}}, UNCHANGED <<waiters, jobs, worker>>
    PROVE  OperationInv'
<1>1. /\ Home(t) \in Threads /\ st[t] = "woken" /\ call[Home(t)].do = "run"
      /\ \A u \in Tasks : st'[u] = IF u = t THEN "ready" ELSE st[u]
      /\ \A u \in Tasks : completed'[u] <=> (u # t /\ completed[u])
      /\ \A f \in Threads : call'[f] = IF f = Home(t) THEN c ELSE call[f]
      /\ UNCHANGED <<cancelled, queue>>
  BY ResumePoint
<1>2. /\ completed[t] /\ ~Queued(t) /\ t \notin permit
      /\ t \in Watchers => t \notin jobs /\ worker[t] = "none"
      /\ \A f \in Threads : call[f].do \in {"request", "cancel", "complete", "spawn"} => call[f].task # t
      /\ \A f \in Threads : \A i \in DOMAIN queue[f] : queue[f][i] # t
  BY <1>1, WokenIsNowhere
<1>3. \A f \in Threads : call[f].do # "run" => call[f].task \in Tasks /\ call[f].do \in Doings
  BY CallPoint DEF OperationInv
<1>4. \A u : Queued(u)' <=> Queued(u)  BY DEF Queued
<1>5. CallsStayHome'  BY <1>1, <1>2, <1>3 DEF OperationInv, CallsStayHome, Doings
<1>6. OperationsArePolled'  BY <1>1, <1>2 DEF OperationInv, OperationsArePolled
<1>7. CompletedAreQueued'  BY <1>1, <1>2, Members DEF OperationInv, CompletedAreQueued
<1>8. WaitersAreParked'  BY <1>1, <1>2, Members DEF OperationInv, WaitersAreParked, Queued
<1>9. CallersAreListed'  BY <1>1, <1>2, <1>3, <1>4, Members DEF OperationInv, CallersAreListed
<1>10. JobsAreWaitedFor'  BY <1>1, <1>2, <1>3, Members DEF OperationInv, JobsAreWaitedFor
<1>. QED  BY <1>5, <1>6, <1>7, <1>8, <1>9, <1>10 DEF OperationInv

(* A step that only changes one thread's call, to nothing or to a call     *)
(* about a parked task of its own that no other call was about.            *)
LEMMA CallStep ==
    ASSUME TypeOK, OperationInv, NEW e \in Threads, NEW c \in {Free} \cup Calls, Become(e, c),
           call[e].do \notin {"complete", "spawn"},
           \/ c.do \in {"run", "unref"} /\ (c.do = "unref" => Home(c.task) = e)
           \/ /\ c.do \in {"request", "cancel"} /\ c.task \in Tasks /\ Home(c.task) = e /\ st[c.task] = "waiting"
              /\ (c.do = "cancel" /\ c.task \in Callers) => Queued(c.task),
           permit' \subseteq permit, UNCHANGED <<st, completed, queue, waiters, jobs, worker>>
    PROVE  OperationInv'
<1>1. \A f \in Threads : call'[f] = IF f = e THEN c ELSE call[f]  BY BecomeIsTyped
<1>2. \A u : Queued(u)' <=> Queued(u)  BY DEF Queued
<1>3. CallsStayHome'  BY <1>1 DEF OperationInv, CallsStayHome
<1>4. OperationsArePolled'  BY DEF OperationInv, OperationsArePolled
<1>5. CompletedAreQueued'  BY DEF OperationInv, CompletedAreQueued
<1>6. WaitersAreParked'  BY DEF OperationInv, WaitersAreParked
<1>7. CallersAreListed'  BY <1>1, <1>2, Members DEF OperationInv, CallersAreListed
<1>8. JobsAreWaitedFor'  BY <1>1 DEF OperationInv, JobsAreWaitedFor
<1>. QED  BY <1>3, <1>4, <1>5, <1>6, <1>7, <1>8 DEF OperationInv

LEMMA CancelTaskStep ==
    ASSUME TypeOK, OperationInv, NEW t \in Tasks, CancelTask(t), UNCHANGED <<bulkheadVars, watchVars>>
    PROVE  OperationInv'
<1>1. CASE st[t] = "waiting"
  <2>1. Home(t) \in Threads  BY HomeAssumption
  <2>. DEFINE c == Call("request", t, 0, "run")
  <2>2. c \in Calls /\ c.do = "request" /\ c.task = t  BY CallFields DEF Doings, Nexts
  <2>3. Become(Home(t), c) /\ call[Home(t)].do = "run"  BY <1>1 DEF CancelTask, At
  <2>. HIDE DEF c
  <2>. QED  BY <1>1, <2>1, <2>2, <2>3, CallStep DEF CancelTask
<1>2. CASE st[t] # "waiting"
  <2>1. UNCHANGED <<st, completed, queue, call, waiters, permit, jobs, worker>>  BY <1>2 DEF CancelTask
  <2>. QED  BY <2>1 DEF OperationInv, CallsStayHome, OperationsArePolled, CompletedAreQueued, WaitersAreParked,
                        CallersAreListed, JobsAreWaitedFor, Queued
<1>. QED  BY <1>1, <1>2

(* A thread that asks for the cancellation of a caller finds it listed:    *)
(* whoever answers callers is this thread, and it is not answering.        *)
LEMMA RequestStep ==
    ASSUME TypeOK, OperationInv, NEW e \in Threads, RequestCancellation(e), UNCHANGED <<bulkheadVars, watchVars>>
    PROVE  OperationInv'
<1>. DEFINE t == call[e].task
<1>1. /\ call[e].do = "request" /\ call[e] \in Calls /\ t \in Tasks /\ Home(t) = e /\ st[t] = "waiting"
      /\ call[e].status \in Nat /\ call[e].then \in Nexts
  BY CallPoint DEF RequestCancellation, At, OperationInv, CallsStayHome
<1>2. CASE Asks(t)
  <2>. DEFINE c == [call[e] EXCEPT !.do = "cancel"]
  <2>1. c = Call("cancel", t, call[e].status, call[e].then)  BY <1>1, CallGoesOn DEF Doings
  <2>2. c \in Calls /\ c.do = "cancel" /\ c.task = t  BY <1>1, <2>1, CallFields DEF Doings
  <2>3. Become(e, c)  BY <1>2 DEF RequestCancellation
  <2>. HIDE DEF c
  <2>4. t \in Callers => Queued(t)  BY <1>1, <1>2 DEF Asks, OperationInv, CallersAreListed
  <2>. QED  BY <1>1, <2>2, <2>3, <2>4, CallStep DEF RequestCancellation
<1>3. CASE ~Asks(t)
  <2>1. Become(e, Free)  BY <1>3 DEF RequestCancellation
  <2>. QED  BY <1>1, <2>1, FreeFields, CallStep DEF RequestCancellation
<1>. QED  BY <1>2, <1>3

LEMMA UnreferenceStep ==
    ASSUME TypeOK, OperationInv, NEW e \in Threads, Unreference(e), call[e].do \in {"run", "unref"}, UNCHANGED watchVars
    PROVE  OperationInv'
BY FreeFields, CallStep DEF Unreference

LEMMA WatchCancelStep ==
    ASSUME TypeOK, OperationInv, NEW e \in Threads, WatchCancel(e), UNCHANGED bulkheadVars
    PROVE  OperationInv'
BY FreeFields, CallStep DEF WatchCancel, At

-----------------------------------------------------------------------------
(* The completion.  Its thread was the only one with a call about the task. *)
LEMMA CompleteEffect ==
    ASSUME TypeOK, OperationInv, NEW e \in Threads, Complete(e)
    PROVE  LET t == call[e].task IN
           /\ call[e].do = "complete" /\ t \in Tasks /\ Home(t) = e /\ st[t] = "waiting" /\ ~completed[t]
           /\ call[e] \in Calls /\ call[e].status \in Nat /\ call[e].then \in Nexts
           /\ \A u \in Tasks : completed'[u] <=> (u = t \/ completed[u])
           /\ \A u \in Tasks : status'[u] = IF u = t THEN call[e].status ELSE status[u]
           /\ \A f \in Threads : queue'[f] = IF f = e THEN Append(queue[f], t) ELSE queue[f]
           /\ UNCHANGED <<st, panic, operations>>
           /\ \E c \in {Free} \cup Calls :
                 /\ \A f \in Threads : call'[f] = IF f = e THEN c ELSE call[f]
                 /\ \/ c.do = "run" \/ (c.do = "request" /\ c.task = t)
                    \/ (c.do = "unref" /\ c.task = t)
                 /\ c.do = "unref" <=> call[e].then = "unref"
<1>. DEFINE t == call[e].task
<1>1. /\ call[e].do = "complete" /\ t \in Tasks /\ Home(t) = e /\ st[t] = "waiting" /\ ~completed[t]
      /\ call[e] \in Calls /\ call[e].status \in Nat /\ call[e].then \in Nexts
  BY CallPoint DEF Complete, At, OperationInv, CallsStayHome
<1>2. Completes(t, call[e].status)  BY DEF Complete
<1>3. /\ \A u \in Tasks : completed'[u] <=> (u = t \/ completed[u])
      /\ \A u \in Tasks : status'[u] = IF u = t THEN call[e].status ELSE status[u]
      /\ \A f \in Threads : queue'[f] = IF f = e THEN Append(queue[f], t) ELSE queue[f]
      /\ UNCHANGED panic
  BY <1>1, <1>2, CompletesPoint
<1>4. ASSUME NEW c \in {Free} \cup Calls, Become(e, c),
             c.do = "run" \/ (c.do = "request" /\ c.task = t) \/ (c.do = "unref" /\ c.task = t),
             c.do = "unref" <=> call[e].then = "unref"
      PROVE  \E d \in {Free} \cup Calls :
                 /\ \A f \in Threads : call'[f] = IF f = e THEN d ELSE call[f]
                 /\ \/ d.do = "run" \/ (d.do = "request" /\ d.task = t)
                    \/ (d.do = "unref" /\ d.task = t)
                 /\ d.do = "unref" <=> call[e].then = "unref"
  BY <1>4, BecomeIsTyped
<1>5. CASE call[e].then = "run"
  <2>1. Become(e, Free)  BY <1>5 DEF Complete
  <2>. QED  BY <1>1, <1>3, <1>4, <1>5, <2>1, FreeFields DEF Complete
<1>6. CASE call[e].then = "polled"
  <2>1. Become(e, Polled(t))  BY <1>6 DEF Complete
  <2>2. /\ Polled(t) \in {Free} \cup Calls
        /\ Polled(t).do = "run" \/ (Polled(t).do = "request" /\ Polled(t).task = t)
    BY <1>1, PolledIsCall
  <2>. QED  BY <1>1, <1>3, <1>4, <1>6, <2>1, <2>2 DEF Complete
<1>7. CASE call[e].then = "unref"
  <2>. DEFINE c == [call[e] EXCEPT !.do = "unref"]
  <2>1. Become(e, c)  BY <1>7 DEF Complete
  <2>2. c = Call("unref", t, call[e].status, call[e].then)  BY <1>1, CallGoesOn DEF Doings
  <2>3. c \in Calls /\ c.do = "unref" /\ c.task = t  BY <1>1, <2>2, CallFields DEF Doings
  <2>. HIDE DEF c
  <2>. QED  BY <1>1, <1>3, <1>4, <1>7, <2>1, <2>3 DEF Complete
<1>. QED  BY <1>1, <1>5, <1>6, <1>7 DEF Nexts

(* A completed operation joins its thread's list.                          *)
LEMMA Appended ==
    ASSUME NEW S, NEW list \in Seq(S), NEW x \in S
    PROVE  \A i \in DOMAIN Append(list, x) :
               (i \in DOMAIN list /\ Append(list, x)[i] = list[i]) \/ Append(list, x)[i] = x
OBVIOUS

LEMMA CompleteStep ==
    ASSUME TypeOK, OperationInv, NEW e \in Threads, Complete(e), UNCHANGED <<bulkheadVars, watchVars>>
    PROVE  OperationInv'
<1>. DEFINE t == call[e].task
<1>1. /\ call[e].do = "complete" /\ t \in Tasks /\ Home(t) = e /\ st[t] = "waiting" /\ ~completed[t]
      /\ \A u \in Tasks : completed'[u] <=> (u = t \/ completed[u])
      /\ \A f \in Threads : queue'[f] = IF f = e THEN Append(queue[f], t) ELSE queue[f]
      /\ UNCHANGED st
  BY CompleteEffect
<1>2. PICK c \in {Free} \cup Calls :
        /\ \A f \in Threads : call'[f] = IF f = e THEN c ELSE call[f]
        /\ c.do = "run" \/ (c.do = "request" /\ c.task = t) \/ (c.do = "unref" /\ c.task = t)
  BY CompleteEffect
<1>3. \A f \in Threads : call[f].do # "run" => /\ call[f].task \in Tasks /\ call[f].do \in Doings
                                               /\ (f # e => call[f].task # t)
  BY <1>1, CallPoint DEF OperationInv
<1>4. ~Queued(t) /\ (t \in Watchers => worker[t] = "none" /\ t \notin jobs)
  BY <1>1 DEF OperationInv, CallersAreListed, JobsAreWaitedFor
<1>5. \A u : Queued(u)' <=> Queued(u)  BY DEF Queued
<1>. HIDE DEF t
<1>6. CallsStayHome'  BY <1>1, <1>2, <1>3 DEF OperationInv, CallsStayHome, Doings
<1>7. OperationsArePolled'  BY <1>1 DEF OperationInv, OperationsArePolled
<1>8. CompletedAreQueued'
  <2>. SUFFICES ASSUME NEW f \in Threads, NEW i \in DOMAIN queue'[f]
                PROVE  Home(queue'[f][i]) = f /\ st[queue'[f][i]] = "waiting" /\ completed'[queue'[f][i]]
    BY <1>1 DEF CompletedAreQueued
  <2>1. queue[f] \in Seq(Tasks)  BY DEF TypeOK
  <2>2. (i \in DOMAIN queue[f] /\ queue'[f][i] = queue[f][i]) \/ (f = e /\ queue'[f][i] = t)
    <3>1. CASE f = e
      <4>1. queue'[f] = Append(queue[f], t)  BY <1>1, <3>1
      <4>. QED  BY <1>1, <2>1, <3>1, <4>1, Appended
    <3>2. CASE f # e  BY <1>1, <3>2
    <3>. QED  BY <3>1, <3>2
  <2>. QED  BY <1>1, <2>2, Members DEF OperationInv, CompletedAreQueued
<1>9. WaitersAreParked'  BY <1>1, <1>4, Members DEF OperationInv, WaitersAreParked, Queued
<1>10. CallersAreListed'  BY <1>1, <1>2, <1>3, <1>4, <1>5, Members DEF OperationInv, CallersAreListed, t
<1>11. JobsAreWaitedFor'  BY <1>1, <1>2, <1>3, <1>4, Members DEF OperationInv, JobsAreWaitedFor
<1>. QED  BY <1>6, <1>7, <1>8, <1>9, <1>10, <1>11 DEF OperationInv

LEMMA WorkerCompletesStep ==
    ASSUME TypeOK, OperationInv, NEW t \in Watchers, WorkerCompletes(t), UNCHANGED bulkheadVars
    PROVE  OperationInv' /\ UNCHANGED panic
<1>1. /\ worker[t] = "finishing" /\ st[t] = "waiting" /\ ~completed[t] /\ t \notin jobs
      /\ t \in Tasks /\ t \notin Callers
  BY Members DEF WorkerCompletes, OperationInv, JobsAreWaitedFor
<1>2. outcome[t] \in Nat /\ Completes(t, outcome[t])  BY DEF TypeOK, WorkerCompletes
<1>3. /\ \A u \in Tasks : completed'[u] <=> (u = t \/ completed[u])
      /\ \A f \in Threads : queue'[f] = IF f = Home(t) THEN Append(queue[f], t) ELSE queue[f]
      /\ UNCHANGED panic
  BY <1>1, <1>2, CompletesPoint
<1>4. UNCHANGED <<st, call, waiters, permit, jobs>> /\ \A u \in Watchers : u # t => worker'[u] = worker[u]
  BY DEF WorkerCompletes, TypeOK
<1>5. worker'[t] = "none"  BY DEF WorkerCompletes, TypeOK
<1>6. \A f \in Threads : call[f].do \in {"complete", "spawn"} => call[f].task # t /\ call[f].task \in Tasks
  BY <1>1, CallPoint DEF OperationInv, JobsAreWaitedFor
<1>7. CallsStayHome'  BY <1>3, <1>4, <1>6 DEF OperationInv, CallsStayHome
<1>8. OperationsArePolled'  BY <1>1, <1>3, <1>4 DEF OperationInv, OperationsArePolled
<1>9. CompletedAreQueued'
  <2>. SUFFICES ASSUME NEW f \in Threads, NEW i \in DOMAIN queue'[f]
                PROVE  Home(queue'[f][i]) = f /\ st[queue'[f][i]] = "waiting" /\ completed'[queue'[f][i]]
    BY <1>4 DEF CompletedAreQueued
  <2>1. queue[f] \in Seq(Tasks)  BY DEF TypeOK
  <2>2. (i \in DOMAIN queue[f] /\ queue'[f][i] = queue[f][i]) \/ (f = Home(t) /\ queue'[f][i] = t)
    <3>1. CASE f = Home(t)
      <4>1. queue'[f] = Append(queue[f], t)  BY <1>3, <3>1
      <4>. QED  BY <1>1, <2>1, <3>1, <4>1, Appended
    <3>2. CASE f # Home(t)  BY <1>3, <3>2
    <3>. QED  BY <3>1, <3>2
  <2>. QED  BY <1>1, <1>3, <2>2, Members DEF OperationInv, CompletedAreQueued
<1>10. WaitersAreParked'  BY <1>1, <1>3, <1>4, Members DEF OperationInv, WaitersAreParked
<1>11. CallersAreListed'  BY <1>1, <1>3, <1>4, Members DEF OperationInv, CallersAreListed, Queued
<1>12. JobsAreWaitedFor'  BY <1>1, <1>3, <1>4, <1>5, <1>6, Members DEF OperationInv, JobsAreWaitedFor
<1>. QED  BY <1>3, <1>7, <1>8, <1>9, <1>10, <1>11, <1>12 DEF OperationInv

LEMMA WakeStep ==
    ASSUME TypeOK, OperationInv, NEW e \in Threads, WakeCompleted(e), UNCHANGED <<bulkheadVars, watchVars>>
    PROVE  OperationInv'
<1>. DEFINE Listed(u) == \E i \in DOMAIN queue[e] : queue[e][i] = u
<1>1. \A u \in Tasks : st'[u] = IF Listed(u) THEN "woken" ELSE st[u]  BY DEF WakeCompleted
<1>2. \A u \in Tasks : Listed(u) => Home(u) = e /\ st[u] = "waiting" /\ completed[u]
  BY DEF OperationInv, CompletedAreQueued
<1>3. call[e].do = "run" /\ UNCHANGED <<completed, call>>  BY DEF WakeCompleted, At
<1>4. \A f \in Threads : f # e => queue'[f] = queue[f]  BY DEF WakeCompleted, TypeOK
<1>5. queue'[e] = <<>>  BY DEF WakeCompleted, TypeOK
<1>6. \A f \in Threads : call[f].do # "run" => call[f].task \in Tasks /\ Home(call[f].task) = f
  BY CallPoint DEF OperationInv
<1>. HIDE DEF Listed
<1>7. CallsStayHome'  BY <1>1, <1>2, <1>3, <1>6 DEF OperationInv, CallsStayHome
<1>8. OperationsArePolled'  BY <1>1, <1>2, <1>3 DEF OperationInv, OperationsArePolled
<1>9. CompletedAreQueued'
  <2>. SUFFICES ASSUME NEW f \in Threads, NEW i \in DOMAIN queue'[f]
                PROVE  Home(queue'[f][i]) = f /\ st'[queue'[f][i]] = "waiting" /\ completed'[queue'[f][i]]
    BY DEF CompletedAreQueued
  <2>1. f # e  BY <1>5
  <2>. QED  BY <1>1, <1>2, <1>3, <1>4, <2>1, Members DEF OperationInv, CompletedAreQueued
<1>10. WaitersAreParked'  BY <1>1, <1>2, <1>3, Members DEF OperationInv, WaitersAreParked
<1>11. CallersAreListed'  BY <1>1, <1>2, <1>3, Members DEF OperationInv, CallersAreListed, Queued
<1>12. JobsAreWaitedFor'  BY <1>1, <1>2, <1>3, Members DEF OperationInv, JobsAreWaitedFor
<1>. QED  BY <1>7, <1>8, <1>9, <1>10, <1>11, <1>12 DEF OperationInv

-----------------------------------------------------------------------------
(* The bulkhead's list.                                                    *)
LEMMA CancelEffect ==
    ASSUME TypeOK, OperationInv, NEW e \in Threads, Cancel(e)
    PROVE  LET t == call[e].task IN
           /\ call[e].do = "cancel" /\ t \in Callers /\ t \in Tasks /\ Home(t) = e /\ st[t] = "waiting" /\ ~completed[t]
           /\ Become(e, Call("complete", t, 2, "run")) /\ panic' = (queued = 0) /\ queued' = queued - 1
           /\ \E i \in DOMAIN waiters : waiters[i] = t /\ waiters' = Unlink(waiters, i)
<1>. DEFINE t == call[e].task
<1>1. call[e].do = "cancel" /\ t \in Callers /\ t \in Tasks /\ Home(t) = e  BY CallPoint DEF Cancel, At, OperationInv
<1>2. Queued(t)  BY <1>1 DEF OperationInv, CallersAreListed
<1>3. st[t] = "waiting" /\ ~completed[t]  BY <1>2 DEF Queued, OperationInv, WaitersAreParked
<1>. QED  BY <1>1, <1>2, <1>3 DEF Cancel

LEMMA UnlinkMembers ==
    ASSUME TypeOK, WaitersAreParked, NEW i \in DOMAIN waiters, waiters' = Unlink(waiters, i)
    PROVE  /\ \A u : Queued(u)' <=> (Queued(u) /\ u # waiters[i])
           /\ \A j \in DOMAIN waiters' : \E k \in DOMAIN waiters : waiters'[j] = waiters[k]
           /\ \A j \in DOMAIN waiters', k \in DOMAIN waiters' : waiters'[j] = waiters'[k] => j = k
<1>1. Len(waiters) \in Nat /\ DOMAIN waiters = 1 .. Len(waiters) /\ waiters \in Seq(Callers)  BY DEF TypeOK
<1>2. /\ DOMAIN waiters' = 1 .. Len(waiters) - 1
      /\ \A j \in 1 .. Len(waiters) - 1 : waiters'[j] = IF j < i THEN waiters[j] ELSE waiters[j + 1]
  BY <1>1, Unlinked
<1>3. \A j \in DOMAIN waiters, k \in DOMAIN waiters : waiters[j] = waiters[k] => j = k  BY DEF WaitersAreParked
<1>4. \A j \in DOMAIN waiters' : \E k \in DOMAIN waiters : waiters'[j] = waiters[k] /\ k # i
  BY <1>1, <1>2
<1>5. ASSUME NEW k \in DOMAIN waiters, k # i  PROVE \E j \in DOMAIN waiters' : waiters'[j] = waiters[k]
  <2>1. CASE k < i  BY <1>1, <1>2, <2>1
  <2>2. CASE k > i
    <3>1. k - 1 \in 1 .. Len(waiters) - 1 /\ ~(k - 1 < i) /\ (k - 1) + 1 = k  BY <1>1, <2>2
    <3>. QED  BY <1>2, <3>1
  <2>. QED  BY <1>1, <1>5, <2>1, <2>2
<1>6. \A u : Queued(u)' <=> (Queued(u) /\ u # waiters[i])
  <2>. TAKE u
  <2>1. Queued(u)' => Queued(u) /\ u # waiters[i]  BY <1>3, <1>4 DEF Queued
  <2>2. Queued(u) /\ u # waiters[i] => Queued(u)'  BY <1>5 DEF Queued
  <2>. QED  BY <2>1, <2>2
<1>7. \A j \in DOMAIN waiters', k \in DOMAIN waiters' : waiters'[j] = waiters'[k] => j = k
  BY <1>1, <1>2, <1>3
<1>. QED  BY <1>4, <1>6, <1>7

(* A listed caller is taken from the list to be answered by its thread.    *)
LEMMA AnswerStep ==
    ASSUME TypeOK, OperationInv, NEW e \in Threads, NEW t \in Callers, NEW s \in Nat, NEW n \in Nexts,
           Home(t) = e, Become(e, Call("complete", t, s, n)), call[e].do \in {"run", "cancel"},
           NEW i \in DOMAIN waiters, waiters[i] = t, waiters' = Unlink(waiters, i),
           permit' \subseteq permit, UNCHANGED <<st, completed, queue, jobs, worker>>
    PROVE  OperationInv'
<1>. DEFINE c == Call("complete", t, s, n)
<1>0. t \in Tasks /\ t \notin Watchers  BY Members
<1>1. c \in Calls /\ c.do = "complete" /\ c.task = t  BY <1>0, CallFields DEF Doings
<1>2. \A f \in Threads : call'[f] = IF f = e THEN c ELSE call[f]  BY <1>1, BecomeIsTyped
<1>. HIDE DEF c
<1>3. /\ \A u : Queued(u)' <=> (Queued(u) /\ u # t)
      /\ \A j \in DOMAIN waiters' : \E k \in DOMAIN waiters : waiters'[j] = waiters[k]
      /\ \A j \in DOMAIN waiters', k \in DOMAIN waiters' : waiters'[j] = waiters'[k] => j = k
  BY UnlinkMembers DEF OperationInv
<1>4. st[t] = "waiting" /\ ~completed[t] /\ Queued(t)  BY DEF OperationInv, WaitersAreParked, Queued
<1>5. \A f \in Threads : call[f].do # "run" => /\ call[f].task \in Tasks /\ call[f].do \in Doings
                                               /\ (f # e => call[f].task # t)
  BY CallPoint DEF OperationInv
<1>6. CallsStayHome'  BY <1>0, <1>1, <1>2, <1>4, <1>5 DEF OperationInv, CallsStayHome, Doings
<1>7. OperationsArePolled'  BY DEF OperationInv, OperationsArePolled
<1>8. CompletedAreQueued'  BY DEF OperationInv, CompletedAreQueued
<1>9. WaitersAreParked'  BY <1>3 DEF OperationInv, WaitersAreParked
<1>10. CallersAreListed'  BY <1>0, <1>1, <1>2, <1>3, <1>4, <1>5, Members DEF OperationInv, CallersAreListed
<1>11. JobsAreWaitedFor'  BY <1>0, <1>1, <1>2, <1>5 DEF OperationInv, JobsAreWaitedFor
<1>. QED  BY <1>6, <1>7, <1>8, <1>9, <1>10, <1>11 DEF OperationInv

LEMMA CancelStep ==
    ASSUME TypeOK, OperationInv, NEW e \in Threads, Cancel(e), UNCHANGED watchVars
    PROVE  OperationInv'
<1>. DEFINE t == call[e].task
<1>1. call[e].do = "cancel" /\ t \in Callers /\ Home(t) = e /\ Become(e, Call("complete", t, 2, "run"))  BY CancelEffect
<1>2. PICK i \in DOMAIN waiters : waiters[i] = t /\ waiters' = Unlink(waiters, i)  BY CancelEffect
<1>3. UNCHANGED <<st, completed, queue, permit, jobs, worker>>  BY DEF Cancel
<1>4. 2 \in Nat /\ "run" \in Nexts  BY DEF Nexts
<1>. HIDE DEF t
<1>. QED  BY <1>1, <1>2, <1>3, <1>4, AnswerStep

LEMMA TailIsUnlink ==
    ASSUME NEW S, NEW list \in Seq(S), list # <<>>
    PROVE  Tail(list) = Unlink(list, 1) /\ Head(list) = list[1] /\ 1 \in DOMAIN list
<1>1. Len(list) \in Nat \ {0} /\ DOMAIN list = 1 .. Len(list)  OBVIOUS
<1>. DEFINE tail == Tail(list)
            rest == Unlink(list, 1)
<1>2. tail \in Seq(S) /\ Len(tail) = Len(list) - 1 /\ \A j \in 1 .. Len(list) - 1 : tail[j] = list[j + 1]  BY <1>1
<1>3. rest \in Seq(S) /\ DOMAIN rest = 1 .. Len(list) - 1 /\ \A j \in 1 .. Len(list) - 1 : rest[j] = list[j + 1]
  BY <1>1, Unlinked
<1>4. tail = [j \in 1 .. Len(list) - 1 |-> tail[j]]
  <2>. HIDE DEF tail
  <2>1. tail \in [1 .. Len(tail) -> S]  BY <1>2
  <2>. QED  BY <1>2, <2>1
<1>5. rest = [j \in 1 .. Len(list) - 1 |-> rest[j]]  BY <1>3 DEF Unlink
<1>. HIDE DEF tail, rest
<1>6. tail = rest  BY <1>2, <1>3, <1>4, <1>5
<1>. QED  BY <1>1, <1>6 DEF tail, rest

LEMMA PermitReleaseEffect ==
    ASSUME TypeOK, OperationInv, NEW t \in Tasks, PermitRelease(t)
    PROVE  /\ Home(t) \in Threads /\ call[Home(t)].do = "run" /\ t \in permit /\ t \in Callers /\ permit' = permit \ {t}
           /\ \/ /\ waiters = <<>> /\ running' = running - 1 /\ UNCHANGED <<waiters, queued>>
                 /\ Become(Home(t), Call("unref", t, 0, "run"))
              \/ /\ waiters # <<>> /\ running' = running /\ 1 \in DOMAIN waiters /\ queued' = queued - 1
                 /\ waiters' = Unlink(waiters, 1) /\ waiters[1] \in Callers /\ Home(waiters[1]) = Home(t)
                 /\ Become(Home(t), Call("complete", waiters[1], 0, "unref"))
           /\ panic' => references = 0 \/ running = 0 \/ (waiters # <<>> /\ queued = 0)
           /\ UNCHANGED <<st, completed, status, queue, operations, references, owner, handles, maxQueue>>
<1>1. /\ Home(t) \in Threads /\ call[Home(t)].do = "run" /\ t \in permit /\ t \in Callers /\ permit' = permit \ {t}
      /\ panic' => references = 0 \/ running = 0 \/ (waiters # <<>> /\ queued = 0)
      /\ UNCHANGED <<st, completed, status, queue, operations, references, owner, handles, maxQueue>>
  BY HomeAssumption DEF PermitRelease, At, TypeOK, Registered
<1>2. CASE waiters = <<>>  BY <1>1, <1>2 DEF PermitRelease
<1>3. CASE waiters # <<>>
  <2>1. waiters \in Seq(Callers)  BY DEF TypeOK
  <2>2. Tail(waiters) = Unlink(waiters, 1) /\ Head(waiters) = waiters[1] /\ 1 \in DOMAIN waiters
    BY <1>3, <2>1, TailIsUnlink
  <2>3. waiters[1] \in Callers /\ Home(waiters[1]) = Home(t)  BY <1>1, <2>2, Members, BulkheadIsLocal
  <2>. QED  BY <1>1, <1>3, <2>2, <2>3 DEF PermitRelease, HandsOver
<1>. QED  BY <1>2, <1>3

LEMMA PermitReleaseStep ==
    ASSUME TypeOK, OperationInv, NEW t \in Tasks, PermitRelease(t), UNCHANGED watchVars
    PROVE  OperationInv'
<1>1. /\ Home(t) \in Threads /\ call[Home(t)].do = "run" /\ permit' \subseteq permit
      /\ UNCHANGED <<st, completed, queue, jobs, worker>>
  BY PermitReleaseEffect
<1>2. CASE waiters = <<>>
  <2>. DEFINE c == Call("unref", t, 0, "run")
  <2>1. Become(Home(t), c) /\ UNCHANGED waiters  BY <1>2, PermitReleaseEffect
  <2>2. c \in Calls /\ c.do = "unref" /\ c.task = t  BY CallFields DEF Doings, Nexts
  <2>. HIDE DEF c
  <2>. QED  BY <1>1, <2>1, <2>2, CallStep
<1>3. CASE waiters # <<>>
  <2>. DEFINE h == waiters[1]
  <2>1. /\ 1 \in DOMAIN waiters /\ waiters' = Unlink(waiters, 1) /\ h \in Callers /\ Home(h) = Home(t)
        /\ Become(Home(t), Call("complete", h, 0, "unref"))
    BY <1>3, PermitReleaseEffect
  <2>2. 0 \in Nat /\ "unref" \in Nexts  BY DEF Nexts
  <2>. QED  BY <1>1, <2>1, <2>2, AnswerStep
<1>. QED  BY <1>2, <1>3

-----------------------------------------------------------------------------
(* The watch's jobs.                                                       *)
LEMMA SpawnStep ==
    ASSUME TypeOK, OperationInv, NEW e \in Threads, NEW ok \in BOOLEAN, WatchSpawn(e, ok), UNCHANGED bulkheadVars
    PROVE  OperationInv'
<1>. DEFINE t == call[e].task
<1>1. /\ call[e].do = "spawn" /\ t \in Tasks /\ Home(t) = e /\ st[t] = "waiting" /\ ~completed[t] /\ t \in Watchers
      /\ worker[t] = "none" /\ ~Queued(t)
  BY CallPoint DEF WatchSpawn, At, OperationInv, CallsStayHome, JobsAreWaitedFor, CallersAreListed
<1>2. UNCHANGED <<st, completed, queue, waiters, permit>>  BY DEF WatchSpawn
<1>3. \A f \in Threads : call[f].do # "run" => /\ call[f].task \in Tasks /\ call[f].do \in Doings
                                               /\ (f # e => call[f].task # t)
  BY <1>1, CallPoint DEF OperationInv
<1>4. \A u : Queued(u)' <=> Queued(u)  BY <1>2 DEF Queued
<1>5. PICK c \in {Free} \cup Calls :
        /\ \A f \in Threads : call'[f] = IF f = e THEN c ELSE call[f]
        /\ c.do = "run" \/ (c.do \in {"request", "complete"} /\ c.task = t)
        /\ \/ /\ c.do # "complete" /\ worker' = [worker EXCEPT ![t] = "polling"] /\ jobs' = jobs
           \/ worker' = worker /\ jobs' = jobs \ {t}
  <2>1. CASE ok
    <3>1. Become(e, Polled(t)) /\ worker' = [worker EXCEPT ![t] = "polling"] /\ jobs' = jobs  BY <2>1 DEF WatchSpawn
    <3>2. /\ Polled(t) \in {Free} \cup Calls
          /\ Polled(t).do = "run" \/ (Polled(t).do = "request" /\ Polled(t).task = t)
      BY <1>1, PolledIsCall
    <3>. QED  BY <3>1, <3>2, BecomeIsTyped
  <2>2. CASE ~ok
    <3>. DEFINE c == Call("complete", t, 1, "polled")
    <3>1. Become(e, c) /\ worker' = worker /\ jobs' = jobs \ {t}  BY <2>2 DEF WatchSpawn, Removes
    <3>2. c \in Calls /\ c.do = "complete" /\ c.task = t  BY <1>1, CallFields DEF Doings, Nexts
    <3>. HIDE DEF c
    <3>. QED  BY <3>1, <3>2, BecomeIsTyped
  <2>. QED  BY <2>1, <2>2
<1>. HIDE DEF t
<1>6. CallsStayHome'  BY <1>1, <1>2, <1>3, <1>5 DEF OperationInv, CallsStayHome, Doings
<1>7. OperationsArePolled'  BY <1>2 DEF OperationInv, OperationsArePolled
<1>8. CompletedAreQueued'  BY <1>2 DEF OperationInv, CompletedAreQueued
<1>9. WaitersAreParked'  BY <1>2 DEF OperationInv, WaitersAreParked
<1>10. CallersAreListed'  BY <1>1, <1>2, <1>3, <1>4, <1>5, Members DEF OperationInv, CallersAreListed
<1>11. /\ \A u \in Watchers : u # t => worker'[u] = worker[u] /\ (u \in jobs' <=> u \in jobs)
       /\ worker'[t] \in {"none", "polling"} /\ jobs' \subseteq Watchers
       /\ c.do = "complete" => worker'[t] = "none" /\ t \notin jobs'
  BY <1>1, <1>5 DEF TypeOK
<1>12. JobsAreWaitedFor'  BY <1>1, <1>2, <1>3, <1>5, <1>11, Members DEF OperationInv, JobsAreWaitedFor, Doings
<1>. QED  BY <1>6, <1>7, <1>8, <1>9, <1>10, <1>12 DEF OperationInv

(* The thread of a job sees something, or takes the job out of the list.   *)
LEMMA WorkerStep ==
    ASSUME TypeOK, OperationInv, NEW t \in Watchers, UNCHANGED <<st, completed, queue, call, waiters, permit>>,
           \/ \E s \in 0 .. 2 : WorkerSees(t, s)
           \/ WorkerLeaves(t)
    PROVE  OperationInv'
<1>1. /\ worker[t] # "none" /\ worker[t] # "finishing"
      /\ \A u \in Watchers : u # t => worker'[u] = worker[u]
      /\ jobs' \subseteq jobs /\ worker'[t] \in {"leaving", "finishing"}
      /\ worker'[t] = "finishing" => t \notin jobs'
  BY DEF WorkerSees, WorkerLeaves, Removes, TypeOK
<1>2. CallsStayHome'  BY DEF OperationInv, CallsStayHome
<1>3. OperationsArePolled' /\ CompletedAreQueued' /\ WaitersAreParked' /\ CallersAreListed'
  BY DEF OperationInv, OperationsArePolled, CompletedAreQueued, WaitersAreParked, CallersAreListed, Queued
<1>4. JobsAreWaitedFor'  BY <1>1 DEF OperationInv, JobsAreWaitedFor, TypeOK
<1>. QED  BY <1>2, <1>3, <1>4 DEF OperationInv

-----------------------------------------------------------------------------
(* The counters.                                                           *)
Held == Granted \cap Callers
Grants(u) == \E e \in Threads : call[e].do = "complete" /\ call[e].status = 0 /\ call[e].task = u

LEMMA HeldMembers ==
    \A u : u \in Held <=> /\ u \in Callers
                          /\ u \in permit \/ (completed[u] /\ status[u] = 0 /\ st[u] # "ready") \/ Grants(u)
BY DEF Held, Granted, Grants

LEMMA HeldMembersNext ==
    \A u : u \in Held' <=>
        /\ u \in Callers
        /\ u \in permit' \/ (completed'[u] /\ status'[u] = 0 /\ st'[u] # "ready") \/ Grants(u)'
BY DEF Held, Granted, Grants

CountInv == NoPanic /\ PermitsAreCounted /\ OperationsAreCounted /\ ReferencesAreHeld

LEMMA CountsAreFinite ==
    ASSUME TypeOK
    PROVE  /\ IsFiniteSet(Held) /\ IsFiniteSet(handles) /\ IsFiniteSet(permit) /\ IsFiniteSet(Leaving)
           /\ IsFiniteSet(jobs) /\ \A e \in Threads : IsFiniteSet(Parked(e))
           /\ IsFiniteSet(Callers)
<1>1. IsFiniteSet(Callers)  BY HomeAssumption, BulkheadAssumption, FS_Subset
<1>2. /\ Held \subseteq Callers /\ handles \subseteq Callers /\ permit \subseteq Callers
      /\ Leaving \subseteq Threads /\ \A e \in Threads : Parked(e) \subseteq Tasks
      /\ jobs \subseteq Tasks
  BY WatchAssumption DEF Held, Leaving, Parked, TypeOK
<1>3. \A e \in Threads : IsFiniteSet(Parked(e))  BY <1>2, HomeAssumption, FS_Subset
<1>4. IsFiniteSet(Held) /\ IsFiniteSet(handles) /\ IsFiniteSet(permit)  BY <1>1, <1>2, FS_Subset
<1>5. IsFiniteSet(Leaving) /\ IsFiniteSet(jobs)  BY <1>2, HomeAssumption, FS_Subset
<1>. QED  BY <1>1, <1>3, <1>4, <1>5

LEMMA Gains ==
    ASSUME NEW S, IsFiniteSet(S), NEW x, x \notin S
    PROVE  Cardinality(S \cup {x}) = Cardinality(S) + 1 /\ Cardinality(S) \in Nat
BY FS_AddElement, FS_CardinalityType

LEMMA Loses ==
    ASSUME NEW S, IsFiniteSet(S), NEW x \in S
    PROVE  Cardinality(S \ {x}) = Cardinality(S) - 1 /\ Cardinality(S) \in Nat /\ Cardinality(S) >= 1
<1>1. Cardinality(S \ {x}) = Cardinality(S) - 1 /\ IsFiniteSet(S \ {x})  BY FS_RemoveElement
<1>2. Cardinality(S) \in Nat /\ Cardinality(S \ {x}) \in Nat  BY <1>1, FS_CardinalityType
<1>. QED  BY <1>1, <1>2

(* A step that moves nothing the counters count.                           *)
LEMMA CountsStay ==
    ASSUME CountInv, UNCHANGED <<panic, running, references, owner, handles, permit, operations>>,
           Held' = Held, Waiting' = Waiting, Leaving' = Leaving, \A e \in Threads : Parked(e)' = Parked(e),
           waiters' # <<>> => waiters # <<>>
    PROVE  CountInv'
<1>1. NoPanic' /\ PermitsAreCounted'  BY DEF CountInv, NoPanic, PermitsAreCounted, Held
<1>2. OperationsAreCounted'  BY DEF CountInv, OperationsAreCounted
<1>3. ReferencesAreHeld'  BY DEF CountInv, ReferencesAreHeld
<1>. QED  BY <1>1, <1>2, <1>3 DEF CountInv

(* A park is one more operation on its thread.                             *)
LEMMA ParkCounts ==
    ASSUME TypeOK, OperationInv, OperationsAreCounted, NEW t \in Tasks, NEW c \in {Free} \cup Calls, Poll(t, c)
    PROVE  /\ OperationsAreCounted'
           /\ Waiting' = IF t \in Callers THEN Waiting \cup {t} ELSE Waiting
           /\ t \notin Waiting /\ t \notin Held
<1>1. /\ Home(t) \in Threads /\ st[t] = "new"
      /\ \A u \in Tasks : st'[u] = IF u = t THEN "waiting" ELSE st[u]
      /\ \A f \in Threads : operations'[f] = IF f = Home(t) THEN operations[f] + 1 ELSE operations[f]
  BY PollPoint
<1>2. \A f \in Threads : Parked(f)' = IF f = Home(t) THEN Parked(f) \cup {t} ELSE Parked(f)
  BY <1>1 DEF Parked
<1>3. t \notin Parked(Home(t))  BY <1>1 DEF Parked
<1>4. IsFiniteSet(Parked(Home(t)))  BY <1>1, CountsAreFinite
<1>5. Cardinality(Parked(Home(t)) \cup {t}) = Cardinality(Parked(Home(t))) + 1  BY <1>3, <1>4, Gains
<1>6. OperationsAreCounted'  BY <1>1, <1>2, <1>5 DEF OperationsAreCounted
<1>7. Waiting' = IF t \in Callers THEN Waiting \cup {t} ELSE Waiting  BY <1>1, Members DEF Waiting
<1>8. t \notin Waiting  BY <1>1 DEF Waiting
<1>9. t \notin Held
  <2>1. /\ ~completed[t] /\ t \notin permit
        /\ \A f \in Threads : call[f].do \in {"request", "cancel", "complete", "spawn"} => call[f].task # t
    BY <1>1, NewIsNowhere
  <2>. QED  BY <2>1, HeldMembers DEF Grants
<1>. QED  BY <1>6, <1>7, <1>8, <1>9

(* A resumption is one less, and leaves the reactor with its list empty if *)
(* it was the last.                                                        *)
LEMMA ResumeCounts ==
    ASSUME TypeOK, OperationInv, OperationsAreCounted, NEW t \in Tasks, NEW c \in {Free} \cup Calls, Resume(t, c)
    PROVE  /\ OperationsAreCounted' /\ NoPanic'
           /\ Waiting' = Waiting \ {t} /\ (t \in Callers => t \in Waiting)
<1>1. /\ Home(t) \in Threads /\ st[t] = "woken"
      /\ \A u \in Tasks : st'[u] = IF u = t THEN "ready" ELSE st[u]
      /\ \A f \in Threads : operations'[f] = IF f = Home(t) THEN operations[f] - 1 ELSE operations[f]
      /\ panic' => ~completed[t] \/ operations[Home(t)] = 0 \/ (operations[Home(t)] = 1 /\ queue[Home(t)] # <<>>)
  BY ResumePoint
<1>2. \A f \in Threads : Parked(f)' = IF f = Home(t) THEN Parked(f) \ {t} ELSE Parked(f)
  BY <1>1 DEF Parked
<1>3. t \in Parked(Home(t))  BY <1>1 DEF Parked
<1>4. IsFiniteSet(Parked(Home(t)))  BY <1>1, CountsAreFinite
<1>5. /\ Cardinality(Parked(Home(t)) \ {t}) = Cardinality(Parked(Home(t))) - 1
      /\ Cardinality(Parked(Home(t))) >= 1 /\ Cardinality(Parked(Home(t))) \in Nat
  BY <1>3, <1>4, Loses
<1>6. OperationsAreCounted'  BY <1>1, <1>2, <1>5 DEF OperationsAreCounted
<1>7. Waiting' = Waiting \ {t} /\ (t \in Callers => t \in Waiting)  BY <1>1, Members DEF Waiting
<1>8. NoPanic'
  <2>0. completed[t] /\ operations[Home(t)] # 0
    BY <1>1, <1>5, Members DEF OperationInv, OperationsArePolled, OperationsAreCounted
  <2>. SUFFICES ASSUME operations[Home(t)] = 1, queue[Home(t)] # <<>>  PROVE FALSE  BY <1>1, <2>0 DEF NoPanic
  <2>1. queue[Home(t)] \in Seq(Tasks)  BY <1>1 DEF TypeOK
  <2>2. 1 \in DOMAIN queue[Home(t)] /\ queue[Home(t)][1] \in Tasks  BY <2>1
  <2>. DEFINE u == queue[Home(t)][1]
              S == Parked(Home(t)) \ {t}
  <2>3. u \in S  BY <1>1, <2>2 DEF OperationInv, CompletedAreQueued, Parked
  <2>4. Cardinality(S) = 0 /\ IsFiniteSet(S)
    BY <1>1, <1>4, <1>5, FS_Subset DEF OperationsAreCounted
  <2>. HIDE DEF S
  <2>5. S = {}  BY <2>4, FS_EmptySet
  <2>. QED  BY <2>3, <2>5
<1>. QED  BY <1>6, <1>7, <1>8

(* What a change of one thread's call means for the grants and references  *)
(* on their way.                                                           *)
Grant(c, u) == c.do = "complete" /\ c.status = 0 /\ c.task = u
Leaves(c) == c.do = "unref" \/ (c.do = "complete" /\ c.then = "unref")
LEMMA CallCounts ==
    ASSUME TypeOK, NEW e \in Threads, NEW c, \A f \in Threads : call'[f] = IF f = e THEN c ELSE call[f]
    PROVE  /\ Leaving' = IF Leaves(c) THEN Leaving \cup {e} ELSE Leaving \ {e}
           /\ e \in Leaving <=> Leaves(call[e])
           /\ \A u : ~Grant(call[e], u) => (Grants(u)' <=> Grants(u) \/ Grant(c, u))
           /\ \A u : Grant(c, u) => Grants(u)'
           /\ \A u : Grant(call[e], u) => Grants(u)
<1>1. Leaving' = IF Leaves(c) THEN Leaving \cup {e} ELSE Leaving \ {e}  BY DEF Leaving, Leaves
<1>2. e \in Leaving <=> Leaves(call[e])  BY DEF Leaving, Leaves
<1>3. \A u : ~Grant(call[e], u) => (Grants(u)' <=> Grants(u) \/ Grant(c, u))  BY DEF Grant, Grants
<1>4. \A u : (Grant(c, u) => Grants(u)') /\ (Grant(call[e], u) => Grants(u))  BY DEF Grant, Grants
<1>. QED  BY <1>1, <1>2, <1>3, <1>4

(* A thread that was free, and a call that gives nothing back.             *)
LEMMA AcquireCounts ==
    ASSUME TypeOK, OperationInv, CountInv, NEW t \in Tasks, Acquire(t)
    PROVE  CountInv'
<1>1. t \in Callers /\ t \in handles /\ UNCHANGED <<owner, permit, references, handles>>  BY DEF Acquire, TypeOK
<1>2. PICK c \in {Free} \cup Calls :
        /\ Poll(t, c)
        /\ \/ c.do = "complete" /\ c.task = t /\ c.status = 0 /\ c.then = "polled"
              /\ Admits /\ running' = running + 1 /\ waiters' = waiters
           \/ c.do = "complete" /\ c.task = t /\ c.status # 0 /\ c.then = "polled"
              /\ running' = running /\ waiters' = waiters
           \/ c.do \in {"run", "request"} /\ Queues /\ running' = running
  <2>1. CASE Admits /\ running' = running + 1 /\ Poll(t, Call("complete", t, 0, "polled")) /\ UNCHANGED waiters
    <3>. DEFINE c == Call("complete", t, 0, "polled")
    <3>1. c \in Calls /\ c.do = "complete" /\ c.task = t /\ c.status = 0 /\ c.then = "polled"
      BY CallFields DEF Doings, Nexts
    <3>2. Poll(t, c)  BY <2>1
    <3>. HIDE DEF c
    <3>. QED  BY <2>1, <3>1, <3>2
  <2>2. CASE Poll(t, Call("complete", t, IF Registered THEN 1 ELSE 3, "polled")) /\ UNCHANGED <<running, waiters>>
    <3>. DEFINE s == IF Registered THEN 1 ELSE 3
                c == Call("complete", t, s, "polled")
    <3>0. s \in Nat /\ s # 0  OBVIOUS
    <3>1. Poll(t, c)  BY <2>2
    <3>. HIDE DEF s
    <3>2. c \in Calls /\ c.do = "complete" /\ c.task = t /\ c.status = s /\ c.then = "polled"
      BY <3>0, CallFields DEF Doings, Nexts
    <3>. HIDE DEF c
    <3>. QED  BY <2>2, <3>0, <3>1, <3>2
  <2>3. CASE Queues /\ Poll(t, Polled(t)) /\ UNCHANGED running
    <3>. DEFINE c == Polled(t)
    <3>1. c \in {Free} \cup Calls /\ c.do \in {"run", "request"}  BY PolledIsCall
    <3>2. Poll(t, c)  BY <2>3
    <3>. HIDE DEF c
    <3>. QED  BY <2>3, <3>1, <3>2
  <2>. QED  BY <2>1, <2>2, <2>3 DEF Acquire
<1>3. /\ Home(t) \in Threads /\ call[Home(t)].do = "run"
      /\ \A u \in Tasks : st'[u] = IF u = t THEN "waiting" ELSE st[u]
      /\ \A f \in Threads : call'[f] = IF f = Home(t) THEN c ELSE call[f]
      /\ UNCHANGED <<completed, status, panic>> /\ st[t] = "new"
  BY <1>2, PollPoint
<1>4. OperationsAreCounted' /\ Waiting' = Waiting \cup {t} /\ t \notin Waiting /\ t \notin Held
  BY <1>1, <1>2, ParkCounts DEF CountInv
<1>5. Leaving' = Leaving
  <2>1. ~Leaves(c)  BY <1>2 DEF Leaves
  <2>2. ~Leaves(call[Home(t)])  BY <1>3 DEF Leaves
  <2>. QED  BY <1>3, <2>1, <2>2, CallCounts
<1>6. \A u : Grants(u)' <=> (Grants(u) \/ Grant(c, u))  BY <1>2, <1>3, CallCounts DEF Grant
<1>7. ~completed[t]  BY <1>3, NewIsNowhere
<1>8. \A u : u \in Held' <=> u \in Held \/ Grant(c, u)
  BY <1>1, <1>2, <1>3, <1>6, <1>7, HeldMembers, HeldMembersNext, Members DEF Grant
<1>9. ReferencesAreHeld'  BY <1>1, <1>4, <1>5 DEF CountInv, ReferencesAreHeld
<1>10. /\ running = Cardinality(Held) /\ running <= MaxConcurrent /\ running \in Int /\ MaxConcurrent \in Nat
       /\ waiters # <<>> => running = MaxConcurrent
  BY BulkheadAssumption DEF CountInv, NoPanic, PermitsAreCounted, Held, TypeOK
<1>11. NoPanic'  BY <1>3 DEF CountInv, NoPanic
<1>12. PermitsAreCounted'
  <2>1. CASE c.do = "complete" /\ c.task = t /\ c.status = 0 /\ Admits /\ running' = running + 1 /\ waiters' = waiters
    <3>1. Held' = Held \cup {t}  BY <1>8, <2>1 DEF Grant
    <3>2. Cardinality(Held') = Cardinality(Held) + 1  BY <1>4, <3>1, CountsAreFinite, Gains
    <3>. QED  BY <1>10, <2>1, <3>2 DEF PermitsAreCounted, Held, Admits
  <2>2. CASE c.status # 0 /\ c.do = "complete" /\ running' = running /\ waiters' = waiters
    <3>1. Held' = Held  BY <1>8, <2>2 DEF Grant
    <3>. QED  BY <1>10, <2>2, <3>1 DEF PermitsAreCounted, Held
  <2>3. CASE c.do \in {"run", "request"} /\ Queues /\ running' = running
    <3>1. Held' = Held  BY <1>8, <2>3 DEF Grant
    <3>2. running' = MaxConcurrent /\ running' = Cardinality(Held')  BY <1>10, <2>3, <3>1 DEF Queues
    <3>. QED  BY <1>10, <3>2 DEF PermitsAreCounted, Held
  <2>. QED  BY <1>2, <2>1, <2>2, <2>3
<1>. QED  BY <1>4, <1>9, <1>11, <1>12 DEF CountInv

(* The watch's calls are about no caller.                                  *)
LEMMA WatchCounts ==
    ASSUME TypeOK, OperationInv, CountInv, NEW t \in Tasks, NEW b \in BOOLEAN, Watch(t, b), UNCHANGED bulkheadVars
    PROVE  CountInv'
<1>1. t \in Watchers /\ t \notin Callers  BY Members DEF Watch
<1>2. PICK c \in {Free} \cup Calls : Poll(t, c) /\ c.do \in {"complete", "spawn"} /\ c.task = t /\ c.then = "polled"
  <2>1. ASSUME NEW d \in {"complete", "spawn"}, NEW s \in Nat, Poll(t, Call(d, t, s, "polled"))
        PROVE  \E c \in {Free} \cup Calls : Poll(t, c) /\ c.do \in {"complete", "spawn"} /\ c.task = t /\ c.then = "polled"
    <3>. DEFINE c == Call(d, t, s, "polled")
    <3>1. c \in Calls /\ c.do = d /\ c.task = t /\ c.then = "polled"  BY CallFields DEF Doings, Nexts
    <3>2. Poll(t, c)  BY <2>1
    <3>. HIDE DEF c
    <3>. QED  BY <3>1, <3>2
  <2>2. 0 \in Nat /\ 3 \in Nat /\ 4 \in Nat  OBVIOUS
  <2>. QED  BY <2>1, <2>2 DEF Watch
<1>3. /\ Home(t) \in Threads /\ call[Home(t)].do = "run"
      /\ \A u \in Tasks : st'[u] = IF u = t THEN "waiting" ELSE st[u]
      /\ \A f \in Threads : call'[f] = IF f = Home(t) THEN c ELSE call[f]
      /\ UNCHANGED <<completed, status, panic>> /\ st[t] = "new"
  BY <1>2, PollPoint
<1>4. OperationsAreCounted' /\ Waiting' = Waiting  BY <1>1, <1>2, ParkCounts DEF CountInv
<1>5. Leaving' = Leaving  BY <1>2, <1>3, CallCounts DEF Leaves
<1>6. \A u \in Callers : Grants(u)' <=> Grants(u)  BY <1>1, <1>2, <1>3, CallCounts DEF Grant
<1>7. Held' = Held  BY <1>1, <1>3, <1>6, HeldMembers, HeldMembersNext, Members
<1>8. NoPanic' /\ PermitsAreCounted'  BY <1>3, <1>7 DEF CountInv, NoPanic, PermitsAreCounted, Held
<1>9. ReferencesAreHeld'  BY <1>4, <1>5 DEF CountInv, ReferencesAreHeld
<1>. QED  BY <1>4, <1>8, <1>9 DEF CountInv

(* A call that neither grants nor gives up a reference, after one that did *)
(* not either.                                                             *)
LEMMA QuietCall ==
    ASSUME TypeOK, NEW e \in Threads, NEW c, \A f \in Threads : call'[f] = IF f = e THEN c ELSE call[f],
           ~Leaves(call[e]), ~Leaves(c), \A u \in Callers : ~Grant(call[e], u) /\ ~Grant(c, u)
    PROVE  Leaving' = Leaving /\ \A u \in Callers : Grants(u)' <=> Grants(u)
BY CallCounts

LEMMA QuietStep ==
    ASSUME TypeOK, CountInv, NEW e \in Threads, NEW c, \A f \in Threads : call'[f] = IF f = e THEN c ELSE call[f],
           ~Leaves(call[e]), ~Leaves(c), \A u \in Callers : ~Grant(call[e], u) /\ ~Grant(c, u),
           UNCHANGED <<st, completed, status, operations, panic, running, references, owner, handles, permit>>,
           waiters' # <<>> => waiters # <<>>
    PROVE  CountInv'
<1>1. Leaving' = Leaving /\ \A u \in Callers : Grants(u)' <=> Grants(u)  BY QuietCall
<1>2. Held' = Held  BY <1>1, HeldMembers, HeldMembersNext
<1>3. Waiting' = Waiting /\ \A f \in Threads : Parked(f)' = Parked(f)  BY DEF Waiting, Parked
<1>. QED  BY <1>1, <1>2, <1>3, CountsStay

LEMMA CancelTaskCounts ==
    ASSUME TypeOK, OperationInv, CountInv, NEW t \in Tasks, CancelTask(t), UNCHANGED <<bulkheadVars, watchVars>>
    PROVE  CountInv'
<1>1. /\ Home(t) \in Threads /\ call[Home(t)].do = "run"
      /\ UNCHANGED <<st, completed, status, operations, panic, running, references, owner, handles, permit, waiters>>
  BY HomeAssumption DEF CancelTask, At
<1>2. PICK c : /\ \A f \in Threads : call'[f] = IF f = Home(t) THEN c ELSE call[f]
               /\ c.do \in {"run", "request"}
  <2>1. CASE st[t] = "waiting"
    <3>. DEFINE c == Call("request", t, 0, "run")
    <3>1. c \in Calls /\ c.do = "request"  BY CallFields DEF Doings, Nexts
    <3>2. Become(Home(t), c)  BY <2>1 DEF CancelTask
    <3>. HIDE DEF c
    <3>. QED  BY <1>1, <3>1, <3>2, BecomeIsTyped
  <2>2. CASE st[t] # "waiting"  BY <1>1, <2>2 DEF CancelTask
  <2>. QED  BY <2>1, <2>2
<1>. QED  BY <1>1, <1>2, QuietStep DEF Leaves, Grant

LEMMA RequestCounts ==
    ASSUME TypeOK, OperationInv, CountInv, NEW e \in Threads, RequestCancellation(e), UNCHANGED <<bulkheadVars, watchVars>>
    PROVE  CountInv'
<1>1. /\ call[e].do = "request" /\ call[e] \in Calls /\ call[e].task \in Tasks
      /\ call[e].status \in Nat /\ call[e].then \in Nexts
      /\ UNCHANGED <<st, completed, status, operations, panic, running, references, owner, handles, permit, waiters>>
  BY CallPoint DEF RequestCancellation, At, OperationInv
<1>2. PICK c : /\ \A f \in Threads : call'[f] = IF f = e THEN c ELSE call[f]
               /\ c.do \in {"run", "cancel"}
  <2>1. CASE Asks(call[e].task)
    <3>. DEFINE c == [call[e] EXCEPT !.do = "cancel"]
    <3>1. c = Call("cancel", call[e].task, call[e].status, call[e].then)  BY <1>1, CallGoesOn DEF Doings
    <3>2. c \in Calls /\ c.do = "cancel"  BY <1>1, <3>1, CallFields DEF Doings
    <3>3. Become(e, c)  BY <2>1 DEF RequestCancellation
    <3>. HIDE DEF c
    <3>. QED  BY <3>2, <3>3, BecomeIsTyped
  <2>2. CASE ~Asks(call[e].task)
    <3>1. Become(e, Free)  BY <2>2 DEF RequestCancellation
    <3>. QED  BY <3>1, FreeFields, BecomeIsTyped
  <2>. QED  BY <2>1, <2>2
<1>. QED  BY <1>1, <1>2, QuietStep DEF Leaves, Grant

LEMMA CancelCounts ==
    ASSUME TypeOK, OperationInv, CountInv, ListsAreCounted, NEW e \in Threads, Cancel(e), UNCHANGED watchVars
    PROVE  CountInv'
<1>. DEFINE t == call[e].task
            c == Call("complete", t, 2, "run")
<1>1. /\ call[e].do = "cancel" /\ t \in Tasks /\ Become(e, c) /\ panic' = (queued = 0)
      /\ \E i \in DOMAIN waiters : waiters[i] = t
  BY CancelEffect
<1>2. c \in Calls /\ c.do = "complete" /\ c.status = 2 /\ c.then = "run"  BY <1>1, CallFields DEF Doings, Nexts
<1>. HIDE DEF t, c
<1>3. \A f \in Threads : call'[f] = IF f = e THEN c ELSE call[f]  BY <1>1, <1>2, BecomeIsTyped
<1>4. waiters # <<>>  BY <1>1
<1>5. UNCHANGED <<st, completed, status, operations, running, references, owner, handles, permit>>  BY DEF Cancel
<1>6. UNCHANGED panic
  <2>1. Len(waiters) # 0  BY <1>4 DEF TypeOK
  <2>. QED  BY <1>1, <2>1 DEF ListsAreCounted, CountInv, NoPanic, TypeOK
<1>. QED  BY <1>1, <1>2, <1>3, <1>4, <1>5, <1>6, QuietStep DEF Leaves, Grant

(* Whoever takes a job out of the list finds it counted.                   *)
LEMMA RemovesCounts ==
    ASSUME TypeOK, NoPanic, ListsAreCounted, NEW t \in Watchers, Removes(t)
    PROVE  UNCHANGED panic /\ jobCount' = Cardinality(jobs')
<1>1. IsFiniteSet(jobs) /\ jobCount = Cardinality(jobs)  BY CountsAreFinite DEF ListsAreCounted
<1>2. CASE t \in jobs
  <2>1. Cardinality(jobs \ {t}) = Cardinality(jobs) - 1 /\ Cardinality(jobs) \in Nat /\ Cardinality(jobs) >= 1
    BY <1>1, <1>2, Loses
  <2>. QED  BY <1>1, <1>2, <2>1 DEF Removes, NoPanic, TypeOK
<1>3. CASE t \notin jobs
  <2>1. jobs' = jobs  BY <1>3 DEF Removes
  <2>. QED  BY <1>1, <1>3, <2>1 DEF Removes, NoPanic, TypeOK
<1>. QED  BY <1>2, <1>3

LEMMA SpawnCounts ==
    ASSUME TypeOK, OperationInv, CountInv, ListsAreCounted, NEW e \in Threads, NEW ok \in BOOLEAN, WatchSpawn(e, ok), UNCHANGED bulkheadVars
    PROVE  CountInv'
<1>. DEFINE t == call[e].task
<1>1. call[e].do = "spawn" /\ t \in Tasks /\ t \in Watchers /\ t \notin Callers
  BY CallPoint, Members DEF WatchSpawn, At, OperationInv, CallsStayHome
<1>2. UNCHANGED <<st, completed, status, operations, panic, running, references, owner, handles, permit, waiters>>
  <2>1. UNCHANGED panic
    <3>1. CASE ok  BY <3>1 DEF WatchSpawn
    <3>2. CASE ~ok  BY <1>1, <3>2, RemovesCounts DEF WatchSpawn, CountInv
    <3>. QED  BY <3>1, <3>2
  <2>. QED  BY <2>1 DEF WatchSpawn
<1>3. PICK c : /\ \A f \in Threads : call'[f] = IF f = e THEN c ELSE call[f]
               /\ c.do \in {"run", "request"} \/ (c.do = "complete" /\ c.task = t /\ c.then = "polled")
  <2>1. CASE ok
    <3>1. Become(e, Polled(t))  BY <2>1 DEF WatchSpawn
    <3>. QED  BY <1>1, <3>1, PolledIsCall, BecomeIsTyped
  <2>2. CASE ~ok
    <3>. DEFINE c == Call("complete", t, 1, "polled")
    <3>1. c \in Calls /\ c.do = "complete" /\ c.task = t /\ c.then = "polled"  BY <1>1, CallFields DEF Doings, Nexts
    <3>2. Become(e, c)  BY <2>2 DEF WatchSpawn
    <3>. HIDE DEF c
    <3>. QED  BY <3>1, <3>2, BecomeIsTyped
  <2>. QED  BY <2>1, <2>2
<1>. HIDE DEF t
<1>. QED  BY <1>1, <1>2, <1>3, QuietStep DEF Leaves, Grant

LEMMA WatchCancelCounts ==
    ASSUME TypeOK, OperationInv, CountInv, NEW e \in Threads, WatchCancel(e), UNCHANGED bulkheadVars
    PROVE  CountInv'
<1>1. \A f \in Threads : call'[f] = IF f = e THEN Free ELSE call[f]  BY BecomeIsTyped DEF WatchCancel
<1>2. call[e].do = "cancel" /\ Free.do = "run"  BY FreeFields DEF WatchCancel, At
<1>3. UNCHANGED <<st, completed, status, operations, panic, running, references, owner, handles, permit, waiters>>
  BY DEF WatchCancel
<1>. QED  BY <1>1, <1>2, <1>3, QuietStep DEF Leaves, Grant

(* A grant that arrives was counted on its way.                            *)
LEMMA CompleteCounts ==
    ASSUME TypeOK, OperationInv, CountInv, NEW e \in Threads, Complete(e), UNCHANGED <<bulkheadVars, watchVars>>
    PROVE  CountInv'
<1>. DEFINE t == call[e].task
            s == call[e].status
<1>1. /\ call[e].do = "complete" /\ t \in Tasks /\ st[t] = "waiting" /\ ~completed[t]
      /\ \A u \in Tasks : completed'[u] <=> (u = t \/ completed[u])
      /\ \A u \in Tasks : status'[u] = IF u = t THEN s ELSE status[u]
      /\ UNCHANGED <<st, panic, operations>>
  BY CompleteEffect
<1>2. PICK c \in {Free} \cup Calls :
        /\ \A f \in Threads : call'[f] = IF f = e THEN c ELSE call[f]
        /\ c.do \in {"run", "request", "unref"} /\ (c.do = "unref" <=> call[e].then = "unref")
  BY CompleteEffect
<1>3. Leaving' = Leaving
  <2>1. Leaves(c) <=> Leaves(call[e])  BY <1>1, <1>2 DEF Leaves
  <2>. QED  BY <1>2, <2>1, CallCounts
<1>4. \A u : ~Grant(c, u)  BY <1>2 DEF Grant
<1>5. \A u : u # t \/ s # 0 => (Grants(u)' <=> Grants(u))  BY <1>2, <1>4, CallCounts DEF Grant
<1>6. s = 0 => Grants(t)  BY <1>1, <1>2, CallCounts DEF Grant
<1>. HIDE DEF t, s
<1>7. ASSUME NEW u  PROVE u \in Held' <=> u \in Held
  <2>1. CASE u # t  BY <1>1, <1>5, <2>1, HeldMembers, HeldMembersNext, Members
  <2>2. CASE u = t /\ s = 0  BY <1>1, <1>6, <2>2, HeldMembers, HeldMembersNext
  <2>3. CASE u = t /\ s # 0  BY <1>1, <1>5, <2>3, HeldMembers, HeldMembersNext
  <2>. QED  BY <2>1, <2>2, <2>3
<1>8. Waiting' = Waiting /\ \A f \in Threads : Parked(f)' = Parked(f)  BY <1>1 DEF Waiting, Parked
<1>. QED  BY <1>1, <1>3, <1>7, <1>8, CountsStay

LEMMA WakeCounts ==
    ASSUME TypeOK, OperationInv, CountInv, NEW e \in Threads, WakeCompleted(e), UNCHANGED <<bulkheadVars, watchVars>>
    PROVE  CountInv'
<1>. DEFINE Listed(u) == \E i \in DOMAIN queue[e] : queue[e][i] = u
<1>1. \A u \in Tasks : st'[u] = IF Listed(u) THEN "woken" ELSE st[u]  BY DEF WakeCompleted
<1>2. \A u \in Tasks : Listed(u) => st[u] = "waiting"  BY DEF OperationInv, CompletedAreQueued
<1>3. UNCHANGED <<completed, status, operations, call, panic>>  BY DEF WakeCompleted
<1>. HIDE DEF Listed
<1>4. \A u \in Tasks : /\ st'[u] \in {"waiting", "woken"} <=> st[u] \in {"waiting", "woken"}
                       /\ st'[u] # "ready" <=> st[u] # "ready"
  BY <1>1, <1>2
<1>5. Waiting' = Waiting /\ \A f \in Threads : Parked(f)' = Parked(f)  BY <1>4, Members DEF Waiting, Parked
<1>6. Leaving' = Leaving /\ \A u : Grants(u)' <=> Grants(u)  BY <1>3 DEF Leaving, Grants
<1>7. Held' = Held  BY <1>3, <1>4, <1>6, HeldMembers, HeldMembersNext, Members
<1>. QED  BY <1>3, <1>5, <1>6, <1>7, CountsStay

LEMMA WorkerCounts ==
    ASSUME TypeOK, OperationInv, CountInv, ListsAreCounted, NEW t \in Watchers, WatchWorker(t), UNCHANGED bulkheadVars
    PROVE  CountInv'
<1>1. t \in Tasks /\ t \notin Callers  BY Members
<1>2. UNCHANGED <<st, operations, call>>  BY DEF WatchWorker, WorkerSees, WorkerLeaves, WorkerCompletes
<1>3. UNCHANGED panic /\ \A u \in Callers : (completed'[u] <=> completed[u]) /\ status'[u] = status[u]
  <2>1. CASE WorkerCompletes(t)
    <3>1. st[t] = "waiting" /\ ~completed[t] /\ outcome[t] \in Nat /\ Completes(t, outcome[t])
      BY <2>1 DEF WorkerCompletes, OperationInv, JobsAreWaitedFor, TypeOK
    <3>2. /\ \A u \in Tasks : completed'[u] <=> (u = t \/ completed[u])
          /\ \A u \in Tasks : status'[u] = IF u = t THEN outcome[t] ELSE status[u]
          /\ UNCHANGED panic
      BY <1>1, <3>1, CompletesPoint
    <3>. QED  BY <1>1, <3>2, Members
  <2>2. CASE WorkerLeaves(t)  BY <2>2, RemovesCounts DEF WorkerLeaves, CountInv
  <2>3. CASE \E s \in 0 .. 2 : WorkerSees(t, s)  BY <2>3 DEF WorkerSees
  <2>. QED  BY <2>1, <2>2, <2>3 DEF WatchWorker
<1>4. Waiting' = Waiting /\ \A f \in Threads : Parked(f)' = Parked(f)  BY <1>2 DEF Waiting, Parked
<1>5. Leaving' = Leaving /\ \A u : Grants(u)' <=> Grants(u)  BY <1>2 DEF Leaving, Grants
<1>6. Held' = Held  BY <1>2, <1>3, <1>5, HeldMembers, HeldMembersNext
<1>. QED  BY <1>2, <1>3, <1>4, <1>5, <1>6, CountsStay

(* The reference of a woken caller goes to its permit, or to the call that *)
(* gives it up.                                                            *)
LEMMA AcquiredCounts ==
    ASSUME TypeOK, OperationInv, CountInv, NEW t \in Tasks, Acquired(t)
    PROVE  CountInv'
<1>0. t \in Callers /\ handles' = handles \ {t} /\ UNCHANGED <<running, waiters, references, owner>>  BY DEF Acquired
<1>1. PICK c \in {Free} \cup Calls :
        /\ Resume(t, c)
        /\ \/ status[t] = 0 /\ c.do = "run" /\ permit' = permit \cup {t}
           \/ status[t] # 0 /\ c.do = "unref" /\ permit' = permit
  <2>1. CASE status[t] = 0
    <3>1. Resume(t, Free) /\ permit' = permit \cup {t}  BY <2>1 DEF Acquired
    <3>. QED  BY <2>1, <3>1, FreeFields
  <2>2. CASE status[t] # 0
    <3>. DEFINE c == Call("unref", t, 0, "run")
    <3>1. Resume(t, c) /\ permit' = permit  BY <2>2 DEF Acquired
    <3>2. c \in Calls /\ c.do = "unref"  BY CallFields DEF Doings, Nexts
    <3>. HIDE DEF c
    <3>. QED  BY <2>2, <3>1, <3>2
  <2>. QED  BY <2>1, <2>2
<1>2. /\ Home(t) \in Threads /\ st[t] = "woken" /\ call[Home(t)].do = "run"
      /\ \A u \in Tasks : st'[u] = IF u = t THEN "ready" ELSE st[u]
      /\ \A u \in Tasks : completed'[u] <=> (u # t /\ completed[u])
      /\ \A u \in Tasks : status'[u] = IF u = t THEN 0 ELSE status[u]
      /\ \A f \in Threads : call'[f] = IF f = Home(t) THEN c ELSE call[f]
  BY <1>1, ResumePoint
<1>3. /\ OperationsAreCounted' /\ NoPanic' /\ Waiting' = Waiting \ {t} /\ t \in Waiting
  BY <1>0, <1>1, ResumeCounts DEF CountInv
<1>4. /\ completed[t] /\ t \notin permit
      /\ \A f \in Threads : call[f].do \in {"request", "cancel", "complete", "spawn"} => call[f].task # t
  BY <1>2, WokenIsNowhere
<1>5. ~Grants(t)  BY <1>4 DEF Grants
<1>6. \A u : Grants(u)' <=> Grants(u)  BY <1>1, <1>2, CallCounts DEF Grant
<1>7. ASSUME NEW u  PROVE u \in Held' <=> u \in Held
  <2>1. CASE u = t  BY <1>0, <1>1, <1>2, <1>4, <1>5, <1>6, <2>1, HeldMembers, HeldMembersNext
  <2>2. CASE u # t  BY <1>1, <1>2, <1>6, <2>2, HeldMembers, HeldMembersNext, Members
  <2>. QED  BY <2>1, <2>2
<1>8. PermitsAreCounted'  BY <1>0, <1>7 DEF CountInv, NoPanic, PermitsAreCounted, Held
<1>9. /\ Cardinality(handles') = Cardinality(handles) - 1 /\ Cardinality(handles) \in Nat
      /\ Cardinality(permit) \in Nat /\ Cardinality(Leaving) \in Nat /\ Waiting' \subseteq handles'
  <2>1. t \in handles /\ Waiting' \subseteq handles'  BY <1>0, <1>3 DEF CountInv, ReferencesAreHeld
  <2>. QED  BY <1>0, <2>1, CountsAreFinite, Loses, FS_CardinalityType
<1>10. ReferencesAreHeld'
  <2>1. CASE c.do = "run" /\ permit' = permit \cup {t}
    <3>1. Cardinality(permit') = Cardinality(permit) + 1  BY <1>4, <2>1, CountsAreFinite, Gains
    <3>2. Leaving' = Leaving
      <4>1. ~Leaves(c) /\ ~Leaves(call[Home(t)])  BY <1>2, <2>1 DEF Leaves
      <4>. QED  BY <1>2, <4>1, CallCounts
    <3>. QED  BY <1>0, <1>9, <3>1, <3>2 DEF CountInv, ReferencesAreHeld
  <2>2. CASE c.do = "unref" /\ permit' = permit
    <3>1. Leaves(c) /\ ~Leaves(call[Home(t)])  BY <1>2, <2>2 DEF Leaves
    <3>2. Leaving' = Leaving \cup {Home(t)} /\ Home(t) \notin Leaving  BY <1>2, <3>1, CallCounts
    <3>3. Cardinality(Leaving') = Cardinality(Leaving) + 1  BY <3>2, CountsAreFinite, Gains
    <3>. QED  BY <1>0, <1>9, <2>2, <3>3 DEF CountInv, ReferencesAreHeld
  <2>. QED  BY <1>1, <2>1, <2>2
<1>. QED  BY <1>3, <1>8, <1>10 DEF CountInv

LEMMA WatchedCounts ==
    ASSUME TypeOK, OperationInv, CountInv, NEW t \in Tasks, Watched(t), UNCHANGED bulkheadVars
    PROVE  CountInv'
<1>1. t \notin Callers /\ Resume(t, Free)  BY Members DEF Watched
<1>2. /\ Home(t) \in Threads /\ call[Home(t)].do = "run"
      /\ \A u \in Tasks : st'[u] = IF u = t THEN "ready" ELSE st[u]
      /\ \A u \in Tasks : completed'[u] <=> (u # t /\ completed[u])
      /\ \A u \in Tasks : status'[u] = IF u = t THEN 0 ELSE status[u]
      /\ \A f \in Threads : call'[f] = IF f = Home(t) THEN Free ELSE call[f]
  BY <1>1, ResumePoint
<1>3. OperationsAreCounted' /\ NoPanic' /\ Waiting' = Waiting \ {t}
  BY <1>1, ResumeCounts DEF CountInv
<1>4. Waiting' = Waiting  BY <1>1, <1>3 DEF Waiting
<1>5. ~Leaves(call[Home(t)]) /\ ~Leaves(Free) /\ \A u : ~Grant(call[Home(t)], u) /\ ~Grant(Free, u)
  BY <1>2, FreeFields DEF Leaves, Grant
<1>6. Leaving' = Leaving /\ \A u \in Callers : Grants(u)' <=> Grants(u)  BY <1>2, <1>5, QuietCall
<1>7. Held' = Held
  <2>1. \A u \in Callers : u \in Tasks /\ u # t  BY <1>1, Members
  <2>2. \A u \in Callers : (completed'[u] <=> completed[u]) /\ status'[u] = status[u] /\ st'[u] = st[u]
    BY <1>2, <2>1
  <2>. QED  BY <1>6, <2>2, HeldMembers, HeldMembersNext
<1>8. PermitsAreCounted'  BY <1>7 DEF CountInv, NoPanic, PermitsAreCounted, Held
<1>9. ReferencesAreHeld'  BY <1>4, <1>6 DEF CountInv, ReferencesAreHeld
<1>. QED  BY <1>3, <1>8, <1>9 DEF CountInv

(* A released permit leaves its slot free, or hands it to the oldest       *)
(* waiter, who had none.                                                   *)
LEMMA PermitReleaseCounts ==
    ASSUME TypeOK, OperationInv, CountInv, ListsAreCounted, NEW t \in Tasks, PermitRelease(t)
    PROVE  CountInv'
<1>. DEFINE e == Home(t)
<1>1. /\ e \in Threads /\ call[e].do = "run" /\ t \in permit /\ t \in Callers /\ permit' = permit \ {t}
      /\ panic' => references = 0 \/ running = 0 \/ (waiters # <<>> /\ queued = 0)
      /\ UNCHANGED <<st, completed, status, operations, references, owner, handles>>
  BY PermitReleaseEffect
<1>2. st[t] = "ready" /\ ~completed[t]  BY <1>1 DEF OperationInv, OperationsArePolled
<1>3. ~Grants(t)  BY <1>2 DEF Grants, OperationInv, CallsStayHome
<1>4. t \in Held  BY <1>1, HeldMembers
<1>5. PICK c \in Calls :
        /\ \A f \in Threads : call'[f] = IF f = e THEN c ELSE call[f]
        /\ Leaves(c)
        /\ \/ waiters' = <<>> /\ running' = running - 1 /\ c.do = "unref"
           \/ /\ waiters # <<>> /\ running' = running /\ c.do = "complete" /\ c.status = 0
              /\ c.task = waiters[1] /\ 1 \in DOMAIN waiters
  <2>1. CASE waiters = <<>>
    <3>. DEFINE c == Call("unref", t, 0, "run")
    <3>1. Become(e, c) /\ running' = running - 1 /\ waiters' = <<>>  BY <2>1, PermitReleaseEffect
    <3>2. c \in Calls /\ c.do = "unref"  BY CallFields DEF Doings, Nexts
    <3>. HIDE DEF c
    <3>. QED  BY <1>1, <3>1, <3>2, BecomeIsTyped DEF Leaves
  <2>2. CASE waiters # <<>>
    <3>. DEFINE c == Call("complete", waiters[1], 0, "unref")
    <3>1. Become(e, c) /\ running' = running /\ 1 \in DOMAIN waiters  BY <2>2, PermitReleaseEffect
    <3>2. waiters[1] \in Tasks  BY <3>1, Members
    <3>3. c \in Calls /\ c.do = "complete" /\ c.status = 0 /\ c.task = waiters[1] /\ c.then = "unref"
      BY <3>2, CallFields DEF Doings, Nexts
    <3>. HIDE DEF c
    <3>. QED  BY <1>1, <2>2, <3>1, <3>3, BecomeIsTyped DEF Leaves
  <2>. QED  BY <2>1, <2>2
<1>. HIDE DEF e
<1>6. ~Leaves(call[e]) /\ \A u : ~Grant(call[e], u)  BY <1>1 DEF Leaves, Grant
<1>7. Leaving' = Leaving \cup {e} /\ e \notin Leaving  BY <1>1, <1>5, <1>6, CallCounts
<1>8. \A u : Grants(u)' <=> (Grants(u) \/ Grant(c, u))  BY <1>1, <1>5, <1>6, CallCounts
<1>9. \A u : u \in Held' <=> (u \in Held /\ u # t) \/ (u \in Callers /\ Grant(c, u))
  BY <1>1, <1>2, <1>3, <1>8, HeldMembers, HeldMembersNext
<1>10. NoPanic'
  <2>1. /\ Cardinality(permit) >= 1 /\ Cardinality(permit) \in Nat /\ Cardinality(handles) \in Nat
        /\ Cardinality(Leaving) \in Nat /\ Cardinality(Held) >= 1 /\ Cardinality(Held) \in Nat
    BY <1>1, <1>4, CountsAreFinite, Loses, FS_CardinalityType
  <2>2. references # 0  BY <2>1 DEF CountInv, ReferencesAreHeld
  <2>3. running # 0  BY <2>1 DEF CountInv, NoPanic, PermitsAreCounted, Held
  <2>4. waiters # <<>> => queued # 0  BY DEF ListsAreCounted, TypeOK
  <2>. QED  BY <1>1, <2>2, <2>3, <2>4 DEF NoPanic
<1>11. OperationsAreCounted'  BY <1>1 DEF CountInv, OperationsAreCounted, Parked
<1>12. ReferencesAreHeld'
  <2>1. Cardinality(permit') = Cardinality(permit) - 1 /\ Cardinality(permit) \in Nat  BY <1>1, CountsAreFinite, Loses
  <2>2. Cardinality(Leaving') = Cardinality(Leaving) + 1 /\ Cardinality(Leaving) \in Nat
    BY <1>7, CountsAreFinite, Gains
  <2>3. Waiting' = Waiting /\ Cardinality(handles) \in Nat  BY <1>1, CountsAreFinite, FS_CardinalityType DEF Waiting
  <2>. QED  BY <1>1, <2>1, <2>2, <2>3 DEF CountInv, ReferencesAreHeld
<1>13. /\ running = Cardinality(Held) /\ running <= MaxConcurrent /\ running \in Int /\ MaxConcurrent \in Nat
       /\ waiters # <<>> => running = MaxConcurrent
  BY BulkheadAssumption DEF CountInv, NoPanic, PermitsAreCounted, Held, TypeOK
<1>14. IsFiniteSet(Held)  BY CountsAreFinite
<1>15. Cardinality(Held \ {t}) = Cardinality(Held) - 1 /\ IsFiniteSet(Held \ {t})
  BY <1>4, <1>14, Loses, FS_Subset
<1>16. PermitsAreCounted'
  <2>1. CASE waiters' = <<>> /\ running' = running - 1 /\ c.do = "unref"
    <3>1. Held' = Held \ {t}  BY <1>9, <2>1 DEF Grant
    <3>2. running' = Cardinality(Held') /\ running' <= MaxConcurrent  BY <1>13, <1>15, <2>1, <3>1
    <3>. QED  BY <2>1, <3>2 DEF PermitsAreCounted, Held
  <2>2. CASE /\ waiters # <<>> /\ running' = running /\ c.do = "complete" /\ c.status = 0
             /\ c.task = waiters[1] /\ 1 \in DOMAIN waiters
    <3>. DEFINE h == waiters[1]
    <3>1. h \in Callers /\ h \in Tasks /\ st[h] = "waiting" /\ ~completed[h] /\ Queued(h)
      BY <2>2, Members DEF OperationInv, WaitersAreParked, Queued
    <3>2. h \notin permit /\ ~Grants(h)  BY <3>1 DEF OperationInv, OperationsArePolled, CallersAreListed, Grants
    <3>3. h \notin Held  BY <3>1, <3>2, HeldMembers
    <3>. HIDE DEF h
    <3>4. Held' = (Held \ {t}) \cup {h}  BY <1>9, <2>2, <3>1 DEF Grant, h
    <3>5. Cardinality((Held \ {t}) \cup {h}) = Cardinality(Held \ {t}) + 1  BY <1>15, <3>3, Gains
    <3>6. Cardinality(Held) \in Nat  BY <1>14, FS_CardinalityType
    <3>7. running' = Cardinality(Held')  BY <1>13, <1>15, <2>2, <3>4, <3>5, <3>6
    <3>. QED  BY <1>13, <2>2, <3>7 DEF PermitsAreCounted, Held
  <2>. QED  BY <1>5, <2>1, <2>2
<1>. QED  BY <1>10, <1>11, <1>12, <1>16 DEF CountInv

(* No task acquires and nobody has a permit: the bulkhead is idle.         *)
LEMMA IdleBulkhead ==
    ASSUME TypeOK, OperationInv, ReferencesAreHeld, handles = {}, permit = {}
    PROVE  Held = {} /\ waiters = <<>>
<1>1. \A u \in Callers : st[u] \notin {"waiting", "woken"}  BY DEF Waiting, ReferencesAreHeld
<1>2. \A u \in Callers : ~completed[u]  BY <1>1, Members DEF OperationInv, OperationsArePolled
<1>3. \A u \in Callers : ~Grants(u)  BY <1>1 DEF Grants, OperationInv, CallsStayHome
<1>4. Held = {}  BY <1>2, <1>3, HeldMembers
<1>5. ASSUME waiters # <<>>  PROVE FALSE
  <2>1. waiters \in Seq(Callers)  BY DEF TypeOK
  <2>2. 1 \in DOMAIN waiters /\ waiters[1] \in Callers  BY <1>5, <2>1
  <2>. QED  BY <1>1, <2>2 DEF OperationInv, WaitersAreParked
<1>. QED  BY <1>4, <1>5

(* The last reference goes when the bulkhead is idle.                      *)
LEMMA UnreferenceCounts ==
    ASSUME TypeOK, OperationInv, CountInv, ListsAreCounted, NEW e \in Threads, Release(e) \/ OwnerDrop(e)
    PROVE  CountInv'
<1>1. /\ Unreference(e)
      /\ \/ call[e].do = "unref" /\ owner' = owner
         \/ call[e].do = "run" /\ owner /\ owner' = FALSE
  BY DEF Release, OwnerDrop, At
<1>2. /\ references' = references - 1
      /\ panic' => references = 0 \/ (references = 1 /\ (running # 0 \/ queued # 0 \/ waiters # <<>>))
      /\ UNCHANGED <<st, completed, status, operations, running, waiters, handles, permit>>
      /\ \A f \in Threads : call'[f] = IF f = e THEN Free ELSE call[f]
  BY <1>1, BecomeIsTyped DEF Unreference, Registered
<1>3. ~Leaves(Free) /\ \A u : ~Grant(call[e], u) /\ ~Grant(Free, u)  BY <1>1, FreeFields DEF Leaves, Grant
<1>4. Leaving' = Leaving \ {e} /\ (e \in Leaving <=> call[e].do = "unref")
  BY <1>1, <1>2, <1>3, CallCounts DEF Leaves
<1>5. \A u : Grants(u)' <=> Grants(u)  BY <1>2, <1>3, CallCounts
<1>6. Held' = Held  BY <1>2, <1>5, HeldMembers, HeldMembersNext
<1>7. Waiting' = Waiting /\ \A f \in Threads : Parked(f)' = Parked(f)  BY <1>2 DEF Waiting, Parked
<1>8. /\ IsFiniteSet(handles) /\ IsFiniteSet(permit) /\ IsFiniteSet(Leaving)
      /\ Cardinality(handles) \in Nat /\ Cardinality(permit) \in Nat /\ Cardinality(Leaving) \in Nat
  BY CountsAreFinite, FS_CardinalityType
<1>9. /\ references = (IF owner THEN 1 ELSE 0) + Cardinality(handles) + Cardinality(permit) + Cardinality(Leaving)
      /\ Waiting \subseteq handles
  BY DEF CountInv, ReferencesAreHeld
<1>10. /\ ReferencesAreHeld' /\ references # 0
       /\ references = 1 => Cardinality(handles) = 0 /\ Cardinality(permit) = 0
  <2>1. CASE call[e].do = "unref" /\ owner' = owner
    <3>1. Cardinality(Leaving') = Cardinality(Leaving) - 1 /\ Cardinality(Leaving) >= 1
      BY <1>4, <1>8, <2>1, Loses
    <3>. QED  BY <1>2, <1>7, <1>8, <1>9, <2>1, <3>1 DEF ReferencesAreHeld
  <2>2. CASE call[e].do = "run" /\ owner /\ owner' = FALSE
    <3>1. Leaving' = Leaving  BY <1>4, <2>2
    <3>. QED  BY <1>2, <1>7, <1>8, <1>9, <2>2, <3>1 DEF ReferencesAreHeld
  <2>. QED  BY <1>1, <2>1, <2>2
<1>11. NoPanic'
  <2>. SUFFICES ASSUME references = 1  PROVE running = 0 /\ waiters = <<>> /\ queued = 0  BY <1>2, <1>10 DEF NoPanic
  <2>1. handles = {} /\ permit = {}  BY <1>8, <1>10, FS_EmptySet
  <2>2. Held = {} /\ waiters = <<>>  BY <2>1, IdleBulkhead DEF CountInv
  <2>3. running = Cardinality(Held) /\ queued = 0  BY <2>2 DEF CountInv, NoPanic, PermitsAreCounted, Held, ListsAreCounted
  <2>. QED  BY <2>2, <2>3, FS_EmptySet
<1>12. PermitsAreCounted'  BY <1>2, <1>6 DEF CountInv, NoPanic, PermitsAreCounted, Held
<1>13. OperationsAreCounted'  BY <1>2, <1>7 DEF CountInv, OperationsAreCounted
<1>. QED  BY <1>10, <1>11, <1>12, <1>13 DEF CountInv

(* A task is spawned with a clone of the handle its spawner has.           *)
LEMMA HandleStep ==
    ASSUME TypeOK, OperationInv, CountInv, NEW t \in Tasks, Spawn(t), UNCHANGED watchVars
    PROVE  OperationInv' /\ CountInv'
<1>1. /\ t \in Callers /\ t \notin handles /\ owner /\ handles' = handles \cup {t} /\ references' = references + 1
      /\ panic' => references = 0
      /\ UNCHANGED <<st, completed, status, queue, operations, call, running, waiters, owner, permit, jobs, worker>>
  BY DEF Spawn, Registered
<1>2. OperationInv'
  BY <1>1 DEF OperationInv, CallsStayHome, OperationsArePolled, CompletedAreQueued, WaitersAreParked,
              CallersAreListed, JobsAreWaitedFor, Queued
<1>3. Held' = Held /\ Waiting' = Waiting /\ Leaving' = Leaving /\ \A e \in Threads : Parked(e)' = Parked(e)
  BY <1>1 DEF Held, Granted, Waiting, Leaving, Parked
<1>4. /\ Cardinality(handles') = Cardinality(handles) + 1 /\ Cardinality(handles) \in Nat
      /\ Cardinality(permit) \in Nat /\ Cardinality(Leaving) \in Nat
  BY <1>1, CountsAreFinite, Gains, FS_CardinalityType
<1>5. ReferencesAreHeld' /\ references # 0  BY <1>1, <1>3, <1>4 DEF CountInv, ReferencesAreHeld
<1>6. NoPanic' /\ PermitsAreCounted'  BY <1>1, <1>3, <1>5 DEF CountInv, NoPanic, PermitsAreCounted, Held
<1>7. OperationsAreCounted'  BY <1>1, <1>3 DEF CountInv, OperationsAreCounted
<1>. QED  BY <1>2, <1>5, <1>6, <1>7 DEF CountInv

(* The counters beside the lists follow them.                              *)
LEMMA WaitersStayCounted ==
    ASSUME TypeOK, OperationInv, ListsAreCounted, BulkheadNext
    PROVE  queued' = Len(waiters')
<1>0. waiters \in Seq(Callers) /\ queued = Len(waiters) /\ Len(waiters) \in Nat  BY DEF TypeOK, ListsAreCounted
<1>1. ASSUME NEW i \in DOMAIN waiters, waiters' = Unlink(waiters, i)  PROVE Len(waiters') = Len(waiters) - 1
  <2>1. waiters' \in Seq(Callers) /\ DOMAIN waiters' = 1 .. Len(waiters) - 1  BY <1>0, <1>1, Unlinked
  <2>2. Len(waiters) >= 1  BY <1>0
  <2>3. Len(waiters') \in Nat /\ DOMAIN waiters' = 1 .. Len(waiters')  BY <2>1
  <2>. QED  BY <1>0, <2>1, <2>2, <2>3
<1>2. ASSUME NEW t \in Tasks, Acquire(t)  PROVE queued' = Len(waiters')
  <2>1. \/ UNCHANGED <<waiters, queued>>
        \/ waiters' = Append(waiters, t) /\ queued' = queued + 1
    BY <1>2 DEF Acquire
  <2>2. t \in Callers  BY <1>2 DEF Acquire, TypeOK
  <2>3. Len(Append(waiters, t)) = Len(waiters) + 1  BY <1>0, <2>2
  <2>. QED  BY <1>0, <2>1, <2>3
<1>3. ASSUME NEW t \in Tasks, PermitRelease(t)  PROVE queued' = Len(waiters')
  <2>1. CASE waiters = <<>>
    <3>1. UNCHANGED <<waiters, queued>>  BY <1>3, <2>1, PermitReleaseEffect
    <3>. QED  BY <1>0, <3>1
  <2>2. CASE waiters # <<>>
    <3>1. 1 \in DOMAIN waiters /\ waiters' = Unlink(waiters, 1) /\ queued' = queued - 1
      BY <1>3, <2>2, PermitReleaseEffect
    <3>. QED  BY <1>0, <1>1, <3>1
  <2>. QED  BY <2>1, <2>2
<1>4. ASSUME NEW e \in Threads, Cancel(e)  PROVE queued' = Len(waiters')
  <2>1. queued' = queued - 1 /\ \E i \in DOMAIN waiters : waiters' = Unlink(waiters, i)  BY <1>4, CancelEffect
  <2>. QED  BY <1>0, <1>1, <2>1
<1>5. ASSUME UNCHANGED <<waiters, queued>>  PROVE queued' = Len(waiters')  BY <1>0, <1>5
<1>6. ASSUME NEW t \in Tasks, Spawn(t) \/ Acquired(t)  PROVE queued' = Len(waiters')
  BY <1>5, <1>6 DEF Spawn, Acquired
<1>7. ASSUME NEW e \in Threads, Release(e) \/ OwnerDrop(e)  PROVE queued' = Len(waiters')
  BY <1>5, <1>7 DEF Release, OwnerDrop, Unreference
<1>. QED  BY <1>2, <1>3, <1>4, <1>6, <1>7 DEF BulkheadNext

LEMMA JobsStayCounted ==
    ASSUME TypeOK, OperationInv, NoPanic, ListsAreCounted, WatchNext
    PROVE  jobCount' = Cardinality(jobs')
<1>0. jobCount = Cardinality(jobs) /\ IsFiniteSet(jobs)  BY CountsAreFinite DEF ListsAreCounted
<1>1. ASSUME NEW t \in Tasks, NEW b \in BOOLEAN, Watch(t, b)  PROVE jobCount' = Cardinality(jobs')
  <2>1. \/ UNCHANGED <<jobs, jobCount>>
        \/ jobs' = jobs \cup {t} /\ jobCount' = jobCount + 1
    BY <1>1 DEF Watch
  <2>2. t \in Watchers /\ st[t] = "new"  BY <1>1 DEF Watch, Poll
  <2>3. t \notin jobs  BY <2>2 DEF OperationInv, JobsAreWaitedFor
  <2>4. Cardinality(jobs \cup {t}) = Cardinality(jobs) + 1  BY <1>0, <2>3, Gains
  <2>. QED  BY <1>0, <2>1, <2>4
<1>2. ASSUME NEW e \in Threads, NEW b \in BOOLEAN, WatchSpawn(e, b)  PROVE jobCount' = Cardinality(jobs')
  <2>1. call[e].task \in Watchers  BY <1>2 DEF WatchSpawn, At, OperationInv, CallsStayHome
  <2>2. UNCHANGED <<jobs, jobCount>> \/ Removes(call[e].task)  BY <1>2 DEF WatchSpawn
  <2>. QED  BY <1>0, <2>1, <2>2, RemovesCounts
<1>3. ASSUME NEW t \in Watchers, WatchWorker(t)  PROVE jobCount' = Cardinality(jobs')
  <2>1. UNCHANGED <<jobs, jobCount>> \/ Removes(t)  BY <1>3 DEF WatchWorker, WorkerSees, WorkerLeaves, WorkerCompletes
  <2>. QED  BY <1>0, <2>1, RemovesCounts
<1>4. ASSUME UNCHANGED <<jobs, jobCount>>  PROVE jobCount' = Cardinality(jobs')  BY <1>0, <1>4
<1>5. ASSUME NEW t \in Tasks, Watched(t)  PROVE jobCount' = Cardinality(jobs')  BY <1>4, <1>5 DEF Watched
<1>6. ASSUME NEW e \in Threads, WatchCancel(e)  PROVE jobCount' = Cardinality(jobs')  BY <1>4, <1>6 DEF WatchCancel
<1>. QED  BY <1>1, <1>2, <1>3, <1>5, <1>6 DEF WatchNext

-----------------------------------------------------------------------------
(* The initial states and the steps of the whole.                          *)
LEMMA CallbackInit == Init => CallbackInv
<1>. SUFFICES ASSUME Init  PROVE CallbackInv  OBVIOUS
<1>. USE DEF Init, ReactorInit, BulkheadInit, WatchInit
<1>1. TypeOK
  <2>1. <<>> \in Seq(Tasks) /\ <<>> \in Seq(Callers) /\ maxQueue \in Nat  BY BulkheadAssumption
  <2>2. /\ st \in [Tasks -> {"new", "waiting", "woken", "ready"}] /\ status \in [Tasks -> Nat]
        /\ cancelled \in [Tasks -> BOOLEAN] /\ completed \in [Tasks -> BOOLEAN] /\ requested \in [Tasks -> BOOLEAN]
    OBVIOUS
  <2>3. /\ queue \in [Threads -> Seq(Tasks)] /\ operations \in [Threads -> Int] /\ open \in [Threads -> BOOLEAN]
        /\ call \in [Threads -> {Free} \cup Calls]
    BY <2>1
  <2>4. /\ stop \in [Watchers -> BOOLEAN] /\ outcome \in [Watchers -> Nat]
        /\ worker \in [Watchers -> {"none", "polling", "leaving", "finishing"}]
    OBVIOUS
  <2>5. /\ running \in Int /\ references \in Int /\ queued \in Int /\ jobCount \in Int
        /\ handles \subseteq Callers /\ permit \subseteq Callers /\ jobs \subseteq Watchers
    OBVIOUS
  <2>6. owner \in BOOLEAN /\ panic \in BOOLEAN  OBVIOUS
  <2>7. waiters \in Seq(Callers)  BY <2>1
  <2>. QED  BY <2>1, <2>2, <2>3, <2>4, <2>5, <2>6, <2>7 DEF TypeOK
<1>2. \A e \in Threads : call[e].do = "run"  BY FreeFields
<1>3. CallsStayHome /\ OperationsArePolled  BY <1>2 DEF CallsStayHome, OperationsArePolled
<1>4. CompletedAreQueued /\ WaitersAreParked  BY DEF CompletedAreQueued, WaitersAreParked
<1>5. CallersAreListed /\ JobsAreWaitedFor
  <2>1. \A t \in Callers \cup Watchers : st[t] \in {"new", "ready"}  BY BulkheadAssumption, WatchAssumption
  <2>. QED  BY <1>2, <2>1 DEF CallersAreListed, JobsAreWaitedFor
<1>6. /\ Held = {} /\ Waiting = {} /\ permit = {} /\ Leaving = {} /\ \A e \in Threads : Parked(e) = {}
  BY <1>2, HeldMembers, BulkheadAssumption DEF Grants, Waiting, Leaving, Parked
<1>7. Cardinality({}) = 0  BY FS_EmptySet
<1>8. /\ ~panic /\ running = 0 /\ waiters = <<>> /\ references = 1 /\ owner /\ handles = {}
      /\ queued = 0 /\ jobs = {} /\ jobCount = 0
      /\ \A e \in Threads : operations[e] = 0
  OBVIOUS
<1>. HIDE DEF Init, ReactorInit, BulkheadInit, WatchInit
<1>9. NoPanic /\ PermitsAreCounted
  <2>1. running = Cardinality(Held) /\ running <= MaxConcurrent  BY <1>6, <1>7, <1>8, BulkheadAssumption
  <2>. QED  BY <1>8, <2>1 DEF NoPanic, PermitsAreCounted, Held
<1>10. OperationsAreCounted  BY <1>6, <1>7, <1>8 DEF OperationsAreCounted
<1>11. ReferencesAreHeld
  <2>1. Cardinality(handles) = 0 /\ Cardinality(permit) = 0 /\ Cardinality(Leaving) = 0  BY <1>6, <1>7, <1>8
  <2>. QED  BY <1>6, <1>8, <2>1 DEF ReferencesAreHeld
<1>12. ListsAreCounted  BY <1>7, <1>8 DEF ListsAreCounted
<1>. QED  BY <1>1, <1>3, <1>4, <1>5, <1>9, <1>10, <1>11, <1>12 DEF CallbackInv

LEMMA CallbackParts == CallbackInv <=> (TypeOK /\ OperationInv /\ CountInv /\ ListsAreCounted)
BY DEF CallbackInv, OperationInv, CountInv

LEMMA ReactorStep ==
    ASSUME TypeOK, OperationInv, CountInv, ListsAreCounted, ReactorNext, UNCHANGED <<bulkheadVars, watchVars>>
    PROVE  TypeOK' /\ OperationInv' /\ CountInv' /\ ListsAreCounted'
<1>1. TypeOK'  BY ReactorKeepsType
<1>2. ASSUME NEW e \in Threads, RequestCancellation(e)  PROVE OperationInv' /\ CountInv'
  BY <1>2, RequestStep, RequestCounts
<1>3. ASSUME NEW e \in Threads, Complete(e)  PROVE OperationInv' /\ CountInv'
  BY <1>3, CompleteStep, CompleteCounts
<1>4. ASSUME NEW e \in Threads, WakeCompleted(e)  PROVE OperationInv' /\ CountInv'
  BY <1>4, WakeStep, WakeCounts
<1>5. ASSUME NEW t \in Tasks, CancelTask(t)  PROVE OperationInv' /\ CountInv'
  BY <1>5, CancelTaskStep, CancelTaskCounts
<1>6. ListsAreCounted'  BY DEF ListsAreCounted
<1>. QED  BY <1>1, <1>2, <1>3, <1>4, <1>5, <1>6 DEF ReactorNext

LEMMA BulkheadStep ==
    ASSUME TypeOK, OperationInv, CountInv, ListsAreCounted, BulkheadNext, UNCHANGED watchVars
    PROVE  TypeOK' /\ OperationInv' /\ CountInv' /\ ListsAreCounted'
<1>1. TypeOK'  BY BulkheadKeepsType
<1>2. ASSUME NEW t \in Tasks, Acquire(t)  PROVE OperationInv' /\ CountInv'
  <2>1. CountInv' /\ t \in Callers /\ UNCHANGED permit  BY <1>2, AcquireCounts DEF Acquire, TypeOK
  <2>2. ASSUME NEW s \in {0, 1, 3}, Poll(t, Call("complete", t, s, "polled")), UNCHANGED waiters  PROVE OperationInv'
    <3>1. s \in Nat /\ "polled" \in Nexts  BY DEF Nexts
    <3>. QED  BY <2>1, <2>2, <3>1, AnsweredPark
  <2>3. ASSUME Poll(t, Polled(t)), waiters' = Append(waiters, t)  PROVE OperationInv'
    BY <2>1, <2>3, QueuedPark
  <2>. QED  BY <1>2, <2>1, <2>2, <2>3 DEF Acquire
<1>3. ASSUME NEW t \in Tasks, Acquired(t)  PROVE OperationInv' /\ CountInv'
  <2>1. CountInv' /\ UNCHANGED waiters  BY <1>3, AcquiredCounts DEF Acquired
  <2>2. CASE status[t] = 0
    <3>1. Resume(t, Free) /\ permit' = permit \cup {t}  BY <1>3, <2>2 DEF Acquired
    <3>2. Free \in {Free} \cup Calls /\ Free.do = "run"  BY FreeFields
    <3>. QED  BY <2>1, <3>1, <3>2, ResumeStep
  <2>3. CASE status[t] # 0
    <3>. DEFINE c == Call("unref", t, 0, "run")
    <3>1. Resume(t, c) /\ permit' = permit  BY <1>3, <2>3 DEF Acquired
    <3>2. c \in {Free} \cup Calls /\ c.do = "unref" /\ c.task = t  BY CallFields DEF Doings, Nexts
    <3>. HIDE DEF c
    <3>. QED  BY <2>1, <3>1, <3>2, ResumeStep
  <2>. QED  BY <2>2, <2>3
<1>4. ASSUME NEW t \in Tasks, PermitRelease(t)  PROVE OperationInv' /\ CountInv'
  BY <1>4, PermitReleaseStep, PermitReleaseCounts
<1>5. ASSUME NEW e \in Threads, Cancel(e)  PROVE OperationInv' /\ CountInv'
  BY <1>5, CancelStep, CancelCounts
<1>6. ASSUME NEW e \in Threads, Release(e) \/ OwnerDrop(e)  PROVE OperationInv' /\ CountInv'
  <2>1. Unreference(e) /\ call[e].do \in {"run", "unref"}  BY <1>6 DEF Release, OwnerDrop, At
  <2>. QED  BY <1>6, <2>1, UnreferenceStep, UnreferenceCounts
<1>7. ASSUME NEW t \in Tasks, Spawn(t)  PROVE OperationInv' /\ CountInv'
  BY <1>7, HandleStep
<1>8. ListsAreCounted'  BY WaitersStayCounted DEF ListsAreCounted
<1>. QED  BY <1>1, <1>2, <1>3, <1>4, <1>5, <1>6, <1>7, <1>8 DEF BulkheadNext

LEMMA WatchStep ==
    ASSUME TypeOK, OperationInv, CountInv, ListsAreCounted, WatchNext, UNCHANGED bulkheadVars
    PROVE  TypeOK' /\ OperationInv' /\ CountInv' /\ ListsAreCounted'
<1>1. TypeOK'  BY WatchKeepsType DEF OperationInv
<1>2. ASSUME NEW t \in Tasks, NEW b \in BOOLEAN, Watch(t, b)  PROVE OperationInv' /\ CountInv'
  <2>1. CountInv' /\ t \in Watchers /\ UNCHANGED worker  BY <1>2, WatchCounts DEF Watch
  <2>2. ASSUME NEW s \in {3, 4}, Poll(t, Call("complete", t, s, "polled")), UNCHANGED jobs  PROVE OperationInv'
    <3>1. s \in Nat /\ "polled" \in Nexts  BY DEF Nexts
    <3>. QED  BY <2>1, <2>2, <3>1, AnsweredPark
  <2>3. ASSUME Poll(t, Call("spawn", t, 0, "polled")), jobs' = jobs \cup {t}  PROVE OperationInv'
    BY <2>1, <2>3, JobPark
  <2>. QED  BY <1>2, <2>1, <2>2, <2>3 DEF Watch
<1>3. ASSUME NEW t \in Tasks, Watched(t)  PROVE OperationInv' /\ CountInv'
  <2>1. Free \in {Free} \cup Calls /\ Free.do = "run"  BY FreeFields
  <2>2. OperationInv'  BY <1>3, <2>1, ResumeStep DEF Watched
  <2>. QED  BY <1>3, <2>2, WatchedCounts
<1>4. ASSUME NEW e \in Threads, WatchCancel(e)  PROVE OperationInv' /\ CountInv'
  BY <1>4, WatchCancelStep, WatchCancelCounts
<1>5. ASSUME NEW e \in Threads, NEW b \in BOOLEAN, WatchSpawn(e, b)  PROVE OperationInv' /\ CountInv'
  BY <1>5, SpawnStep, SpawnCounts
<1>6. ASSUME NEW t \in Watchers, WatchWorker(t)  PROVE OperationInv' /\ CountInv'
  <2>1. CountInv'  BY <1>6, WorkerCounts
  <2>2. CASE WorkerCompletes(t)  BY <2>1, <2>2, WorkerCompletesStep
  <2>3. CASE (\E s \in 0 .. 2 : WorkerSees(t, s)) \/ WorkerLeaves(t)
    <3>1. UNCHANGED <<st, completed, queue, call, waiters, permit>>  BY <2>3 DEF WorkerSees, WorkerLeaves
    <3>. QED  BY <2>1, <2>3, <3>1, WorkerStep
  <2>. QED  BY <1>6, <2>2, <2>3 DEF WatchWorker
<1>7. ListsAreCounted'  BY JobsStayCounted DEF ListsAreCounted, CountInv
<1>. QED  BY <1>1, <1>2, <1>3, <1>4, <1>5, <1>6, <1>7 DEF WatchNext

LEMMA CallbackStep == CallbackInv /\ [Next]_vars => CallbackInv'
<1>. SUFFICES ASSUME TypeOK, OperationInv, CountInv, ListsAreCounted, [Next]_vars
              PROVE  TypeOK' /\ OperationInv' /\ CountInv' /\ ListsAreCounted'
  BY CallbackParts DEF CallbackInv, OperationInv, CountInv
<1>1. CASE ReactorNext /\ UNCHANGED <<bulkheadVars, watchVars>>  BY <1>1, ReactorStep
<1>2. CASE BulkheadNext /\ UNCHANGED watchVars  BY <1>2, BulkheadStep
<1>3. CASE WatchNext /\ UNCHANGED bulkheadVars  BY <1>3, WatchStep
<1>4. CASE UNCHANGED vars
  <2>1. TypeOK'  BY <1>4 DEF vars, TypeOK
  <2>2. OperationInv'
    BY <1>4 DEF vars, OperationInv, CallsStayHome, OperationsArePolled, CompletedAreQueued, WaitersAreParked,
                CallersAreListed, JobsAreWaitedFor, Queued
  <2>3. Held' = Held /\ Waiting' = Waiting /\ Leaving' = Leaving /\ \A e \in Threads : Parked(e)' = Parked(e)
    BY <1>4 DEF vars, Held, Granted, Waiting, Leaving, Parked
  <2>4. UNCHANGED <<panic, running, references, owner, handles, permit, operations, waiters>>  BY <1>4 DEF vars
  <2>5. ListsAreCounted'  BY <1>4 DEF vars, ListsAreCounted
  <2>. QED  BY <2>1, <2>2, <2>3, <2>4, <2>5, CountsStay
<1>. QED  BY <1>1, <1>2, <1>3, <1>4 DEF Next

LEMMA CallbackInvariant == Spec => []CallbackInv
<1>1. CallbackInv /\ [Next]_vars => CallbackInv'  BY CallbackStep
<1>. QED  BY <1>1, CallbackInit, PTL DEF Spec

(* The panics of reactor.c, resiliency.c and watch.c that NoPanic names    *)
(* are unreachable: an operation is completed once and before it resumes,  *)
(* a cancelled caller is still listed, the reactor closes with an empty    *)
(* list, the counts of operations, waiters, permits, references and jobs   *)
(* do not fall below zero, the bulkhead is there for whoever retains it or *)
(* gives something back, and its last reference goes when it is idle.      *)
THEOREM NothingPanics == Spec => []NoPanic
<1>1. CallbackInv => NoPanic  BY DEF CallbackInv
<1>. QED  BY <1>1, CallbackInvariant, PTL

(* fdn_bulkhead.running is the number of slots held or on their way, and   *)
(* never above max_concurrent; callers queue only at a full bulkhead.      *)
THEOREM SlotsAreNeitherLostNorDoubled == Spec => []PermitsAreCounted
<1>1. CallbackInv => PermitsAreCounted  BY DEF CallbackInv
<1>. QED  BY <1>1, CallbackInvariant, PTL

(* Whoever will complete an operation finds its task parked on it, and is  *)
(* the only one about to: the executor's threads, and the watch's.         *)
THEOREM CompletionsFindTheirTask == Spec => []WritersFindOperation
<1>1. CallbackInv => WritersFindOperation
  <2>. SUFFICES ASSUME CallbackInv  PROVE WritersFindOperation  OBVIOUS
  <2>1. \A e \in Threads : call[e].do = "complete" =>
            st[call[e].task] = "waiting" /\ ~completed[call[e].task] /\ Home(call[e].task) = e
    BY DEF CallbackInv, CallsStayHome
  <2>2. \A t \in Watchers : (worker[t] # "none" \/ t \in jobs) => st[t] = "waiting" /\ ~completed[t]
    BY DEF CallbackInv, JobsAreWaitedFor
  <2>. QED  BY <2>1, <2>2 DEF WritersFindOperation
<1>. QED  BY <1>1, CallbackInvariant, PTL
=============================================================================
