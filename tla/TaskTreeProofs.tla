--------------------------- MODULE TaskTreeProofs ---------------------------
(***************************************************************************)
(* Proofs about TaskTree, by itself and with a supervisor, for any number  *)
(* of tasks and any set of drivers.                                        *)
(***************************************************************************)
EXTENDS Supervisor, TLAPS

(* The types: a supervisor holds handles too, and its joins are calls.     *)
Frames == Calls \cup {JoinCall(TRUE), JoinCall(FALSE)}
TypeOK ==
    /\ st \in [Tasks -> TaskStates]
    /\ holder \in [Tasks -> Tasks \cup {Main, Nobody, Sup}]
    /\ cancelled \in [Tasks -> BOOLEAN]
    /\ waitingOn \in [Tasks -> Tasks \cup {Nobody}]
    /\ waiter \in [Tasks -> Tasks \cup {Nobody}]
    /\ turns \in [Tasks -> 0..MaxTurns]
    /\ queue \in Seq(Tasks) /\ stack \in Seq(Frames)

(* The inductive invariant of the tree.                                    *)
UnbornUnheld == \A t \in Tasks : st[t] = "unborn" => holder[t] = Nobody
TreeInv ==
    /\ TypeOK /\ NoReentrancy /\ WaiterHolds /\ CancellationReaches
    /\ NeverDetached /\ UnbornUnheld

-----------------------------------------------------------------------------
(* Sequences.                                                              *)

(* What the tail of a sequence is made of.                                 *)
LEMMA TailFacts ==
    ASSUME NEW S, NEW s \in Seq(S), s # <<>>
    PROVE  /\ Tail(s) \in Seq(S) /\ Head(s) \in S /\ Head(s) = s[1] /\ 1 \in DOMAIN s
           /\ \A i \in DOMAIN Tail(s) : i + 1 \in DOMAIN s /\ Tail(s)[i] = s[i + 1] /\ i + 1 # 1
           /\ \A i \in DOMAIN s : i # 1 => i - 1 \in DOMAIN Tail(s) /\ Tail(s)[i - 1] = s[i]
           /\ \A i, k \in DOMAIN Tail(s) : i + 1 = k + 1 => i = k
  OBVIOUS

(* What a sequence extended at its end is made of.                         *)
LEMMA AppendFacts ==
    ASSUME NEW S, NEW s \in Seq(S), NEW x \in S
    PROVE  /\ Append(s, x) \in Seq(S)
           /\ \A i \in DOMAIN Append(s, x) :
                 (i \in DOMAIN s /\ Append(s, x)[i] = s[i]) \/ (i = Len(s) + 1 /\ Append(s, x)[i] = x)
  OBVIOUS

(* What a sequence extended at its front is made of.                       *)
LEMMA PushFacts ==
    ASSUME NEW S, NEW s \in Seq(S), NEW x \in S
    PROVE  /\ <<x>> \o s \in Seq(S)
           /\ 1 \in DOMAIN (<<x>> \o s) /\ (<<x>> \o s)[1] = x
           /\ \A i \in DOMAIN (<<x>> \o s) : i # 1 => i - 1 \in DOMAIN s /\ (<<x>> \o s)[i] = s[i - 1]
           /\ \A i \in DOMAIN s : i + 1 \in DOMAIN (<<x>> \o s) /\ (<<x>> \o s)[i + 1] = s[i]
           /\ \A i, k \in DOMAIN (<<x>> \o s) : (i # 1 /\ k # 1 /\ i - 1 = k - 1) => i = k
  OBVIOUS

-----------------------------------------------------------------------------
(* The stack.                                                              *)

(* The fields of a call on the stack.                                      *)
LEMMA CallFacts ==
    ASSUME NEW t \in Tasks, NEW op \in {"poll", "wait", "drop", "free"}
    PROVE  Call(op, t) \in Frames /\ Call(op, t).op = op /\ Call(op, t).task = t
  BY DEF Call, Calls, Frames

(* The stack holds calls of tasks, and joins.                              *)
LEMMA StackCalls ==
    ASSUME stack \in Seq(Frames)
    PROVE  \A i \in DOMAIN stack :
              /\ stack[i] \in Frames
              /\ stack[i].op # "join" => stack[i] \in Calls /\ stack[i].task \in Tasks
              /\ stack[i].op = "join" => stack[i].task = Sup
  <1>1. \A f \in Calls : f.task \in Tasks /\ f.op # "join"
    BY DEF Calls
  <1>2. \A f \in Frames \ Calls : f.op = "join" /\ f.task = Sup
    BY DEF Frames, JoinCall
  <1>3. \A i \in DOMAIN stack : stack[i] \in Frames
    OBVIOUS
  <1> QED BY <1>1, <1>2, <1>3

(* A poll or a release is entered by a task that was in neither.           *)
LEMMA StackPush ==
    ASSUME TypeOK, StackOK, NEW x \in Tasks, NEW op \in {"poll", "wait", "drop", "free"},
           stack' = Pushed(op, x),
           \A d \in Tasks : st[d] \in {"polling", "freed"} => st'[d] = st[d],
           op = "poll" => st'[x] = "polling" /\ st[x] # "polling",
           op = "free" => st'[x] = "freed" /\ st[x] # "freed"
    PROVE  StackOK' /\ stack' \in Seq(Frames)
  <1> DEFINE f == Call(op, x)
  <1>1. f \in Frames /\ f.op = op /\ f.task = x
    BY CallFacts
  <1> HIDE DEF f
  <1>2. stack' = <<f>> \o stack /\ stack \in Seq(Frames)
    BY DEF f, Pushed, TypeOK
  <1>3. \A i \in DOMAIN stack : stack[i].op # "join" => stack[i] \in Calls /\ stack[i].task \in Tasks
    BY <1>2, StackCalls
  <1>4. \A i \in DOMAIN stack' : i # 1 => i - 1 \in DOMAIN stack /\ stack'[i] = stack[i - 1]
    BY <1>1, <1>2, PushFacts
  <1>5. stack'[1] = f /\ 1 \in DOMAIN stack' /\ stack' \in Seq(Frames)
    BY <1>1, <1>2, PushFacts
  <1>6. \A i, k \in DOMAIN stack' : (i # 1 /\ k # 1 /\ i - 1 = k - 1) => i = k
    BY <1>1, <1>2, PushFacts
  <1>7. \A i \in DOMAIN stack' : (stack'[i].op = "poll" => st'[stack'[i].task] = "polling")
                              /\ (stack'[i].op = "free" => st'[stack'[i].task] = "freed")
    BY <1>1, <1>3, <1>4, <1>5 DEF StackOK
  <1>8. ASSUME NEW i \in DOMAIN stack', NEW k \in DOMAIN stack', stack'[i] = stack'[k],
               stack'[i].op \in {"poll", "free"}
        PROVE  i = k
    <2>1. CASE i # 1 /\ k # 1
      BY <1>4, <1>6, <1>8, <2>1 DEF StackOK
    <2>2. CASE i = 1 \/ k = 1
      <3>1. ASSUME NEW m \in DOMAIN stack, stack[m] = f PROVE FALSE
        BY <1>1, <1>5, <1>8, <2>2, <3>1 DEF StackOK
      <3> QED BY <1>4, <1>5, <1>8, <2>2, <3>1
    <2> QED BY <2>1, <2>2
  <1> QED BY <1>5, <1>7, <1>8 DEF StackOK

(* A poll or a release is left.                                            *)
LEMMA StackPop ==
    ASSUME TypeOK, StackOK, NEW t \in Tasks, Innermost("poll", t) \/ Innermost("free", t),
           stack' = Tail(stack),
           \A d \in Tasks \ {t} : st[d] \in {"polling", "freed"} => st'[d] = st[d]
    PROVE  StackOK' /\ stack' \in Seq(Frames)
  <1>1. stack \in Seq(Frames) /\ stack # <<>>
    BY DEF TypeOK, Innermost
  <1>2. \A i \in DOMAIN stack : stack[i].op # "join" => stack[i] \in Calls /\ stack[i].task \in Tasks
    BY <1>1, StackCalls
  <1>3. 1 \in DOMAIN stack /\ stack[1].task = t /\ stack[1].op \in {"poll", "free"} /\ stack' \in Seq(Frames)
    BY <1>1, TailFacts, CallFacts DEF Innermost
  <1>4. \A i \in DOMAIN stack' : i + 1 \in DOMAIN stack /\ stack'[i] = stack[i + 1] /\ i + 1 # 1
    BY <1>1, TailFacts
  <1>5. \A i, k \in DOMAIN stack' : i + 1 = k + 1 => i = k
    BY <1>1, TailFacts
  <1>6. ASSUME NEW i \in DOMAIN stack, i # 1, stack[i].op \in {"poll", "free"}
        PROVE  stack[i].task # t
    <2>1. ASSUME stack[i].task = t PROVE stack[i].op = stack[1].op
      BY <1>3, <1>6, <2>1 DEF StackOK
    <2>2. ASSUME stack[i].task = t PROVE stack[i] = stack[1]
      BY <1>2, <1>3, <2>1, <2>2 DEF Calls
    <2> QED BY <1>3, <1>6, <2>2 DEF StackOK
  <1>7. \A i \in DOMAIN stack' : (stack'[i].op = "poll" => st'[stack'[i].task] = "polling")
                              /\ (stack'[i].op = "free" => st'[stack'[i].task] = "freed")
    BY <1>2, <1>4, <1>6 DEF StackOK
  <1>8. \A i, k \in DOMAIN stack' :
            (stack'[i] = stack'[k] /\ stack'[i].op \in {"poll", "free"}) => i = k
    BY <1>4, <1>5 DEF StackOK
  <1> QED BY <1>3, <1>7, <1>8 DEF StackOK

(* A step that leaves the stack and what is on it alone.                   *)
LEMMA StackSame ==
    ASSUME TypeOK, StackOK, stack' = stack,
           \A d \in Tasks : st[d] \in {"polling", "freed"} => st'[d] = st[d]
    PROVE  StackOK' /\ stack' \in Seq(Frames)
  <1>1. stack \in Seq(Frames)
    BY DEF TypeOK
  <1>2. \A i \in DOMAIN stack : stack[i].op # "join" => stack[i].task \in Tasks
    BY <1>1, StackCalls
  <1> QED BY <1>1, <1>2 DEF StackOK

(* The loop for c ends and its release begins.                             *)
LEMMA StackReturn ==
    ASSUME TypeOK, StackOK, NEW c \in Tasks, Return(c)
    PROVE  StackOK' /\ stack' \in Seq(Frames)
  <1> DEFINE f == Call("free", c)
  <1>1. f \in Frames /\ f.op = "free" /\ f.task = c
    BY CallFacts
  <1> HIDE DEF f
  <1>2. /\ stack' = <<f>> \o Tail(stack) /\ stack \in Seq(Frames) /\ stack # <<>>
        /\ st[c] = "ready" /\ st' = [st EXCEPT ![c] = "freed"] /\ st \in [Tasks -> TaskStates]
    BY DEF f, Return, Innermost, TypeOK
  <1>3. \A i \in DOMAIN stack : stack[i].op # "join" => stack[i] \in Calls /\ stack[i].task \in Tasks
    BY <1>2, StackCalls
  <1>4. /\ Tail(stack) \in Seq(Frames)
        /\ \A i \in DOMAIN Tail(stack) : i + 1 \in DOMAIN stack /\ Tail(stack)[i] = stack[i + 1]
        /\ \A i, k \in DOMAIN Tail(stack) : i + 1 = k + 1 => i = k
    BY <1>2, TailFacts
  <1>5. \A i \in DOMAIN Tail(stack) :
           /\ Tail(stack)[i].op # "join" => Tail(stack)[i].task \in Tasks
           /\ Tail(stack)[i].op = "poll" => st[Tail(stack)[i].task] = "polling"
           /\ Tail(stack)[i].op = "free" => st[Tail(stack)[i].task] = "freed"
    BY <1>3, <1>4 DEF StackOK
  <1>6. \A i, k \in DOMAIN Tail(stack) :
           (Tail(stack)[i] = Tail(stack)[k] /\ Tail(stack)[i].op \in {"poll", "free"}) => i = k
    BY <1>4 DEF StackOK
  <1>7. /\ stack'[1] = f /\ stack' \in Seq(Frames)
        /\ \A i \in DOMAIN stack' : i # 1 => i - 1 \in DOMAIN Tail(stack) /\ stack'[i] = Tail(stack)[i - 1]
        /\ \A i, k \in DOMAIN stack' : (i # 1 /\ k # 1 /\ i - 1 = k - 1) => i = k
    BY <1>1, <1>2, <1>4, PushFacts
  <1>8. \A i \in DOMAIN stack' : (stack'[i].op = "poll" => st'[stack'[i].task] = "polling")
                              /\ (stack'[i].op = "free" => st'[stack'[i].task] = "freed")
    BY <1>1, <1>2, <1>5, <1>7
  <1>9. ASSUME NEW i \in DOMAIN stack', NEW k \in DOMAIN stack', stack'[i] = stack'[k],
               stack'[i].op \in {"poll", "free"}
        PROVE  i = k
    <2>1. ASSUME NEW m \in DOMAIN Tail(stack), Tail(stack)[m] = f PROVE FALSE
      BY <1>1, <1>2, <1>5, <2>1
    <2>2. CASE i = 1 \/ k = 1
      BY <1>7, <1>9, <2>1, <2>2
    <2>3. CASE i # 1 /\ k # 1
      BY <1>6, <1>7, <1>9, <2>3
    <2> QED BY <2>2, <2>3
  <1> QED BY <1>7, <1>8, <1>9 DEF StackOK

-----------------------------------------------------------------------------
(* The queue.                                                              *)

(* A queue that keeps its elements or gains a task not in it.              *)
LEMMA QueueGrows ==
    ASSUME TypeOK, QueueOK, queue' \in Seq(Tasks),
           \A i \in DOMAIN queue' :
              \/ i \in DOMAIN queue /\ queue'[i] = queue[i]
              \/ i = Len(queue) + 1 /\ st[queue'[i]] # "queued" /\ st'[queue'[i]] = "queued",
           \A d \in Tasks : st[d] = "queued" => st'[d] = "queued"
    PROVE  QueueOK'
  <1>1. \A i \in DOMAIN queue : queue[i] \in Tasks
    BY DEF TypeOK
  <1> QED BY <1>1 DEF QueueOK

(* One task that was not queued is queued.                                 *)
LEMMA QueueAppend ==
    ASSUME TypeOK, QueueOK, NEW x \in Tasks, queue' = Append(queue, x),
           st[x] # "queued", st'[x] = "queued",
           \A d \in Tasks : st[d] = "queued" => st'[d] = "queued"
    PROVE  QueueOK' /\ queue' \in Seq(Tasks)
  <1>1. /\ queue' \in Seq(Tasks)
        /\ \A i \in DOMAIN queue' :
              (i \in DOMAIN queue /\ queue'[i] = queue[i]) \/ (i = Len(queue) + 1 /\ queue'[i] = x)
    BY AppendFacts DEF TypeOK
  <1> QED BY <1>1, QueueGrows

(* A step that leaves the queue alone.                                     *)
LEMMA QueueSame ==
    ASSUME TypeOK, QueueOK, queue' = queue,
           \A d \in Tasks : st[d] = "queued" => st'[d] = "queued"
    PROVE  QueueOK' /\ queue' \in Seq(Tasks)
  BY QueueGrows DEF TypeOK

(* The tasks a cancellation or a completion wakes are queued.              *)
LEMMA QueueEnqueued ==
    ASSUME TypeOK, QueueOK, NEW S \in SUBSET Tasks, queue' = Enqueued(S),
           \A d \in S : st[d] # "queued" /\ st'[d] = "queued",
           \A d \in Tasks : st[d] = "queued" => st'[d] = "queued"
    PROVE  QueueOK' /\ queue' \in Seq(Tasks)
  <1>1. CASE S = {}
    BY <1>1, QueueSame DEF Enqueued
  <1>2. CASE S # {}
    <2>1. PICK x \in S : x = CHOOSE d \in S : TRUE
      BY <1>2
    <2>2. queue' = Append(queue, x)
      BY <1>2, <2>1 DEF Enqueued
    <2> QED BY <2>2, QueueAppend
  <1> QED BY <1>1, <1>2

-----------------------------------------------------------------------------
(* Waiting and cancellation.                                               *)

(* A step that leaves the links between waiters alone.                     *)
LEMMA WaitSame ==
    ASSUME WaiterHolds, UNCHANGED <<waitingOn, waiter>>,
           \A t \in Tasks : st'[t] = "waiting" <=> st[t] = "waiting",
           \A c \in Tasks : waiter[c] # Nobody => holder'[c] = holder[c],
           waiter \in [Tasks -> Tasks \cup {Nobody}]
    PROVE  WaiterHolds'
  BY DEF WaiterHolds

(* The walk ends where everything reached is cancelled.                    *)
LEMMA WalkFacts ==
    ASSUME TypeOK, NEW c \in Tasks
    PROVE  /\ CancelWalk(c) \subseteq Tasks
           /\ cancelled[c] \/ c \in CancelWalk(c)
           /\ \A d \in CancelWalk(c) :
                 waitingOn[d] # Nobody => cancelled[waitingOn[d]] \/ waitingOn[d] \in CancelWalk(c)
  <1>1. CancelWalk(c) \subseteq Tasks
    BY DEF CancelWalk
  <1>2. cancelled[c] \/ c \in CancelWalk(c)
    BY DEF CancelWalk, Walked
  <1>3. ASSUME NEW d \in CancelWalk(c), waitingOn[d] # Nobody, ~cancelled[waitingOn[d]]
        PROVE  waitingOn[d] \in CancelWalk(c)
    <2>1. waitingOn[d] \in Tasks
      BY <1>1, <1>3 DEF TypeOK
    <2>2. ASSUME NEW S \in SUBSET Tasks, Walked(c, S) PROVE waitingOn[d] \in S
      BY <1>3, <2>2 DEF CancelWalk, Walked
    <2> QED BY <2>1, <2>2 DEF CancelWalk
  <1> QED BY <1>1, <1>2, <1>3

(* A cancellation keeps the cancelled tasks closed under waiting_on.       *)
LEMMA CancelFacts ==
    ASSUME TypeOK, CancellationReaches, NEW c \in Tasks, cancelled' = CancelledBy(c)
    PROVE  /\ cancelled' \in [Tasks -> BOOLEAN]
           /\ cancelled'[c]
           /\ \A d \in Tasks : cancelled[d] => cancelled'[d]
           /\ \A d \in Tasks : (cancelled'[d] /\ waitingOn[d] # Nobody) => cancelled'[waitingOn[d]]
  <1> DEFINE W == CancelWalk(c)
  <1>1. /\ W \subseteq Tasks /\ (cancelled[c] \/ c \in W)
        /\ \A d \in W : waitingOn[d] # Nobody => cancelled[waitingOn[d]] \/ waitingOn[d] \in W
    BY WalkFacts
  <1> HIDE DEF W
  <1>2. cancelled' = [d \in Tasks |-> cancelled[d] \/ d \in W]
    BY DEF W, CancelledBy
  <1>3. \A d \in Tasks : waitingOn[d] # Nobody => waitingOn[d] \in Tasks
    BY DEF TypeOK
  <1>4. \A d \in Tasks : cancelled'[d] <=> (cancelled[d] \/ d \in W)
    BY <1>2
  <1>5. cancelled' \in [Tasks -> BOOLEAN]
    BY <1>2 DEF TypeOK
  <1> QED BY <1>1, <1>3, <1>4, <1>5 DEF CancellationReaches

(* What the interruption of parked tasks changes.                          *)
LEMMA WokenFacts ==
    ASSUME TypeOK, NEW S \in SUBSET Tasks,
           \A d \in S : st[d] \in {"parked", "waiting"}
    PROVE  /\ Woken(S) \in [Tasks -> TaskStates]
           /\ \A d \in Tasks : Woken(S)[d] = IF d \in S THEN "queued" ELSE st[d]
  BY DEF Woken, TypeOK, TaskStates

(* Only parked tasks are interrupted by a cancellation.                    *)
LEMMA InterruptedFacts ==
    ASSUME NEW c \in Tasks, NEW now \in BOOLEAN
    PROVE  Interrupted(c, now) \in SUBSET Tasks /\ \A d \in Interrupted(c, now) : st[d] = "parked"
  BY DEF Interrupted, CancelWalk

-----------------------------------------------------------------------------
(* Holders.                                                                *)

(* A step that ends no task and no join, and moves handles to the live.    *)
LEMMA Detach ==
    ASSUME NeverDetached,
           \A t \in Tasks : Live(t) => Live(t)',
           \A t \in Tasks : Joined(t) => Joined(t)',
           \A t \in Tasks : Live(t)' =>
              \/ Live(t) /\ holder'[t] = holder[t]
              \/ holder'[t] = Main
              \/ (holder[t] \in Tasks /\ Live(holder[t]))'
              \/ Joined(t)'
    PROVE  NeverDetached'
  <1> SUFFICES ASSUME NEW t \in Tasks, Live(t)'
               PROVE  \/ holder'[t] \notin Tasks \cup {Nobody}
                      \/ (holder[t] \in Tasks /\ Live(holder[t]))'
                      \/ Joined(t)'
    BY DEF NeverDetached
  <1>1. CASE Live(t) /\ holder'[t] = holder[t]
    <2>1. \/ holder[t] \notin Tasks \cup {Nobody}
          \/ holder[t] \in Tasks /\ Live(holder[t])
          \/ Joined(t)
      BY <1>1 DEF NeverDetached
    <2>2. ASSUME holder[t] \in Tasks, Live(holder[t]) PROVE (holder[t] \in Tasks /\ Live(holder[t]))'
      BY <1>1, <2>2 DEF Live
    <2> QED BY <1>1, <2>1, <2>2
  <1> QED BY <1>1, NamesAssumption

(* Entering a call keeps the joins on the stack.                           *)
LEMMA JoinedPush ==
    ASSUME TypeOK, NEW x \in Tasks, NEW op \in {"poll", "wait", "drop", "free"},
           stack' = Pushed(op, x)
    PROVE  /\ \A t \in Tasks : Joined(t) => Joined(t)'
           /\ op # "poll" => Joined(x)'
  <1> DEFINE f == Call(op, x)
  <1>1. f \in Frames /\ f.op = op /\ f.task = x
    BY CallFacts
  <1> HIDE DEF f
  <1>2. stack' = <<f>> \o stack /\ stack \in Seq(Frames)
    BY DEF f, Pushed, TypeOK
  <1>3. /\ 1 \in DOMAIN stack' /\ stack'[1] = f
        /\ \A i \in DOMAIN stack : i + 1 \in DOMAIN stack' /\ stack'[i + 1] = stack[i]
    BY <1>1, <1>2, PushFacts
  <1>4. ASSUME NEW t \in Tasks, Joined(t) PROVE Joined(t)'
    <2>1. PICK i \in DOMAIN stack : stack[i].op # "poll" /\ stack[i].task = t
      BY <1>4 DEF Joined
    <2>2. i + 1 \in DOMAIN stack' /\ stack'[i + 1].op # "poll" /\ stack'[i + 1].task = t
      BY <1>3, <2>1
    <2> QED BY <2>2 DEF Joined
  <1>5. op # "poll" => Joined(x)'
    BY <1>1, <1>3 DEF Joined
  <1> QED BY <1>4, <1>5

(* Leaving a call keeps the joins of every other task.                     *)
LEMMA JoinedPop ==
    ASSUME TypeOK, stack # <<>>, stack' = Tail(stack), NEW t \in Tasks, Joined(t),
           Head(stack).op = "poll" \/ Head(stack).task # t
    PROVE  Joined(t)'
  <1>1. PICK i \in DOMAIN stack : stack[i].op # "poll" /\ stack[i].task = t
    BY DEF Joined
  <1>2. /\ Head(stack) = stack[1]
        /\ \A k \in DOMAIN stack : k # 1 => k - 1 \in DOMAIN stack' /\ stack'[k - 1] = stack[k]
    BY TailFacts DEF TypeOK
  <1>3. i - 1 \in DOMAIN stack' /\ stack'[i - 1] = stack[i]
    BY <1>1, <1>2
  <1> QED BY <1>1, <1>3 DEF Joined

(* A step that leaves the stack alone keeps its joins.                     *)
LEMMA JoinedSame ==
    ASSUME stack' = stack
    PROVE  \A t \in Tasks : Joined(t) => Joined(t)'
  BY DEF Joined

-----------------------------------------------------------------------------
(* The steps.                                                              *)

(* Who runs is no task that waits, and is live.                            *)
LEMMA RunsFacts ==
    ASSUME TreeInv, NEW a \in Tasks \cup {Main}, Runs(a)
    PROVE  a = Main \/ (a \in Tasks /\ st[a] = "polling" /\ Innermost("poll", a))
  <1>1. ASSUME Innermost("poll", a), a # Main PROVE a \in Tasks /\ st[a] = "polling"
    <2>1. a \in Tasks /\ stack # <<>> /\ Head(stack) = Call("poll", a) /\ stack \in Seq(Frames)
      BY <1>1 DEF Innermost, TreeInv, TypeOK
    <2>2. stack[1] = Call("poll", a) /\ 1 \in DOMAIN stack
      BY <2>1, TailFacts
    <2> QED BY <2>1, <2>2, CallFacts DEF TreeInv, NoReentrancy, StackOK
  <1> QED BY <1>1 DEF Runs

(* The state of the task whose call is innermost.                          *)
LEMMA InnermostFacts ==
    ASSUME TreeInv, NEW t \in Tasks
    PROVE  /\ Innermost("poll", t) => st[t] = "polling"
           /\ Innermost("free", t) => st[t] = "freed"
           /\ \A op \in {"poll", "wait", "drop", "free"} :
                 Innermost(op, t) => stack # <<>> /\ Head(stack).op = op /\ Head(stack).task = t
  <1>1. ASSUME NEW op \in {"poll", "wait", "drop", "free"}, Innermost(op, t)
        PROVE  /\ stack # <<>> /\ Head(stack).op = op /\ Head(stack).task = t
               /\ 1 \in DOMAIN stack /\ stack[1].op = op /\ stack[1].task = t
    <2>1. stack # <<>> /\ Head(stack) = Call(op, t) /\ stack \in Seq(Frames)
      BY <1>1 DEF Innermost, TreeInv, TypeOK
    <2>2. stack[1] = Call(op, t) /\ 1 \in DOMAIN stack
      BY <2>1, TailFacts
    <2> QED BY <2>1, <2>2, CallFacts
  <1> QED BY <1>1 DEF TreeInv, NoReentrancy, StackOK

(* fdn_task_spawn keeps the invariant.                                     *)
LEMMA SpawnStep ==
    ASSUME TreeInv, NEW a \in Tasks \cup {Main}, NEW c \in Tasks, NEW given \in SUBSET Held(a),
           Spawn(a, c, given)
    PROVE  TreeInv'
  <1> USE NamesAssumption DEF TreeInv, NoReentrancy
  <1>1. /\ Runs(a) /\ st[c] = "unborn" /\ st' = [st EXCEPT ![c] = "queued"]
        /\ queue' = Append(queue, c)
        /\ UNCHANGED <<cancelled, waitingOn, waiter, turns, stack>>
        /\ holder' = [d \in Tasks |-> IF d = c THEN a ELSE IF d \in given THEN c ELSE holder[d]]
    BY DEF Spawn
  <1>2. a = Main \/ (a \in Tasks /\ st[a] = "polling")
    BY <1>1, RunsFacts
  <1>3. \A d \in Tasks : st'[d] = IF d = c THEN "queued" ELSE st[d]
    BY <1>1 DEF TypeOK
  <1>4. QueueOK' /\ queue' \in Seq(Tasks)
    BY <1>1, <1>3, QueueAppend
  <1>5. StackOK' /\ stack' \in Seq(Frames)
    BY <1>1, <1>3, StackSame
  <1>6. TypeOK'
    BY <1>1, <1>4, <1>5 DEF TypeOK, TaskStates
  <1>7. ASSUME NEW d \in Tasks, waiter[d] # Nobody PROVE holder'[d] = holder[d]
    <2>1. holder[d] \in Tasks /\ st[holder[d]] = "waiting"
      BY <1>7 DEF WaiterHolds, TypeOK
    <2>2. holder[d] # a
      BY <1>2, <2>1
    <2>3. d # c
      BY <1>1, <2>1 DEF UnbornUnheld
    <2> QED BY <1>1, <2>2, <2>3 DEF Held
  <1>8. WaiterHolds'
    BY <1>1, <1>3, <1>7, WaitSame DEF TypeOK
  <1>9. CancellationReaches'
    BY <1>1 DEF CancellationReaches
  <1>10. \A t \in Tasks : Live(t) => Live(t)'
    BY <1>3 DEF Live
  <1>11. ASSUME NEW t \in Tasks, Live(t)'
         PROVE  \/ Live(t) /\ holder'[t] = holder[t]
                \/ holder'[t] = Main
                \/ (holder[t] \in Tasks /\ Live(holder[t]))'
    <2>1. CASE t = c
      BY <1>1, <1>2, <1>3, <2>1 DEF Live
    <2>2. CASE t # c /\ t \in given
      BY <1>1, <1>3, <2>2 DEF Live
    <2>3. CASE t # c /\ t \notin given
      BY <1>1, <1>3, <1>11, <2>3 DEF Live
    <2> QED BY <2>1, <2>2, <2>3
  <1>12. NeverDetached'
    BY <1>1, <1>10, <1>11, JoinedSame, Detach
  <1>13. UnbornUnheld'
    BY <1>1, <1>3 DEF UnbornUnheld, Held
  <1> QED BY <1>4, <1>5, <1>6, <1>8, <1>9, <1>12, <1>13

(* fdn_task_drop, fdn_task_wait and the drops of a release: the handle     *)
(* goes to a call on the stack.                                            *)
LEMMA JoinStep ==
    ASSUME TreeInv, NEW c \in Tasks, NEW op \in {"wait", "drop"}, NEW S \in SUBSET Tasks,
           \A d \in S : st[d] = "parked", waiter[c] = Nobody,
           cancelled' = CancelledBy(c) \/ cancelled' = cancelled,
           st' = Woken(S), queue' = Enqueued(S), stack' = Pushed(op, c),
           holder' = [holder EXCEPT ![c] = Nobody],
           UNCHANGED <<waitingOn, waiter, turns>>
    PROVE  TreeInv'
  <1> USE NamesAssumption DEF TreeInv, NoReentrancy
  <1>1. /\ st' \in [Tasks -> TaskStates]
        /\ \A d \in Tasks : st'[d] = IF d \in S THEN "queued" ELSE st[d]
    BY WokenFacts
  <1>2. \A d \in Tasks : st[d] \in {"polling", "freed", "queued"} => st'[d] = st[d]
    BY <1>1
  <1>3. QueueOK' /\ queue' \in Seq(Tasks)
    BY <1>1, <1>2, QueueEnqueued
  <1>4. StackOK' /\ stack' \in Seq(Frames)
    BY <1>2, StackPush
  <1>5. cancelled' \in [Tasks -> BOOLEAN] /\ CancellationReaches'
    BY CancelFacts DEF CancellationReaches, TypeOK
  <1>6. TypeOK'
    BY <1>1, <1>3, <1>4, <1>5 DEF TypeOK
  <1>7. WaiterHolds'
    <2>1. \A d \in Tasks : waiter[d] # Nobody => holder'[d] = holder[d]
      BY DEF TypeOK
    <2> QED BY <1>1, <2>1, WaitSame DEF TypeOK
  <1>8. NeverDetached'
    <2>1. \A t \in Tasks : Joined(t) => Joined(t)'
      BY JoinedPush
    <2>2. Joined(c)'
      BY JoinedPush
    <2>3. \A t \in Tasks : Live(t)' <=> Live(t)
      BY <1>1 DEF Live
    <2>4. \A t \in Tasks : t # c => holder'[t] = holder[t]
      BY DEF TypeOK
    <2> QED BY <2>1, <2>2, <2>3, <2>4, Detach
  <1>9. UnbornUnheld'
    BY <1>1 DEF UnbornUnheld, TypeOK
  <1> QED BY <1>3, <1>4, <1>5, <1>6, <1>7, <1>8, <1>9

(* fdn_task_drop and fdn_task_wait keep the invariant.                     *)
LEMMA DropStep ==
    ASSUME TreeInv, NEW a \in Tasks \cup {Main}, NEW c \in Tasks, NEW now \in BOOLEAN,
           Drop(a, c, now) \/ Wait(a, c, now)
    PROVE  TreeInv'
  <1>1. Runs(a) /\ holder[c] = a
    BY DEF Drop, Wait, Held
  <1>2. a = Main \/ (a \in Tasks /\ st[a] = "polling")
    BY <1>1, RunsFacts
  <1>3. waiter[c] = Nobody
    BY <1>1, <1>2, NamesAssumption DEF TreeInv, WaiterHolds, TypeOK
  <1>4. CASE Drop(a, c, now)
    <2> DEFINE S == Interrupted(c, now)
    <2>1. S \in SUBSET Tasks /\ \A d \in S : st[d] = "parked"
      BY InterruptedFacts
    <2>2. /\ cancelled' = CancelledBy(c) /\ st' = Woken(S) /\ queue' = Enqueued(S)
          /\ stack' = Pushed("drop", c) /\ holder' = [holder EXCEPT ![c] = Nobody]
          /\ UNCHANGED <<waitingOn, waiter, turns>>
      BY <1>4 DEF Drop
    <2> HIDE DEF S
    <2> QED BY <1>3, <2>1, <2>2, JoinStep
  <1>5. CASE Wait(a, c, now)
    <2> DEFINE S == IF Inherits(a) THEN Interrupted(c, now) ELSE {}
    <2>1. S \in SUBSET Tasks /\ \A d \in S : st[d] = "parked"
      BY InterruptedFacts
    <2>2. /\ cancelled' = CancelledBy(c) \/ cancelled' = cancelled
          /\ st' = Woken(S) /\ queue' = Enqueued(S)
          /\ stack' = Pushed("wait", c) /\ holder' = [holder EXCEPT ![c] = Nobody]
          /\ UNCHANGED <<waitingOn, waiter, turns>>
      BY <1>5 DEF Wait
    <2> HIDE DEF S
    <2> QED BY <1>3, <2>1, <2>2, JoinStep
  <1> QED BY <1>4, <1>5

(* Dropping a handle of a frame keeps the invariant.                       *)
LEMMA DropHeldStep ==
    ASSUME TreeInv, NEW t \in Tasks, NEW c \in Tasks, NEW now \in BOOLEAN, DropHeld(t, c, now)
    PROVE  TreeInv'
  <1> DEFINE S == Interrupted(c, now)
  <1>1. Innermost("free", t) /\ holder[c] = t
    BY DEF DropHeld, Held
  <1>2. st[t] = "freed"
    BY <1>1, InnermostFacts
  <1>3. waiter[c] = Nobody
    BY <1>1, <1>2, NamesAssumption DEF TreeInv, WaiterHolds, TypeOK
  <1>4. S \in SUBSET Tasks /\ \A d \in S : st[d] = "parked"
    BY InterruptedFacts
  <1>5. /\ cancelled' = CancelledBy(c) /\ st' = Woken(S) /\ queue' = Enqueued(S)
        /\ stack' = Pushed("drop", c) /\ holder' = [holder EXCEPT ![c] = Nobody]
        /\ UNCHANGED <<waitingOn, waiter, turns>>
    BY DEF DropHeld
  <1> HIDE DEF S
  <1> QED BY <1>3, <1>4, <1>5, JoinStep

(* fdn_task_poll_wait suspends the task on a child it holds.               *)
LEMMA PollWaitStep ==
    ASSUME TreeInv, NEW t \in Tasks, NEW c \in Tasks, NEW now \in BOOLEAN, PollWait(t, c, now)
    PROVE  TreeInv'
  <1> DEFINE S == IF Inherits(t) THEN Interrupted(c, now) ELSE {}
  <1> USE NamesAssumption DEF TreeInv, NoReentrancy
  <1>1. /\ Innermost("poll", t) /\ holder[c] = t
        /\ st' = [Woken(S) EXCEPT ![t] = "waiting"] /\ queue' = Enqueued(S)
        /\ cancelled' = IF Inherits(t) THEN CancelledBy(c) ELSE cancelled
        /\ waitingOn' = [waitingOn EXCEPT ![t] = c] /\ waiter' = [waiter EXCEPT ![c] = t]
        /\ stack' = Tail(stack) /\ UNCHANGED <<holder, turns>>
    BY DEF PollWait, Held
  <1>2. S \in SUBSET Tasks /\ \A d \in S : st[d] = "parked"
    BY InterruptedFacts
  <1> HIDE DEF S
  <1>3. st[t] = "polling" /\ t \notin S /\ stack # <<>> /\ Head(stack).op = "poll"
    BY <1>1, <1>2, InnermostFacts
  <1>4. Woken(S) \in [Tasks -> TaskStates] /\ \A d \in Tasks : Woken(S)[d] = IF d \in S THEN "queued" ELSE st[d]
    BY <1>2, WokenFacts
  <1>5. /\ st' \in [Tasks -> TaskStates] /\ st'[t] = "waiting"
        /\ \A d \in Tasks : d # t => st'[d] = IF d \in S THEN "queued" ELSE st[d]
    BY <1>1, <1>4 DEF TaskStates
  <1>6. QueueOK' /\ queue' \in Seq(Tasks)
    <2>1. \A d \in S : st[d] # "queued" /\ st'[d] = "queued"
      BY <1>2, <1>3, <1>5
    <2>2. \A d \in Tasks : st[d] = "queued" => st'[d] = "queued"
      BY <1>2, <1>3, <1>5
    <2> QED BY <1>1, <1>2, <2>1, <2>2, QueueEnqueued
  <1>7. StackOK' /\ stack' \in Seq(Frames)
    BY <1>1, <1>2, <1>5, StackPop
  <1>8. /\ cancelled' \in [Tasks -> BOOLEAN]
        /\ \A d \in Tasks : (cancelled'[d] /\ waitingOn[d] # Nobody) => cancelled'[waitingOn[d]]
        /\ cancelled'[t] => cancelled'[c]
    <2>1. CASE Inherits(t)
      BY <1>1, <2>1, CancelFacts
    <2>2. CASE ~Inherits(t)
      BY <1>1, <2>2 DEF Inherits, CancellationReaches, TypeOK
    <2> QED BY <2>1, <2>2
  <1>9. CancellationReaches'
    BY <1>1, <1>8 DEF CancellationReaches, TypeOK
  <1>10. TypeOK'
    BY <1>1, <1>5, <1>6, <1>7, <1>8 DEF TypeOK
  <1>11. WaiterHolds'
    <2>1. waiter[c] = Nobody /\ waitingOn[t] = Nobody
      BY <1>1, <1>3 DEF WaiterHolds, TypeOK
    <2>2. \A d \in Tasks : waiter'[d] = IF d = c THEN t ELSE waiter[d]
      BY <1>1 DEF TypeOK
    <2>3. \A d \in Tasks : waitingOn'[d] = IF d = t THEN c ELSE waitingOn[d]
      BY <1>1 DEF TypeOK
    <2>4. \A d \in Tasks : waiter[d] # t
      BY <1>3 DEF WaiterHolds
    <2>5. \A d \in Tasks : waitingOn[d] # c
      BY <2>1 DEF WaiterHolds
    <2>6. \A d \in Tasks : waiter'[d] # Nobody =>
             waitingOn'[waiter'[d]] = d /\ holder'[d] = waiter'[d] /\ st'[waiter'[d]] = "waiting"
      <3> SUFFICES ASSUME NEW d \in Tasks, waiter'[d] # Nobody
                   PROVE  waitingOn'[waiter'[d]] = d /\ holder'[d] = waiter'[d] /\ st'[waiter'[d]] = "waiting"
        OBVIOUS
      <3>1. CASE d = c
        BY <1>1, <1>5, <2>2, <2>3, <3>1
      <3>2. CASE d # c
        <4>1. waiter'[d] = waiter[d] /\ waiter[d] \in Tasks /\ waiter[d] # t
          BY <2>2, <2>4, <3>2 DEF TypeOK
        <4>2. waitingOn[waiter[d]] = d /\ holder[d] = waiter[d] /\ st[waiter[d]] = "waiting"
          BY <4>1 DEF WaiterHolds
        <4> QED BY <1>1, <1>2, <1>5, <2>3, <4>1, <4>2
      <3> QED BY <3>1, <3>2
    <2>7. \A d \in Tasks : waitingOn'[d] # Nobody <=> st'[d] = "waiting"
      BY <1>2, <1>5, <2>3 DEF WaiterHolds
    <2>8. \A d \in Tasks : waitingOn'[d] # Nobody => waiter'[waitingOn'[d]] = d
      BY <2>2, <2>3, <2>5 DEF WaiterHolds, TypeOK
    <2> QED BY <2>6, <2>7, <2>8 DEF WaiterHolds
  <1>12. NeverDetached'
    <2>1. \A d \in Tasks : Joined(d) => Joined(d)'
      BY <1>1, <1>3, JoinedPop
    <2>2. \A d \in Tasks : Live(d)' <=> Live(d)
      BY <1>2, <1>3, <1>5 DEF Live
    <2> QED BY <1>1, <2>1, <2>2, Detach
  <1>13. UnbornUnheld'
    BY <1>1, <1>5 DEF UnbornUnheld
  <1> QED BY <1>6, <1>7, <1>9, <1>10, <1>11, <1>12, <1>13

(* The poll of a ready task's handle, and the end of a driving loop: the   *)
(* release begins.                                                         *)
LEMMA FreeStep ==
    ASSUME TreeInv, NEW t \in Tasks, NEW c \in Tasks, PollWaitReady(t, c)
    PROVE  TreeInv'
  <1> USE NamesAssumption DEF TreeInv, NoReentrancy
  <1>1. /\ Innermost("poll", t) /\ holder[c] = t /\ st[c] = "ready"
        /\ holder' = [holder EXCEPT ![c] = Nobody] /\ st' = [st EXCEPT ![c] = "freed"]
        /\ stack' = Pushed("free", c)
        /\ UNCHANGED <<cancelled, waitingOn, waiter, turns, queue>>
    BY DEF PollWaitReady, Held
  <1>2. \A d \in Tasks : st'[d] = IF d = c THEN "freed" ELSE st[d]
    BY <1>1 DEF TypeOK
  <1>3. StackOK' /\ stack' \in Seq(Frames)
    BY <1>1, <1>2, StackPush
  <1>4. QueueOK' /\ queue' \in Seq(Tasks)
    BY <1>1, <1>2, QueueSame
  <1>5. TypeOK'
    BY <1>1, <1>3, <1>4 DEF TypeOK, TaskStates
  <1>6. waiter[c] = Nobody
    <2>1. st[t] = "polling"
      BY <1>1, InnermostFacts
    <2> QED BY <1>1, <2>1 DEF WaiterHolds, TypeOK
  <1>7. WaiterHolds'
    <2>1. \A d \in Tasks : waiter[d] # Nobody => holder'[d] = holder[d]
      BY <1>1, <1>6 DEF TypeOK
    <2> QED BY <1>1, <1>2, <2>1, WaitSame DEF TypeOK
  <1>8. CancellationReaches'
    BY <1>1 DEF CancellationReaches
  <1>9. NeverDetached'
    <2>1. \A d \in Tasks : Joined(d) => Joined(d)'
      BY <1>1, JoinedPush
    <2>2. Joined(c)'
      BY <1>1, JoinedPush
    <2>3. \A d \in Tasks : Live(d)' <=> Live(d)
      BY <1>1, <1>2 DEF Live
    <2>4. \A d \in Tasks : d # c => holder'[d] = holder[d]
      BY <1>1 DEF TypeOK
    <2> QED BY <2>1, <2>2, <2>3, <2>4, Detach
  <1>10. UnbornUnheld'
    BY <1>1, <1>2 DEF UnbornUnheld, TypeOK
  <1> QED BY <1>3, <1>4, <1>5, <1>7, <1>8, <1>9, <1>10

(* The end of fdn_task_run_until keeps the invariant.                      *)
LEMMA ReturnStep ==
    ASSUME TreeInv, NEW c \in Tasks, Return(c)
    PROVE  TreeInv'
  <1> USE NamesAssumption DEF TreeInv, NoReentrancy
  <1> DEFINE f == Call("free", c)
  <1>1. /\ Innermost("wait", c) \/ Innermost("drop", c)
        /\ st' = [st EXCEPT ![c] = "freed"] /\ stack' = <<f>> \o Tail(stack)
        /\ UNCHANGED <<holder, cancelled, waitingOn, waiter, turns, queue>>
    BY DEF Return
  <1>2. st[c] = "ready" /\ \A d \in Tasks : st'[d] = IF d = c THEN "freed" ELSE st[d]
    BY DEF Return, TypeOK
  <1>3. StackOK' /\ stack' \in Seq(Frames)
    BY StackReturn
  <1>4. QueueOK' /\ queue' \in Seq(Tasks)
    BY <1>1, <1>2, QueueSame
  <1>5. TypeOK'
    BY <1>1, <1>3, <1>4 DEF TypeOK, TaskStates
  <1>6. WaiterHolds'
    BY <1>1, <1>2, WaitSame DEF TypeOK
  <1>7. CancellationReaches'
    BY <1>1 DEF CancellationReaches
  <1>8. NeverDetached'
    <2>1. f \in Frames /\ f.op = "free" /\ f.task = c
      BY CallFacts
    <2>2. stack # <<>> /\ Head(stack).task = c
      BY <1>1, InnermostFacts
    <2> HIDE DEF f
    <2>3. /\ Tail(stack) \in Seq(Frames) /\ Head(stack) = stack[1]
          /\ \A k \in DOMAIN stack : k # 1 =>
                k - 1 \in DOMAIN Tail(stack) /\ Tail(stack)[k - 1] = stack[k]
      BY <2>2, TailFacts DEF TypeOK
    <2>4. /\ 1 \in DOMAIN stack' /\ stack'[1] = f
          /\ \A i \in DOMAIN Tail(stack) : i + 1 \in DOMAIN stack' /\ stack'[i + 1] = Tail(stack)[i]
      BY <1>1, <2>1, <2>3, PushFacts
    <2>5. Joined(c)'
      BY <2>1, <2>4 DEF Joined
    <2>6. ASSUME NEW d \in Tasks, Joined(d) PROVE Joined(d)'
      <3>1. PICK i \in DOMAIN stack : stack[i].op # "poll" /\ stack[i].task = d
        BY <2>6 DEF Joined
      <3>2. CASE i = 1
        BY <2>2, <2>3, <2>5, <3>1, <3>2
      <3>3. CASE i # 1
        <4>1. i - 1 \in DOMAIN Tail(stack) /\ Tail(stack)[i - 1] = stack[i]
          BY <2>3, <3>3
        <4>2. (i - 1) + 1 \in DOMAIN stack' /\ stack'[(i - 1) + 1] = stack[i]
          BY <2>4, <4>1
        <4> QED BY <3>1, <4>2 DEF Joined
      <3> QED BY <3>2, <3>3
    <2>7. \A d \in Tasks : Live(d)' <=> Live(d)
      BY <1>2 DEF Live
    <2> QED BY <1>1, <2>6, <2>7, Detach
  <1>9. UnbornUnheld'
    BY <1>1, <1>2 DEF UnbornUnheld
  <1> QED BY <1>3, <1>4, <1>5, <1>6, <1>7, <1>8, <1>9

(* fdn_task_release of a task whose frame holds nothing keeps it.          *)
LEMMA ReleaseStep ==
    ASSUME TreeInv, NEW t \in Tasks, Release(t)
    PROVE  TreeInv'
  <1> USE NamesAssumption DEF TreeInv, NoReentrancy
  <1>1. /\ Innermost("free", t) /\ Held(t) = {}
        /\ st' = [st EXCEPT ![t] = "released"] /\ stack' = Tail(stack)
        /\ UNCHANGED <<holder, cancelled, waitingOn, waiter, turns, queue>>
    BY DEF Release, FrameDropped
  <1>2. st[t] = "freed" /\ stack # <<>> /\ Head(stack).task = t
    BY <1>1, InnermostFacts
  <1>3. \A d \in Tasks : st'[d] = IF d = t THEN "released" ELSE st[d]
    BY <1>1 DEF TypeOK
  <1>4. StackOK' /\ stack' \in Seq(Frames)
    BY <1>1, <1>3, StackPop
  <1>5. QueueOK' /\ queue' \in Seq(Tasks)
    BY <1>1, <1>2, <1>3, QueueSame
  <1>6. TypeOK'
    BY <1>1, <1>4, <1>5 DEF TypeOK, TaskStates
  <1>7. WaiterHolds'
    BY <1>1, <1>2, <1>3, WaitSame DEF TypeOK
  <1>8. CancellationReaches'
    BY <1>1 DEF CancellationReaches
  <1>9. NeverDetached'
    <2> SUFFICES ASSUME NEW d \in Tasks, Live(d)'
                 PROVE  \/ holder'[d] \notin Tasks \cup {Nobody}
                        \/ (holder[d] \in Tasks /\ Live(holder[d]))'
                        \/ Joined(d)'
      BY DEF NeverDetached
    <2>1. d # t /\ Live(d)
      BY <1>3 DEF Live
    <2>2. CASE Joined(d)
      BY <1>1, <1>2, <2>1, <2>2, JoinedPop
    <2>3. CASE holder[d] \notin Tasks \cup {Nobody}
      BY <1>1, <2>3
    <2>4. CASE holder[d] \in Tasks /\ Live(holder[d])
      BY <1>1, <1>3, <2>4 DEF Held, Live
    <2> QED BY <2>1, <2>2, <2>3, <2>4 DEF NeverDetached
  <1>10. UnbornUnheld'
    BY <1>1, <1>3 DEF UnbornUnheld
  <1> QED BY <1>4, <1>5, <1>6, <1>7, <1>8, <1>9, <1>10

(* The poll returns pending: the task yields or parks.                     *)
LEMMA PendingStep ==
    ASSUME TreeInv, NEW t \in Tasks, Yield(t) \/ Park(t)
    PROVE  TreeInv'
  <1> USE NamesAssumption DEF TreeInv, NoReentrancy
  <1>1. /\ Innermost("poll", t) /\ stack' = Tail(stack)
        /\ turns[t] < MaxTurns /\ turns' = [turns EXCEPT ![t] = @ + 1]
        /\ UNCHANGED <<holder, cancelled, waitingOn, waiter>>
        /\ \/ st' = [st EXCEPT ![t] = "queued"] /\ queue' = Append(queue, t)
           \/ st' = [st EXCEPT ![t] = "parked"] /\ queue' = queue
    BY DEF Yield, Park
  <1>2. st[t] = "polling" /\ stack # <<>> /\ Head(stack).op = "poll"
    BY <1>1, InnermostFacts
  <1>3. /\ \A d \in Tasks : d # t => st'[d] = st[d]
        /\ st'[t] \in {"queued", "parked"}
        /\ st' \in [Tasks -> TaskStates]
    BY <1>1 DEF TypeOK, TaskStates
  <1>4. StackOK' /\ stack' \in Seq(Frames)
    BY <1>1, <1>3, StackPop
  <1>5. QueueOK' /\ queue' \in Seq(Tasks)
    <2>1. CASE st' = [st EXCEPT ![t] = "queued"] /\ queue' = Append(queue, t)
      <3>1. st'[t] = "queued"
        BY <2>1 DEF TypeOK
      <3> QED BY <1>2, <1>3, <2>1, <3>1, QueueAppend
    <2>2. CASE queue' = queue
      BY <1>2, <1>3, <2>2, QueueSame
    <2> QED BY <1>1, <2>1, <2>2
  <1>6. turns' \in [Tasks -> 0..MaxTurns]
    BY <1>1, MaxTurnsAssumption DEF TypeOK
  <1>7. TypeOK'
    BY <1>1, <1>3, <1>4, <1>5, <1>6 DEF TypeOK
  <1>8. WaiterHolds'
    BY <1>1, <1>2, <1>3, WaitSame DEF TypeOK
  <1>9. CancellationReaches'
    BY <1>1 DEF CancellationReaches
  <1>10. NeverDetached'
    <2>1. \A d \in Tasks : Joined(d) => Joined(d)'
      BY <1>1, <1>2, JoinedPop
    <2>2. \A d \in Tasks : Live(d)' <=> Live(d)
      BY <1>2, <1>3 DEF Live
    <2> QED BY <1>1, <2>1, <2>2, Detach
  <1>11. UnbornUnheld'
    BY <1>1, <1>3 DEF UnbornUnheld
  <1> QED BY <1>4, <1>5, <1>7, <1>8, <1>9, <1>10, <1>11

(* The poll returns ready: the waiter, if there is one, is queued.         *)
LEMMA ReadyStep ==
    ASSUME TreeInv, NEW t \in Tasks, Ready(t)
    PROVE  TreeInv'
  <1> DEFINE S == Waiters(t)
  <1> USE NamesAssumption DEF TreeInv, NoReentrancy
  <1>1. /\ Innermost("poll", t) /\ st' = [Woken(S) EXCEPT ![t] = "ready"] /\ queue' = Enqueued(S)
        /\ waitingOn' = [d \in Tasks |-> IF d \in S THEN Nobody ELSE waitingOn[d]]
        /\ waiter' = [waiter EXCEPT ![t] = Nobody] /\ stack' = Tail(stack)
        /\ UNCHANGED <<holder, cancelled, turns>>
    BY DEF Ready, Unlinked
  <1>2. /\ S \in SUBSET Tasks
        /\ \A d \in S : d = waiter[t] /\ waitingOn[d] = t /\ st[d] = "waiting"
        /\ waiter[t] # Nobody => waiter[t] \in S
    BY DEF Waiters, WaiterHolds, TypeOK
  <1> HIDE DEF S
  <1>3. st[t] = "polling" /\ t \notin S /\ stack # <<>> /\ Head(stack).op = "poll"
    BY <1>1, <1>2, InnermostFacts
  <1>4. Woken(S) \in [Tasks -> TaskStates] /\ \A d \in Tasks : Woken(S)[d] = IF d \in S THEN "queued" ELSE st[d]
    BY <1>2, WokenFacts
  <1>5. /\ st' \in [Tasks -> TaskStates] /\ st'[t] = "ready"
        /\ \A d \in Tasks : d # t => st'[d] = IF d \in S THEN "queued" ELSE st[d]
    BY <1>1, <1>4 DEF TaskStates
  <1>6. QueueOK' /\ queue' \in Seq(Tasks)
    <2>1. \A d \in S : st[d] # "queued" /\ st'[d] = "queued"
      BY <1>2, <1>3, <1>5
    <2>2. \A d \in Tasks : st[d] = "queued" => st'[d] = "queued"
      BY <1>2, <1>3, <1>5
    <2> QED BY <1>1, <1>2, <2>1, <2>2, QueueEnqueued
  <1>7. StackOK' /\ stack' \in Seq(Frames)
    BY <1>1, <1>2, <1>5, StackPop
  <1>8. waitingOn' \in [Tasks -> Tasks \cup {Nobody}]
    BY <1>1 DEF TypeOK
  <1>9. TypeOK'
    BY <1>1, <1>5, <1>6, <1>7, <1>8 DEF TypeOK
  <1>10. \A d \in Tasks : waitingOn'[d] = IF d \in S THEN Nobody ELSE waitingOn[d]
    BY <1>1
  <1>11. CancellationReaches'
    BY <1>1, <1>10 DEF CancellationReaches
  <1>12. WaiterHolds'
    <2>1. \A d \in Tasks : waiter'[d] = IF d = t THEN Nobody ELSE waiter[d]
      BY <1>1 DEF TypeOK
    <2>2. \A d \in Tasks : waitingOn[d] = t => d \in S
      BY <1>2 DEF WaiterHolds
    <2>3. ASSUME NEW d \in Tasks, waiter'[d] # Nobody
          PROVE  waitingOn'[waiter'[d]] = d /\ holder'[d] = waiter'[d] /\ st'[waiter'[d]] = "waiting"
      <3>1. d # t /\ waiter'[d] = waiter[d] /\ waiter[d] \in Tasks
        BY <2>1, <2>3 DEF TypeOK
      <3>2. waitingOn[waiter[d]] = d /\ holder[d] = waiter[d] /\ st[waiter[d]] = "waiting"
        BY <3>1, <2>3 DEF WaiterHolds
      <3>3. waiter[d] \notin S /\ waiter[d] # t
        BY <1>2, <1>3, <3>1, <3>2
      <3> QED BY <1>1, <1>5, <1>10, <3>1, <3>2, <3>3
    <2>4. \A d \in Tasks : waitingOn'[d] # Nobody <=> st'[d] = "waiting"
      BY <1>2, <1>3, <1>5, <1>10 DEF WaiterHolds
    <2>5. \A d \in Tasks : waitingOn'[d] # Nobody => waiter'[waitingOn'[d]] = d
      BY <1>10, <2>1, <2>2 DEF WaiterHolds, TypeOK
    <2> QED BY <2>3, <2>4, <2>5 DEF WaiterHolds
  <1>13. NeverDetached'
    <2>1. \A d \in Tasks : Joined(d) => Joined(d)'
      BY <1>1, <1>3, JoinedPop
    <2>2. \A d \in Tasks : Live(d)' <=> Live(d)
      BY <1>2, <1>3, <1>5 DEF Live
    <2> QED BY <1>1, <2>1, <2>2, Detach
  <1>14. UnbornUnheld'
    BY <1>1, <1>5 DEF UnbornUnheld
  <1> QED BY <1>6, <1>7, <1>9, <1>11, <1>12, <1>13, <1>14

(* Polling the oldest queued task keeps it.                                *)
LEMMA RunOneStep ==
    ASSUME TreeInv, RunOne
    PROVE  TreeInv'
  <1> DEFINE h == Head(queue)
  <1> USE NamesAssumption DEF TreeInv, NoReentrancy
  <1>1. /\ queue # <<>> /\ queue \in Seq(Tasks) /\ st' = [st EXCEPT ![h] = "polling"]
        /\ stack' = Pushed("poll", h) /\ queue' = Tail(queue)
        /\ UNCHANGED <<holder, cancelled, waitingOn, waiter, turns>>
    BY DEF RunOne, TypeOK
  <1>2. h \in Tasks /\ 1 \in DOMAIN queue /\ h = queue[1] /\ queue' \in Seq(Tasks)
    BY <1>1, TailFacts
  <1>3. /\ \A i \in DOMAIN queue' : i + 1 \in DOMAIN queue /\ queue'[i] = queue[i + 1] /\ i + 1 # 1
        /\ \A i, k \in DOMAIN queue' : i + 1 = k + 1 => i = k
    BY <1>1, TailFacts
  <1> HIDE DEF h
  <1>4. st[h] = "queued" /\ \A d \in Tasks : st'[d] = IF d = h THEN "polling" ELSE st[d]
    BY <1>1, <1>2 DEF QueueOK, TypeOK
  <1>5. QueueOK'
    <2>1. \A i \in DOMAIN queue' : queue'[i] # h /\ queue'[i] \in Tasks /\ st[queue'[i]] = "queued"
      BY <1>1, <1>2, <1>3 DEF QueueOK
    <2>2. \A i, k \in DOMAIN queue' : queue'[i] = queue'[k] => i = k
      BY <1>3 DEF QueueOK
    <2> QED BY <1>4, <2>1, <2>2 DEF QueueOK
  <1>6. StackOK' /\ stack' \in Seq(Frames)
    BY <1>1, <1>2, <1>4, StackPush
  <1>7. TypeOK'
    BY <1>1, <1>2, <1>6 DEF TypeOK, TaskStates
  <1>8. WaiterHolds'
    BY <1>1, <1>4, WaitSame DEF TypeOK
  <1>9. CancellationReaches'
    BY <1>1 DEF CancellationReaches
  <1>10. NeverDetached'
    <2>1. \A d \in Tasks : Joined(d) => Joined(d)'
      BY <1>1, <1>2, JoinedPush
    <2>2. \A d \in Tasks : Live(d)' <=> Live(d)
      BY <1>4 DEF Live
    <2> QED BY <1>1, <2>1, <2>2, Detach
  <1>11. UnbornUnheld'
    BY <1>1, <1>4 DEF UnbornUnheld
  <1> QED BY <1>5, <1>6, <1>7, <1>8, <1>9, <1>10, <1>11

(* Waking a parked task keeps it.                                          *)
LEMMA WakeStep ==
    ASSUME TreeInv, NEW t \in Tasks, Wake(t)
    PROVE  TreeInv'
  <1> USE NamesAssumption DEF TreeInv, NoReentrancy
  <1>1. /\ st[t] = "parked" /\ st' = [st EXCEPT ![t] = "queued"] /\ queue' = Append(queue, t)
        /\ UNCHANGED <<holder, cancelled, waitingOn, waiter, turns, stack>>
    BY DEF Wake
  <1>2. \A d \in Tasks : st'[d] = IF d = t THEN "queued" ELSE st[d]
    BY <1>1 DEF TypeOK
  <1>3. QueueOK' /\ queue' \in Seq(Tasks)
    BY <1>1, <1>2, QueueAppend
  <1>4. StackOK' /\ stack' \in Seq(Frames)
    BY <1>1, <1>2, StackSame
  <1>5. TypeOK'
    BY <1>1, <1>3, <1>4 DEF TypeOK, TaskStates
  <1>6. WaiterHolds'
    BY <1>1, <1>2, WaitSame DEF TypeOK
  <1>7. CancellationReaches'
    BY <1>1 DEF CancellationReaches
  <1>8. NeverDetached'
    <2>1. \A d \in Tasks : Live(d)' <=> Live(d)
      BY <1>1, <1>2 DEF Live
    <2> QED BY <1>1, <2>1, JoinedSame, Detach
  <1>9. UnbornUnheld'
    BY <1>1, <1>2 DEF UnbornUnheld
  <1> QED BY <1>3, <1>4, <1>5, <1>6, <1>7, <1>8, <1>9

-----------------------------------------------------------------------------
(* The invariant.                                                          *)

(* No tasks, nothing to violate.                                           *)
LEMMA InitInv == Init => TreeInv
  <1> SUFFICES ASSUME Init PROVE TreeInv
    OBVIOUS
  <1> USE NamesAssumption, MaxTurnsAssumption
  <1>1. cancelled \in [Tasks -> BOOLEAN]
    BY Zenon DEF Init
  <1>2. turns \in [Tasks -> 0..MaxTurns] /\ queue \in Seq(Tasks) /\ stack \in Seq(Frames)
    BY DEF Init
  <1>3. TypeOK
    BY <1>1, <1>2 DEF Init, TypeOK, TaskStates
  <1>4. NoReentrancy
    BY DEF Init, NoReentrancy, StackOK, QueueOK
  <1>5. WaiterHolds
    BY DEF Init, WaiterHolds
  <1>6. CancellationReaches
    BY DEF Init, CancellationReaches
  <1>7. NeverDetached
    BY DEF Init, NeverDetached, Live
  <1>8. UnbornUnheld
    BY DEF Init, UnbornUnheld
  <1> QED BY <1>3, <1>4, <1>5, <1>6, <1>7, <1>8 DEF TreeInv

(* Every step keeps the invariant.                                         *)
LEMMA StepInv ==
    ASSUME TreeInv, [Next]_vars
    PROVE  TreeInv'
  <1>1. CASE UNCHANGED vars
    BY <1>1 DEF vars, TreeInv, TypeOK, NoReentrancy, StackOK, QueueOK, WaiterHolds,
                CancellationReaches, NeverDetached, Live, Joined, UnbornUnheld
  <1>2. ASSUME NEW a \in Tasks \cup {Main}, Running(a) PROVE TreeInv'
    BY <1>2, SpawnStep, DropStep DEF Running
  <1>3. ASSUME NEW t \in Tasks, Polling(t) PROVE TreeInv'
    BY <1>3, FreeStep, PollWaitStep, PendingStep, ReadyStep DEF Polling
  <1>4. CASE Executor
    BY <1>4, RunOneStep, WakeStep, ReturnStep, ReleaseStep, DropHeldStep DEF Executor
  <1> QED BY <1>1, <1>2, <1>3, <1>4 DEF Next

(* fdn_task_request_cancellation stops at the first cancelled task; what a *)
(* cancelled task waits on is nevertheless always cancelled.               *)
THEOREM CancellationIsTransitive == Spec => []CancellationReaches
  <1>1. TreeInv => CancellationReaches
    BY DEF TreeInv
  <1> QED BY <1>1, InitInv, StepInv, PTL DEF Spec

(* The links of fdn_task_poll_wait and fdn_task_wake_waiter agree with the *)
(* ownership of handles, so none of their panics is reached.               *)
THEOREM WaitersHoldHandles == Spec => []WaiterHolds
  <1>1. TreeInv => WaiterHolds
    BY DEF TreeInv
  <1> QED BY <1>1, InitInv, StepInv, PTL DEF Spec

(* fdn_task_release drops what the frame holds before the task goes: no    *)
(* task is ever detached.                                                  *)
THEOREM TasksAreNeverDetached == Spec => []NeverDetached
  <1>1. TreeInv => NeverDetached
    BY DEF TreeInv
  <1> QED BY <1>1, InitInv, StepInv, PTL DEF Spec

(* However deep fdn_task_run_until nests, no poll is entered twice and no  *)
(* task is queued twice.                                                   *)
THEOREM PollsAreNotReentered == Spec => []NoReentrancy
  <1>1. TreeInv => NoReentrancy
    BY DEF TreeInv
  <1> QED BY <1>1, InitInv, StepInv, PTL DEF Spec

-----------------------------------------------------------------------------
(* The supervisor: its inductive invariant.                                *)
SupTypeOK ==
    /\ sup \in [state : {"open", "closed", "released"}, owner : Tasks \cup {Main, Nobody}, adopted : Seq(Tasks)]
    /\ join \in [task : Tasks \cup {Nobody}, cancel : BOOLEAN, current : Tasks \cup {Nobody}, entered : BOOLEAN]

(* Who is held has not been released; who is being joined is held by       *)
(* nobody, and joined by one call.                                         *)
HeldAreLive == \A c \in Tasks : holder[c] # Nobody => Live(c)
JoinedAreOut ==
    /\ \A i \in DOMAIN stack : stack[i].op \notin {"poll", "join"} =>
          holder[stack[i].task] = Nobody /\ Live(stack[i].task)
    /\ \A i, k \in DOMAIN stack :
          stack[i].op # "poll" /\ stack[k].op # "poll" /\ stack[i].task = stack[k].task => i = k

(* The supervisor holds what it adopted, each once.                        *)
Adopted(c) == \E i \in DOMAIN sup.adopted : sup.adopted[i] = c
AdoptedInv ==
    /\ \A c \in Tasks : holder[c] = Sup <=> Adopted(c)
    /\ \A i, k \in DOMAIN sup.adopted : sup.adopted[i] = sup.adopted[k] => i = k

(* Who looks after it: its owner, then the one call or the one task that   *)
(* joins.                                                                  *)
InPlace(cancel) == \E i \in DOMAIN stack : stack[i] = JoinCall(cancel)
Ended == {"ready", "freed", "released"}
Under == {"queued", "polling", "waiting", "parked"}
OwnerInv ==
    /\ sup.state = "open" => /\ sup.owner = Main \/ (sup.owner \in Tasks /\ Live(sup.owner))
                             /\ join.task = Nobody /\ ~join.cancel /\ ~InPlace(TRUE) /\ ~InPlace(FALSE)
    /\ sup.state = "closed" =>
          \/ sup.owner = Nobody /\ join.task = Nobody /\ (InPlace(TRUE) \/ InPlace(FALSE))
          \/ /\ sup.owner = join.task /\ join.task \in Tasks /\ st[join.task] \in Under
             /\ ~InPlace(TRUE) /\ ~InPlace(FALSE)
    /\ sup.state = "released" => /\ sup.adopted = <<>> /\ ~InPlace(TRUE) /\ ~InPlace(FALSE)
                                 /\ join.task \in Tasks => st[join.task] \in Ended
    /\ join.current # Nobody => sup.state = "closed" /\ join.task \in Tasks

(* Who cancels has cancelled them all.                                     *)
CancelInv ==
    join.cancel \/ InPlace(TRUE) =>
        /\ \A c \in Tasks : Adopted(c) => cancelled[c]
        /\ join.current # Nobody => cancelled[join.current]

SideInv == TreeInv /\ HeldAreLive /\ JoinedAreOut
SupInv == SideInv /\ SupTypeOK /\ AdoptedInv /\ OwnerInv /\ CancelInv

(* What a step of the tree means to a supervisor, when it releases the     *)
(* tasks of gone and completes those of done.                              *)
Effect(gone, done) ==
    /\ HeldAreLive' /\ JoinedAreOut'
    /\ \A b \in BOOLEAN : InPlace(b)' <=> InPlace(b)
    /\ \A d \in Tasks : /\ cancelled[d] => cancelled'[d]
                        /\ st[d] \in Ended => st'[d] \in Ended
                        /\ Live(d) => Live(d)' \/ d \in gone
                        /\ st[d] \in Under => st'[d] \in Under \/ d \in done
KeepsAdopted == \A d \in Tasks : holder'[d] = Sup <=> holder[d] = Sup

-----------------------------------------------------------------------------
(* The joins on the stack.                                                 *)

(* The fields of a join in place.                                          *)
LEMMA JoinCallFacts ==
    \A b \in BOOLEAN : /\ JoinCall(b) \in Frames /\ JoinCall(b).op = "join"
                        /\ JoinCall(b).task = Sup /\ JoinCall(b).cancel = b
  BY DEF JoinCall, Frames

(* A call is entered.                                                      *)
LEMMA PushSide ==
    ASSUME TypeOK, JoinedAreOut, NEW f \in Frames, stack' = <<f>> \o stack,
           \A d \in Tasks : Live(d) /\ holder[d] = Nobody => Live(d)' /\ holder'[d] = Nobody,
           f.op \notin {"poll", "join"} => Live(f.task)' /\ holder'[f.task] = Nobody,
           f.op # "poll" => \A i \in DOMAIN stack : stack[i].op # "poll" => stack[i].task # f.task
    PROVE  JoinedAreOut' /\ \A b \in BOOLEAN : InPlace(b)' <=> (InPlace(b) \/ f = JoinCall(b))
  <1>1. stack \in Seq(Frames)
    BY DEF TypeOK
  <1>2. /\ 1 \in DOMAIN stack' /\ stack'[1] = f
        /\ \A i \in DOMAIN stack' : i # 1 => i - 1 \in DOMAIN stack /\ stack'[i] = stack[i - 1]
        /\ \A i \in DOMAIN stack : i + 1 \in DOMAIN stack' /\ stack'[i + 1] = stack[i]
        /\ \A i, k \in DOMAIN stack' : (i # 1 /\ k # 1 /\ i - 1 = k - 1) => i = k
    BY <1>1, PushFacts
  <1>3. \A i \in DOMAIN stack : stack[i].op # "join" => stack[i].task \in Tasks
    BY <1>1, StackCalls
  <1>4. \A i \in DOMAIN stack' : stack'[i].op \notin {"poll", "join"} =>
           holder'[stack'[i].task] = Nobody /\ st'[stack'[i].task] \notin {"unborn", "released"}
    <2>. SUFFICES ASSUME NEW i \in DOMAIN stack', stack'[i].op \notin {"poll", "join"}
                  PROVE  holder'[stack'[i].task] = Nobody /\ st'[stack'[i].task] \notin {"unborn", "released"}
      OBVIOUS
    <2>1. CASE i = 1
      <3>1. stack'[i] = f
        BY <1>2, <2>1
      <3>. QED  BY <3>1 DEF Live
    <2>2. CASE i # 1
      <3>1. i - 1 \in DOMAIN stack /\ stack'[i] = stack[i - 1]
        BY <1>2, <2>2
      <3>2. PICK d \in Tasks : d = stack'[i].task /\ holder[d] = Nobody /\ Live(d)
        BY <1>3, <3>1 DEF JoinedAreOut
      <3>3. holder'[d] = Nobody /\ Live(d)'
        BY <3>2
      <3>. QED  BY <3>2, <3>3 DEF Live
    <2>. QED  BY <2>1, <2>2
  <1>5. \A i, k \in DOMAIN stack' :
           stack'[i].op # "poll" /\ stack'[k].op # "poll" /\ stack'[i].task = stack'[k].task => i = k
    BY <1>2 DEF JoinedAreOut
  <1>6. \A b \in BOOLEAN : InPlace(b)' <=> (InPlace(b) \/ f = JoinCall(b))
    <2>. TAKE b \in BOOLEAN
    <2>. DEFINE g == JoinCall(b)
    <2>1. InPlace(b) <=> \E i \in DOMAIN stack : stack[i] = g
      BY DEF InPlace
    <2>2. InPlace(b)' <=> \E i \in DOMAIN stack' : stack'[i] = g
      BY DEF InPlace, JoinCall
    <2>. HIDE DEF g
    <2>3. ASSUME NEW i \in DOMAIN stack', stack'[i] = g  PROVE (\E k \in DOMAIN stack : stack[k] = g) \/ f = g
      BY <1>2, <2>3
    <2>4. ASSUME NEW i \in DOMAIN stack, stack[i] = g  PROVE \E k \in DOMAIN stack' : stack'[k] = g
      BY <1>2, <2>4
    <2>5. f = g => \E k \in DOMAIN stack' : stack'[k] = g
      BY <1>2
    <2>. QED  BY <2>1, <2>2, <2>3, <2>4, <2>5 DEF g
  <1>7. JoinedAreOut'
    BY <1>4, <1>5 DEF JoinedAreOut, Live
  <1>. QED  BY <1>6, <1>7

(* A call is left.                                                         *)
LEMMA PopSide ==
    ASSUME TypeOK, JoinedAreOut, stack # <<>>, stack' = Tail(stack),
           \A d \in Tasks : Live(d) /\ holder[d] = Nobody /\ ~(Head(stack).op # "poll" /\ Head(stack).task = d)
                               => Live(d)' /\ holder'[d] = Nobody
    PROVE  /\ JoinedAreOut'
           /\ \A b \in BOOLEAN : /\ InPlace(b)' => InPlace(b)
                                 /\ Head(stack).op # "join" => (InPlace(b)' <=> InPlace(b))
                                 /\ Head(stack).op = "join" => ~InPlace(b)'
  <1>1. stack \in Seq(Frames)
    BY DEF TypeOK
  <1>2. /\ 1 \in DOMAIN stack /\ stack[1] = Head(stack)
        /\ \A i \in DOMAIN stack' : i + 1 \in DOMAIN stack /\ stack'[i] = stack[i + 1] /\ i + 1 # 1
        /\ \A i \in DOMAIN stack : i # 1 => i - 1 \in DOMAIN stack' /\ stack'[i - 1] = stack[i]
        /\ \A i, k \in DOMAIN stack' : i + 1 = k + 1 => i = k
    BY <1>1, TailFacts
  <1>3. \A i \in DOMAIN stack : /\ stack[i].op # "join" => stack[i].task \in Tasks
                                /\ stack[i].op = "join" => stack[i].task = Sup
    BY <1>1, StackCalls
  <1>4. \A i \in DOMAIN stack' : stack'[i].op \notin {"poll", "join"} =>
           holder'[stack'[i].task] = Nobody /\ st'[stack'[i].task] \notin {"unborn", "released"}
    <2>. SUFFICES ASSUME NEW i \in DOMAIN stack', stack'[i].op \notin {"poll", "join"}
                  PROVE  holder'[stack'[i].task] = Nobody /\ st'[stack'[i].task] \notin {"unborn", "released"}
      OBVIOUS
    <2>1. i + 1 \in DOMAIN stack /\ stack'[i] = stack[i + 1] /\ i + 1 # 1
      BY <1>2
    <2>2. PICK d \in Tasks : d = stack'[i].task /\ holder[d] = Nobody /\ Live(d)
      BY <1>3, <2>1 DEF JoinedAreOut
    <2>3. ~(Head(stack).op # "poll" /\ Head(stack).task = d)
      BY <1>2, <2>1, <2>2 DEF JoinedAreOut
    <2>4. holder'[d] = Nobody /\ Live(d)'
      BY <2>2, <2>3
    <2>. QED  BY <2>2, <2>4 DEF Live
  <1>5. \A i, k \in DOMAIN stack' :
           stack'[i].op # "poll" /\ stack'[k].op # "poll" /\ stack'[i].task = stack'[k].task => i = k
    BY <1>2 DEF JoinedAreOut
  <1>6. ASSUME NEW b \in BOOLEAN
        PROVE  /\ InPlace(b)' => InPlace(b)
               /\ Head(stack).op # "join" => (InPlace(b)' <=> InPlace(b))
               /\ Head(stack).op = "join" => ~InPlace(b)'
    <2>. DEFINE g == JoinCall(b)
    <2>1. InPlace(b) <=> \E i \in DOMAIN stack : stack[i] = g
      BY DEF InPlace
    <2>2. InPlace(b)' <=> \E i \in DOMAIN stack' : stack'[i] = g
      BY DEF InPlace, JoinCall
    <2>3. g.op = "join" /\ g.task = Sup
      BY JoinCallFacts
    <2>. HIDE DEF g
    <2>4. (\E i \in DOMAIN stack' : stack'[i] = g) => \E i \in DOMAIN stack : stack[i] = g
      BY <1>2
    <2>5. ASSUME Head(stack).op # "join", NEW i \in DOMAIN stack, stack[i] = g
          PROVE  \E k \in DOMAIN stack' : stack'[k] = g
      BY <1>2, <2>3, <2>5
    <2>6. Head(stack).op = "join" => ~\E i \in DOMAIN stack' : stack'[i] = g
      <3>. SUFFICES ASSUME Head(stack).op = "join", NEW i \in DOMAIN stack', stack'[i] = g  PROVE FALSE
        OBVIOUS
      <3>1. i + 1 \in DOMAIN stack /\ stack[i + 1] = g /\ i + 1 # 1
        BY <1>2
      <3>2. stack[1].op = "join" /\ stack[1].task = Sup
        BY <1>2, <1>3
      <3>. QED  BY <1>2, <2>3, <3>1, <3>2 DEF JoinedAreOut
    <2>. QED  BY <2>1, <2>2, <2>4, <2>5, <2>6
  <1>7. JoinedAreOut'
    BY <1>4, <1>5 DEF JoinedAreOut, Live
  <1>. QED  BY <1>6, <1>7

(* The stack stays as it is.                                               *)
LEMMA SameSide ==
    ASSUME TypeOK, JoinedAreOut, stack' = stack,
           \A d \in Tasks : Live(d) /\ holder[d] = Nobody => Live(d)' /\ holder'[d] = Nobody
    PROVE  JoinedAreOut' /\ \A b \in BOOLEAN : InPlace(b)' <=> InPlace(b)
  <1>1. \A i \in DOMAIN stack : stack[i].op # "join" => stack[i].task \in Tasks
    BY StackCalls DEF TypeOK
  <1>2. \A i \in DOMAIN stack : stack[i].op \notin {"poll", "join"} =>
           holder'[stack[i].task] = Nobody /\ st'[stack[i].task] \notin {"unborn", "released"}
    <2>. SUFFICES ASSUME NEW i \in DOMAIN stack, stack[i].op \notin {"poll", "join"}
                  PROVE  holder'[stack[i].task] = Nobody /\ st'[stack[i].task] \notin {"unborn", "released"}
      OBVIOUS
    <2>1. PICK d \in Tasks : d = stack[i].task /\ holder[d] = Nobody /\ Live(d)
      BY <1>1 DEF JoinedAreOut
    <2>2. holder'[d] = Nobody /\ Live(d)'
      BY <2>1
    <2>. QED  BY <2>1, <2>2 DEF Live
  <1>3. \A i \in DOMAIN stack' : stack'[i].op \notin {"poll", "join"} =>
           holder'[stack'[i].task] = Nobody /\ st'[stack'[i].task] \notin {"unborn", "released"}
    BY <1>2 DEF Live
  <1>4. JoinedAreOut'
    BY <1>3 DEF JoinedAreOut, Live
  <1>5. \A b \in BOOLEAN : InPlace(b)' <=> InPlace(b)
    BY DEF InPlace, JoinCall
  <1>. QED  BY <1>4, <1>5

(* A held task is joined by no call.                                       *)
LEMMA HeldIsNotJoined ==
    ASSUME TypeOK, JoinedAreOut, NEW c \in Tasks, holder[c] # Nobody
    PROVE  \A i \in DOMAIN stack : stack[i].op # "poll" => stack[i].task # c
  <1>1. \A i \in DOMAIN stack : stack[i].op = "join" => stack[i].task = Sup
    BY StackCalls DEF TypeOK
  <1>. QED  BY <1>1, SupAssumption DEF JoinedAreOut

(* fdn_task_spawn.                                                         *)
LEMMA SpawnEffect ==
    ASSUME SideInv, NEW a \in Tasks \cup {Main}, NEW c \in Tasks, NEW given \in SUBSET Held(a),
           Spawn(a, c, given)
    PROVE  Effect({}, {}) /\ KeepsAdopted
  <1>. USE NamesAssumption, SupAssumption
  <1>1. /\ st[c] = "unborn" /\ st' = [st EXCEPT ![c] = "queued"]
        /\ UNCHANGED <<cancelled, stack>>
        /\ holder' = [d \in Tasks |-> IF d = c THEN a ELSE IF d \in given THEN c ELSE holder[d]]
    BY DEF Spawn
  <1>2. TypeOK /\ HeldAreLive /\ JoinedAreOut
    BY DEF SideInv, TreeInv
  <1>3. \A d \in Tasks : st'[d] = IF d = c THEN "queued" ELSE st[d]
    BY <1>1, <1>2 DEF TypeOK
  <1>4. \A d \in Tasks : holder'[d] = IF d = c THEN a ELSE IF d \in given THEN c ELSE holder[d]
    BY <1>1
  <1>5. holder[c] = Nobody /\ \A d \in given : holder[d] = a
    BY <1>1, <1>2 DEF HeldAreLive, Live, Held
  <1>6. HeldAreLive'
    BY <1>2, <1>3, <1>4, <1>5 DEF HeldAreLive, Live
  <1>7. \A d \in Tasks : Live(d) /\ holder[d] = Nobody => Live(d)' /\ holder'[d] = Nobody
    BY <1>1, <1>3, <1>4, <1>5 DEF Live
  <1>8. JoinedAreOut' /\ \A b \in BOOLEAN : InPlace(b)' <=> InPlace(b)
    BY <1>1, <1>2, <1>7, SameSide
  <1>9. KeepsAdopted
    BY <1>4, <1>5 DEF KeepsAdopted
  <1>10. \A d \in Tasks : /\ cancelled[d] => cancelled'[d]
                          /\ st[d] \in Ended => st'[d] \in Ended
                          /\ Live(d) => Live(d)'
                          /\ st[d] \in Under => st'[d] \in Under
    BY <1>1, <1>3 DEF Ended, Under, Live
  <1>. QED  BY <1>6, <1>8, <1>9, <1>10 DEF Effect

(* A handle goes to a call on the stack.                                   *)
LEMMA JoinEffect ==
    ASSUME SideInv, NEW c \in Tasks, NEW op \in {"wait", "drop"}, NEW S \in SUBSET Tasks,
           \A d \in S : st[d] = "parked", holder[c] # Nobody,
           cancelled' = CancelledBy(c) \/ cancelled' = cancelled,
           st' = Woken(S), stack' = Pushed(op, c), holder' = [holder EXCEPT ![c] = Nobody]
    PROVE  Effect({}, {}) /\ \A d \in Tasks : holder'[d] = IF d = c THEN Nobody ELSE holder[d]
  <1>. USE NamesAssumption, SupAssumption
  <1>1. TreeInv /\ TypeOK /\ CancellationReaches /\ HeldAreLive /\ JoinedAreOut
    BY DEF SideInv, TreeInv
  <1>2. \A d \in Tasks : st'[d] = IF d \in S THEN "queued" ELSE st[d]
    BY <1>1, WokenFacts
  <1>3. \A d \in Tasks : holder'[d] = IF d = c THEN Nobody ELSE holder[d]
    BY <1>1 DEF TypeOK
  <1>4. \A d \in Tasks : Live(d) => Live(d)'
    BY <1>2 DEF Live
  <1>5. HeldAreLive'
    BY <1>1, <1>3, <1>4 DEF HeldAreLive
  <1>6. Live(c)' /\ holder'[c] = Nobody
    BY <1>1, <1>3, <1>4 DEF HeldAreLive
  <1>. DEFINE f == Call(op, c)
  <1>7. f \in Frames /\ f.op = op /\ f.task = c /\ stack' = <<f>> \o stack
    BY CallFacts DEF Pushed
  <1>8. \A i \in DOMAIN stack : stack[i].op # "poll" => stack[i].task # f.task
    BY <1>1, <1>7, HeldIsNotJoined
  <1>9. \A b \in BOOLEAN : f # JoinCall(b)
    BY <1>7, JoinCallFacts
  <1>10. /\ \A d \in Tasks : Live(d) /\ holder[d] = Nobody => Live(d)' /\ holder'[d] = Nobody
         /\ f.op \notin {"poll", "join"} => Live(f.task)' /\ holder'[f.task] = Nobody
    BY <1>3, <1>4, <1>6, <1>7
  <1>. HIDE DEF f
  <1>11. JoinedAreOut' /\ \A b \in BOOLEAN : InPlace(b)' <=> InPlace(b)
    BY <1>1, <1>7, <1>8, <1>9, <1>10, PushSide
  <1>12. \A d \in Tasks : cancelled[d] => cancelled'[d]
    BY <1>1, CancelFacts
  <1>13. \A d \in Tasks : /\ st[d] \in Ended => st'[d] \in Ended
                          /\ st[d] \in Under => st'[d] \in Under
    BY <1>2 DEF Ended, Under
  <1>. QED  BY <1>3, <1>4, <1>5, <1>11, <1>12, <1>13 DEF Effect

(* fdn_task_drop and fdn_task_wait.                                        *)
LEMMA DropEffect ==
    ASSUME SideInv, NEW a \in Tasks \cup {Main}, NEW c \in Tasks, NEW now \in BOOLEAN,
           Drop(a, c, now) \/ Wait(a, c, now)
    PROVE  Effect({}, {}) /\ KeepsAdopted
  <1>. USE NamesAssumption, SupAssumption
  <1>1. holder[c] = a
    BY DEF Drop, Wait, Held
  <1>2. Interrupted(c, now) \in SUBSET Tasks /\ \A d \in Interrupted(c, now) : st[d] = "parked"
    BY InterruptedFacts
  <1>3. PICK S \in SUBSET Tasks, op \in {"wait", "drop"} :
          /\ \A d \in S : st[d] = "parked"
          /\ cancelled' = CancelledBy(c) \/ cancelled' = cancelled
          /\ st' = Woken(S) /\ stack' = Pushed(op, c) /\ holder' = [holder EXCEPT ![c] = Nobody]
    <2>1. CASE Drop(a, c, now)
      BY <1>2, <2>1 DEF Drop
    <2>2. CASE Wait(a, c, now)
      <3>. DEFINE S == IF Inherits(a) THEN Interrupted(c, now) ELSE {}
      <3>1. S \in SUBSET Tasks /\ \A d \in S : st[d] = "parked"
        BY <1>2
      <3>2. /\ cancelled' = CancelledBy(c) \/ cancelled' = cancelled
            /\ st' = Woken(S) /\ stack' = Pushed("wait", c) /\ holder' = [holder EXCEPT ![c] = Nobody]
        BY <2>2 DEF Wait
      <3>. HIDE DEF S
      <3>. QED  BY <3>1, <3>2
    <2>. QED  BY <2>1, <2>2
  <1>4. Effect({}, {}) /\ \A d \in Tasks : holder'[d] = IF d = c THEN Nobody ELSE holder[d]
    BY <1>1, <1>3, JoinEffect
  <1>. QED  BY <1>1, <1>4 DEF KeepsAdopted

(* The drops of a release.                                                 *)
LEMMA DropHeldEffect ==
    ASSUME SideInv, NEW t \in Tasks, NEW c \in Tasks, NEW now \in BOOLEAN, DropHeld(t, c, now)
    PROVE  Effect({}, {}) /\ KeepsAdopted
  <1>. USE NamesAssumption, SupAssumption
  <1>. DEFINE S == Interrupted(c, now)
  <1>1. holder[c] = t
    BY DEF DropHeld, Held
  <1>2. S \in SUBSET Tasks /\ \A d \in S : st[d] = "parked"
    BY InterruptedFacts
  <1>3. /\ cancelled' = CancelledBy(c) /\ st' = Woken(S)
        /\ stack' = Pushed("drop", c) /\ holder' = [holder EXCEPT ![c] = Nobody]
    BY DEF DropHeld
  <1>. HIDE DEF S
  <1>4. Effect({}, {}) /\ \A d \in Tasks : holder'[d] = IF d = c THEN Nobody ELSE holder[d]
    BY <1>1, <1>2, <1>3, JoinEffect
  <1>. QED  BY <1>1, <1>4 DEF KeepsAdopted

(* A poll returns: whose states change stay live.                          *)
LEMMA PopEffect ==
    ASSUME SideInv, NEW t \in Tasks, NEW done, Innermost("poll", t), stack' = Tail(stack), UNCHANGED holder,
           \A d \in Tasks : cancelled[d] => cancelled'[d],
           \A d \in Tasks : d # t => st'[d] = st[d] \/ (st[d] \in {"parked", "waiting"} /\ st'[d] = "queued"),
           st'[t] \in Under \/ (t \in done /\ st'[t] = "ready")
    PROVE  Effect({}, done) /\ KeepsAdopted
  <1>. USE NamesAssumption, SupAssumption
  <1>1. TreeInv /\ TypeOK /\ HeldAreLive /\ JoinedAreOut
    BY DEF SideInv, TreeInv
  <1>2. st[t] = "polling" /\ stack # <<>> /\ Head(stack).op = "poll"
    BY <1>1, InnermostFacts
  <1>3. \A d \in Tasks : Live(d) => Live(d)'
    BY <1>2 DEF Live, Under
  <1>4. HeldAreLive'
    BY <1>1, <1>3 DEF HeldAreLive
  <1>5. \A d \in Tasks : Live(d) /\ holder[d] = Nobody => Live(d)' /\ holder'[d] = Nobody
    BY <1>3
  <1>6. JoinedAreOut' /\ \A b \in BOOLEAN : InPlace(b)' <=> InPlace(b)
    BY <1>1, <1>2, <1>5, PopSide
  <1>7. \A d \in Tasks : /\ st[d] \in Ended => st'[d] \in Ended
                         /\ st[d] \in Under => st'[d] \in Under \/ d \in done
    BY <1>2 DEF Ended, Under
  <1>. QED  BY <1>3, <1>4, <1>6, <1>7 DEF Effect, KeepsAdopted

(* fdn_task_poll_wait suspends.                                            *)
LEMMA PollWaitEffect ==
    ASSUME SideInv, NEW t \in Tasks, NEW c \in Tasks, NEW now \in BOOLEAN, PollWait(t, c, now)
    PROVE  Effect({}, {}) /\ KeepsAdopted
  <1>. DEFINE S == IF Inherits(t) THEN Interrupted(c, now) ELSE {}
  <1>1. /\ Innermost("poll", t) /\ stack' = Tail(stack) /\ UNCHANGED holder
        /\ st' = [Woken(S) EXCEPT ![t] = "waiting"]
        /\ cancelled' = CancelledBy(c) \/ cancelled' = cancelled
    BY DEF PollWait
  <1>2. S \in SUBSET Tasks /\ \A d \in S : st[d] = "parked"
    BY InterruptedFacts
  <1>. HIDE DEF S
  <1>3. TypeOK /\ CancellationReaches
    BY DEF SideInv, TreeInv
  <1>4. Woken(S) \in [Tasks -> TaskStates] /\ \A d \in Tasks : Woken(S)[d] = IF d \in S THEN "queued" ELSE st[d]
    BY <1>2, <1>3, WokenFacts
  <1>5. st'[t] = "waiting" /\ \A d \in Tasks : d # t => st'[d] = IF d \in S THEN "queued" ELSE st[d]
    BY <1>1, <1>4
  <1>6. \A d \in Tasks : cancelled[d] => cancelled'[d]
    BY <1>1, <1>3, CancelFacts
  <1>7. /\ \A d \in Tasks : d # t => st'[d] = st[d] \/ (st[d] \in {"parked", "waiting"} /\ st'[d] = "queued")
        /\ st'[t] \in Under
    BY <1>2, <1>5 DEF Under
  <1>. QED  BY <1>1, <1>6, <1>7, PopEffect

(* The poll yields or parks.                                               *)
LEMMA PendingEffect ==
    ASSUME SideInv, NEW t \in Tasks, Yield(t) \/ Park(t)
    PROVE  Effect({}, {}) /\ KeepsAdopted
  <1>1. /\ Innermost("poll", t) /\ stack' = Tail(stack) /\ UNCHANGED <<holder, cancelled>>
        /\ st' = [st EXCEPT ![t] = "queued"] \/ st' = [st EXCEPT ![t] = "parked"]
    BY DEF Yield, Park
  <1>2. \A d \in Tasks : d # t => st'[d] = st[d]
    BY <1>1 DEF SideInv, TreeInv, TypeOK
  <1>3. st'[t] \in Under
    BY <1>1 DEF SideInv, TreeInv, TypeOK, Under
  <1>. QED  BY <1>1, <1>2, <1>3, PopEffect

(* The poll is ready.                                                      *)
LEMMA ReadyEffect ==
    ASSUME SideInv, NEW t \in Tasks, Ready(t)
    PROVE  Effect({}, {t}) /\ KeepsAdopted /\ st'[t] = "ready"
  <1>. DEFINE S == Waiters(t)
  <1>1. /\ Innermost("poll", t) /\ stack' = Tail(stack) /\ UNCHANGED <<holder, cancelled>>
        /\ st' = [Woken(S) EXCEPT ![t] = "ready"]
    BY DEF Ready
  <1>2. S \in SUBSET Tasks /\ \A d \in S : st[d] = "waiting"
    BY NamesAssumption DEF Waiters, SideInv, TreeInv, WaiterHolds, TypeOK
  <1>. HIDE DEF S
  <1>3. Woken(S) \in [Tasks -> TaskStates] /\ \A d \in Tasks : Woken(S)[d] = IF d \in S THEN "queued" ELSE st[d]
    BY <1>2, WokenFacts DEF SideInv, TreeInv
  <1>4. st'[t] = "ready" /\ \A d \in Tasks : d # t => st'[d] = IF d \in S THEN "queued" ELSE st[d]
    BY <1>1, <1>3
  <1>5. \A d \in Tasks : d # t => st'[d] = st[d] \/ (st[d] \in {"parked", "waiting"} /\ st'[d] = "queued")
    BY <1>2, <1>4
  <1>. QED  BY <1>1, <1>4, <1>5, PopEffect

(* fdn_task_poll_wait of a ready task.                                     *)
LEMMA FreeEffect ==
    ASSUME SideInv, NEW t \in Tasks, NEW c \in Tasks, PollWaitReady(t, c)
    PROVE  Effect({}, {}) /\ KeepsAdopted
  <1>. USE NamesAssumption, SupAssumption
  <1>1. /\ holder[c] = t /\ st[c] = "ready" /\ holder' = [holder EXCEPT ![c] = Nobody]
        /\ st' = [st EXCEPT ![c] = "freed"] /\ stack' = Pushed("free", c) /\ UNCHANGED cancelled
    BY DEF PollWaitReady, Held
  <1>2. TypeOK /\ HeldAreLive /\ JoinedAreOut
    BY DEF SideInv, TreeInv
  <1>3. /\ \A d \in Tasks : st'[d] = IF d = c THEN "freed" ELSE st[d]
        /\ \A d \in Tasks : holder'[d] = IF d = c THEN Nobody ELSE holder[d]
    BY <1>1, <1>2 DEF TypeOK
  <1>4. \A d \in Tasks : Live(d) => Live(d)'
    BY <1>3 DEF Live
  <1>5. HeldAreLive'
    BY <1>2, <1>3, <1>4 DEF HeldAreLive
  <1>6. Live(c)' /\ holder'[c] = Nobody
    BY <1>3 DEF Live
  <1>. DEFINE f == Call("free", c)
  <1>7. f \in Frames /\ f.op = "free" /\ f.task = c /\ stack' = <<f>> \o stack
    BY <1>1, CallFacts DEF Pushed
  <1>8. \A i \in DOMAIN stack : stack[i].op # "poll" => stack[i].task # f.task
    BY <1>1, <1>2, <1>7, HeldIsNotJoined
  <1>9. \A b \in BOOLEAN : f # JoinCall(b)
    BY <1>7, JoinCallFacts
  <1>10. /\ \A d \in Tasks : Live(d) /\ holder[d] = Nobody => Live(d)' /\ holder'[d] = Nobody
         /\ f.op \notin {"poll", "join"} => Live(f.task)' /\ holder'[f.task] = Nobody
    BY <1>3, <1>4, <1>6, <1>7
  <1>. HIDE DEF f
  <1>11. JoinedAreOut' /\ \A b \in BOOLEAN : InPlace(b)' <=> InPlace(b)
    BY <1>2, <1>7, <1>8, <1>9, <1>10, PushSide
  <1>12. \A d \in Tasks : /\ st[d] \in Ended => st'[d] \in Ended
                          /\ st[d] \in Under => st'[d] \in Under
    BY <1>1, <1>3 DEF Ended, Under
  <1>. QED  BY <1>1, <1>3, <1>4, <1>5, <1>11, <1>12 DEF Effect, KeepsAdopted

(* fdn_task_run_one.                                                       *)
LEMMA RunOneEffect ==
    ASSUME SideInv, RunOne
    PROVE  Effect({}, {}) /\ KeepsAdopted
  <1>. DEFINE h == Head(queue)
           f == Call("poll", h)
  <1>1. /\ queue # <<>> /\ st' = [st EXCEPT ![h] = "polling"] /\ stack' = <<f>> \o stack
        /\ UNCHANGED <<holder, cancelled>>
    BY DEF RunOne, Pushed
  <1>2. TypeOK /\ HeldAreLive /\ JoinedAreOut /\ QueueOK
    BY DEF SideInv, TreeInv, NoReentrancy
  <1>3. h \in Tasks /\ st[h] = "queued"
    BY <1>1, <1>2, TailFacts DEF TypeOK, QueueOK
  <1>. HIDE DEF h
  <1>4. f \in Frames /\ f.op = "poll"
    BY <1>3, CallFacts
  <1>5. \A d \in Tasks : st'[d] = IF d = h THEN "polling" ELSE st[d]
    BY <1>1, <1>2 DEF TypeOK
  <1>6. \A d \in Tasks : Live(d) => Live(d)'
    BY <1>5 DEF Live
  <1>7. HeldAreLive'
    BY <1>1, <1>2, <1>6 DEF HeldAreLive
  <1>8. \A b \in BOOLEAN : f # JoinCall(b)
    BY <1>4, JoinCallFacts
  <1>9. /\ \A d \in Tasks : Live(d) /\ holder[d] = Nobody => Live(d)' /\ holder'[d] = Nobody
        /\ f.op \notin {"poll", "join"} => Live(f.task)' /\ holder'[f.task] = Nobody
        /\ f.op # "poll" => \A i \in DOMAIN stack : stack[i].op # "poll" => stack[i].task # f.task
    BY <1>1, <1>4, <1>6
  <1>. HIDE DEF f
  <1>10. JoinedAreOut' /\ \A b \in BOOLEAN : InPlace(b)' <=> InPlace(b)
    BY <1>1, <1>2, <1>4, <1>8, <1>9, PushSide
  <1>11. \A d \in Tasks : /\ st[d] \in Ended => st'[d] \in Ended
                          /\ st[d] \in Under => st'[d] \in Under
    BY <1>3, <1>5 DEF Ended, Under
  <1>. QED  BY <1>1, <1>6, <1>7, <1>10, <1>11 DEF Effect, KeepsAdopted

(* A parked task is woken.                                                 *)
LEMMA WakeEffect ==
    ASSUME SideInv, NEW t \in Tasks, Wake(t)
    PROVE  Effect({}, {}) /\ KeepsAdopted
  <1>1. st[t] = "parked" /\ st' = [st EXCEPT ![t] = "queued"] /\ UNCHANGED <<holder, cancelled, stack>>
    BY DEF Wake
  <1>2. TypeOK /\ HeldAreLive /\ JoinedAreOut
    BY DEF SideInv, TreeInv
  <1>3. \A d \in Tasks : st'[d] = IF d = t THEN "queued" ELSE st[d]
    BY <1>1, <1>2 DEF TypeOK
  <1>4. \A d \in Tasks : Live(d) => Live(d)'
    BY <1>3 DEF Live
  <1>5. HeldAreLive'
    BY <1>1, <1>2, <1>4 DEF HeldAreLive
  <1>6. \A d \in Tasks : Live(d) /\ holder[d] = Nobody => Live(d)' /\ holder'[d] = Nobody
    BY <1>1, <1>4
  <1>7. JoinedAreOut' /\ \A b \in BOOLEAN : InPlace(b)' <=> InPlace(b)
    BY <1>1, <1>2, <1>6, SameSide
  <1>8. \A d \in Tasks : /\ st[d] \in Ended => st'[d] \in Ended
                         /\ st[d] \in Under => st'[d] \in Under
    BY <1>1, <1>3 DEF Ended, Under
  <1>. QED  BY <1>1, <1>4, <1>5, <1>7, <1>8 DEF Effect, KeepsAdopted

(* A driving loop returns, and the release of its task begins.             *)
LEMMA ReturnEffect ==
    ASSUME SideInv, NEW c \in Tasks, Return(c)
    PROVE  Effect({}, {}) /\ KeepsAdopted
  <1>. USE NamesAssumption, SupAssumption
  <1>. DEFINE f == Call("free", c)
  <1>1. /\ Innermost("wait", c) \/ Innermost("drop", c)
        /\ st[c] = "ready" /\ st' = [st EXCEPT ![c] = "freed"] /\ stack' = <<f>> \o Tail(stack)
        /\ UNCHANGED <<holder, cancelled>>
    BY DEF Return
  <1>2. TreeInv /\ TypeOK /\ HeldAreLive /\ JoinedAreOut /\ stack \in Seq(Frames)
    BY DEF SideInv, TreeInv, TypeOK
  <1>3. stack # <<>> /\ Head(stack).op \in {"wait", "drop"} /\ Head(stack).task = c
    BY <1>1, <1>2, InnermostFacts
  <1>4. f \in Frames /\ f.op = "free" /\ f.task = c
    BY CallFacts
  <1>. HIDE DEF f
  <1>5. \A d \in Tasks : st'[d] = IF d = c THEN "freed" ELSE st[d]
    BY <1>1, <1>2 DEF TypeOK
  <1>6. \A d \in Tasks : Live(d) => Live(d)'
    BY <1>5 DEF Live
  <1>7. HeldAreLive'
    BY <1>1, <1>2, <1>6 DEF HeldAreLive
  <1>. DEFINE s == Tail(stack)
  <1>8. /\ s \in Seq(Frames) /\ 1 \in DOMAIN stack /\ stack[1] = Head(stack)
        /\ \A i \in DOMAIN s : i + 1 \in DOMAIN stack /\ s[i] = stack[i + 1]
        /\ \A i \in DOMAIN stack : i # 1 => i - 1 \in DOMAIN s /\ s[i - 1] = stack[i]
    BY <1>2, <1>3, TailFacts
  <1>9. /\ 1 \in DOMAIN stack' /\ stack'[1] = f
        /\ \A i \in DOMAIN stack' : i # 1 => i - 1 \in DOMAIN s /\ stack'[i] = s[i - 1]
        /\ \A i \in DOMAIN s : i + 1 \in DOMAIN stack' /\ stack'[i + 1] = s[i]
    BY <1>1, <1>4, <1>8, PushFacts
  <1>. HIDE DEF s
  <1>10. /\ \A i \in DOMAIN stack' : i \in DOMAIN stack /\ (i # 1 => stack'[i] = stack[i])
         /\ \A i \in DOMAIN stack : i \in DOMAIN stack'
    <2>1. \A i \in DOMAIN stack' : i \in Int
      BY <1>1, <1>4, <1>8, PushFacts DEF s
    <2>2. \A i \in DOMAIN stack : i \in Int
      BY <1>2
    <2>3. ASSUME NEW i \in DOMAIN stack', i # 1  PROVE i \in DOMAIN stack /\ stack'[i] = stack[i]
      <3>1. i - 1 \in DOMAIN s /\ stack'[i] = s[i - 1]
        BY <1>9, <2>3
      <3>2. (i - 1) + 1 \in DOMAIN stack /\ s[i - 1] = stack[(i - 1) + 1]
        BY <1>8, <3>1
      <3>. QED  BY <2>1, <3>1, <3>2
    <2>4. ASSUME NEW i \in DOMAIN stack, i # 1  PROVE i \in DOMAIN stack'
      <3>1. i - 1 \in DOMAIN s
        BY <1>8, <2>4
      <3>2. (i - 1) + 1 \in DOMAIN stack'
        BY <1>9, <3>1
      <3>. QED  BY <2>2, <3>2
    <2>. QED  BY <1>8, <1>9, <2>3, <2>4
  <1>11. \A i \in DOMAIN stack : stack[i].op # "join" => stack[i].task \in Tasks
    BY <1>2, StackCalls
  <1>12. holder[c] = Nobody
    BY <1>2, <1>3, <1>8 DEF JoinedAreOut
  <1>13. \A i \in DOMAIN stack' : stack'[i].op \notin {"poll", "join"} =>
            holder'[stack'[i].task] = Nobody /\ st'[stack'[i].task] \notin {"unborn", "released"}
    BY <1>1, <1>2, <1>4, <1>5, <1>9, <1>10, <1>11, <1>12 DEF JoinedAreOut, Live
  <1>14. \A i \in DOMAIN stack' : stack'[i].op # "poll" => stack[i].op # "poll" /\ stack'[i].task = stack[i].task
    BY <1>3, <1>4, <1>8, <1>9, <1>10
  <1>15. \A i, k \in DOMAIN stack' :
            stack'[i].op # "poll" /\ stack'[k].op # "poll" /\ stack'[i].task = stack'[k].task => i = k
    BY <1>2, <1>10, <1>14 DEF JoinedAreOut
  <1>16. JoinedAreOut'
    BY <1>13, <1>15 DEF JoinedAreOut, Live
  <1>17. \A b \in BOOLEAN : InPlace(b)' <=> InPlace(b)
    <2>. TAKE b \in BOOLEAN
    <2>. DEFINE g == JoinCall(b)
    <2>1. InPlace(b) <=> \E i \in DOMAIN stack : stack[i] = g
      BY DEF InPlace
    <2>2. InPlace(b)' <=> \E i \in DOMAIN stack' : stack'[i] = g
      BY DEF InPlace, JoinCall
    <2>3. g.op = "join"
      BY JoinCallFacts
    <2>. HIDE DEF g
    <2>4. ASSUME NEW i \in DOMAIN stack', stack'[i] = g  PROVE \E k \in DOMAIN stack : stack[k] = g
      BY <1>4, <1>9, <1>10, <2>3, <2>4
    <2>5. ASSUME NEW i \in DOMAIN stack, stack[i] = g  PROVE \E k \in DOMAIN stack' : stack'[k] = g
      BY <1>3, <1>8, <1>10, <2>3, <2>5
    <2>. QED  BY <2>1, <2>2, <2>4, <2>5
  <1>18. \A d \in Tasks : /\ st[d] \in Ended => st'[d] \in Ended
                          /\ st[d] \in Under => st'[d] \in Under
    BY <1>1, <1>5 DEF Ended, Under
  <1>. QED  BY <1>1, <1>6, <1>7, <1>16, <1>17, <1>18 DEF Effect, KeepsAdopted

(* fdn_task_release ends.                                                  *)
LEMMA ReleaseEffect ==
    ASSUME SideInv, NEW t \in Tasks, Release(t)
    PROVE  Effect({t}, {}) /\ KeepsAdopted
  <1>. USE NamesAssumption, SupAssumption
  <1>1. /\ Innermost("free", t) /\ st' = [st EXCEPT ![t] = "released"] /\ stack' = Tail(stack)
        /\ UNCHANGED <<holder, cancelled>>
    BY DEF Release
  <1>2. TreeInv /\ TypeOK /\ HeldAreLive /\ JoinedAreOut
    BY DEF SideInv, TreeInv
  <1>3. st[t] = "freed" /\ stack # <<>> /\ Head(stack).op = "free" /\ Head(stack).task = t
    BY <1>1, <1>2, InnermostFacts
  <1>4. holder[t] = Nobody
    BY <1>2, <1>3, HeldIsNotJoined, TailFacts DEF TypeOK
  <1>5. \A d \in Tasks : st'[d] = IF d = t THEN "released" ELSE st[d]
    BY <1>1, <1>2 DEF TypeOK
  <1>6. \A d \in Tasks : Live(d) => Live(d)' \/ d \in {t}
    BY <1>5 DEF Live
  <1>7. HeldAreLive'
    BY <1>1, <1>2, <1>4, <1>5 DEF HeldAreLive, Live
  <1>8. \A d \in Tasks : Live(d) /\ holder[d] = Nobody /\ ~(Head(stack).op # "poll" /\ Head(stack).task = d)
                            => Live(d)' /\ holder'[d] = Nobody
    BY <1>1, <1>3, <1>5 DEF Live
  <1>9. JoinedAreOut' /\ \A b \in BOOLEAN : InPlace(b)' <=> InPlace(b)
    BY <1>1, <1>2, <1>3, <1>8, PopSide
  <1>10. \A d \in Tasks : /\ st[d] \in Ended => st'[d] \in Ended
                          /\ st[d] \in Under => st'[d] \in Under
    BY <1>3, <1>5 DEF Ended, Under
  <1>. QED  BY <1>1, <1>6, <1>7, <1>9, <1>10 DEF Effect, KeepsAdopted

-----------------------------------------------------------------------------
(* Cancelling what the supervisor has.                                     *)

(* The tasks that are woken at once, in their order.                       *)
LEMMA PromptTyped ==
    ASSUME Remaining \in Seq(Tasks), NEW prompt \in Prompts
    PROVE  prompt \in Seq(Tasks)
  <1>1. Len(Remaining) \in Nat
    OBVIOUS
  <1>2. PICK m \in 0..Len(Remaining) : prompt \in [1..m -> Tasks]
    BY DEF Prompts, BoundedSeq, SeqOf
  <1>. QED  BY <1>1, <1>2

(* One cancellation after the other keeps the cancelled tasks closed under *)
(* waiting_on, and reaches every one of them.                              *)
LEMMA CancelIfFacts ==
    ASSUME TypeOK, CancellationReaches, NEW cs \in Seq(Tasks), NEW prompt \in Seq(Tasks),
           NEW cancel \in BOOLEAN, CancelIf(cancel, cs, prompt)
    PROVE  /\ \A i \in DOMAIN prompt : prompt[i] \in Tasks /\ st[prompt[i]] = "parked"
           /\ \A i, k \in DOMAIN prompt : prompt[i] = prompt[k] => i = k
           /\ cancelled' \in [Tasks -> BOOLEAN]
           /\ \A d \in Tasks : cancelled[d] => cancelled'[d]
           /\ \A d \in Tasks : (cancelled'[d] /\ waitingOn[d] # Nobody) => cancelled'[waitingOn[d]]
           /\ cancel => \A i \in DOMAIN cs : cancelled'[cs[i]]
  <1>1. CASE ~cancel
    <2>1. prompt = <<>> /\ cancelled' = cancelled
      BY <1>1 DEF CancelIf
    <2>2. cancelled' \in [Tasks -> BOOLEAN]
      BY <2>1 DEF TypeOK
    <2>. QED  BY <1>1, <2>1, <2>2 DEF CancellationReaches
  <1>2. CASE cancel
    <2>. DEFINE W == Walks(cs)
    <2>1. Rouses(cs, prompt) /\ cancelled' = [d \in Tasks |-> cancelled[d] \/ d \in W]
      BY <1>2 DEF CancelIf, CancelAll
    <2>2. \A i \in DOMAIN cs : cs[i] \in Tasks
      OBVIOUS
    <2>3. \A d : d \in W <=> \E i \in DOMAIN cs : d \in CancelWalk(cs[i])
      BY DEF Walks
    <2>. HIDE DEF W
    <2>4. ASSUME NEW d \in W
          PROVE  d \in Tasks /\ (waitingOn[d] # Nobody => cancelled[waitingOn[d]] \/ waitingOn[d] \in W)
      <3>1. PICK i \in DOMAIN cs : d \in CancelWalk(cs[i])
        BY <2>3
      <3>. QED  BY <2>2, <2>3, <3>1, WalkFacts
    <2>5. \A i \in DOMAIN cs : cancelled[cs[i]] \/ cs[i] \in W
      BY <2>2, <2>3, WalkFacts
    <2>6. \A d \in Tasks : cancelled'[d] <=> (cancelled[d] \/ d \in W)
      BY <2>1
    <2>7. cancelled' \in [Tasks -> BOOLEAN]
      BY <2>1 DEF TypeOK
    <2>8. \A d \in Tasks : waitingOn[d] # Nobody => waitingOn[d] \in Tasks
      BY DEF TypeOK
    <2>9. \A d \in Tasks : (cancelled'[d] /\ waitingOn[d] # Nobody) => cancelled'[waitingOn[d]]
      BY <2>4, <2>6, <2>8 DEF CancellationReaches
    <2>10. \A i \in DOMAIN prompt : prompt[i] \in Tasks /\ st[prompt[i]] = "parked"
      BY <2>1, <2>2 DEF Rouses, Interrupted
    <2>11. \A i, k \in DOMAIN prompt : ~(i < k /\ prompt[i] = prompt[k])
      <3>. SUFFICES ASSUME NEW i \in DOMAIN prompt, NEW k \in DOMAIN prompt, i < k, prompt[i] = prompt[k]
                    PROVE  FALSE
        OBVIOUS
      <3>1. PICK m \in DOMAIN cs : prompt[i] \in Interrupted(cs[m], TRUE)
        BY <2>1 DEF Rouses
      <3>2. m < m
        BY <2>1, <3>1 DEF Rouses
      <3>. QED  BY <3>2
    <2>12. \A i, k \in DOMAIN prompt : prompt[i] = prompt[k] => i = k
      <3>1. \A i \in DOMAIN prompt : i \in Int
        OBVIOUS
      <3>2. \A i, k \in DOMAIN prompt : i = k \/ i < k \/ k < i
        BY <3>1
      <3>. QED  BY <2>11, <3>2
    <2>. QED  BY <1>2, <2>2, <2>5, <2>6, <2>7, <2>9, <2>10, <2>12
  <1>. QED  BY <1>1, <1>2

(* Tasks that were not queued are queued, each once.                       *)
LEMMA QueueConcat ==
    ASSUME TypeOK, QueueOK, NEW p \in Seq(Tasks), queue' = queue \o p,
           \A i \in DOMAIN p : st[p[i]] # "queued" /\ st'[p[i]] = "queued",
           \A i, k \in DOMAIN p : p[i] = p[k] => i = k,
           \A d \in Tasks : st[d] = "queued" => st'[d] = "queued"
    PROVE  QueueOK' /\ queue' \in Seq(Tasks)
  <1>1. queue \in Seq(Tasks) /\ queue' \in Seq(Tasks)
    BY DEF TypeOK
  <1>2. \A i \in DOMAIN queue' : \/ i \in DOMAIN queue /\ queue'[i] = queue[i]
                                 \/ i - Len(queue) \in DOMAIN p /\ queue'[i] = p[i - Len(queue)]
    BY <1>1
  <1>3. \A i, k \in DOMAIN queue' : i - Len(queue) = k - Len(queue) => i = k
    BY <1>1
  <1>4. \A i \in DOMAIN queue : queue[i] \in Tasks /\ st[queue[i]] = "queued"
    BY <1>1 DEF QueueOK
  <1>5. \A i \in DOMAIN queue' : st'[queue'[i]] = "queued"
    BY <1>2, <1>4
  <1>6. \A i, k \in DOMAIN queue' : queue'[i] = queue'[k] => i = k
    <2>. SUFFICES ASSUME NEW i \in DOMAIN queue', NEW k \in DOMAIN queue', queue'[i] = queue'[k]
                  PROVE  i = k
      OBVIOUS
    <2>. DEFINE Old(m) == m \in DOMAIN queue /\ queue'[m] = queue[m]
             New(m) == m - Len(queue) \in DOMAIN p /\ queue'[m] = p[m - Len(queue)]
    <2>1. (Old(i) \/ New(i)) /\ (Old(k) \/ New(k))
      BY <1>2
    <2>2. \A m \in DOMAIN queue' : /\ Old(m) => st[queue'[m]] = "queued"
                                   /\ New(m) => st[queue'[m]] # "queued"
      BY <1>4
    <2>3. CASE Old(i) /\ Old(k)
      BY <2>3 DEF QueueOK
    <2>4. CASE New(i) /\ New(k)
      <3>1. i - Len(queue) = k - Len(queue)
        BY <2>4
      <3>. QED  BY <1>3, <3>1
    <2>. QED  BY <2>1, <2>2, <2>3, <2>4
  <1>. QED  BY <1>1, <1>5, <1>6 DEF QueueOK

(* What waking the tasks of a list does to the states.                     *)
LEMMA RousedFacts ==
    ASSUME TypeOK, NEW p \in Seq(Tasks), \A i \in DOMAIN p : st[p[i]] = "parked"
    PROVE  /\ Woken(ToSet(p)) \in [Tasks -> TaskStates]
           /\ \A i \in DOMAIN p : p[i] \in Tasks /\ Woken(ToSet(p))[p[i]] = "queued"
           /\ \A d \in Tasks : Woken(ToSet(p))[d] = st[d] \/ (st[d] = "parked" /\ Woken(ToSet(p))[d] = "queued")
  <1>1. ToSet(p) \in SUBSET Tasks /\ \A i \in DOMAIN p : p[i] \in ToSet(p) /\ p[i] \in Tasks
    BY DEF ToSet
  <1>2. \A d \in ToSet(p) : st[d] = "parked"
    BY DEF ToSet
  <1>. DEFINE S == ToSet(p)
  <1>. HIDE DEF S
  <1>3. S \in SUBSET Tasks /\ \A d \in S : st[d] = "parked"
    BY <1>1, <1>2 DEF S
  <1>4. Woken(S) \in [Tasks -> TaskStates] /\ \A d \in Tasks : Woken(S)[d] = IF d \in S THEN "queued" ELSE st[d]
    BY <1>3, WokenFacts
  <1>5. /\ Woken(S) \in [Tasks -> TaskStates]
        /\ \A i \in DOMAIN p : p[i] \in Tasks /\ Woken(S)[p[i]] = "queued"
        /\ \A d \in Tasks : Woken(S)[d] = st[d] \/ (st[d] = "parked" /\ Woken(S)[d] = "queued")
    <2>1. \A i \in DOMAIN p : p[i] \in S /\ p[i] \in Tasks
      BY <1>1 DEF S
    <2>. QED  BY <1>3, <1>4, <2>1
  <1>. QED  BY <1>5 DEF S

-----------------------------------------------------------------------------
(* A join on the stack, for the tree.                                      *)

(* A join is entered.                                                      *)
LEMMA StackPushJoin ==
    ASSUME TypeOK, StackOK, NEW f \in Frames, f.op = "join", stack' = <<f>> \o stack,
           \A d \in Tasks : st[d] \in {"polling", "freed"} => st'[d] = st[d]
    PROVE  StackOK' /\ stack' \in Seq(Frames) /\ \A t \in Tasks : Joined(t) => Joined(t)'
  <1>1. stack \in Seq(Frames)
    BY DEF TypeOK
  <1>2. /\ stack' \in Seq(Frames) /\ stack'[1] = f
        /\ \A i \in DOMAIN stack' : i # 1 => i - 1 \in DOMAIN stack /\ stack'[i] = stack[i - 1]
        /\ \A i \in DOMAIN stack : i + 1 \in DOMAIN stack' /\ stack'[i + 1] = stack[i]
        /\ \A i, k \in DOMAIN stack' : (i # 1 /\ k # 1 /\ i - 1 = k - 1) => i = k
    BY <1>1, PushFacts
  <1>3. \A i \in DOMAIN stack : stack[i].op # "join" => stack[i].task \in Tasks
    BY <1>1, StackCalls
  <1>4. \A i \in DOMAIN stack' : (stack'[i].op = "poll" => st'[stack'[i].task] = "polling")
                              /\ (stack'[i].op = "free" => st'[stack'[i].task] = "freed")
    <2>. TAKE i \in DOMAIN stack'
    <2>1. CASE i = 1
      BY <1>2, <2>1
    <2>2. CASE i # 1
      <3>1. PICK k \in DOMAIN stack : stack'[i] = stack[k]
        BY <1>2, <2>2
      <3>2. /\ stack[k].op = "poll" => st'[stack[k].task] = "polling"
            /\ stack[k].op = "free" => st'[stack[k].task] = "freed"
        BY <1>3 DEF StackOK
      <3>. QED  BY <3>1, <3>2
    <2>. QED  BY <2>1, <2>2
  <1>5. \A i, k \in DOMAIN stack' :
           (stack'[i] = stack'[k] /\ stack'[i].op \in {"poll", "free"}) => i = k
    <2>. SUFFICES ASSUME NEW i \in DOMAIN stack', NEW k \in DOMAIN stack', stack'[i] = stack'[k],
                         stack'[i].op \in {"poll", "free"}
                  PROVE  i = k
      OBVIOUS
    <2>1. i # 1 /\ k # 1
      BY <1>2
    <2>2. i - 1 \in DOMAIN stack /\ stack[i - 1] = stack'[i] /\ k - 1 \in DOMAIN stack /\ stack[k - 1] = stack'[k]
      BY <1>2, <2>1
    <2>3. i - 1 = k - 1
      BY <2>2 DEF StackOK
    <2>. QED  BY <1>2, <2>1, <2>3
  <1>6. ASSUME NEW t \in Tasks, Joined(t)  PROVE Joined(t)'
    <2>1. PICK i \in DOMAIN stack : stack[i].op # "poll" /\ stack[i].task = t
      BY <1>6 DEF Joined
    <2>2. i + 1 \in DOMAIN stack' /\ stack'[i + 1].op # "poll" /\ stack'[i + 1].task = t
      BY <1>2, <2>1
    <2>. QED  BY <2>2 DEF Joined
  <1>. QED  BY <1>2, <1>4, <1>5, <1>6 DEF StackOK

(* A join is left.                                                         *)
LEMMA StackPopJoin ==
    ASSUME TypeOK, StackOK, stack # <<>>, Head(stack).op = "join", stack' = Tail(stack), st' = st
    PROVE  StackOK' /\ stack' \in Seq(Frames) /\ \A t \in Tasks : Joined(t) => Joined(t)'
  <1>1. stack \in Seq(Frames)
    BY DEF TypeOK
  <1>2. /\ stack' \in Seq(Frames) /\ Head(stack) = stack[1] /\ 1 \in DOMAIN stack
        /\ \A i \in DOMAIN stack' : i + 1 \in DOMAIN stack /\ stack'[i] = stack[i + 1]
        /\ \A i, k \in DOMAIN stack' : i + 1 = k + 1 => i = k
    BY <1>1, TailFacts
  <1>3. Head(stack).task = Sup
    BY <1>1, <1>2, StackCalls
  <1>4. StackOK'
    BY <1>2 DEF StackOK
  <1>5. \A t \in Tasks : Joined(t) => Joined(t)'
    BY <1>3, JoinedPop, SupAssumption
  <1>. QED  BY <1>2, <1>4, <1>5

-----------------------------------------------------------------------------
(* The supervisor under the steps of the tree.                             *)

(* A task is out of the tree or in one of its two halves.                  *)
LEMMA Halves ==
    /\ \A x \in Under : x \notin Ended /\ x \notin {"unborn", "released"}
    /\ "queued" \in Under /\ "polling" \in Under /\ "ready" \in Ended
  BY DEF Under, Ended

(* A step that leaves the supervisor alone, or lets go of the task that is *)
(* joined, keeps its invariant unless it releases the owner or completes   *)
(* the join.                                                               *)
LEMMA TreeKeepsSup ==
    ASSUME SupInv, TreeInv', SupTypeOK', NEW gone, NEW done, Effect(gone, done), KeepsAdopted,
           sup' = sup, sup.owner \notin gone, join.task \notin done,
           join'.task = join.task, join'.current \in {join.current, Nobody},
           join'.cancel => \/ join.cancel
                           \/ /\ sup.state # "open"
                              /\ \A c \in Tasks : Adopted(c) => cancelled'[c]
                              /\ join.current # Nobody => cancelled'[join.current]
    PROVE  SupInv'
  <1>. USE NamesAssumption
  <1>1. /\ HeldAreLive' /\ JoinedAreOut'
        /\ InPlace(TRUE)' <=> InPlace(TRUE)
        /\ InPlace(FALSE)' <=> InPlace(FALSE)
    BY DEF Effect
  <1>2. \A d \in Tasks : /\ cancelled[d] => cancelled'[d]
                         /\ st[d] \in Ended => st'[d] \in Ended
                         /\ Live(d) => Live(d)' \/ d \in gone
                         /\ st[d] \in Under => st'[d] \in Under \/ d \in done
    BY DEF Effect
  <1>3. SupTypeOK /\ AdoptedInv /\ OwnerInv /\ CancelInv
    BY DEF SupInv
  <1>4. \A c : Adopted(c)' <=> Adopted(c)
    BY DEF Adopted
  <1>5. AdoptedInv'
    BY <1>3, <1>4 DEF AdoptedInv, KeepsAdopted
  <1>6. sup.owner \in Tasks /\ Live(sup.owner) => Live(sup.owner)'
    BY <1>2 DEF Live
  <1>7. OwnerInv'
    <2>1. sup'.state = "open" => /\ sup'.owner = Main \/ (sup.owner \in Tasks /\ Live(sup.owner))'
                                 /\ join'.task = Nobody /\ ~join'.cancel /\ ~InPlace(TRUE)' /\ ~InPlace(FALSE)'
      <3>. SUFFICES ASSUME sup.state = "open"
                    PROVE  /\ sup'.owner = Main \/ (sup.owner \in Tasks /\ Live(sup.owner))'
                           /\ join'.task = Nobody /\ ~join'.cancel /\ ~InPlace(TRUE)' /\ ~InPlace(FALSE)'
        OBVIOUS
      <3>. QED  BY <1>1, <1>3, <1>6 DEF OwnerInv
    <2>2. sup.state = "closed" =>
             \/ sup.owner = Nobody /\ join.task = Nobody /\ (InPlace(TRUE)' \/ InPlace(FALSE)')
             \/ /\ sup.owner = join.task /\ join.task \in Tasks /\ st'[join.task] \in Under
                /\ ~InPlace(TRUE)' /\ ~InPlace(FALSE)'
      BY <1>1, <1>2, <1>3 DEF OwnerInv
    <2>3. sup.state = "released" => /\ sup.adopted = <<>> /\ ~InPlace(TRUE)' /\ ~InPlace(FALSE)'
                                    /\ join.task \in Tasks => st'[join.task] \in Ended
      BY <1>1, <1>2, <1>3 DEF OwnerInv
    <2>4. join'.current # Nobody => sup.state = "closed" /\ join.task \in Tasks
      BY <1>3 DEF OwnerInv
    <2>. QED  BY <2>1, <2>2, <2>3, <2>4 DEF OwnerInv
  <1>8. CancelInv'
    <2>1. join.current \in Tasks \cup {Nobody}
      BY <1>3 DEF SupTypeOK
    <2>. SUFFICES ASSUME join'.cancel \/ InPlace(TRUE)
                  PROVE  /\ \A c \in Tasks : Adopted(c) => cancelled'[c]
                         /\ join'.current # Nobody => cancelled'[join'.current]
      BY <1>1, <1>4 DEF CancelInv
    <2>2. CASE join.cancel \/ InPlace(TRUE)
      BY <1>2, <1>3, <2>1, <2>2 DEF CancelInv
    <2>. QED  BY <2>2
  <1>. QED  BY <1>1, <1>3, <1>5, <1>7, <1>8 DEF SupInv, SideInv

(* Nothing happens.                                                        *)
LEMMA StutterKeepsSup ==
    ASSUME SupInv, UNCHANGED allVars
    PROVE  SupInv'
  <1>1. UNCHANGED <<st, holder, cancelled, waitingOn, waiter, turns, queue, stack, sup, join>>
    BY DEF allVars, vars, supVars
  <1>2. TreeInv'
    BY StepInv DEF allVars, SupInv, SideInv
  <1>3. HeldAreLive' /\ JoinedAreOut'
    BY <1>1 DEF SupInv, SideInv, HeldAreLive, JoinedAreOut, Live
  <1>4. /\ InPlace(TRUE)' <=> InPlace(TRUE)
        /\ InPlace(FALSE)' <=> InPlace(FALSE)
    BY <1>1 DEF InPlace, JoinCall
  <1>5. \A c : Adopted(c)' <=> Adopted(c)
    BY <1>1 DEF Adopted
  <1>6. SupTypeOK' /\ AdoptedInv'
    BY <1>1, <1>5 DEF SupInv, SupTypeOK, AdoptedInv
  <1>7. OwnerInv'
    BY <1>1, <1>4 DEF SupInv, OwnerInv, Live
  <1>8. CancelInv'
    BY <1>1, <1>4, <1>5 DEF SupInv, CancelInv
  <1>. QED  BY <1>2, <1>3, <1>6, <1>7, <1>8 DEF SupInv, SideInv

(* Spawning a task that may take the supervisor over.                      *)
LEMMA SpawnKeepsSup ==
    ASSUME SupInv, NEW a \in Tasks \cup {Main}, NEW c \in Tasks, NEW given \in SUBSET Held(a),
           NEW moved \in BOOLEAN, SpawnWith(a, c, given, moved)
    PROVE  SupInv'
  <1>. USE NamesAssumption
  <1>1. Spawn(a, c, given) /\ (moved => Owns(a)) /\ join' = join
        /\ sup' = [sup EXCEPT !.owner = IF moved THEN c ELSE @]
    BY DEF SpawnWith
  <1>2. SideInv /\ TreeInv /\ SupTypeOK /\ AdoptedInv /\ OwnerInv /\ CancelInv
    BY DEF SupInv, SideInv
  <1>3. Effect({}, {}) /\ KeepsAdopted /\ TreeInv'
    BY <1>1, <1>2, SpawnEffect, SpawnStep
  <1>4. CASE ~moved
    <2>1. sup' = sup
      BY <1>1, <1>2, <1>4 DEF SupTypeOK
    <2>2. SupTypeOK'
      BY <1>1, <1>2, <2>1 DEF SupTypeOK
    <2>. QED  BY <1>1, <1>3, <2>1, <2>2, TreeKeepsSup
  <1>5. CASE moved
    <2>1. /\ sup'.state = "open" /\ sup'.owner = c /\ sup'.adopted = sup.adopted /\ SupTypeOK' /\ sup.state = "open"
      BY <1>1, <1>2, <1>5 DEF SupTypeOK, Owns
    <2>2. st'[c] = "queued"
      BY <1>1, <1>2 DEF Spawn, TreeInv, TypeOK
    <2>3. /\ HeldAreLive' /\ JoinedAreOut'
          /\ InPlace(TRUE)' <=> InPlace(TRUE)
          /\ InPlace(FALSE)' <=> InPlace(FALSE)
      BY <1>3 DEF Effect
    <2>4. \A d : Adopted(d)' <=> Adopted(d)
      BY <2>1 DEF Adopted
    <2>5. AdoptedInv'
      BY <1>2, <1>3, <2>1, <2>4 DEF AdoptedInv, KeepsAdopted
    <2>6. join.task = Nobody /\ ~join.cancel /\ ~InPlace(TRUE) /\ ~InPlace(FALSE) /\ join.current = Nobody
      BY <1>2, <2>1 DEF OwnerInv
    <2>7. OwnerInv'
      BY <1>1, <2>1, <2>2, <2>3, <2>6 DEF OwnerInv, Live
    <2>8. CancelInv'
      BY <1>1, <2>3, <2>6 DEF CancelInv
    <2>. QED  BY <1>3, <2>1, <2>3, <2>5, <2>7, <2>8 DEF SupInv, SideInv
  <1>. QED  BY <1>4, <1>5

-----------------------------------------------------------------------------
(* The steps of the supervisor.                                            *)

(* The cancellation at the start of a join, for the tree.                  *)
LEMMA CancelTree ==
    ASSUME TreeInv, NEW cs \in Seq(Tasks), NEW prompt \in Seq(Tasks), NEW cancel \in BOOLEAN,
           CancelIf(cancel, cs, prompt),
           st' = Woken(ToSet(prompt)), queue' = queue \o prompt,
           UNCHANGED <<holder, waitingOn, waiter, turns>>,
           stack' = stack \/ stack' = <<JoinCall(cancel)>> \o stack
    PROVE  /\ TreeInv'
           /\ \A d \in Tasks : st'[d] = st[d] \/ (st[d] = "parked" /\ st'[d] = "queued")
           /\ \A d \in Tasks : cancelled[d] => cancelled'[d]
           /\ cancel => \A i \in DOMAIN cs : cancelled'[cs[i]]
  <1>. USE NamesAssumption
  <1>1. TypeOK /\ StackOK /\ QueueOK /\ WaiterHolds /\ CancellationReaches /\ NeverDetached /\ UnbornUnheld
    BY DEF TreeInv, NoReentrancy
  <1>2. /\ \A i \in DOMAIN prompt : prompt[i] \in Tasks /\ st[prompt[i]] = "parked"
        /\ \A i, k \in DOMAIN prompt : prompt[i] = prompt[k] => i = k
        /\ cancelled' \in [Tasks -> BOOLEAN]
        /\ \A d \in Tasks : cancelled[d] => cancelled'[d]
        /\ \A d \in Tasks : (cancelled'[d] /\ waitingOn[d] # Nobody) => cancelled'[waitingOn[d]]
        /\ cancel => \A i \in DOMAIN cs : cancelled'[cs[i]]
    BY <1>1, CancelIfFacts
  <1>3. /\ st' \in [Tasks -> TaskStates]
        /\ \A i \in DOMAIN prompt : prompt[i] \in Tasks /\ st'[prompt[i]] = "queued"
        /\ \A d \in Tasks : st'[d] = st[d] \/ (st[d] = "parked" /\ st'[d] = "queued")
    BY <1>1, <1>2, RousedFacts
  <1>4. QueueOK' /\ queue' \in Seq(Tasks)
    BY <1>1, <1>2, <1>3, QueueConcat
  <1>5. \A d \in Tasks : st[d] \in {"polling", "freed"} => st'[d] = st[d]
    BY <1>3
  <1>6. StackOK' /\ stack' \in Seq(Frames) /\ \A t \in Tasks : Joined(t) => Joined(t)'
    <2>1. CASE stack' = stack
      BY <1>1, <1>5, <2>1, StackSame, JoinedSame
    <2>2. CASE stack' = <<JoinCall(cancel)>> \o stack
      <3>1. PICK f \in Frames : f = JoinCall(cancel) /\ f.op = "join"
        BY JoinCallFacts
      <3>2. stack' = <<f>> \o stack
        BY <2>2, <3>1
      <3>. QED  BY <1>1, <1>5, <3>1, <3>2, StackPushJoin
    <2>. QED  BY <2>1, <2>2
  <1>7. TypeOK'
    BY <1>1, <1>2, <1>3, <1>4, <1>6 DEF TypeOK
  <1>8. WaiterHolds'
    <2>1. \A d \in Tasks : st'[d] = "waiting" <=> st[d] = "waiting"
      BY <1>3
    <2>. QED  BY <1>1, <2>1, WaitSame DEF TypeOK
  <1>9. CancellationReaches'
    BY <1>2 DEF CancellationReaches
  <1>10. NeverDetached'
    <2>1. \A d \in Tasks : Live(d)' <=> Live(d)
      BY <1>3 DEF Live
    <2>. QED  BY <1>1, <1>6, <2>1, Detach
  <1>11. UnbornUnheld'
    BY <1>1, <1>3 DEF UnbornUnheld
  <1>. QED  BY <1>2, <1>3, <1>4, <1>6, <1>7, <1>8, <1>9, <1>10, <1>11 DEF TreeInv, NoReentrancy

(* What the supervisor still has, as a sequence.                           *)
LEMMA RemainingFacts ==
    ASSUME SupTypeOK
    PROVE  /\ Remaining \in Seq(Tasks) /\ sup.adopted \in Seq(Tasks)
           /\ \A c \in Tasks : Adopted(c) => \E i \in DOMAIN Remaining : Remaining[i] = c
           /\ join.current # Nobody => \E i \in DOMAIN Remaining : Remaining[i] = join.current
           /\ \A i \in DOMAIN Remaining :
                 Adopted(Remaining[i]) \/ (join.current # Nobody /\ Remaining[i] = join.current)
  <1>. DEFINE s == sup.adopted
           x == join.current
  <1>1. s \in Seq(Tasks) /\ x \in Tasks \cup {Nobody}
    BY DEF SupTypeOK
  <1>2. \A c : Adopted(c) <=> \E i \in DOMAIN s : s[i] = c
    BY DEF Adopted
  <1>3. CASE x = Nobody
    <2>1. Remaining = <<>> \o s
      BY <1>3 DEF Remaining
    <2>2. Remaining = s
      BY <1>1, <2>1
    <2>. QED  BY <1>1, <1>2, <1>3, <2>2
  <1>4. CASE x # Nobody
    <2>1. Remaining = <<x>> \o s
      BY <1>4 DEF Remaining
    <2>. HIDE DEF s, x
    <2>2. /\ Remaining \in Seq(Tasks) /\ 1 \in DOMAIN Remaining /\ Remaining[1] = x
          /\ \A i \in DOMAIN Remaining : i # 1 => i - 1 \in DOMAIN s /\ Remaining[i] = s[i - 1]
          /\ \A i \in DOMAIN s : i + 1 \in DOMAIN Remaining /\ Remaining[i + 1] = s[i]
      BY <1>1, <1>4, <2>1, PushFacts
    <2>3. ASSUME NEW c \in Tasks, Adopted(c)  PROVE \E i \in DOMAIN Remaining : Remaining[i] = c
      BY <1>2, <2>2, <2>3
    <2>4. ASSUME NEW i \in DOMAIN Remaining  PROVE Adopted(Remaining[i]) \/ Remaining[i] = x
      BY <1>2, <2>2
    <2>. QED  BY <1>1, <1>4, <2>2, <2>3, <2>4 DEF s, x
  <1>. QED  BY <1>3, <1>4

(* fdn_supervisor_join_poll looks at the cancellation.                     *)
LEMMA EnterKeepsSup ==
    ASSUME SupInv, NEW j \in Tasks, j = join.task, NEW prompt \in Prompts, JoinEnter(j, prompt)
    PROVE  SupInv'
  <1>. USE NamesAssumption
  <1>1. TreeInv /\ TypeOK /\ HeldAreLive /\ JoinedAreOut /\ SupTypeOK /\ OwnerInv
    BY DEF SupInv, SideInv, TreeInv
  <1>2. /\ Remaining \in Seq(Tasks) /\ prompt \in Seq(Tasks)
        /\ \A c \in Tasks : Adopted(c) => \E i \in DOMAIN Remaining : Remaining[i] = c
        /\ join.current # Nobody => \E i \in DOMAIN Remaining : Remaining[i] = join.current
    BY <1>1, RemainingFacts, PromptTyped
  <1>. DEFINE cs == Remaining
           hears == Hears(j)
  <1>3. /\ Innermost("poll", j) /\ join' = [join EXCEPT !.entered = TRUE, !.cancel = @ \/ hears]
        /\ CancelIf(hears, cs, prompt)
        /\ st' = Woken(ToSet(prompt)) /\ queue' = queue \o prompt
        /\ UNCHANGED <<holder, waitingOn, waiter, turns, stack, sup>>
    BY DEF JoinEnter
  <1>4. hears \in BOOLEAN
    BY <1>1 DEF Hears, TypeOK, SupTypeOK
  <1>5. cs \in Seq(Tasks)
    BY <1>2
  <1>6. sup.state # "open"
    BY <1>1 DEF OwnerInv
  <1>. HIDE DEF cs, hears
  <1>7. /\ TreeInv'
        /\ \A d \in Tasks : st'[d] = st[d] \/ (st[d] = "parked" /\ st'[d] = "queued")
        /\ \A d \in Tasks : cancelled[d] => cancelled'[d]
        /\ hears => \A i \in DOMAIN cs : cancelled'[cs[i]]
    BY <1>1, <1>2, <1>3, <1>4, <1>5, CancelTree
  <1>8. \A d \in Tasks : Live(d) => Live(d)'
    BY <1>7 DEF Live
  <1>9. HeldAreLive'
    BY <1>1, <1>3, <1>8 DEF HeldAreLive
  <1>10. JoinedAreOut' /\ \A b \in BOOLEAN : InPlace(b)' <=> InPlace(b)
    BY <1>1, <1>3, <1>8, SameSide
  <1>11. \A d \in Tasks : /\ st[d] \in Ended => st'[d] \in Ended
                          /\ st[d] \in Under => st'[d] \in Under
    BY <1>7 DEF Ended, Under
  <1>12. Effect({}, {}) /\ KeepsAdopted
    BY <1>3, <1>7, <1>8, <1>9, <1>10, <1>11 DEF Effect, KeepsAdopted
  <1>13. /\ SupTypeOK' /\ sup' = sup /\ join'.task = join.task /\ join'.current = join.current
         /\ join'.cancel => join.cancel \/ hears
    BY <1>1, <1>3, <1>4 DEF SupTypeOK
  <1>14. hears => /\ \A c \in Tasks : Adopted(c) => cancelled'[c]
                  /\ join.current # Nobody => cancelled'[join.current]
    BY <1>2, <1>7 DEF cs
  <1>. QED  BY <1>6, <1>7, <1>12, <1>13, <1>14, TreeKeepsSup

(* The current one is waited for, or released.                             *)
LEMMA WaitsKeepsSup ==
    ASSUME SupInv, NEW j \in Tasks, j = join.task, NEW now \in BOOLEAN, JoinWaits(j, now)
    PROVE  SupInv'
  <1>1. SideInv /\ TreeInv /\ SupTypeOK
    BY DEF SupInv, SideInv
  <1>2. PICK c \in Tasks : c = join.current
    BY <1>1 DEF JoinWaits, SupTypeOK
  <1>3. CASE PollWait(j, c, now) /\ join' = [join EXCEPT !.entered = FALSE] /\ sup' = sup
    <2>1. Effect({}, {}) /\ KeepsAdopted /\ TreeInv'
      BY <1>1, <1>3, PollWaitEffect, PollWaitStep
    <2>2. SupTypeOK' /\ join'.task = join.task /\ join'.current = join.current /\ join'.cancel = join.cancel
      BY <1>1, <1>3 DEF SupTypeOK
    <2>. QED  BY <1>3, <2>1, <2>2, TreeKeepsSup
  <1>4. CASE PollWaitReady(j, c) /\ join' = [join EXCEPT !.current = Nobody] /\ sup' = sup
    <2>1. Effect({}, {}) /\ KeepsAdopted /\ TreeInv'
      BY <1>1, <1>4, FreeEffect, FreeStep
    <2>2. SupTypeOK' /\ join'.task = join.task /\ join'.current = Nobody /\ join'.cancel = join.cancel
      BY <1>1, <1>4 DEF SupTypeOK
    <2>. QED  BY <1>4, <2>1, <2>2, TreeKeepsSup
  <1>. QED  BY <1>2, <1>3, <1>4 DEF JoinWaits

(* The join ends.                                                          *)
LEMMA EndsKeepsSup ==
    ASSUME SupInv, NEW j \in Tasks, j = join.task, JoinEnds(j)
    PROVE  SupInv'
  <1>. USE NamesAssumption
  <1>1. SideInv /\ TreeInv /\ SupTypeOK /\ AdoptedInv /\ OwnerInv /\ CancelInv
    BY DEF SupInv, SideInv
  <1>2. /\ Ready(j) /\ join.current = Nobody /\ sup.adopted = <<>> /\ join' = join
        /\ sup' = [sup EXCEPT !.state = "released", !.owner = Nobody]
    BY DEF JoinEnds
  <1>3. Effect({}, {j}) /\ KeepsAdopted /\ TreeInv' /\ st'[j] = "ready"
    BY <1>1, <1>2, ReadyEffect, ReadyStep
  <1>4. st[j] = "polling"
    BY <1>1, <1>2, InnermostFacts DEF Ready
  <1>5. ~InPlace(TRUE) /\ ~InPlace(FALSE)
    <2>1. sup.state \in {"open", "closed", "released"}
      BY <1>1 DEF SupTypeOK
    <2>2. sup.state # "open" /\ sup.state # "released"
      BY <1>1, <1>4 DEF OwnerInv, Ended
    <2>. QED  BY <1>1, <2>1, <2>2 DEF OwnerInv
  <1>6. sup'.state = "released" /\ sup'.owner = Nobody /\ sup'.adopted = <<>> /\ SupTypeOK' /\ sup'.adopted = sup.adopted
    BY <1>1, <1>2 DEF SupTypeOK
  <1>7. /\ HeldAreLive' /\ JoinedAreOut'
        /\ InPlace(TRUE)' <=> InPlace(TRUE)
        /\ InPlace(FALSE)' <=> InPlace(FALSE)
    BY <1>3 DEF Effect
  <1>8. \A c : Adopted(c)' <=> Adopted(c)
    BY <1>6 DEF Adopted
  <1>9. AdoptedInv'
    BY <1>1, <1>3, <1>6, <1>8 DEF AdoptedInv, KeepsAdopted
  <1>10. OwnerInv'
    BY <1>2, <1>3, <1>5, <1>6, <1>7, Halves DEF OwnerInv
  <1>11. CancelInv'
    BY <1>2, <1>6 DEF CancelInv, Adopted
  <1>. QED  BY <1>3, <1>6, <1>7, <1>9, <1>10, <1>11 DEF SupInv, SideInv

(* A list of different tasks without its oldest, and with one more.        *)
LEMMA ListFacts ==
    ASSUME NEW s \in Seq(Tasks), \A i, k \in DOMAIN s : s[i] = s[k] => i = k
    PROVE  /\ s # <<>> => LET h == Head(s)
                              r == Tail(s)
                          IN  /\ h \in Tasks /\ \E i \in DOMAIN s : s[i] = h
                              /\ \A d : (\E i \in DOMAIN r : r[i] = d) <=> (d # h /\ \E i \in DOMAIN s : s[i] = d)
                              /\ \A i, k \in DOMAIN r : r[i] = r[k] => i = k
           /\ \A c \in Tasks : (~\E i \in DOMAIN s : s[i] = c) =>
                 LET r == Append(s, c)
                 IN  /\ \A d : (\E i \in DOMAIN r : r[i] = d) <=> (d = c \/ \E i \in DOMAIN s : s[i] = d)
                     /\ \A i, k \in DOMAIN r : r[i] = r[k] => i = k
  <1>1. ASSUME s # <<>>
        PROVE  LET h == Head(s)
                   r == Tail(s)
               IN  /\ h \in Tasks /\ \E i \in DOMAIN s : s[i] = h
                   /\ \A d : (\E i \in DOMAIN r : r[i] = d) <=> (d # h /\ \E i \in DOMAIN s : s[i] = d)
                   /\ \A i, k \in DOMAIN r : r[i] = r[k] => i = k
    <2>. DEFINE h == Head(s)
             r == Tail(s)
    <2>1. /\ h \in Tasks /\ 1 \in DOMAIN s /\ s[1] = h
          /\ \A i \in DOMAIN r : i + 1 \in DOMAIN s /\ r[i] = s[i + 1] /\ i + 1 # 1
          /\ \A i \in DOMAIN s : i # 1 => i - 1 \in DOMAIN r /\ r[i - 1] = s[i]
          /\ \A i, k \in DOMAIN r : i + 1 = k + 1 => i = k
      BY <1>1, TailFacts
    <2>. HIDE DEF h, r
    <2>2. ASSUME NEW d, NEW i \in DOMAIN r, r[i] = d  PROVE d # h /\ \E k \in DOMAIN s : s[k] = d
      BY <2>1, <2>2
    <2>3. ASSUME NEW d, NEW i \in DOMAIN s, s[i] = d, d # h  PROVE \E k \in DOMAIN r : r[k] = d
      BY <2>1, <2>3
    <2>4. \A i, k \in DOMAIN r : r[i] = r[k] => i = k
      BY <2>1
    <2>. QED  BY <2>1, <2>2, <2>3, <2>4 DEF h, r
  <1>2. ASSUME NEW c \in Tasks, ~\E i \in DOMAIN s : s[i] = c
        PROVE  LET r == Append(s, c)
               IN  /\ \A d : (\E i \in DOMAIN r : r[i] = d) <=> (d = c \/ \E i \in DOMAIN s : s[i] = d)
                   /\ \A i, k \in DOMAIN r : r[i] = r[k] => i = k
    <2>. DEFINE r == Append(s, c)
    <2>1. /\ \A i \in DOMAIN r : (i \in DOMAIN s /\ r[i] = s[i]) \/ (i = Len(s) + 1 /\ r[i] = c)
          /\ \A i \in DOMAIN s : i \in DOMAIN r /\ r[i] = s[i]
          /\ Len(s) + 1 \in DOMAIN r /\ r[Len(s) + 1] = c
      OBVIOUS
    <2>. HIDE DEF r
    <2>2. ASSUME NEW d, NEW i \in DOMAIN r, r[i] = d  PROVE d = c \/ \E k \in DOMAIN s : s[k] = d
      BY <2>1, <2>2
    <2>3. ASSUME NEW d, NEW i \in DOMAIN s, s[i] = d  PROVE \E k \in DOMAIN r : r[k] = d
      BY <2>1, <2>3
    <2>4. \E k \in DOMAIN r : r[k] = c
      BY <2>1
    <2>5. \A i, k \in DOMAIN r : r[i] = r[k] => i = k
      BY <1>2, <2>1
    <2>. QED  BY <2>2, <2>3, <2>4, <2>5 DEF r
  <1>. QED  BY <1>1, <1>2

(* A handle changes hands.                                                 *)
LEMMA HandOver ==
    ASSUME SideInv, NEW c \in Tasks, NEW to \in Tasks \cup {Sup}, holder[c] # Nobody, waiter[c] = Nobody,
           to \in Tasks => Live(to), holder' = [holder EXCEPT ![c] = to],
           UNCHANGED <<st, cancelled, waitingOn, waiter, turns, queue, stack>>
    PROVE  /\ SideInv'
           /\ \A d \in Tasks : holder'[d] = IF d = c THEN to ELSE holder[d]
           /\ \A b \in BOOLEAN : InPlace(b)' <=> InPlace(b)
           /\ \A d \in Tasks : Live(d)' <=> Live(d)
  <1>. USE NamesAssumption, SupAssumption
  <1>1. TypeOK /\ StackOK /\ QueueOK /\ WaiterHolds /\ CancellationReaches /\ NeverDetached /\ UnbornUnheld
          /\ HeldAreLive /\ JoinedAreOut
    BY DEF SideInv, TreeInv, NoReentrancy
  <1>2. \A d \in Tasks : holder'[d] = IF d = c THEN to ELSE holder[d]
    BY <1>1 DEF TypeOK
  <1>3. \A d \in Tasks : Live(d)' <=> Live(d)
    BY DEF Live
  <1>4. TypeOK'
    BY <1>1 DEF TypeOK
  <1>5. StackOK' /\ QueueOK'
    BY <1>1, StackSame, QueueSame
  <1>6. WaiterHolds'
    <2>1. \A d \in Tasks : waiter[d] # Nobody => holder'[d] = holder[d]
      BY <1>2
    <2>. QED  BY <1>1, <2>1, WaitSame DEF TypeOK
  <1>7. CancellationReaches'
    BY <1>1 DEF CancellationReaches
  <1>8. NeverDetached'
    <2>1. \A t \in Tasks : Joined(t) => Joined(t)'
      BY JoinedSame
    <2>2. ASSUME NEW t \in Tasks, Live(t)'
          PROVE  \/ holder'[t] \notin Tasks \cup {Nobody}
                 \/ (holder[t] \in Tasks /\ Live(holder[t]))'
                 \/ Joined(t)'
      <3>1. CASE t = c
        BY <1>2, <3>1 DEF Live
      <3>2. CASE t # c
        BY <1>1, <1>2, <1>3, <2>1, <2>2, <3>2 DEF NeverDetached, Live
      <3>. QED  BY <3>1, <3>2
    <2>. QED  BY <2>2 DEF NeverDetached
  <1>9. UnbornUnheld' /\ HeldAreLive'
    BY <1>1, <1>2 DEF UnbornUnheld, HeldAreLive, Live
  <1>10. \A d \in Tasks : Live(d) /\ holder[d] = Nobody => Live(d)' /\ holder'[d] = Nobody
    BY <1>2, <1>3
  <1>11. JoinedAreOut' /\ \A b \in BOOLEAN : InPlace(b)' <=> InPlace(b)
    BY <1>1, <1>10, SameSide
  <1>. QED  BY <1>2, <1>3, <1>4, <1>5, <1>6, <1>7, <1>8, <1>9, <1>11 DEF SideInv, TreeInv, NoReentrancy

(* Who is held by the supervisor is waited for by nobody.                  *)
LEMMA UnwaitedFor ==
    ASSUME SideInv, NEW c \in Tasks, waiter[c] # Nobody
    PROVE  holder[c] \in Tasks /\ st[holder[c]] = "waiting"
  BY DEF SideInv, TreeInv, WaiterHolds, TypeOK

(* foundation_runtime_supervisor_adopt.                                    *)
LEMMA AdoptKeepsSup ==
    ASSUME SupInv, NEW a \in Tasks \cup {Main}, NEW c \in Tasks, Adopt(a, c)
    PROVE  SupInv'
  <1>. USE NamesAssumption, SupAssumption
  <1>1. SideInv /\ TreeInv /\ SupTypeOK /\ AdoptedInv /\ OwnerInv /\ CancelInv
    BY DEF SupInv, SideInv
  <1>2. /\ Runs(a) /\ sup.state = "open" /\ holder[c] = a
        /\ holder' = [holder EXCEPT ![c] = Sup] /\ sup' = [sup EXCEPT !.adopted = Append(@, c)]
        /\ UNCHANGED <<st, cancelled, waitingOn, waiter, turns, queue, stack, join>>
    BY DEF Adopt, Owns, Held
  <1>3. waiter[c] = Nobody
    BY <1>1, <1>2, RunsFacts, UnwaitedFor
  <1>4. /\ SideInv'
        /\ \A d \in Tasks : holder'[d] = IF d = c THEN Sup ELSE holder[d]
        /\ \A b \in BOOLEAN : InPlace(b)' <=> InPlace(b)
        /\ \A d \in Tasks : Live(d)' <=> Live(d)
    BY <1>1, <1>2, <1>3, HandOver
  <1>5. sup.adopted \in Seq(Tasks) /\ \A i, k \in DOMAIN sup.adopted : sup.adopted[i] = sup.adopted[k] => i = k
    BY <1>1 DEF SupTypeOK, AdoptedInv
  <1>6. ~Adopted(c)
    BY <1>1, <1>2 DEF AdoptedInv
  <1>. DEFINE r == Append(sup.adopted, c)
  <1>13. r \in Seq(Tasks) /\ sup' = [sup EXCEPT !.adopted = r]
    BY <1>2, <1>5
  <1>. HIDE DEF r
  <1>7. sup'.state = "open" /\ sup'.owner = sup.owner /\ sup'.adopted = r /\ SupTypeOK'
    BY <1>1, <1>2, <1>13 DEF SupTypeOK
  <1>8. /\ \A d : Adopted(d)' <=> (d = c \/ Adopted(d))
        /\ \A i, k \in DOMAIN sup'.adopted : sup'.adopted[i] = sup'.adopted[k] => i = k
    BY <1>5, <1>6, <1>7, ListFacts DEF Adopted, r
  <1>9. AdoptedInv'
    BY <1>1, <1>4, <1>8 DEF AdoptedInv
  <1>10. join.task = Nobody /\ ~join.cancel /\ ~InPlace(TRUE)' /\ ~InPlace(FALSE)' /\ join.current = Nobody
    BY <1>1, <1>2, <1>4 DEF OwnerInv
  <1>11. OwnerInv'
    BY <1>1, <1>2, <1>4, <1>7, <1>10 DEF OwnerInv, Live
  <1>12. CancelInv'
    BY <1>2, <1>10 DEF CancelInv
  <1>. QED  BY <1>4, <1>7, <1>9, <1>11, <1>12 DEF SupInv

(* The join task takes the oldest.                                         *)
LEMMA TakesKeepsSup ==
    ASSUME SupInv, NEW j \in Tasks, j = join.task, JoinTakes(j)
    PROVE  SupInv'
  <1>. USE NamesAssumption, SupAssumption
  <1>. DEFINE s == sup.adopted
           r == Tail(s)
  <1>1. SideInv /\ TreeInv /\ SupTypeOK /\ AdoptedInv /\ OwnerInv /\ CancelInv
    BY DEF SupInv, SideInv
  <1>3. s \in Seq(Tasks) /\ s # <<>> /\ \A i, k \in DOMAIN s : s[i] = s[k] => i = k
    BY <1>1 DEF SupTypeOK, AdoptedInv, JoinTakes
  <1>14. PICK h \in Tasks : h = Head(s)
    BY <1>3, TailFacts
  <1>15. /\ r \in Seq(Tasks) /\ \E i \in DOMAIN s : s[i] = h
         /\ \A d : (\E i \in DOMAIN r : r[i] = d) <=> (d # h /\ \E i \in DOMAIN s : s[i] = d)
         /\ \A i, k \in DOMAIN r : r[i] = r[k] => i = k
    BY <1>3, <1>14, ListFacts, TailFacts
  <1>2. /\ Innermost("poll", j) /\ join.current = Nobody /\ sup.adopted # <<>>
        /\ join' = [join EXCEPT !.current = h] /\ sup' = [sup EXCEPT !.adopted = r]
        /\ holder' = [holder EXCEPT ![h] = j]
        /\ UNCHANGED <<st, cancelled, waitingOn, waiter, turns, queue, stack>>
    BY <1>14 DEF JoinTakes, Entered
  <1>4. Adopted(h)
    BY <1>15 DEF Adopted
  <1>. HIDE DEF r
  <1>5. /\ sup'.state = sup.state /\ sup'.owner = sup.owner /\ sup'.adopted = r
        /\ join'.task = j /\ join'.cancel = join.cancel /\ join'.current = h /\ SupTypeOK'
    BY <1>1, <1>2, <1>15 DEF SupTypeOK
  <1>6. /\ \A d : Adopted(d)' <=> (d # h /\ Adopted(d))
        /\ \A i, k \in DOMAIN sup'.adopted : sup'.adopted[i] = sup'.adopted[k] => i = k
    BY <1>5, <1>15 DEF Adopted
  <1>7. holder[h] = Sup
    BY <1>1, <1>4 DEF AdoptedInv
  <1>8. st[j] = "polling" /\ Live(j) /\ waiter[h] = Nobody
    BY <1>1, <1>2, <1>4, <1>7, InnermostFacts, UnwaitedFor DEF Live
  <1>9. /\ SideInv'
        /\ \A d \in Tasks : holder'[d] = IF d = h THEN j ELSE holder[d]
        /\ \A b \in BOOLEAN : InPlace(b)' <=> InPlace(b)
        /\ \A d \in Tasks : Live(d)' <=> Live(d)
    <2>1. j \in Tasks \cup {Sup} /\ holder[h] # Nobody
      BY <1>7
    <2>. QED  BY <1>1, <1>2, <1>8, <2>1, HandOver
  <1>10. AdoptedInv'
    BY <1>1, <1>4, <1>6, <1>9 DEF AdoptedInv
  <1>11. /\ sup.state = "closed" /\ sup.owner = j /\ ~InPlace(TRUE) /\ ~InPlace(FALSE)
    <2>1. sup.state \in {"open", "closed", "released"}
      BY <1>1 DEF SupTypeOK
    <2>2. sup.state # "open" /\ sup.state # "released"
      BY <1>1, <1>8 DEF OwnerInv, Ended
    <2>. QED  BY <1>1, <2>1, <2>2 DEF OwnerInv
  <1>12. OwnerInv'
    BY <1>2, <1>5, <1>8, <1>9, <1>11, Halves DEF OwnerInv
  <1>13. CancelInv'
    BY <1>1, <1>2, <1>4, <1>5, <1>6, <1>9 DEF CancelInv
  <1>. QED  BY <1>5, <1>9, <1>10, <1>12, <1>13 DEF SupInv

(* fdn_supervisor_join until its first loop.                               *)
LEMMA InPlaceKeepsSup ==
    ASSUME SupInv, NEW a \in Tasks \cup {Main}, NEW cancel \in BOOLEAN, NEW prompt \in Prompts,
           JoinInPlace(a, cancel, prompt)
    PROVE  SupInv'
  <1>. USE NamesAssumption, SupAssumption
  <1>1. TreeInv /\ TypeOK /\ HeldAreLive /\ JoinedAreOut /\ SupTypeOK /\ AdoptedInv /\ OwnerInv
    BY DEF SupInv, SideInv, TreeInv
  <1>2. /\ sup.state = "open" /\ CancelIf(cancel, sup.adopted, prompt)
        /\ st' = Woken(ToSet(prompt)) /\ queue' = queue \o prompt
        /\ sup' = [sup EXCEPT !.state = "closed", !.owner = Nobody]
        /\ stack' = <<JoinCall(cancel)>> \o stack
        /\ UNCHANGED <<holder, waitingOn, waiter, turns, join>>
    BY DEF JoinInPlace, Owns
  <1>3. sup.adopted \in Seq(Tasks) /\ prompt \in Seq(Tasks)
    BY <1>1, RemainingFacts, PromptTyped
  <1>4. /\ TreeInv'
        /\ \A d \in Tasks : st'[d] = st[d] \/ (st[d] = "parked" /\ st'[d] = "queued")
        /\ \A d \in Tasks : cancelled[d] => cancelled'[d]
        /\ cancel => \A i \in DOMAIN sup.adopted : cancelled'[sup.adopted[i]]
    BY <1>1, <1>2, <1>3, CancelTree
  <1>5. \A d \in Tasks : Live(d) => Live(d)'
    BY <1>4 DEF Live
  <1>6. HeldAreLive'
    BY <1>1, <1>2, <1>5 DEF HeldAreLive
  <1>7. join.task = Nobody /\ ~join.cancel /\ ~InPlace(TRUE) /\ ~InPlace(FALSE) /\ join.current = Nobody
    BY <1>1, <1>2 DEF OwnerInv
  <1>8. \A i \in DOMAIN stack : stack[i].op # "poll" => stack[i].task # Sup
    <2>1. \A i \in DOMAIN stack : stack[i] \in Calls /\ stack[i].task \in Tasks
      <3>1. stack \in Seq(Frames)
        BY <1>1 DEF TypeOK
      <3>2. \A i \in DOMAIN stack : stack[i] \in Frames
        BY <3>1
      <3>3. \A i \in DOMAIN stack : stack[i] # JoinCall(TRUE) /\ stack[i] # JoinCall(FALSE)
        BY <1>7 DEF InPlace
      <3>4. \A i \in DOMAIN stack : stack[i] \in Calls
        BY <3>2, <3>3 DEF Frames
      <3>. QED  BY <3>4 DEF Calls
    <2>. QED  BY <2>1
  <1>9. PICK f \in Frames : f = JoinCall(cancel) /\ f.op = "join" /\ f.task = Sup
    BY JoinCallFacts
  <1>10. JoinedAreOut' /\ \A b \in BOOLEAN : InPlace(b)' <=> (InPlace(b) \/ f = JoinCall(b))
    <2>1. \A d \in Tasks : Live(d) /\ holder[d] = Nobody => Live(d)' /\ holder'[d] = Nobody
      BY <1>2, <1>5
    <2>2. stack' = <<f>> \o stack
      BY <1>2, <1>9
    <2>. QED  BY <1>1, <1>8, <1>9, <2>1, <2>2, PushSide
  <1>11. InPlace(TRUE)' \/ InPlace(FALSE)'
    BY <1>9, <1>10
  <1>12. InPlace(TRUE)' => cancel
    <2>1. JoinCall(TRUE).cancel /\ JoinCall(cancel).cancel = cancel
      BY JoinCallFacts
    <2>. QED  BY <1>7, <1>9, <1>10, <2>1
  <1>13. sup'.state = "closed" /\ sup'.owner = Nobody /\ sup'.adopted = sup.adopted /\ SupTypeOK'
    BY <1>1, <1>2 DEF SupTypeOK
  <1>14. \A c : Adopted(c)' <=> Adopted(c)
    BY <1>13 DEF Adopted
  <1>15. AdoptedInv'
    BY <1>1, <1>2, <1>13, <1>14 DEF AdoptedInv
  <1>16. OwnerInv'
    BY <1>2, <1>7, <1>11, <1>13 DEF OwnerInv
  <1>17. cancel => \A c \in Tasks : Adopted(c) => cancelled'[c]
    BY <1>4 DEF Adopted
  <1>18. CancelInv'
    BY <1>2, <1>7, <1>12, <1>14, <1>17 DEF CancelInv
  <1>. QED  BY <1>4, <1>6, <1>10, <1>13, <1>15, <1>16, <1>18 DEF SupInv, SideInv

(* One more at the end of a concatenation.                                 *)
LEMMA AppendConcat ==
    ASSUME NEW s \in Seq(Tasks), NEW t \in Seq(Tasks), NEW x \in Tasks
    PROVE  Append(s \o t, x) = s \o Append(t, x)
  <1>. DEFINE u == Append(s \o t, x)
           v == s \o Append(t, x)
  <1>1. u \in Seq(Tasks) /\ v \in Seq(Tasks) /\ Len(u) = Len(v)
    OBVIOUS
  <1>2. \A i \in 1..Len(u) : u[i] = v[i]
    OBVIOUS
  <1>. HIDE DEF u, v
  <1>3. u = v
    BY <1>1, <1>2
  <1>. QED  BY <1>3 DEF u, v

(* fdn_supervisor_join_task, for the tree.                                 *)
LEMMA JoinTaskTree ==
    ASSUME SupInv, NEW a \in Tasks \cup {Main}, NEW j \in Tasks, NEW cancel \in BOOLEAN, NEW prompt \in Prompts,
           JoinTask(a, j, cancel, prompt)
    PROVE  /\ SideInv'
           /\ \A d \in Tasks : holder'[d] = IF d = j THEN a ELSE holder[d]
           /\ holder[j] = Nobody /\ st'[j] = "queued"
           /\ \A b \in BOOLEAN : InPlace(b)' <=> InPlace(b)
           /\ cancel => \A i \in DOMAIN sup.adopted : cancelled'[sup.adopted[i]]
  <1>. USE NamesAssumption, SupAssumption
  <1>1. /\ TreeInv /\ TypeOK /\ StackOK /\ QueueOK /\ WaiterHolds /\ CancellationReaches /\ NeverDetached
        /\ UnbornUnheld /\ HeldAreLive /\ JoinedAreOut /\ SupTypeOK
    BY DEF SupInv, SideInv, TreeInv, NoReentrancy
  <1>2. /\ Runs(a) /\ st[j] = "unborn" /\ CancelIf(cancel, sup.adopted, prompt)
        /\ st' = [Woken(ToSet(prompt)) EXCEPT ![j] = "queued"] /\ queue' = Append(queue \o prompt, j)
        /\ holder' = [holder EXCEPT ![j] = a]
        /\ UNCHANGED <<waitingOn, waiter, turns, stack>>
    BY DEF JoinTask
  <1>3. sup.adopted \in Seq(Tasks) /\ prompt \in Seq(Tasks)
    BY <1>1, RemainingFacts, PromptTyped
  <1>4. /\ \A i \in DOMAIN prompt : prompt[i] \in Tasks /\ st[prompt[i]] = "parked"
        /\ \A i, k \in DOMAIN prompt : prompt[i] = prompt[k] => i = k
        /\ cancelled' \in [Tasks -> BOOLEAN]
        /\ \A d \in Tasks : cancelled[d] => cancelled'[d]
        /\ \A d \in Tasks : (cancelled'[d] /\ waitingOn[d] # Nobody) => cancelled'[waitingOn[d]]
        /\ cancel => \A i \in DOMAIN sup.adopted : cancelled'[sup.adopted[i]]
    BY <1>1, <1>2, <1>3, CancelIfFacts
  <1>. DEFINE w == Woken(ToSet(prompt))
  <1>5. /\ w \in [Tasks -> TaskStates]
        /\ \A i \in DOMAIN prompt : w[prompt[i]] = "queued"
        /\ \A d \in Tasks : w[d] = st[d] \/ (st[d] = "parked" /\ w[d] = "queued")
    BY <1>1, <1>3, <1>4, RousedFacts
  <1>6. st' = [w EXCEPT ![j] = "queued"]
    BY <1>2
  <1>. HIDE DEF w
  <1>7. /\ st' \in [Tasks -> TaskStates] /\ st'[j] = "queued"
        /\ \A d \in Tasks : d # j => st'[d] = w[d]
    BY <1>5, <1>6 DEF TaskStates
  <1>8. \A d \in Tasks : d # j => st'[d] = st[d] \/ (st[d] = "parked" /\ st'[d] = "queued")
    BY <1>5, <1>7
  <1>9. \A d \in Tasks : holder'[d] = IF d = j THEN a ELSE holder[d]
    BY <1>1, <1>2 DEF TypeOK
  <1>10. holder[j] = Nobody /\ ~Live(j)
    BY <1>1, <1>2 DEF UnbornUnheld, Live
  <1>11. QueueOK' /\ queue' \in Seq(Tasks)
    <2>. DEFINE p == Append(prompt, j)
    <2>1. /\ p \in Seq(Tasks)
          /\ \A i \in DOMAIN p : (i \in DOMAIN prompt /\ p[i] = prompt[i]) \/ (i = Len(prompt) + 1 /\ p[i] = j)
      BY <1>3, AppendFacts
    <2>2. queue' = queue \o p
      <3>1. queue \in Seq(Tasks)
        BY <1>1 DEF TypeOK
      <3>2. Append(queue \o prompt, j) = queue \o Append(prompt, j)
        BY <1>3, <3>1, AppendConcat
      <3>. QED  BY <1>2, <3>2
    <2>. HIDE DEF p
    <2>3. \A i \in DOMAIN prompt : prompt[i] # j
      BY <1>2, <1>4
    <2>4. \A i \in DOMAIN p : st[p[i]] # "queued" /\ st'[p[i]] = "queued"
      BY <1>2, <1>4, <1>5, <1>7, <2>1, <2>3
    <2>5. \A i, k \in DOMAIN p : p[i] = p[k] => i = k
      BY <1>4, <2>1, <2>3
    <2>6. \A d \in Tasks : st[d] = "queued" => st'[d] = "queued"
      BY <1>7, <1>8
    <2>. QED  BY <1>1, <2>1, <2>2, <2>4, <2>5, <2>6, QueueConcat
  <1>12. StackOK' /\ stack' \in Seq(Frames)
    <2>1. \A d \in Tasks : st[d] \in {"polling", "freed"} => st'[d] = st[d]
      BY <1>2, <1>8
    <2>. QED  BY <1>1, <1>2, <2>1, StackSame
  <1>13. TypeOK'
    BY <1>1, <1>2, <1>4, <1>7, <1>11, <1>12 DEF TypeOK
  <1>14. WaiterHolds'
    <2>1. \A d \in Tasks : st'[d] = "waiting" <=> st[d] = "waiting"
      BY <1>2, <1>7, <1>8
    <2>2. waiter[j] = Nobody
      BY <1>1, <1>10 DEF WaiterHolds
    <2>3. \A d \in Tasks : waiter[d] # Nobody => holder'[d] = holder[d]
      BY <1>9, <2>2
    <2>. QED  BY <1>1, <1>2, <2>1, <2>3, WaitSame DEF TypeOK
  <1>15. CancellationReaches'
    BY <1>2, <1>4 DEF CancellationReaches
  <1>16. \A d \in Tasks : /\ Live(d) => Live(d)'
                          /\ Live(d)' => Live(d) \/ d = j
    BY <1>7, <1>8 DEF Live
  <1>17. NeverDetached'
    <2>1. a = Main \/ (a \in Tasks /\ Live(a))
      BY <1>1, <1>2, RunsFacts DEF Live
    <2>2. holder'[j] = Main \/ (holder[j] \in Tasks /\ Live(holder[j]))'
      BY <1>9, <1>16, <2>1 DEF Live
    <2>3. \A t \in Tasks : Joined(t) => Joined(t)'
      BY <1>2, JoinedSame
    <2>. QED  BY <1>1, <1>9, <1>16, <2>2, <2>3, Detach
  <1>18. UnbornUnheld' /\ HeldAreLive'
    BY <1>1, <1>7, <1>8, <1>9 DEF UnbornUnheld, HeldAreLive, Live
  <1>19. \A d \in Tasks : Live(d) /\ holder[d] = Nobody => Live(d)' /\ holder'[d] = Nobody
    BY <1>9, <1>10, <1>16
  <1>20. JoinedAreOut' /\ \A b \in BOOLEAN : InPlace(b)' <=> InPlace(b)
    BY <1>1, <1>2, <1>19, SameSide
  <1>21. SideInv'
    BY <1>11, <1>12, <1>13, <1>14, <1>15, <1>17, <1>18, <1>20 DEF SideInv, TreeInv, NoReentrancy
  <1>. QED  BY <1>4, <1>7, <1>9, <1>10, <1>20, <1>21

(* fdn_supervisor_join_task.                                               *)
LEMMA JoinTaskKeepsSup ==
    ASSUME SupInv, NEW a \in Tasks \cup {Main}, NEW j \in Tasks, NEW cancel \in BOOLEAN, NEW prompt \in Prompts,
           JoinTask(a, j, cancel, prompt)
    PROVE  SupInv'
  <1>. USE NamesAssumption, SupAssumption
  <1>1. /\ SideInv'
        /\ \A d \in Tasks : holder'[d] = IF d = j THEN a ELSE holder[d]
        /\ holder[j] = Nobody /\ st'[j] = "queued"
        /\ \A b \in BOOLEAN : InPlace(b)' <=> InPlace(b)
        /\ cancel => \A i \in DOMAIN sup.adopted : cancelled'[sup.adopted[i]]
    BY JoinTaskTree
  <1>2. sup.state = "open" /\ sup' = [sup EXCEPT !.state = "closed", !.owner = j] /\ join' = Frame(j, cancel)
    BY DEF JoinTask, Owns
  <1>3. SupTypeOK /\ AdoptedInv /\ OwnerInv
    BY DEF SupInv
  <1>4. /\ sup'.state = "closed" /\ sup'.owner = j /\ sup'.adopted = sup.adopted
        /\ join'.task = j /\ join'.cancel = cancel /\ join'.current = Nobody /\ SupTypeOK'
    BY <1>2, <1>3 DEF SupTypeOK, Frame
  <1>5. \A c : Adopted(c)' <=> Adopted(c)
    BY <1>4 DEF Adopted
  <1>6. AdoptedInv'
    BY <1>1, <1>3, <1>4, <1>5 DEF AdoptedInv
  <1>7. ~InPlace(TRUE) /\ ~InPlace(FALSE)
    BY <1>2, <1>3 DEF OwnerInv
  <1>8. OwnerInv'
    BY <1>1, <1>4, <1>7, Halves DEF OwnerInv
  <1>9. cancel => \A c \in Tasks : Adopted(c) => cancelled'[c]
    BY <1>1 DEF Adopted
  <1>10. CancelInv'
    BY <1>1, <1>4, <1>5, <1>7, <1>9 DEF CancelInv
  <1>. QED  BY <1>1, <1>4, <1>6, <1>8, <1>10 DEF SupInv

(* The loop of fdn_supervisor_join.                                        *)
LEMMA NextKeepsSup ==
    ASSUME SupInv, JoinNext
    PROVE  SupInv'
  <1>. USE NamesAssumption, SupAssumption
  <1>. DEFINE s == sup.adopted
           r == Tail(s)
  <1>1. SideInv /\ TreeInv /\ TypeOK /\ HeldAreLive /\ JoinedAreOut /\ SupTypeOK /\ AdoptedInv /\ OwnerInv /\ CancelInv
    BY DEF SupInv, SideInv, TreeInv
  <1>2. stack # <<>> /\ Head(stack).op = "join" /\ UNCHANGED <<st, cancelled, waitingOn, waiter, turns, queue, join>>
    BY DEF JoinNext, Joins
  <1>3. s \in Seq(Tasks) /\ \A i, k \in DOMAIN s : s[i] = s[k] => i = k
    BY <1>1 DEF SupTypeOK, AdoptedInv
  <1>4. InPlace(TRUE) \/ InPlace(FALSE)
    <2>1. 1 \in DOMAIN stack /\ Head(stack) = stack[1] /\ stack[1] \in Frames
      BY <1>1, <1>2, TailFacts DEF TypeOK
    <2>2. stack[1] \notin Calls
      BY <1>2, <2>1 DEF Calls
    <2>. QED  BY <2>1, <2>2 DEF Frames, InPlace
  <1>5. sup.state = "closed" /\ sup.owner = Nobody /\ join.task = Nobody /\ join.current = Nobody
    <2>1. sup.state \in {"open", "closed", "released"}
      BY <1>1 DEF SupTypeOK
    <2>2. sup.state # "open" /\ sup.state # "released"
      BY <1>1, <1>4 DEF OwnerInv
    <2>. QED  BY <1>1, <1>4, <2>1, <2>2 DEF OwnerInv
  <1>6. CASE s = <<>>
    <2>1. sup' = [sup EXCEPT !.state = "released"] /\ stack' = Tail(stack) /\ holder' = holder
      BY <1>6 DEF JoinNext
    <2>2. StackOK' /\ stack' \in Seq(Frames) /\ \A t \in Tasks : Joined(t) => Joined(t)'
      BY <1>1, <1>2, <2>1, StackPopJoin DEF TreeInv, NoReentrancy
    <2>3. \A d \in Tasks : Live(d)' <=> Live(d)
      BY <1>2 DEF Live
    <2>4. QueueOK'
      BY <1>1, <1>2, QueueSame DEF TreeInv, NoReentrancy
    <2>5. TypeOK'
      BY <1>1, <1>2, <2>1, <2>2 DEF TypeOK
    <2>6. WaiterHolds' /\ CancellationReaches'
      BY <1>1, <1>2, <2>1 DEF TreeInv, WaiterHolds, CancellationReaches
    <2>7. NeverDetached'
      BY <1>1, <2>1, <2>2, <2>3, Detach DEF TreeInv
    <2>8. UnbornUnheld' /\ HeldAreLive'
      BY <1>1, <1>2, <2>1 DEF TreeInv, UnbornUnheld, HeldAreLive, Live
    <2>9. \A d \in Tasks : Live(d) /\ holder[d] = Nobody => Live(d)' /\ holder'[d] = Nobody
      BY <2>1, <2>3
    <2>10. JoinedAreOut' /\ ~InPlace(TRUE)' /\ ~InPlace(FALSE)'
      BY <1>1, <1>2, <2>1, <2>9, PopSide
    <2>11. sup'.state = "released" /\ sup'.owner = Nobody /\ sup'.adopted = sup.adopted /\ SupTypeOK'
      BY <1>1, <1>2, <1>5, <2>1 DEF SupTypeOK
    <2>12. \A c : Adopted(c)' <=> Adopted(c)
      BY <2>11 DEF Adopted
    <2>13. AdoptedInv'
      BY <1>1, <2>1, <2>11, <2>12 DEF AdoptedInv
    <2>14. OwnerInv'
      BY <1>2, <1>5, <1>6, <2>10, <2>11 DEF OwnerInv
    <2>15. CancelInv'
      BY <1>2, <1>5, <1>6, <2>11 DEF CancelInv, Adopted
    <2>. QED  BY <2>2, <2>4, <2>5, <2>6, <2>7, <2>8, <2>10, <2>11, <2>13, <2>14, <2>15
              DEF SupInv, SideInv, TreeInv, NoReentrancy
  <1>7. CASE s # <<>>
    <2>1. PICK h \in Tasks : h = Head(s)
      BY <1>3, <1>7, TailFacts
    <2>2. /\ r \in Seq(Tasks) /\ \E i \in DOMAIN s : s[i] = h
          /\ \A d : (\E i \in DOMAIN r : r[i] = d) <=> (d # h /\ \E i \in DOMAIN s : s[i] = d)
          /\ \A i, k \in DOMAIN r : r[i] = r[k] => i = k
      BY <1>3, <1>7, <2>1, ListFacts, TailFacts
    <2>3. sup' = [sup EXCEPT !.adopted = r] /\ stack' = Pushed("drop", h) /\ holder' = [holder EXCEPT ![h] = Nobody]
      BY <1>7, <2>1 DEF JoinNext
    <2>. HIDE DEF r
    <2>4. holder[h] = Sup
      BY <1>1, <2>2 DEF AdoptedInv, Adopted
    <2>5. waiter[h] = Nobody
      BY <1>1, <2>4, UnwaitedFor
    <2>6. PICK S \in SUBSET Tasks : S = {}
      OBVIOUS
    <2>15. st' = Woken(S) /\ queue' = Enqueued(S) /\ \A d \in S : st[d] = "parked"
      BY <1>1, <1>2, <2>6 DEF Woken, Enqueued, TypeOK
    <2>7. TreeInv'
      BY <1>1, <1>2, <2>3, <2>5, <2>15, JoinStep
    <2>8. Effect({}, {}) /\ \A d \in Tasks : holder'[d] = IF d = h THEN Nobody ELSE holder[d]
      BY <1>1, <1>2, <2>3, <2>4, <2>15, JoinEffect
    <2>9. /\ HeldAreLive' /\ JoinedAreOut'
          /\ InPlace(TRUE)' <=> InPlace(TRUE)
          /\ InPlace(FALSE)' <=> InPlace(FALSE)
      BY <2>8 DEF Effect
    <2>10. sup'.state = "closed" /\ sup'.owner = Nobody /\ sup'.adopted = r /\ SupTypeOK'
      BY <1>1, <1>2, <1>5, <2>2, <2>3 DEF SupTypeOK
    <2>11. \A d : Adopted(d)' <=> (d # h /\ Adopted(d))
      BY <2>2, <2>10 DEF Adopted
    <2>12. AdoptedInv'
      BY <1>1, <2>2, <2>8, <2>10, <2>11 DEF AdoptedInv
    <2>13. OwnerInv'
      BY <1>2, <1>4, <1>5, <2>9, <2>10 DEF OwnerInv
    <2>14. CancelInv'
      BY <1>1, <1>2, <1>5, <2>9, <2>11 DEF CancelInv
    <2>. QED  BY <2>7, <2>9, <2>10, <2>12, <2>13, <2>14 DEF SupInv, SideInv
  <1>. QED  BY <1>6, <1>7

-----------------------------------------------------------------------------
(* The invariant.                                                          *)

(* A supervisor that has adopted nothing.                                  *)
LEMMA SupInitInv == SupInit => SupInv
  <1>. SUFFICES ASSUME SupInit  PROVE SupInv
    OBVIOUS
  <1>. USE NamesAssumption, SupAssumption
  <1>1. Init /\ sup = Opened /\ join = Frame(Nobody, FALSE)
    BY DEF SupInit
  <1>2. TreeInv
    BY <1>1, InitInv
  <1>3. stack = <<>> /\ \A c \in Tasks : holder[c] = Nobody
    BY <1>1 DEF Init
  <1>4. /\ sup.state = "open" /\ sup.owner = Main /\ sup.adopted = <<>>
        /\ join.task = Nobody /\ ~join.cancel /\ join.current = Nobody /\ SupTypeOK
    BY <1>1 DEF Opened, Frame, SupTypeOK
  <1>5. ~InPlace(TRUE) /\ ~InPlace(FALSE)
    BY <1>3 DEF InPlace
  <1>6. HeldAreLive /\ JoinedAreOut
    BY <1>3 DEF HeldAreLive, JoinedAreOut
  <1>7. AdoptedInv
    BY <1>3, <1>4 DEF AdoptedInv, Adopted
  <1>8. OwnerInv /\ CancelInv
    BY <1>4, <1>5 DEF OwnerInv, CancelInv
  <1>. QED  BY <1>2, <1>4, <1>6, <1>7, <1>8 DEF SupInv, SideInv

(* A step of the tree that says nothing of the supervisor.                 *)
LEMMA AloneKeepsSup ==
    ASSUME SupInv, TreeInv', Effect({}, {}), KeepsAdopted, UNCHANGED supVars
    PROVE  SupInv'
  <1>1. sup' = sup /\ join' = join
    BY DEF supVars
  <1>2. SupTypeOK'
    BY <1>1 DEF SupInv, SupTypeOK
  <1>. QED  BY <1>1, <1>2, TreeKeepsSup

(* The executor's steps.                                                   *)
LEMMA LoopKeepsSup ==
    ASSUME SupInv, Loop
    PROVE  SupInv'
  <1>1. SideInv /\ TreeInv
    BY DEF SupInv, SideInv
  <1>2. CASE RunOne /\ UNCHANGED supVars
    BY <1>1, <1>2, RunOneEffect, RunOneStep, AloneKeepsSup
  <1>3. ASSUME NEW t \in Tasks, Wake(t), UNCHANGED supVars  PROVE SupInv'
    BY <1>1, <1>3, WakeEffect, WakeStep, AloneKeepsSup
  <1>4. ASSUME NEW t \in Tasks, Return(t), UNCHANGED supVars  PROVE SupInv'
    BY <1>1, <1>4, ReturnEffect, ReturnStep, AloneKeepsSup
  <1>5. ASSUME NEW t \in Tasks, NEW c \in Tasks, NEW now \in BOOLEAN, DropHeld(t, c, now), UNCHANGED supVars
        PROVE  SupInv'
    BY <1>1, <1>5, DropHeldEffect, DropHeldStep, AloneKeepsSup
  <1>6. ASSUME NEW t \in Tasks, ReleaseFrame(t)  PROVE SupInv'
    <2>1. sup.owner # t /\ Release(t) /\ sup' = sup /\ join' = join
      BY <1>6 DEF ReleaseFrame, Disowned, supVars
    <2>2. Effect({t}, {}) /\ KeepsAdopted /\ TreeInv'
      BY <1>1, <2>1, ReleaseEffect, ReleaseStep
    <2>3. SupTypeOK' /\ sup.owner \notin {t}
      BY <2>1 DEF SupInv, SupTypeOK
    <2>. QED  BY <2>1, <2>2, <2>3, TreeKeepsSup
  <1>. QED  BY <1>2, <1>3, <1>4, <1>5, <1>6, NextKeepsSup DEF Loop

(* The polls of programs.                                                  *)
LEMMA PollingKeepsSup ==
    ASSUME SupInv, NEW t \in Tasks, t # join.task, Polling(t), UNCHANGED supVars
    PROVE  SupInv'
  <1>1. SideInv /\ TreeInv
    BY DEF SupInv, SideInv
  <1>2. ASSUME NEW c \in Tasks, PollWaitReady(t, c)  PROVE SupInv'
    BY <1>1, <1>2, FreeEffect, FreeStep, AloneKeepsSup
  <1>3. ASSUME NEW c \in Tasks, NEW now \in BOOLEAN, PollWait(t, c, now)  PROVE SupInv'
    BY <1>1, <1>3, PollWaitEffect, PollWaitStep, AloneKeepsSup
  <1>4. CASE Yield(t) \/ Park(t)
    BY <1>1, <1>4, PendingEffect, PendingStep, AloneKeepsSup
  <1>5. CASE Ready(t)
    <2>1. Effect({}, {t}) /\ KeepsAdopted /\ TreeInv'
      BY <1>1, <1>5, ReadyEffect, ReadyStep
    <2>2. sup' = sup /\ join' = join /\ join.task \notin {t}
      BY DEF supVars
    <2>3. SupTypeOK'
      BY <2>2 DEF SupInv, SupTypeOK
    <2>. QED  BY <2>1, <2>2, <2>3, TreeKeepsSup
  <1>. QED  BY <1>2, <1>3, <1>4, <1>5 DEF Polling

(* Every step keeps it.                                                    *)
LEMMA SupStepInv ==
    ASSUME SupInv, [SupNext]_allVars
    PROVE  SupInv'
  <1>1. CASE UNCHANGED allVars
    BY <1>1, StutterKeepsSup
  <1>2. CASE Loop
    BY <1>2, LoopKeepsSup
  <1>3. ASSUME NEW t \in Tasks, Program(t), Polling(t), UNCHANGED supVars  PROVE SupInv'
    BY <1>3, PollingKeepsSup DEF Program
  <1>4. ASSUME NEW t \in Tasks, ~Program(t), JoinPoll(t)  PROVE SupInv'
    <2>1. t = join.task
      BY <1>4 DEF Program
    <2>. QED  BY <1>4, <2>1, EnterKeepsSup, TakesKeepsSup, WaitsKeepsSup, EndsKeepsSup DEF JoinPoll
  <1>5. ASSUME NEW a \in Tasks \cup {Main}, Supervise(a)  PROVE SupInv'
    BY <1>5, AdoptKeepsSup, InPlaceKeepsSup, JoinTaskKeepsSup DEF Supervise
  <1>6. ASSUME NEW a \in Tasks \cup {Main}, RunningProgram(a)  PROVE SupInv'
    <2>1. ASSUME NEW c \in Tasks, NEW given \in SUBSET Held(a), NEW moved \in BOOLEAN, SpawnWith(a, c, given, moved)
          PROVE  SupInv'
      BY <2>1, SpawnKeepsSup
    <2>2. ASSUME NEW c \in Tasks, NEW now \in BOOLEAN, Drop(a, c, now) \/ Wait(a, c, now), UNCHANGED supVars
          PROVE  SupInv'
      BY <2>2, DropEffect, DropStep, AloneKeepsSup DEF SupInv, SideInv
    <2>. QED  BY <1>6, <2>1, <2>2 DEF RunningProgram
  <1>. QED  BY <1>1, <1>2, <1>3, <1>4, <1>5, <1>6 DEF SupNext

(* What the supervisor promises follows.                                   *)
LEMMA SupInvGives ==
    ASSUME SupInv
    PROVE  AdoptedAreAttended /\ CancelReachesAdopted
  <1>. USE NamesAssumption, SupAssumption
  <1>1. SideInv /\ SupTypeOK /\ AdoptedInv /\ OwnerInv /\ CancelInv /\ HeldAreLive
    BY DEF SupInv, SideInv
  <1>2. \A i \in DOMAIN sup.adopted : sup.adopted[i] \in Tasks /\ Adopted(sup.adopted[i])
    BY <1>1 DEF SupTypeOK, Adopted
  <1>3. \A i \in DOMAIN sup.adopted : Live(sup.adopted[i])
    BY <1>1, <1>2 DEF AdoptedInv, HeldAreLive
  <1>4. sup.adopted # <<>> => Attended
    <2>1. \A b \in BOOLEAN : InPlace(b) => \E i \in DOMAIN stack : stack[i].op = "join"
      BY JoinCallFacts DEF InPlace
    <2>2. sup.state \in {"open", "closed", "released"}
      BY <1>1 DEF SupTypeOK
    <2>3. CASE sup.state = "open"
      BY <1>1, <2>3 DEF OwnerInv, Attended
    <2>4. CASE sup.state = "closed"
      BY <1>1, <2>1, <2>4, Halves DEF OwnerInv, Attended, Live
    <2>. QED  BY <1>1, <2>2, <2>3, <2>4 DEF OwnerInv
  <1>5. \A i \in DOMAIN sup.adopted : sup.adopted # <<>>
    BY <1>1 DEF SupTypeOK
  <1>6. sup.state = "released" => sup.adopted = <<>> /\ join.current = Nobody
    BY <1>1 DEF OwnerInv
  <1>7. AdoptedAreAttended
    BY <1>1, <1>3, <1>4, <1>5, <1>6 DEF AdoptedAreAttended, AdoptedInv, Adopted
  <1>8. CancelReachesAdopted
    <2>. SUFFICES ASSUME Cancelling, NEW i \in DOMAIN Remaining  PROVE cancelled[Remaining[i]]
      BY DEF CancelReachesAdopted
    <2>1. join.cancel \/ InPlace(TRUE)
      BY DEF Cancelling, InPlace
    <2>2. Remaining[i] \in Tasks /\ (Adopted(Remaining[i]) \/ (join.current # Nobody /\ Remaining[i] = join.current))
      BY <1>1, RemainingFacts
    <2>. QED  BY <1>1, <2>1, <2>2 DEF CancelInv
  <1>. QED  BY <1>7, <1>8

(* fdn_supervisor_join, its join task and the drop of a supervisor leave   *)
(* no adopted task on its own, and release it only when it has none.       *)
THEOREM SupervisorsJoinAll == SupSpec => []AdoptedAreAttended
  <1>1. SupInv => AdoptedAreAttended
    BY SupInvGives
  <1>. QED  BY <1>1, SupInitInv, SupStepInv, PTL DEF SupSpec

(* Cancelling a supervisor, in place or through its join task, reaches     *)
(* every task it still has.                                                *)
THEOREM SupervisorsCancelAll == SupSpec => []CancelReachesAdopted
  <1>1. SupInv => CancelReachesAdopted
    BY SupInvGives
  <1>. QED  BY <1>1, SupInitInv, SupStepInv, PTL DEF SupSpec

(* The four promises of the tree hold with a supervisor in it: the handles *)
(* that fdn_supervisor_join and its task take over, and the loops they     *)
(* run, break none of them.                                                *)
THEOREM SupervisedTreeIsSound ==
    SupSpec => [](CancellationReaches /\ WaiterHolds /\ NeverDetached /\ NoReentrancy)
  <1>1. SupInv => CancellationReaches /\ WaiterHolds /\ NeverDetached /\ NoReentrancy
    BY DEF SupInv, SideInv, TreeInv
  <1>. QED  BY <1>1, SupInitInv, SupStepInv, PTL DEF SupSpec
=============================================================================
