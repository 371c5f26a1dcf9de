------------------------------- MODULE Channel -------------------------------
(***************************************************************************)
(* The channel transport of the Foundation runtime (runtime/src/channel.c) *)
(* used by tasks that live on several executors: send, receive, select     *)
(* with a deadline, sender and receiver clones, endpoint drops, structured *)
(* cancellation, and the wake-ups that cross from one executor to another  *)
(* through the mailbox of the parked task's executor (task.c).             *)
(*                                                                         *)
(* A critical section under the channel lock is one step.  The windows the *)
(* code leaves open between two critical sections are steps of their own:  *)
(*   - a remote wake sits in the mailbox until the owner drains it,        *)
(*   - a resumed select unregisters from one channel at a time and then    *)
(*     polls all its cases again,                                          *)
(*   - the last receiver drops the buffered messages outside the lock.     *)
(* Payload bytes are abstracted to message identities <<task, number>>.    *)
(***************************************************************************)
EXTENDS Integers, Sequences, FiniteSets, SequencesExt

CONSTANTS
    Tasks,          \* tasks that use channels
    Channels,       \* channels, opened before the tasks start
    Executors,      \* executor threads
    Home,           \* [Tasks -> Executors], the executor that owns a task
    Capacity,       \* [Channels -> Nat], 0 is a rendezvous channel
    Selects,        \* the case lists tasks may select on
    FirstSender,    \* [Channels -> Tasks], the task given the sender endpoint
    FirstReceiver,  \* [Channels -> Tasks], the task given the receiver endpoint
    MaxOps,         \* bound: operations one task starts
    MaxSenders,     \* bound: sender handles of one channel
    MaxReceivers,   \* bound: receiver handles of each channel
    NoMsg           \* not a message

Case == [kind : {"send", "receive"}, chan : Channels]

ASSUME ConstantsAssumption ==
    /\ Home \in [Tasks -> Executors]
    /\ Capacity \in [Channels -> Nat]
    /\ FirstSender \in [Channels -> Tasks]
    /\ FirstReceiver \in [Channels -> Tasks]
    /\ \A s \in Selects : s \in Seq(Case) /\ s # <<>>
    /\ MaxOps \in Nat /\ MaxSenders \in Nat \ {0} /\ MaxReceivers \in [Channels -> Nat \ {0}]
    /\ NoMsg \notin Tasks \X (1..MaxOps) \X Nat

VARIABLES
    buffer,     \* message_head..message_tail of a channel
    sendQ,      \* send_head..send_tail: parked senders
    recvQ,      \* receive_head..receive_tail: parked receivers
    selQ,       \* select_head..select_tail: registered selects, by task
    senders, receivers, holds,      \* the reference counts of a channel
    live,       \* FALSE once fdn_channel_destroy ran
    sendEnds, recvEnds,     \* the endpoint handles in a task's frame
    stage,      \* where a task is, see Stages
    op,         \* the suspended operation of a task
    signaled,   \* fdn_channel_select_wait.signaled
    expired,    \* the select's deadline has passed
    cancelled,  \* cancellation_requested
    wake,       \* wake_status, once the owner has accepted the wake
    slot,       \* the message copied into a parked task's frame
    flushing,   \* channels whose messages a task drops outside the lock
    mailbox,    \* the remote wakes posted for a task to its executor
    started,    \* operations a task has started (bounds the model)
    fault,      \* the panic the runtime raised, "none" if it did not
    arrival,    \* history: messages offered to a channel and not withdrawn
    taken,      \* history: messages handed to a receiver, in order
    flushed,    \* history: messages dropped with the last receiver
    verdict     \* history: what a send operation told its task

chanVars == <<buffer, sendQ, recvQ, selQ, senders, receivers, holds, live>>
taskVars == <<sendEnds, recvEnds, stage, op, signaled, expired, cancelled,
              wake, slot, flushing, started>>
histVars == <<arrival, taken, flushed, verdict>>
vars == <<chanVars, taskVars, mailbox, fault, histVars>>

-----------------------------------------------------------------------------
(* "ready"      in the ready queue or running, with no operation suspended *)
(* "parked"     cancel_wait is set: the task waits for a wake              *)
(* "woken"      wake_ready is set and the task is back in the ready queue  *)
(* "unregister" in poll_select, unlinking its registrations one by one     *)
(* "repoll"     in poll_select after an event, about to lock its channels  *)
(* "flush"      in drop_receiver, dropping messages outside the lock       *)
(* "done"       the frame was dropped                                      *)
Stages == {"ready", "parked", "woken", "unregister", "repoll", "flush", "done"}
MidPoll == {"unregister", "repoll", "flush"}

Msgs == Tasks \X (1..MaxOps) \X Nat
Statuses == {"ready", "closed", "cancelled", "timeout", "event"}
NoWake == [status |-> "none", case |-> 0]
NoOp == [kind |-> "none", cases |-> <<>>, msgs |-> <<>>, timed |-> FALSE]

(* The status and the case index fdn_channel_select_encode packs together. *)
MutWk(status, case) == [status |-> IF case > 0 THEN "event" ELSE status, case |-> 0]
Wk(status, case) == [status |-> status, case |-> case]

(* The thread of an executor runs one poll at a time.                      *)
ThreadFree(e) == \A t \in Tasks : Home[t] = e => stage[t] \notin MidPoll
CanStart(t) == /\ fault = "none" /\ stage[t] = "ready" /\ ThreadFree(Home[t])
               /\ started[t] < MaxOps

(* fdn_task_run_one looks at timers and at the mailbox only when the ready *)
(* queue is empty.                                                         *)
QueueEmpty(e) == \A t \in Tasks : Home[t] = e => stage[t] \in {"parked", "done"}

-----------------------------------------------------------------------------
(* Waking.  fdn_task_wake enqueues a task of the running executor at once  *)
(* and posts a wake for any other task to its executor's mailbox.          *)
(* fdn_task_wake_local panics when the task is not waiting.  ws[t] are the *)
(* wakes sent to t, oldest first; the order of the wakes of different      *)
(* tasks is left out, as is that of the ready queue.                       *)

NoWakes == [t \in Tasks |-> <<>>]
WakeEach(ts, w) == [t \in Tasks |-> IF t \in ts THEN <<w>> ELSE <<>>]
AndThen(ws1, ws2) == [t \in Tasks |-> ws1[t] \o ws2[t]]

Enqueue(ws, base, baseWake) ==
    /\ stage' = [t \in Tasks |-> IF ws[t] # <<>> THEN "woken" ELSE base[t]]
    /\ wake' = [t \in Tasks |-> IF ws[t] # <<>> THEN ws[t][1] ELSE baseWake[t]]
    /\ fault' = IF \E t \in Tasks : ws[t] # <<>> /\ (stage[t] # "parked" \/ Len(ws[t]) > 1)
                THEN "invalid task wake" ELSE fault

WakeTasks(ws, e, base, baseWake) ==
    /\ Enqueue([t \in Tasks |-> IF Home[t] = e THEN ws[t] ELSE <<>>], base, baseWake)
    /\ mailbox' = [t \in Tasks |-> IF Home[t] = e THEN mailbox[t] ELSE mailbox[t] \o ws[t]]

(* fdn_channel_select_signal_locked: claim every registered select nobody  *)
(* has claimed yet and wake it with an event.                              *)
MutUnclaimedAll(c) == Range(selQ[c])
MutUnclaimedNone(c) == {}
Unclaimed(c) == {t \in Range(selQ[c]) : ~signaled[t]}
Signals(c) == WakeEach(Unclaimed(c), Wk("event", 0))

(* fdn_channel_select_match_locked: the first registered select that has a *)
(* case of this kind on this channel and can still be claimed.             *)
CasesOf(t, c, kind) ==
    {i \in DOMAIN op[t].cases : op[t].cases[i] = [kind |-> kind, chan |-> c]}
Matching(c, kind) ==
    {i \in DOMAIN selQ[c] : ~signaled[selQ[c][i]] /\ CasesOf(selQ[c][i], c, kind) # {}}
Match(c, kind) ==
    selQ[c][CHOOSE i \in Matching(c, kind) : \A j \in Matching(c, kind) : i <= j]
FirstCase(t, c, kind) ==
    CHOOSE i \in CasesOf(t, c, kind) : \A j \in CasesOf(t, c, kind) : i <= j

-----------------------------------------------------------------------------
(* What one attempt at an operation does to channel c while the lock is    *)
(* held.  An attempt that stays pending changes nothing.                   *)

Attempt(c) == [status |-> "pending", buffer |-> buffer[c], sendQ |-> sendQ[c],
               recvQ |-> recvQ[c], wakes |-> NoWakes, claimed |-> {},
               into |-> {}, got |-> NoMsg, arrived |-> <<>>, passed |-> <<>>]

(* fdn_channel_poll_send and fdn_channel_try_send_locked, up to parking.   *)
TrySend(c, m) ==
    IF receivers[c] = 0
    THEN [Attempt(c) EXCEPT !.status = "closed"]
    ELSE IF recvQ[c] # <<>>
    THEN [Attempt(c) EXCEPT !.status = "ready", !.recvQ = Tail(@),
             !.wakes = WakeEach({Head(recvQ[c])}, Wk("ready", 0)),
             !.into = {Head(recvQ[c])}, !.arrived = <<m>>, !.passed = <<m>>]
    ELSE IF Matching(c, "receive") # {}
    THEN LET t == Match(c, "receive") IN
         [Attempt(c) EXCEPT !.status = "ready",
             !.wakes = WakeEach({t}, Wk("ready", FirstCase(t, c, "receive"))),
             !.claimed = {t}, !.into = {t},
             !.arrived = <<m>>, !.passed = <<m>>]
    ELSE IF Len(buffer[c]) < Capacity[c]
    THEN [Attempt(c) EXCEPT !.status = "ready", !.buffer = Append(@, m),
             !.wakes = Signals(c), !.claimed = Unclaimed(c),
             !.arrived = <<m>>]
    ELSE Attempt(c)

(* fdn_channel_fill_buffer_from_sender, after one message left the buffer. *)
Refills(c) == /\ Len(buffer[c]) - 1 < Capacity[c] /\ receivers[c] # 0
              /\ sendQ[c] # <<>>

(* fdn_channel_poll_receive and fdn_channel_try_receive_locked.            *)
TryReceive(c) ==
    IF buffer[c] # <<>>
    THEN LET s == Head(sendQ[c]) IN
         [Attempt(c) EXCEPT !.status = "ready", !.got = Head(buffer[c]),
             !.buffer = IF Refills(c) THEN Append(Tail(@), op[s].msgs[1])
                                      ELSE Tail(@),
             !.sendQ = IF Refills(c) THEN Tail(@) ELSE @,
             !.wakes = AndThen(Signals(c),
                         WakeEach(IF Refills(c) THEN {s} ELSE {}, Wk("ready", 0))),
             !.claimed = Unclaimed(c), !.passed = <<Head(buffer[c])>>]
    ELSE IF sendQ[c] # <<>>
    THEN LET m == op[Head(sendQ[c])].msgs[1] IN
         [Attempt(c) EXCEPT !.status = "ready", !.got = m, !.sendQ = Tail(@),
             !.wakes = WakeEach({Head(sendQ[c])}, Wk("ready", 0)), !.passed = <<m>>]
    ELSE IF Matching(c, "send") # {}
    THEN LET t == Match(c, "send")
             i == FirstCase(t, c, "send")
             m == op[t].msgs[i] IN
         [Attempt(c) EXCEPT !.status = "ready", !.got = m,
             !.wakes = WakeEach({t}, Wk("ready", i)), !.claimed = {t},
             !.arrived = <<m>>, !.passed = <<m>>]
    ELSE IF senders[c] = 0
    THEN [Attempt(c) EXCEPT !.status = "closed"]
    ELSE Attempt(c)

(* The channel side of an attempt r made by task t.                        *)
Commit(t, c, r, base, baseWake) ==
    /\ buffer' = [buffer EXCEPT ![c] = r.buffer]
    /\ sendQ' = [sendQ EXCEPT ![c] = r.sendQ]
    /\ recvQ' = [recvQ EXCEPT ![c] = r.recvQ]
    /\ signaled' = [u \in Tasks |-> signaled[u] \/ u \in r.claimed]
    /\ slot' = [u \in Tasks |-> IF u \in r.into THEN r.arrived[1] ELSE slot[u]]
    /\ arrival' = [arrival EXCEPT ![c] = @ \o r.arrived]
    /\ taken' = [taken EXCEPT ![c] = @ \o r.passed]
    /\ WakeTasks(r.wakes, Home[t], base, baseWake)

(* What the finished operation tells its task about the messages it was    *)
(* given: the selected send succeeded or failed, every other payload is    *)
(* dropped.                                                                *)
Judge(o, status, case) ==
    verdict' = [m \in (DOMAIN verdict \cup Range(o.msgs)) \ {NoMsg} |->
        IF \E i \in DOMAIN o.msgs : o.msgs[i] = m
        THEN IF status = "ready" /\ m = o.msgs[case] THEN "sent" ELSE "dropped"
        ELSE verdict[m]]

-----------------------------------------------------------------------------
(* fdn_channel_open: one sender and one receiver handle.                   *)
Init ==
    /\ buffer = [c \in Channels |-> <<>>]
    /\ sendQ = [c \in Channels |-> <<>>]
    /\ recvQ = [c \in Channels |-> <<>>]
    /\ selQ = [c \in Channels |-> <<>>]
    /\ senders = [c \in Channels |-> 1]
    /\ receivers = [c \in Channels |-> 1]
    /\ holds = [c \in Channels |-> 0]
    /\ live = [c \in Channels |-> TRUE]
    /\ sendEnds = [t \in Tasks |-> [c \in Channels |->
                      IF FirstSender[c] = t THEN 1 ELSE 0]]
    /\ recvEnds = [t \in Tasks |-> [c \in Channels |->
                      IF FirstReceiver[c] = t THEN 1 ELSE 0]]
    /\ stage = [t \in Tasks |-> "ready"]
    /\ op = [t \in Tasks |-> NoOp]
    /\ signaled = [t \in Tasks |-> FALSE]
    /\ expired = [t \in Tasks |-> FALSE]
    /\ cancelled = [t \in Tasks |-> FALSE]
    /\ wake = [t \in Tasks |-> NoWake]
    /\ slot = [t \in Tasks |-> NoMsg]
    /\ flushing = [t \in Tasks |-> {}]
    /\ mailbox = NoWakes
    /\ started = [t \in Tasks |-> 0]
    /\ fault = "none"
    /\ arrival = [c \in Channels |-> <<>>]
    /\ taken = [c \in Channels |-> <<>>]
    /\ flushed = [c \in Channels |-> <<>>]
    /\ verdict = <<>>

(* A handle is null once it was dropped or moved away.                     *)
Owns(ends, t, c) == ends[t][c] > 0

Count(t) == started' = [started EXCEPT ![t] = @ + 1]

(* fdn_channel_poll_send, first poll.                                      *)
Send(t, c) ==
    /\ CanStart(t) /\ Owns(sendEnds, t, c)
    /\ LET m == <<t, started[t] + 1, 1>>
           o == [kind |-> "send", cases |-> <<[kind |-> "send", chan |-> c]>>,
                 msgs |-> <<m>>, timed |-> FALSE]
           r == TrySend(c, m)
       IN  \/ /\ cancelled[t]
              /\ Judge(o, "cancelled", 1)
              /\ UNCHANGED <<chanVars, signaled, slot, stage, wake, op, mailbox,
                             fault, arrival, taken>>
           \/ /\ ~cancelled[t] /\ r.status # "pending"
              /\ Commit(t, c, r, stage, wake)
              /\ Judge(o, r.status, 1)
              /\ UNCHANGED <<selQ, senders, receivers, holds, live, op>>
           \/ /\ ~cancelled[t] /\ r.status = "pending"
              /\ op' = [op EXCEPT ![t] = o]
              /\ Commit(t, c, [r EXCEPT !.sendQ = Append(@, t),
                                        !.wakes = Signals(c),
                                        !.claimed = Unclaimed(c),
                                        !.arrived = <<m>>],
                        [stage EXCEPT ![t] = "parked"], wake)
              /\ UNCHANGED <<selQ, senders, receivers, holds, live, verdict>>
    /\ Count(t)
    /\ UNCHANGED <<sendEnds, recvEnds, expired, cancelled, flushing, flushed>>

(* fdn_channel_poll_receive, first poll.                                   *)
Receive(t, c) ==
    /\ CanStart(t) /\ Owns(recvEnds, t, c)
    /\ LET r == TryReceive(c)
           o == [kind |-> "receive", msgs |-> <<NoMsg>>, timed |-> FALSE,
                 cases |-> <<[kind |-> "receive", chan |-> c]>>]
       IN  \/ /\ cancelled[t]
              /\ UNCHANGED <<chanVars, signaled, slot, stage, wake, op, mailbox,
                             fault, arrival, taken>>
           \/ /\ ~cancelled[t] /\ r.status # "pending"
              /\ Commit(t, c, r, stage, wake)
              /\ UNCHANGED <<selQ, senders, receivers, holds, live, op>>
           \/ /\ ~cancelled[t] /\ r.status = "pending"
              /\ op' = [op EXCEPT ![t] = o]
              /\ Commit(t, c, [r EXCEPT !.recvQ = Append(@, t),
                                        !.wakes = Signals(c),
                                        !.claimed = Unclaimed(c)],
                        [stage EXCEPT ![t] = "parked"], wake)
              /\ UNCHANGED <<selQ, senders, receivers, holds, live>>
    /\ Count(t)
    /\ UNCHANGED <<sendEnds, recvEnds, expired, cancelled, flushing, flushed,
                   verdict>>

-----------------------------------------------------------------------------
(* fdn_channel_poll_select once it holds the locks of all its channels.    *)

AttemptCase(o, i) == IF o.cases[i].kind = "send"
                     THEN TrySend(o.cases[i].chan, o.msgs[i])
                     ELSE TryReceive(o.cases[i].chan)
Eligible(o) == {i \in DOMAIN o.cases : AttemptCase(o, i).status # "pending"}

Finish(t, o, status, case) ==
    /\ op' = [op EXCEPT ![t] = NoOp]
    /\ expired' = [expired EXCEPT ![t] = FALSE]
    /\ Judge(o, status, case)

PollCases(t, o, late) ==
    \/ /\ ~cancelled[t] /\ Eligible(o) # {}
       /\ LET i == CHOOSE i \in Eligible(o) : \A j \in Eligible(o) : i <= j
              r == AttemptCase(o, i)
          IN  /\ Commit(t, o.cases[i].chan, r, [stage EXCEPT ![t] = "ready"],
                        [wake EXCEPT ![t] = NoWake])
              /\ Finish(t, o, r.status, i)
       /\ UNCHANGED selQ
    \/ /\ ~cancelled[t] /\ Eligible(o) = {} /\ ~late
       /\ selQ' = [c \in Channels |->
             IF \E i \in DOMAIN o.cases : o.cases[i].chan = c
             THEN Append(selQ[c], t) ELSE selQ[c]]
       /\ signaled' = [signaled EXCEPT ![t] = FALSE]
       /\ stage' = [stage EXCEPT ![t] = "parked"]
       /\ wake' = [wake EXCEPT ![t] = NoWake]
       /\ op' = [op EXCEPT ![t] = o]
       /\ UNCHANGED <<buffer, sendQ, recvQ, slot, expired, mailbox, fault,
                      arrival, taken, verdict>>
    \/ /\ cancelled[t] \/ (Eligible(o) = {} /\ late)
       /\ Finish(t, o, IF cancelled[t] THEN "cancelled" ELSE "timeout", 0)
       /\ stage' = [stage EXCEPT ![t] = "ready"]
       /\ wake' = [wake EXCEPT ![t] = NoWake]
       /\ UNCHANGED <<buffer, sendQ, recvQ, selQ, signaled, slot, mailbox,
                      fault, arrival, taken>>

(* First poll.  Every send payload is prepared before the first attempt;   *)
(* a timed select may start with its deadline already behind it.           *)
Select(t, s, timed, late) ==
    /\ CanStart(t) /\ (late => timed)
    /\ \A i \in DOMAIN s : Owns(IF s[i].kind = "send" THEN sendEnds ELSE recvEnds,
                                t, s[i].chan)
    /\ PollCases(t, [kind |-> "select", cases |-> s, timed |-> timed,
                     msgs |-> [i \in DOMAIN s |-> IF s[i].kind = "send"
                                 THEN <<t, started[t] + 1, i>> ELSE NoMsg]],
                 late)
    /\ Count(t)
    /\ UNCHANGED <<senders, receivers, holds, live, sendEnds, recvEnds,
                   cancelled, flushing, flushed>>

(* The wake was an event: poll all the cases again, deadline included.     *)
Repoll(t) ==
    /\ fault = "none" /\ stage[t] = "repoll"
    /\ PollCases(t, op[t], expired[t])
    /\ UNCHANGED <<senders, receivers, holds, live, sendEnds, recvEnds,
                   cancelled, flushing, started, flushed>>

-----------------------------------------------------------------------------
(* Resuming a parked task.                                                 *)

(* fdn_task_take_wake at the head of poll_send and poll_receive.           *)
TakeWake(t) ==
    /\ fault = "none" /\ stage[t] = "woken" /\ ThreadFree(Home[t])
    /\ op[t].kind \in {"send", "receive"}
    /\ Finish(t, op[t], wake[t].status, 1)
    /\ stage' = [stage EXCEPT ![t] = "ready"]
    /\ wake' = [wake EXCEPT ![t] = NoWake]
    /\ slot' = [slot EXCEPT ![t] = IF wake[t].status = "ready" THEN NoMsg ELSE @]
    /\ UNCHANGED <<chanVars, sendEnds, recvEnds, signaled, cancelled, flushing,
                   mailbox, started, fault, arrival, taken, flushed>>

(* The unlinking loops of fdn_channel_wait_remove and                      *)
(* fdn_channel_select_unlink_locked.                                       *)
MutWithout(q, t) == Tail(q)
Without(q, t) == RemoveAt(q, CHOOSE i \in DOMAIN q : q[i] = t)

(* fdn_channel_select_unregister takes the locks one after the other, in   *)
(* case order; the wake is acted on after the last one.                    *)
Registered(t) == {i \in DOMAIN op[t].cases : t \in Range(selQ[op[t].cases[i].chan])}
Unregister(t) ==
    /\ fault = "none" /\ op[t].kind = "select" /\ Registered(t) # {}
    /\ \/ stage[t] = "woken" /\ ThreadFree(Home[t])
       \/ stage[t] = "unregister"
    /\ LET i == CHOOSE i \in Registered(t) : \A j \in Registered(t) : i <= j
           c == op[t].cases[i].chan
           last == \A j \in Registered(t) : op[t].cases[j].chan = c
       IN  /\ selQ' = [selQ EXCEPT ![c] = Without(@, t)]
           /\ \/ /\ ~last
                 /\ stage' = [stage EXCEPT ![t] = "unregister"]
                 /\ UNCHANGED <<op, expired, verdict, wake, slot>>
              \/ /\ last /\ wake[t].status = "event"
                 /\ stage' = [stage EXCEPT ![t] = "repoll"]
                 /\ UNCHANGED <<op, expired, verdict, wake, slot>>
              \/ /\ last /\ wake[t].status # "event"
                 /\ Finish(t, op[t], wake[t].status, wake[t].case)
                 /\ stage' = [stage EXCEPT ![t] = "ready"]
                 /\ wake' = [wake EXCEPT ![t] = NoWake]
                 /\ slot' = [slot EXCEPT ![t] =
                                IF wake[t].status = "ready" THEN NoMsg ELSE @]
    /\ UNCHANGED <<buffer, sendQ, recvQ, senders, receivers, holds, live,
                   sendEnds, recvEnds, signaled, cancelled, flushing, mailbox,
                   started, fault, arrival, taken, flushed>>

(* fdn_task_executor_drain, run when the executor has nothing ready.       *)
Drain(e) ==
    /\ fault = "none" /\ QueueEmpty(e) /\ \E t \in Tasks : Home[t] = e /\ mailbox[t] # <<>>
    /\ Enqueue([t \in Tasks |-> IF Home[t] = e THEN mailbox[t] ELSE <<>>], stage, wake)
    /\ mailbox' = [t \in Tasks |-> IF Home[t] = e THEN <<>> ELSE mailbox[t]]
    /\ UNCHANGED <<chanVars, histVars, sendEnds, recvEnds, op, signaled,
                   expired, cancelled, slot, flushing, started>>

(* The monotonic clock passes a select's deadline.                         *)
Expire(t) ==
    /\ fault = "none" /\ op[t].timed /\ ~expired[t]
    /\ expired' = [expired EXCEPT ![t] = TRUE]
    /\ UNCHANGED <<chanVars, histVars, sendEnds, recvEnds, stage, op, signaled,
                   cancelled, wake, slot, flushing, started, mailbox, fault>>

(* fdn_channel_select_wake_expired, the timer source of an idle executor.  *)
MutLate(e) == {t \in Tasks : /\ Home[t] = e /\ stage[t] = "parked" /\ op[t].kind = "select"
                             /\ op[t].timed /\ ~signaled[t] /\ ~expired[t]}
Late(e) == {t \in Tasks : /\ Home[t] = e /\ stage[t] = "parked" /\ op[t].kind = "select"
                          /\ op[t].timed /\ ~signaled[t] /\ expired[t]}
WakeExpired(e) ==
    /\ fault = "none" /\ QueueEmpty(e) /\ Late(e) # {}
    /\ signaled' = [t \in Tasks |-> signaled[t] \/ t \in Late(e)]
    /\ WakeTasks(WakeEach(Late(e), Wk("timeout", 0)), e, stage, wake)
    /\ UNCHANGED <<chanVars, histVars, sendEnds, recvEnds, op, expired,
                   cancelled, slot, flushing, started>>

(* fdn_task_request_cancellation, always made by the task's own executor,  *)
(* with fdn_channel_cancel_wait and fdn_channel_cancel_select: the task is *)
(* woken only if this thread is the one that takes it off its queue or     *)
(* claims its select.                                                      *)
MutClaimable(t) == FALSE
Claimable(t) == stage[t] = "parked" /\ op[t].kind = "select" /\ ~signaled[t]

Cancel(t) ==
    /\ fault = "none" /\ ~cancelled[t] /\ stage[t] # "done" /\ ThreadFree(Home[t])
    /\ cancelled' = [cancelled EXCEPT ![t] = TRUE]
    /\ LET c == op[t].cases[1].chan
           removed == /\ stage[t] = "parked" /\ op[t].kind \in {"send", "receive"}
                      /\ t \in Range(sendQ[c]) \cup Range(recvQ[c])
           claimed == Claimable(t)
           Removed(q) == IF removed /\ t \in Range(q[c])
                        THEN [q EXCEPT ![c] = Without(@, t)] ELSE q
       IN  /\ sendQ' = Removed(sendQ)
           /\ recvQ' = Removed(recvQ)
           /\ arrival' = IF removed /\ op[t].kind = "send"
                 THEN [arrival EXCEPT ![c] = Without(@, op[t].msgs[1])]
                 ELSE arrival
           /\ signaled' = [signaled EXCEPT ![t] = @ \/ claimed]
           /\ WakeTasks(WakeEach(IF removed \/ claimed THEN {t} ELSE {}, Wk("cancelled", 0)),
                        Home[t], stage, wake)
    /\ UNCHANGED <<buffer, selQ, senders, receivers, holds, live, sendEnds,
                   recvEnds, op, expired, slot, flushing, started, taken,
                   flushed, verdict>>

-----------------------------------------------------------------------------
(* Endpoint handles.                                                       *)

(* fdn_channel_unused_locked on the counts and queues a drop leaves behind *)
(* and fdn_channel_destroy after it.                                       *)
MutDestroyIfUnused(c) ==
    live' = [live EXCEPT ![c] = @ /\ ~(senders'[c] = 0 /\ receivers'[c] = 0)]
DestroyIfUnused(c) ==
    live' = [live EXCEPT ![c] =
        @ /\ ~(senders'[c] = 0 /\ receivers'[c] = 0 /\ holds'[c] = 0)]

Bump(ends, t, c, d) == [ends EXCEPT ![t][c] = @ + d]

(* fdn_channel_clone_sender; the new handle moves into the frame of u.     *)
CloneSender(t, c, u) ==
    /\ CanStart(t) /\ Owns(sendEnds, t, c) /\ stage[u] # "done"
    /\ senders[c] < MaxSenders
    /\ senders' = [senders EXCEPT ![c] = @ + 1]
    /\ sendEnds' = Bump(sendEnds, u, c, 1)
    /\ Count(t)
    /\ UNCHANGED <<buffer, sendQ, recvQ, selQ, receivers, holds, live, recvEnds,
                   stage, op, signaled, expired, cancelled, wake, slot,
                   flushing, mailbox, fault, histVars>>

(* fdn_channel_clone_receiver.                                             *)
CloneReceiver(t, c, u) ==
    /\ CanStart(t) /\ Owns(recvEnds, t, c) /\ stage[u] # "done"
    /\ receivers[c] < MaxReceivers[c]
    /\ receivers' = [receivers EXCEPT ![c] = @ + 1]
    /\ recvEnds' = Bump(recvEnds, u, c, 1)
    /\ Count(t)
    /\ UNCHANGED <<buffer, sendQ, recvQ, selQ, senders, holds, live, sendEnds,
                   stage, op, signaled, expired, cancelled, wake, slot,
                   flushing, mailbox, fault, histVars>>

CanDrop(t) == fault = "none" /\ stage[t] = "ready" /\ ThreadFree(Home[t])
MutClosedWakes(q) == WakeEach(Range(q), Wk("ready", 0))
ClosedWakes(q) == WakeEach(Range(q), Wk("closed", 0))

(* fdn_channel_drop_sender: the last one wakes every receiver and select.  *)
DropSender(t, c) ==
    /\ CanDrop(t) /\ Owns(sendEnds, t, c)
    /\ senders' = [senders EXCEPT ![c] = @ - 1]
    /\ sendEnds' = Bump(sendEnds, t, c, -1)
    /\ LET last == senders[c] = 1
       IN  /\ recvQ' = IF last THEN [recvQ EXCEPT ![c] = <<>>] ELSE recvQ
           /\ signaled' = [u \in Tasks |->
                              signaled[u] \/ (last /\ u \in Range(selQ[c]))]
           /\ WakeTasks(IF last THEN AndThen(ClosedWakes(recvQ[c]), Signals(c)) ELSE NoWakes,
                        Home[t], stage, wake)
    /\ UNCHANGED <<receivers, holds>> /\ DestroyIfUnused(c)
    /\ UNCHANGED <<buffer, sendQ, selQ, recvEnds, op, expired, cancelled, slot,
                   flushing, started, histVars>>

(* What is left of the history of a channel without some messages: the     *)
(* others, in their order.                                                 *)
Withdrawn(q, gone) ==
    LET kept == {i \in DOMAIN q : q[i] \notin gone}
    IN  [j \in 1 .. Cardinality(kept) |->
            q[CHOOSE i \in kept : Cardinality({k \in kept : k <= i}) = j]]

(* fdn_channel_drop_receiver up to the first unlock: the last one detaches *)
(* the buffer, takes a hold if it is not empty, and wakes every sender.    *)
DropReceiver(t, c) ==
    /\ CanDrop(t) /\ Owns(recvEnds, t, c)
    /\ receivers' = [receivers EXCEPT ![c] = @ - 1]
    /\ recvEnds' = Bump(recvEnds, t, c, -1)
    /\ LET last == receivers[c] = 1
           hold == last /\ buffer[c] # <<>>
           gone == {op[u].msgs[1] : u \in Range(sendQ[c])}
       IN  /\ buffer' = IF last THEN [buffer EXCEPT ![c] = <<>>] ELSE buffer
           /\ sendQ' = IF last THEN [sendQ EXCEPT ![c] = <<>>] ELSE sendQ
           /\ holds' = IF hold THEN [holds EXCEPT ![c] = @ + 1] ELSE holds
           /\ flushing' = IF hold THEN [flushing EXCEPT ![t] = {c}] ELSE flushing
           /\ flushed' = IF last THEN [flushed EXCEPT ![c] = buffer[c]] ELSE flushed
           /\ arrival' = IF last
                 THEN [arrival EXCEPT ![c] = Withdrawn(@, gone)]
                 ELSE arrival
           /\ signaled' = [u \in Tasks |->
                              signaled[u] \/ (last /\ u \in Range(selQ[c]))]
           /\ WakeTasks(IF last THEN AndThen(ClosedWakes(sendQ[c]), Signals(c)) ELSE NoWakes,
                        Home[t],
                        IF hold THEN [stage EXCEPT ![t] = "flush"] ELSE stage,
                        wake)
    /\ UNCHANGED senders /\ DestroyIfUnused(c)
    /\ UNCHANGED <<recvQ, selQ, sendEnds, op, expired, cancelled, slot, started,
                   taken, verdict>>

(* The end of fdn_channel_drop_receiver, after the messages were dropped.  *)
FlushDone(t) ==
    /\ fault = "none" /\ stage[t] = "flush"
    /\ stage' = [stage EXCEPT ![t] = "ready"]
    /\ flushing' = [flushing EXCEPT ![t] = {}]
    /\ \E c \in flushing[t] :
          /\ holds' = [holds EXCEPT ![c] = @ - 1]
          /\ UNCHANGED <<senders, receivers>> /\ DestroyIfUnused(c)
    /\ UNCHANGED <<buffer, sendQ, recvQ, selQ, sendEnds, recvEnds, op, signaled,
                   expired, cancelled, wake, slot, mailbox, started, fault,
                   histVars>>

(* The task returns and its frame, which owns no endpoint any more, is     *)
(* dropped.                                                                *)
Return(t) ==
    /\ CanDrop(t) /\ \A c \in Channels : sendEnds[t][c] = 0 /\ recvEnds[t][c] = 0
    /\ stage' = [stage EXCEPT ![t] = "done"]
    /\ UNCHANGED <<chanVars, histVars, sendEnds, recvEnds, op, signaled, expired,
                   cancelled, wake, slot, flushing, started, mailbox, fault>>

AllDone == \A t \in Tasks : stage[t] = "done"

-----------------------------------------------------------------------------
Start(t) ==
    \/ \E c \in Channels : Send(t, c) \/ Receive(t, c)
    \/ \E s \in Selects, timed, late \in BOOLEAN : Select(t, s, timed, late)
    \/ \E c \in Channels, u \in Tasks : CloneSender(t, c, u) \/ CloneReceiver(t, c, u)

Continue(t) == TakeWake(t) \/ Unregister(t) \/ Repoll(t) \/ FlushDone(t)

Leave(t) == \/ \E c \in Channels : DropSender(t, c) \/ DropReceiver(t, c)
            \/ Return(t)

Idle(e) == Drain(e) \/ WakeExpired(e)

Next ==
    \/ \E t \in Tasks : Start(t) \/ Continue(t) \/ Leave(t) \/ Expire(t) \/ Cancel(t)
    \/ \E e \in Executors : Idle(e)
    \/ AllDone /\ UNCHANGED vars

Spec == Init /\ [][Next]_vars

(* An executor keeps polling what is ready and, when nothing is, drains    *)
(* its mailbox and its timers; a task keeps executing, so it eventually    *)
(* gives up its endpoints and returns.  Nothing makes it start, cancel or  *)
(* expire.                                                                 *)
Fairness ==
    /\ \A t \in Tasks : WF_vars(Continue(t)) /\ WF_vars(Leave(t))
    /\ \A e \in Executors : WF_vars(Drain(e)) /\ WF_vars(WakeExpired(e))

FairSpec == Spec /\ Fairness
-----------------------------------------------------------------------------
(* Properties.                                                             *)

Waits == [status : Statuses \cup {"none"}, case : Nat]
Operations == [kind : {"none", "send", "receive", "select"}, cases : Seq(Case),
               msgs : Seq(Msgs \cup {NoMsg}), timed : BOOLEAN]

(* Every variable keeps its type: counts never go below zero, queues hold  *)
(* tasks, and at most one wake waits in a task.                            *)
TypeOK ==
    /\ buffer \in [Channels -> Seq(Msgs)]
    /\ sendQ \in [Channels -> Seq(Tasks)]
    /\ recvQ \in [Channels -> Seq(Tasks)]
    /\ selQ \in [Channels -> Seq(Tasks)]
    /\ senders \in [Channels -> Nat] /\ receivers \in [Channels -> Nat]
    /\ holds \in [Channels -> Nat] /\ live \in [Channels -> BOOLEAN]
    /\ sendEnds \in [Tasks -> [Channels -> Nat]]
    /\ recvEnds \in [Tasks -> [Channels -> Nat]]
    /\ stage \in [Tasks -> Stages]
    /\ op \in [Tasks -> Operations]
    /\ signaled \in [Tasks -> BOOLEAN] /\ expired \in [Tasks -> BOOLEAN]
    /\ cancelled \in [Tasks -> BOOLEAN]
    /\ wake \in [Tasks -> Waits]
    /\ slot \in [Tasks -> Msgs \cup {NoMsg}]
    /\ flushing \in [Tasks -> SUBSET Channels]
    /\ mailbox \in [Tasks -> Seq(Waits)]
    /\ started \in [Tasks -> 0..MaxOps]
    /\ fault \in {"none", "invalid task wake"}

(* A parked task is woken exactly once, whoever gets to it first: a peer's *)
(* send or receive, a close, its own cancellation or its deadline.  A      *)
(* second wake is the panic "invalid task wake" of fdn_task_wake_local.    *)
NoDoubleWake == fault = "none"

Waiting(t) == stage[t] = "parked" /\ mailbox[t] = <<>>

(* Registration loses nothing: while a task waits and no wake is on its    *)
(* way, a fresh attempt at any of its cases would still find the channel   *)
(* not ready.  (poll_send, poll_receive and poll_select park only under    *)
(* the lock; every later change of the channel signals.)                   *)
WaitingIsBlocked ==
    \A t \in Tasks : Waiting(t) =>
        \A i \in DOMAIN op[t].cases :
            LET c == op[t].cases[i].chan
                others == {u \in Range(selQ[c]) \ {t} : ~signaled[u]}
            IN  IF op[t].cases[i].kind = "send"
                THEN /\ receivers[c] > 0 /\ recvQ[c] = <<>>
                     /\ Len(buffer[c]) = Capacity[c]
                     /\ \A u \in others : CasesOf(u, c, "receive") = {}
                ELSE /\ senders[c] > 0 /\ sendQ[c] = <<>> /\ buffer[c] = <<>>
                     /\ \A u \in others : CasesOf(u, c, "send") = {}

ParkedMsgs(c) == [i \in DOMAIN sendQ[c] |-> op[sendQ[c][i]].msgs[1]]

(* One FIFO transport: receivers get the messages of a channel in the      *)
(* order in which they were offered, buffered and parked senders included, *)
(* none of them lost or delivered twice.                                   *)
FifoExactlyOnce ==
    \A c \in Channels :
        arrival[c] = taken[c] \o flushed[c] \o buffer[c] \o ParkedMsgs(c)

(* A send that reported success has its message in the channel's history;  *)
(* a send that failed (closed, cancelled, timed out or not selected) never *)
(* let a receiver see its message.                                         *)
VerdictIsTrue ==
    \A m \in DOMAIN verdict :
        LET accepted == \E c \in Channels : m \in Range(arrival[c])
        IN  (verdict[m] = "sent") <=> accepted

(* A message copied into a parked receiver's frame is always announced to  *)
(* it: the receive ends with "ready" and never with a close, a             *)
(* cancellation or a timeout that would abandon the message.               *)
DeliveredIsAnnounced ==
    \A t \in Tasks : slot[t] # NoMsg =>
        \/ stage[t] \in {"woken", "unregister"} /\ wake[t].status = "ready"
        \/ \E i \in DOMAIN mailbox[t] : mailbox[t][i].status = "ready"

(* A channel is destroyed exactly when nothing can reach it any more: no   *)
(* handle in a frame and no messages being dropped; it then owns no state  *)
(* (the panic "unused channel still owns state").                          *)
DestroyedIsUnreachable ==
    \A c \in Channels :
        /\ ~live[c] <=> \A t \in Tasks : /\ sendEnds[t][c] = 0 /\ recvEnds[t][c] = 0
                                         /\ c \notin flushing[t]
        /\ ~live[c] => \A q \in {buffer, sendQ, recvQ, selQ} : q[c] = <<>>

(* A drop joins: once a task's cancellation was requested it leaves every  *)
(* channel wait and returns.                                               *)
CancelJoins == \A t \in Tasks : cancelled[t] ~> stage[t] = "done"

(* A deadline fires: a select whose deadline has passed does not stay     *)
(* suspended, even if the wake that claimed it was only an event.          *)
TimeoutFires == \A t \in Tasks : expired[t] ~> op[t].kind # "select"

-----------------------------------------------------------------------------
(* What makes them inductive.                                              *)

(* The parts of the type the claims depend on.                             *)
ClaimType ==
    /\ sendQ \in [Channels -> Seq(Tasks)]
    /\ recvQ \in [Channels -> Seq(Tasks)]
    /\ selQ \in [Channels -> Seq(Tasks)]
    /\ stage \in [Tasks -> Stages]
    /\ op \in [Tasks -> Operations]
    /\ signaled \in [Tasks -> BOOLEAN]
    /\ wake \in [Tasks -> Waits]
    /\ mailbox \in [Tasks -> Seq(Waits)]
    /\ DOMAIN slot = Tasks
    /\ started \in [Tasks -> 0 .. MaxOps]

(* A task has an operation while it is suspended in one, and the operation *)
(* of a send or a receive names one channel.                               *)
SingleCase(t) == op[t].cases = <<[kind |-> op[t].kind, chan |-> op[t].cases[1].chan]>>
OpsAreSuspended ==
    \A t \in Tasks :
        /\ op[t].kind = "none" <=> stage[t] \in {"ready", "flush", "done"}
        /\ stage[t] \in {"unregister", "repoll"} => op[t].kind = "select"
        /\ op[t].kind \in {"send", "receive"} => SingleCase(t)

(* Whoever is in a wait queue is parked, for that operation on that        *)
(* channel, and nobody has sent it a wake; a registered select has not     *)
(* unregistered yet.                                                       *)
QueuedAreParked ==
    \A c \in Channels :
        /\ \A t \in Range(sendQ[c]) : /\ Waiting(t) /\ op[t].kind = "send"
                                      /\ op[t].cases[1].chan = c
        /\ \A t \in Range(recvQ[c]) : /\ Waiting(t) /\ op[t].kind = "receive"
                                      /\ op[t].cases[1].chan = c
        /\ \A t \in Range(selQ[c]) : /\ op[t].kind = "select"
                                     /\ stage[t] \in {"parked", "woken", "unregister"}
                                     /\ \E i \in DOMAIN op[t].cases : op[t].cases[i].chan = c

Injective(q) == \A i \in DOMAIN q, j \in DOMAIN q : q[i] = q[j] => i = j
QueuedOnce == \A c \in Channels : Injective(sendQ[c]) /\ Injective(recvQ[c]) /\ Injective(selQ[c])

(* Conversely, a task that waits can be found by whoever should wake it.   *)
WaitersAreQueued ==
    \A t \in Tasks : Waiting(t) =>
        \A i \in DOMAIN op[t].cases :
            LET c == op[t].cases[i].chan
            IN  t \in Range(CASE op[t].kind = "send" -> sendQ[c]
                               [] op[t].kind = "receive" -> recvQ[c]
                               [] OTHER -> selQ[c])

(* At most one wake is under way to a task, and only to a parked one; the  *)
(* wake of a select is sent by whoever set `signaled'.                     *)
PostedOnce == \A t \in Tasks : mailbox[t] # <<>> => Len(mailbox[t]) = 1 /\ stage[t] = "parked"
ClaimedOnce ==
    \A t \in Tasks : op[t].kind = "select" =>
        /\ stage[t] = "parked" => (signaled[t] <=> mailbox[t] # <<>>)
        /\ stage[t] \in {"woken", "unregister"} => signaled[t]
        /\ stage[t] = "repoll" => wake[t].status = "event"

ClaimInv == /\ ClaimType /\ OpsAreSuspended /\ QueuedAreParked /\ QueuedOnce
            /\ WaitersAreQueued /\ PostedOnce /\ ClaimedOnce
            /\ NoDoubleWake /\ DeliveredIsAnnounced

(* The counts are those of the handles in frames and of the flushes under  *)
(* way; a suspended operation keeps the handles it needs.                  *)
HandleType ==
    /\ senders \in [Channels -> Nat] /\ receivers \in [Channels -> Nat]
    /\ holds \in [Channels -> Nat] /\ live \in [Channels -> BOOLEAN]
    /\ sendEnds \in [Tasks -> [Channels -> Nat]]
    /\ recvEnds \in [Tasks -> [Channels -> Nat]]
    /\ flushing \in [Tasks -> SUBSET Channels]
    /\ DOMAIN buffer = Channels
Handles(ends, c) == {h \in Tasks \X Nat : h[2] \in 1 .. ends[h[1]][c]}
Flushers(c) == {t \in Tasks : c \in flushing[t]}
Counts(n, S) == IsFiniteSet(S) /\ n = Cardinality(S)
HandlesAreCounted ==
    \A c \in Channels : /\ Counts(senders[c], Handles(sendEnds, c))
                        /\ Counts(receivers[c], Handles(recvEnds, c))
                        /\ Counts(holds[c], Flushers(c))
FlushersFlush ==
    \A t \in Tasks : /\ flushing[t] # {} => stage[t] = "flush"
                     /\ \A c, d \in flushing[t] : c = d
LiveWhileUsed ==
    \A c \in Channels : live[c] <=> ~(senders[c] = 0 /\ receivers[c] = 0 /\ holds[c] = 0)
OwnsCases(t, cases) ==
    \A i \in DOMAIN cases :
        Owns(IF cases[i].kind = "send" THEN sendEnds ELSE recvEnds, t, cases[i].chan)
OpsKeepHandles ==
    \A t \in Tasks : /\ OwnsCases(t, op[t].cases)
                     /\ op[t].kind = "none" => op[t].cases = <<>>
BufferHasReader == \A c \in Channels : buffer[c] # <<>> => receivers[c] # 0

HandleInv == /\ HandleType /\ HandlesAreCounted /\ FlushersFlush /\ LiveWhileUsed
             /\ OpsKeepHandles /\ BufferHasReader

(* A buffer keeps to its capacity, and an operation has a message for each *)
(* send case.                                                              *)
BufferFits == /\ buffer \in [Channels -> Seq(Msgs)]
              /\ \A c \in Channels : Len(buffer[c]) <= Capacity[c]
MsgsFit(o) == /\ DOMAIN o.msgs = DOMAIN o.cases
              /\ \A i \in DOMAIN o.cases : o.cases[i].kind = "send" => o.msgs[i] \in Msgs
OpsFit == \A t \in Tasks : MsgsFit(op[t])

(* Per channel: while somebody waits to send, nobody else waits to receive *)
(* and there is no room; while somebody waits to receive there is nothing  *)
(* to take.                                                                *)
WaitsTo(t, kind, c) == Waiting(t) /\ CasesOf(t, c, kind) # {}
NoRoom(c) == receivers[c] # 0 /\ recvQ[c] = <<>> /\ Len(buffer[c]) = Capacity[c]
NothingThere(c) == senders[c] # 0 /\ sendQ[c] = <<>> /\ buffer[c] = <<>>
Blocked(c) == /\ \A t \in Tasks : WaitsTo(t, "send", c) => NoRoom(c)
              /\ \A t \in Tasks : WaitsTo(t, "receive", c) => NothingThere(c)
              /\ \A t, u \in Tasks : WaitsTo(t, "send", c) /\ WaitsTo(u, "receive", c) => t = u

BlockInv == BufferFits /\ OpsFit /\ \A c \in Channels : Blocked(c)

(* A history is one of messages.  Only a closed channel was flushed.       *)
HistoryType == /\ arrival \in [Channels -> Seq(Msgs)] /\ taken \in [Channels -> Seq(Msgs)]
               /\ flushed \in [Channels -> Seq(Msgs)]
FlushedIsClosed == \A c \in Channels : receivers[c] # 0 => flushed[c] = <<>>

(* A message is named after the operation that offers it, so no two are    *)
(* the same, and it is offered to one channel at most once.                *)
Named(o, t, n) ==
    \A i \in DOMAIN o.cases :
        o.msgs[i] = IF o.cases[i].kind = "send" THEN <<t, n, i>> ELSE NoMsg
MsgsAreNamed == \A t \in Tasks : Named(op[t], t, started[t])
Offered(h, m) == \E c \in Channels : m \in Range(h[c])
Once(h) == \A c \in Channels :
              /\ Injective(h[c])
              /\ \A d \in Channels : c # d => Range(h[c]) \cap Range(h[d]) = {}
OfferedAreStarted == \A m \in Msgs : Offered(arrival, m) => m[2] <= started[m[1]]

(* While an operation is suspended, its message is in the history if it    *)
(* waits in a send, or if the wake it got or is about to get says that the *)
(* message was accepted; a select is told which.                           *)
Told(t) == IF mailbox[t] # <<>> THEN mailbox[t][1] ELSE wake[t]
Accepted(t, i) == IF Waiting(t) THEN op[t].kind = "send"
                  ELSE Told(t).status = "ready" /\ (op[t].kind = "select" => Told(t).case = i)
Answers(w, o) == o.kind = "select" /\ w.status = "ready" => w.case \in DOMAIN o.cases
SuspendedAreTrue ==
    \A t \in Tasks :
        /\ Waiting(t) \/ Answers(Told(t), op[t])
        /\ \A i \in DOMAIN op[t].cases :
              op[t].cases[i].kind = "send" => (Offered(arrival, op[t].msgs[i]) <=> Accepted(t, i))

FlowInv == /\ HistoryType /\ FlushedIsClosed /\ MsgsAreNamed /\ Once(arrival) /\ OfferedAreStarted
           /\ SuspendedAreTrue /\ FifoExactlyOnce

(* A message is judged when the operation that offers it has ended.        *)
JudgedAreOver ==
    \A m \in DOMAIN verdict : /\ m \in Msgs /\ m[2] <= started[m[1]]
                              /\ op[m[1]].kind # "none" => m[2] < started[m[1]]
============================================================================
