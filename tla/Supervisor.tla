----------------------------- MODULE Supervisor -----------------------------
(***************************************************************************)
(* A supervisor (runtime/src/task.c, foundation/worker/worker.fn) on top   *)
(* of the task tree: it adopts tasks, and whoever owns it shuts it down or *)
(* cancels it, either in place, which drives the executor's loop, or with  *)
(* a join task that suspends.  Dropping a supervisor cancels it.           *)
(***************************************************************************)
EXTENDS TaskTree, SequencesExt

CONSTANT Sup    \* the supervisor, as the holder of what it adopted

ASSUME SupAssumption == Sup \notin Tasks \cup {Main, Nobody}

VARIABLES
    sup,    \* fdn_supervisor, and who owns its handle
    join    \* fdn_supervisor_join_frame, and the task that polls it

supVars == <<sup, join>>
allVars == <<vars, supVars>>

(* foundation_runtime_supervisor_open, called before the tasks start; the  *)
(* supervisor may then be moved into any of them.                          *)
Opened == [state |-> "open", owner |-> Main, adopted |-> <<>>]
Frame(t, cancel) == [task |-> t, cancel |-> cancel, current |-> Nobody, entered |-> FALSE]
SupInit == Init /\ sup = Opened /\ join = Frame(Nobody, FALSE)

(* A join in place is a call of its own, below the loops it runs.          *)
JoinCall(cancel) == [op |-> "join", task |-> Sup, cancel |-> cancel]
Joins == stack # <<>> /\ Head(stack).op = "join"

(* Tasks differ only by name: the next one to be spawned is the first.     *)
Fresh(c) == c = CHOOSE d \in Tasks : st[d] = "unborn"

(* The programs: every running code but the join task.                     *)
Owns(a) == sup.owner = a /\ sup.state = "open" /\ a # join.task
Program(a) == a # join.task

-----------------------------------------------------------------------------
(* foundation_runtime_supervisor_adopt.                                    *)
Adopt(a, c) ==
    /\ Runs(a) /\ Owns(a) /\ c \in Held(a)
    /\ holder' = [holder EXCEPT ![c] = Sup]
    /\ sup' = [sup EXCEPT !.adopted = Append(@, c)]
    /\ UNCHANGED <<st, cancelled, waitingOn, waiter, turns, queue, stack, join>>

(* The tasks it still has, the one its join task waits for included.       *)
Remaining == (IF join.current = Nobody THEN <<>> ELSE <<join.current>>) \o sup.adopted

(* fdn_task_request_cancellation of one task after the other; prompt are   *)
(* the tasks whose wait ends at once, in that order.                       *)
MutWalks(cs) == IF cs = <<>> THEN {} ELSE CancelWalk(Head(cs))
Walks(cs) == UNION {CancelWalk(cs[i]) : i \in DOMAIN cs}
Prompts == BoundedSeq(Tasks, Len(Remaining))
Rouses(cs, prompt) ==
    LET Ends(i, k) == prompt[i] \in Interrupted(cs[k], TRUE)
    IN  /\ \A i \in DOMAIN prompt : \E k \in DOMAIN cs : Ends(i, k)
        /\ \A i, j \in DOMAIN prompt, k, m \in DOMAIN cs : i < j /\ Ends(i, k) /\ Ends(j, m) => k < m
CancelAll(cs, prompt) ==
    /\ Rouses(cs, prompt)
    /\ cancelled' = [d \in Tasks |-> cancelled[d] \/ d \in Walks(cs)]
CancelIf(cancel, cs, prompt) ==
    IF cancel THEN CancelAll(cs, prompt) ELSE prompt = <<>> /\ UNCHANGED cancelled

(* fdn_supervisor_join until its first loop, from Shutdown, from Cancel or *)
(* from the drop of the supervisor in a frame.                             *)
JoinInPlace(a, cancel, prompt) ==
    /\ \/ Runs(a) /\ a \in Drivers \cup {Main}
       \/ a # Main /\ Innermost("free", a) /\ cancel
    /\ Owns(a)
    /\ CancelIf(cancel, sup.adopted, prompt)
    /\ st' = Woken(ToSet(prompt)) /\ queue' = queue \o prompt
    /\ sup' = [sup EXCEPT !.state = "closed", !.owner = Nobody]
    /\ stack' = <<JoinCall(cancel)>> \o stack
    /\ UNCHANGED <<holder, waitingOn, waiter, turns, join>>

(* The loop of fdn_supervisor_join: the oldest is joined and released, and *)
(* when none is left the supervisor is released.                           *)
JoinNext ==
    /\ Joins
    /\ IF sup.adopted = <<>>
       THEN /\ sup' = [sup EXCEPT !.state = "released"]
            /\ stack' = Tail(stack)
            /\ UNCHANGED holder
       ELSE /\ sup' = [sup EXCEPT !.adopted = Tail(@)]
            /\ stack' = Pushed("drop", Head(sup.adopted))
            /\ holder' = [holder EXCEPT ![Head(sup.adopted)] = Nobody]
    /\ UNCHANGED <<st, cancelled, waitingOn, waiter, turns, queue, join>>

(* fdn_supervisor_join_task closes, and spawns the task that joins.        *)
JoinTask(a, j, cancel, prompt) ==
    /\ Runs(a) /\ Owns(a) /\ st[j] = "unborn" /\ Fresh(j)
    /\ CancelIf(cancel, sup.adopted, prompt)
    /\ st' = [Woken(ToSet(prompt)) EXCEPT ![j] = "queued"] /\ queue' = Append(queue \o prompt, j)
    /\ holder' = [holder EXCEPT ![j] = a]
    /\ sup' = [sup EXCEPT !.state = "closed", !.owner = j]
    /\ join' = Frame(j, cancel)
    /\ UNCHANGED <<waitingOn, waiter, turns, stack>>

-----------------------------------------------------------------------------
(* fdn_supervisor_join_poll.  Cancellation is looked at when the poll      *)
(* begins: the one waited for and the rest are cancelled.                  *)
Hears(j) == cancelled[j] /\ ~join.cancel
JoinEnter(j, prompt) ==
    /\ Innermost("poll", j) /\ ~join.entered
    /\ join' = [join EXCEPT !.entered = TRUE, !.cancel = @ \/ Hears(j)]
    /\ CancelIf(Hears(j), Remaining, prompt)
    /\ st' = Woken(ToSet(prompt)) /\ queue' = queue \o prompt
    /\ UNCHANGED <<holder, waitingOn, waiter, turns, stack, sup>>

Entered(j) == Innermost("poll", j) /\ join.entered
JoinTakes(j) ==
    /\ Entered(j) /\ join.current = Nobody /\ sup.adopted # <<>>
    /\ join' = [join EXCEPT !.current = Head(sup.adopted)]
    /\ sup' = [sup EXCEPT !.adopted = Tail(@)]
    /\ holder' = [holder EXCEPT ![Head(sup.adopted)] = j]
    /\ UNCHANGED <<st, cancelled, waitingOn, waiter, turns, queue, stack>>

(* fdn_task_poll_discard: wait for the current one, or release it.         *)
JoinWaits(j, now) ==
    /\ Entered(j) /\ join.current # Nobody
    /\ \/ /\ PollWait(j, join.current, now) /\ join' = [join EXCEPT !.entered = FALSE]
       \/ PollWaitReady(j, join.current) /\ join' = [join EXCEPT !.current = Nobody]
    /\ UNCHANGED sup
JoinEnds(j) ==
    /\ Entered(j) /\ join.current = Nobody /\ sup.adopted = <<>>
    /\ Ready(j)
    /\ sup' = [sup EXCEPT !.state = "released", !.owner = Nobody]
    /\ UNCHANGED join

JoinPoll(j) ==
    \/ \E prompt \in Prompts : JoinEnter(j, prompt)
    \/ JoinTakes(j) \/ JoinEnds(j) \/ \E now \in BOOLEAN : JoinWaits(j, now)

-----------------------------------------------------------------------------
(* A spawned task's frame may take the supervisor over; a frame is gone    *)
(* when it holds neither a handle nor the supervisor.                      *)
SpawnWith(a, c, given, moved) ==
    /\ Program(a) /\ Spawn(a, c, given) /\ Fresh(c) /\ (moved => Owns(a))
    /\ sup' = [sup EXCEPT !.owner = IF moved THEN c ELSE @]
    /\ UNCHANGED join
MutDisowned(t) == TRUE
Disowned(t) == sup.owner # t
ReleaseFrame(t) == Disowned(t) /\ Release(t) /\ UNCHANGED supVars

Supervise(a) ==
    \/ \E c \in Tasks : Adopt(a, c)
    \/ \E cancel \in BOOLEAN, prompt \in Prompts :
          JoinInPlace(a, cancel, prompt) \/ \E j \in Tasks : JoinTask(a, j, cancel, prompt)
RunningProgram(a) ==
    \/ \E c \in Tasks, given \in SUBSET Held(a), moved \in BOOLEAN : SpawnWith(a, c, given, moved)
    \/ /\ Program(a) /\ \E c \in Tasks, now \in BOOLEAN : Drop(a, c, now) \/ Wait(a, c, now)
       /\ UNCHANGED supVars
Loop ==
    \/ /\ RunOne \/ (\E t \in Tasks : Wake(t) \/ Return(t))
             \/ (\E t, c \in Tasks, now \in BOOLEAN : DropHeld(t, c, now))
       /\ UNCHANGED supVars
    \/ \E t \in Tasks : ReleaseFrame(t)
    \/ JoinNext
SupNext ==
    \/ Loop
    \/ \E t \in Tasks : \/ Program(t) /\ Polling(t) /\ UNCHANGED supVars
                        \/ ~Program(t) /\ JoinPoll(t)
    \/ \E a \in Tasks \cup {Main} : Supervise(a) \/ RunningProgram(a)
SupSpec == SupInit /\ [][SupNext]_allVars

(* One thread that runs; programs whose tasks return, and answers that     *)
(* come.                                                                   *)
SupFairSpec == SupSpec /\ WF_allVars(SupNext)

-----------------------------------------------------------------------------
(* An adopted task is never on its own: it is in the list once and has not *)
(* been released, and the supervisor has a live owner, a join in place or  *)
(* a join task; a released supervisor has nothing left ("supervisor must   *)
(* join before release", "supervisor join task is incomplete").            *)
Attended ==
    \/ sup.owner = Main \/ (sup.owner \in Tasks /\ Live(sup.owner))
    \/ \E i \in DOMAIN stack : stack[i].op = "join"
AdoptedAreAttended ==
    /\ \A c \in Tasks : holder[c] = Sup <=> \E i \in DOMAIN sup.adopted : sup.adopted[i] = c
    /\ \A i, k \in DOMAIN sup.adopted : sup.adopted[i] = sup.adopted[k] => i = k
    /\ \A i \in DOMAIN sup.adopted : Live(sup.adopted[i]) /\ Attended
    /\ sup.state = "released" => sup.adopted = <<>> /\ join.current = Nobody

(* Cancelling a supervisor, or its join task once that notices, reaches    *)
(* every task it still has, those the join has not come to included.       *)
Cancelling == join.cancel \/ \E i \in DOMAIN stack : stack[i] = JoinCall(TRUE)
CancelReachesAdopted == Cancelling => \A i \in DOMAIN Remaining : cancelled[Remaining[i]]

(* Every drop, every driving wait and every join of a supervisor returns:  *)
(* "Dropping a live handle requests cancellation and joins it"             *)
(* (docs/language.md), "Shutdown stops the lifetime and joins every owned  *)
(* task" (docs/framework/worker.md).  Calls nest, so they have all         *)
(* returned when the stack is empty.  The one exception is a loop that     *)
(* waits for a poll below it.                                              *)
JoinsReturn ==
    (stack # <<>> \/ sup.state = "closed") ~> ((stack = <<>> /\ sup.state # "closed") \/ Buried)
=============================================================================
