----------------------------- MODULE NetService -----------------------------
(***************************************************************************)
(* The network service (runtime/src/net.c): tasks hand requests to one     *)
(* background thread that polls their descriptors; it lives while there    *)
(* are requests, and the next request after its end starts another.  An    *)
(* accept waits on the listener, a read and a write on the halves of the   *)
(* connection, a connect on a socket of its own.                           *)
(*                                                                         *)
(* A step is one critical section or one system call.  Bytes are           *)
(* abstracted to whether a read, or a write, is complete.                  *)
(***************************************************************************)
EXTENDS NetSockets, Sequences

CONSTANTS
    Services,       \* fdn_net_service objects that may exist at a time
    MaxAddresses,   \* bound: the addresses a name resolves to
    Cancellable,    \* the tasks whose handle is dropped while they wait
    Timed,          \* the tasks with a deadline
    Workloads,      \* bound: which tasks run together
    NoService

Tasks == {"accept", "connect", "read", "write"}
ASSUME ServiceAssumption ==
    /\ NoService \notin Services /\ MaxAddresses \in Nat \ {0}
    /\ Cancellable \cup Timed \subseteq Tasks /\ \A w \in Workloads : w \subseteq Tasks

VARIABLES
    op,         \* "off", "idle", "starting", "failing", "pending", "done"
    req,        \* fdn_net_request: socket, cancelled, closed
    expired,    \* its deadline has passed
    addresses,  \* the addresses the connect has not tried
    current,    \* fdn_net_current_service
    list,       \* fdn_net_service.requests
    wake,       \* bytes in the service's pipe
    thread,     \* the service's thread
    backlog, arrived, room, dialed  \* external: the peers

serviceVars == <<op, req, expired, addresses, current, list, wake, thread>>
peerVars == <<backlog, arrived, room, dialed>>
vars == <<socketVars, serviceVars, peerVars>>

(* The thread: the requests it has still to visit, what their numbers      *)
(* stood for when poll began, those with events, the one it completes.     *)
Thread(at, todo, polled, events) ==
    [at |-> at, todo |-> todo, polled |-> polled, events |-> events, task |-> "none", fd |-> 0, ok |-> FALSE]
NoThread == Thread("free", <<>>, <<>>, {})
At(s, at) == thread[s].at = at
Step(s, at) == thread' = [thread EXCEPT ![s].at = at]

Request(fd) == [fd |-> fd, cancelled |-> FALSE, closed |-> FALSE]
Own(t) == CASE t = "accept" -> "listener" [] t = "connect" -> "dial" [] OTHER -> "conn"
Handle(t) == CASE t = "accept" -> "listener" [] t = "read" -> "reader" [] t = "write" -> "writer"
InUse(h) == \E t \in Tasks \ {"connect"} : Handle(t) = h /\ op[t] \in {"starting", "failing", "pending"}

Init ==
    /\ \E w \in Workloads :
          /\ op = [t \in Tasks |-> IF t \in w THEN "idle" ELSE "off"]
          /\ SocketsInit("accept" \in w, w \cap {"read", "write"} # {})
          /\ addresses \in IF "connect" \in w THEN 1 .. MaxAddresses ELSE {0}
    /\ req = [t \in Tasks |-> Request(0)]
    /\ expired = [t \in Tasks |-> FALSE]
    /\ current = NoService
    /\ list = [s \in Services |-> <<>>] /\ wake = [s \in Services |-> FALSE]
    /\ thread = [s \in Services |-> NoThread]
    /\ backlog = FALSE /\ arrived = "none" /\ room = FALSE /\ dialed = "no"

-----------------------------------------------------------------------------
(* fdn_net_submit under the global lock: the request goes to the current   *)
(* service, or to a new one if its pipe and its thread can be had.         *)
Submitted(t, fd) ==
    /\ op' = [op EXCEPT ![t] = "pending"]
    /\ req' = [req EXCEPT ![t] = Request(fd)]
    /\ \/ /\ current # NoService
          /\ list' = [list EXCEPT ![current] = <<t>> \o @] /\ wake' = [wake EXCEPT ![current] = TRUE]
          /\ UNCHANGED <<current, thread>>
       \/ /\ current = NoService
          /\ \E s \in Services : At(s, "free")
          /\ LET s == CHOOSE s \in Services : At(s, "free")
             IN /\ current' = s
                /\ list' = [list EXCEPT ![s] = <<t>>] /\ wake' = [wake EXCEPT ![s] = FALSE]
                /\ thread' = [thread EXCEPT ![s] = Thread("snapshot", <<>>, <<>>, {})]
Answered(t) ==
    /\ op' = [op EXCEPT ![t] = "done"] /\ req' = [req EXCEPT ![t] = Request(0)]
    /\ UNCHANGED <<current, list, wake, thread>>
Refused(t) ==
    /\ current = NoService /\ Answered(t)

Starts(t) == op[t] = "idle" /\ (t # "connect" => Holds(Handle(t)))

(* foundation_runtime_net_accept_start submits under the listener's lock.  *)
AcceptStart ==
    /\ Starts("accept")
    /\ \/ lsock = 0 /\ Answered("accept")
       \/ lsock # 0 /\ (Submitted("accept", lsock) \/ Refused("accept"))
    /\ UNCHANGED <<socketVars, expired, addresses, peerVars>>

(* fdn_net_read_start and fdn_net_write_start read the socket under the    *)
(* connection's lock ...                                                   *)
HalfOpen(t) == IF t = "read" THEN readOpen ELSE writeOpen
HalfStart(t) ==
    /\ t \in {"read", "write"} /\ Starts(t)
    /\ IF expired[t] \/ ~HalfOpen(t) \/ csock = 0 THEN Answered(t)
       ELSE /\ op' = [op EXCEPT ![t] = "starting"] /\ req' = [req EXCEPT ![t].fd = csock]
            /\ UNCHANGED <<current, list, wake, thread>>
    /\ UNCHANGED <<socketVars, expired, addresses, peerVars>>

(* ... and the read is submitted unless the buffer holds what it asks for, *)
(* or what closes the half, as fdn_net_read_close does.                    *)
ReadBegin ==
    /\ op["read"] = "starting"
    /\ Answered("read") \/ Submitted("read", req["read"].fd) \/ Refused("read")
    /\ UNCHANGED <<socketVars, expired, addresses, peerVars>>
ReadBad ==
    /\ op["read"] = "starting"
    /\ op' = [op EXCEPT !["read"] = "failing"]
    /\ readOpen' = FALSE
    /\ Act("reader", IF readOpen THEN Doing("shut", csock, "rest") ELSE Rest)
    /\ UNCHANGED <<holds, lsock, lrefs, csock, crefs, fullOpen, writeOpen, shutR, shutW, stray,
                   req, expired, addresses, current, list, wake, thread, peerVars>>

(* External: recv and send on a number, which the connection's socket has, *)
(* nobody, or, after the number was closed, somebody else.  A read without *)
(* enough data stays pending; at the end of the stream it fails or, with a *)
(* line that was cut short, is answered.  A line that is too long or is no *)
(* text is bad.                                                            *)
Recv(fd, r) ==
    \/ /\ holds[fd] = "conn"
       /\ \/ arrived = "data" /\ r \in {"ok", "pending", "bad"} /\ arrived' = "none"
          \/ /\ arrived = "end" \/ (arrived = "none" /\ shutR)
             /\ r \in {"failed", "ok", "bad"} /\ UNCHANGED arrived
          \/ arrived = "none" /\ ~shutR /\ r = "pending" /\ UNCHANGED arrived
       /\ UNCHANGED stray
    \/ holds[fd] = "free" /\ r = "failed" /\ UNCHANGED <<arrived, stray>>
    \/ holds[fd] \notin {"conn", "free"} /\ r = "ok" /\ stray' = stray \cup {"transfer"} /\ UNCHANGED arrived
Send(fd, r) ==
    \/ /\ holds[fd] = "conn"
       /\ \/ (shutW \/ arrived = "end") /\ r = "failed" /\ UNCHANGED room
          \/ ~shutW /\ arrived # "end" /\ room /\ r \in {"ok", "pending"} /\ room' = FALSE
          \/ ~shutW /\ arrived # "end" /\ ~room /\ r = "pending" /\ UNCHANGED room
       /\ UNCHANGED stray
    \/ holds[fd] = "free" /\ r = "failed" /\ UNCHANGED <<room, stray>>
    \/ holds[fd] \notin {"conn", "free"} /\ r = "ok" /\ stray' = stray \cup {"transfer"} /\ UNCHANGED room

(* fdn_net_write_start tries to send at once; a write that fails, or that  *)
(* nobody takes over, closes its half.                                     *)
WriteBegin ==
    /\ op["write"] = "starting"
    /\ \E r \in {"ok", "pending", "failed"} :
          /\ Send(req["write"].fd, r)
          /\ \/ r = "ok" /\ Answered("write") /\ UNCHANGED <<readOpen, writeOpen, csock, agent>>
             \/ /\ r = "pending" /\ Submitted("write", req["write"].fd)
                /\ UNCHANGED <<readOpen, writeOpen, csock, agent>>
             \/ /\ r = "failed" \/ (r = "pending" /\ current = NoService)
                /\ op' = [op EXCEPT !["write"] = "failing"]
                /\ HalfTaken(FALSE) /\ Act("writer", HalfLeft(FALSE, "rest"))
                /\ UNCHANGED <<req, current, list, wake, thread>>
    /\ UNCHANGED <<holds, lsock, lrefs, crefs, fullOpen, shutR, shutW, expired, addresses, backlog, arrived, dialed>>
HalfFails(t) ==
    /\ t \in {"read", "write"} /\ op[t] = "failing" /\ Holds(Handle(t)) /\ Answered(t)
    /\ UNCHANGED <<socketVars, expired, addresses, peerVars>>

(* fdn_net_connect_next: the addresses are tried in turn until one answers *)
(* or keeps the caller waiting on a socket.                                *)
Dialled(table, left) ==
    {[r |-> "failed", table |-> table, left |-> 0]}
        \cup IF Numbers(table) = {} THEN {}
             ELSE [r : {"ok"}, table : {Opened(table, "other")}, left : 0 .. left - 1]
                    \cup [r : {"pending"}, table : {Opened(table, "dial")}, left : 0 .. left - 1]

(* fdn_net_connect_start.                                                  *)
ConnectStart ==
    /\ Starts("connect")
    /\ \/ expired["connect"] /\ Answered("connect") /\ UNCHANGED <<holds, addresses>>
       \/ ~expired["connect"] /\ \E d \in Dialled(holds, addresses) :
             \/ d.r # "pending" /\ Answered("connect") /\ holds' = d.table /\ addresses' = d.left
             \/ /\ d.r = "pending" /\ Submitted("connect", Min(Numbers(holds)))
                /\ holds' = d.table /\ addresses' = d.left
             \/ d.r = "pending" /\ Refused("connect") /\ UNCHANGED holds /\ addresses' = d.left
    /\ UNCHANGED <<lsock, lrefs, csock, crefs, fullOpen, readOpen, writeOpen, shutR, shutW, agent, stray,
                   expired, peerVars>>

(* fdn_net_cancel: a request that is no longer in the list is on its way   *)
(* to completion.                                                          *)
InList(t) == current # NoService /\ \E i \in DOMAIN list[current] : list[current][i] = t
MutSignal == UNCHANGED wake
Signal == wake' = [wake EXCEPT ![current] = TRUE]
Cancel(t) ==
    /\ t \in Cancellable /\ op[t] = "pending" /\ InList(t) /\ ~req[t].cancelled
    /\ req' = [req EXCEPT ![t].cancelled = TRUE]
    /\ Signal
    /\ UNCHANGED <<socketVars, op, expired, addresses, current, list, thread, peerVars>>

(* fdn_net_listener_stop_accepts.                                          *)
StopAccepts(h) ==
    /\ Does(h, "stop")
    /\ IF current = NoService THEN UNCHANGED <<req, wake>>
       ELSE req' = [req EXCEPT !["accept"].closed = @ \/ InList("accept")] /\ Signal
    /\ Act(h, Doing("release", 0, "release"))
    /\ UNCHANGED <<holds, lsock, lrefs, csock, crefs, fullOpen, readOpen, writeOpen, shutR, shutW, stray,
                   op, expired, addresses, current, list, thread, peerVars>>

-----------------------------------------------------------------------------
(* fdn_net_service_thread.                                                 *)
Snapshot(s) ==
    /\ At(s, "snapshot")
    /\ thread' = [thread EXCEPT ![s] = Thread("enter", list[s], <<>>, {})]
    /\ UNCHANGED <<socketVars, op, req, expired, addresses, current, list, wake, peerVars>>

Polls(s) == {thread[s].todo[i] : i \in DOMAIN thread[s].todo}
EnterPoll(s) ==
    /\ At(s, "enter")
    /\ thread' = [thread EXCEPT ![s].at = "poll", ![s].polled = [t \in Polls(s) |-> holds[req[t].fd]]]
    /\ UNCHANGED <<socketVars, op, req, expired, addresses, current, list, wake, peerVars>>

(* External: which sockets poll reports.  A closed number is reported; one *)
(* that stands for another socket reports that socket's events.            *)
Ready(t) ==
    CASE t = "accept" -> backlog
      [] t = "connect" -> dialed # "no"
      [] t = "read" -> arrived # "none" \/ shutR
      [] t = "write" -> room \/ shutW \/ arrived = "end"
Reported(s, t) == LET o == thread[s].polled[t] IN o = "free" \/ (o = Own(t) /\ Ready(t))
ReturnPoll(s) ==
    /\ At(s, "poll")
    /\ \E E \in SUBSET Polls(s) :
          /\ \A t \in Polls(s) : Reported(s, t) => t \in E
          /\ \A t \in E : Reported(s, t) \/ thread[s].polled[t] \notin {Own(t), "free"}
          /\ wake[s] \/ E # {} \/ \E t \in Polls(s) : expired[t]
          /\ thread' = [thread EXCEPT ![s].at = IF wake[s] THEN "drain" ELSE "visit",
                                     ![s].polled = <<>>, ![s].events = E]
    /\ UNCHANGED <<socketVars, op, req, expired, addresses, current, list, wake, peerVars>>
Drain(s) ==
    /\ At(s, "drain") /\ wake' = [wake EXCEPT ![s] = FALSE] /\ Step(s, "visit")
    /\ UNCHANGED <<socketVars, op, req, expired, addresses, current, list, peerVars>>

(* The thread visits the requests of its snapshot; it looks at one that is *)
(* cancelled, late or reported, but closed alone is no reason to look.     *)
Looks(s, t) == req[t].cancelled \/ expired[t] \/ t \in thread[s].events
Over(t) == req[t].closed \/ req[t].cancelled \/ expired[t]

(* fdn_net_accept_ready: the number is the listener's only while the       *)
(* listener says so.  accept fails for want of a number, or because the    *)
(* client has gone or its socket cannot be set up.                         *)
MutListens(t) == TRUE
Listens(t) == lsock = req[t].fd
AcceptReady(t, r) ==
    \/ ~Listens(t) /\ r = "failed" /\ UNCHANGED <<holds, backlog, stray>>
    \/ /\ Listens(t)
       /\ stray' = IF holds[req[t].fd] \in {"listener", "free"} THEN stray ELSE stray \cup {"transfer"}
       /\ \/ ~backlog /\ r = "pending" /\ UNCHANGED <<holds, backlog>>
          \/ backlog /\ r = "failed" /\ backlog' \in BOOLEAN /\ UNCHANGED holds
          \/ backlog /\ Numbers(holds) # {} /\ r = "ok" /\ holds' = Opened(holds, "other") /\ backlog' = FALSE

(* fdn_net_connect_ready.                                                  *)
ConnectReady(t, r) ==
    /\ LET closed == [holds EXCEPT ![req[t].fd] = "free"]
       IN \/ /\ dialed = "ok" /\ r = "ok" /\ holds' = [holds EXCEPT ![req[t].fd] = "other"]
             /\ req' = [req EXCEPT ![t].fd = 0] /\ UNCHANGED addresses
          \/ /\ dialed = "refused"
             /\ \E d \in Dialled(closed, addresses) :
                   /\ d.r = r /\ holds' = d.table /\ addresses' = d.left
                   /\ req' = [req EXCEPT ![t].fd = IF r = "pending" THEN Min(Numbers(closed)) ELSE 0]
    /\ dialed' = "no"

(* fdn_net_process_request: what it returns, and what it did.              *)
Process(t, r) ==
    \/ /\ Over(t) /\ r = "failed"
       /\ UNCHANGED <<holds, req, addresses, readOpen, stray, peerVars>>
    \/ /\ ~Over(t) /\ t = "accept" /\ AcceptReady(t, r)
       /\ UNCHANGED <<req, addresses, readOpen, arrived, room, dialed>>
    \/ /\ ~Over(t) /\ t = "connect" /\ ConnectReady(t, r)
       /\ UNCHANGED <<readOpen, stray, backlog, arrived, room>>
    \/ /\ ~Over(t) /\ t = "read" /\ Recv(req[t].fd, r)
       /\ readOpen' = (readOpen /\ r # "bad")
       /\ UNCHANGED <<holds, req, addresses, backlog, room, dialed>>
    \/ /\ ~Over(t) /\ t = "write" /\ Send(req[t].fd, r)
       /\ UNCHANGED <<holds, req, addresses, readOpen, backlog, arrived, dialed>>

(* The first request that is not pending ends the round; text that is not  *)
(* UTF-8, or a line that is too long, closes the read half first.          *)
Visited(s) ==
    [thread EXCEPT ![s] = IF Len(thread[s].todo) = 1 THEN Thread("snapshot", <<>>, <<>>, {})
                          ELSE [thread[s] EXCEPT !.todo = Tail(@)]]
Completing(s, t, at, fd, ok) ==
    [thread EXCEPT ![s] = [at |-> at, todo |-> <<>>, polled |-> <<>>, events |-> {}, task |-> t, fd |-> fd, ok |-> ok]]
Visit(s) ==
    /\ At(s, "visit")
    /\ LET t == Head(thread[s].todo)
       IN \/ /\ ~Looks(s, t) /\ thread' = Visited(s)
             /\ UNCHANGED <<holds, req, addresses, readOpen, stray, peerVars>>
          \/ /\ Looks(s, t)
             /\ \E r \in {"ok", "pending", "failed", "bad"} :
                   /\ Process(t, r)
                   /\ thread' = CASE r = "pending" -> Visited(s)
                                  [] r = "bad" /\ readOpen -> Completing(s, t, "unread", csock, FALSE)
                                  [] OTHER -> Completing(s, t, "remove", 0, r = "ok")
    /\ UNCHANGED <<lsock, lrefs, csock, crefs, fullOpen, writeOpen, shutR, shutW, agent,
                   op, expired, current, list, wake>>

(* fdn_net_read_close after the lock.                                      *)
Unread(s) ==
    /\ At(s, "unread") /\ ShutsDown(thread[s].fd, TRUE) /\ Step(s, "remove")
    /\ UNCHANGED <<holds, lsock, lrefs, csock, crefs, fullOpen, readOpen, writeOpen, agent,
                   op, req, expired, addresses, current, list, wake, peerVars>>

(* fdn_net_service_finish: out of the list; then the socket of a connect,  *)
(* or the half of a write that failed, is closed; then the service ends if *)
(* it was the last request; then the operation completes.                  *)
Unlinked(l, t) ==
    LET i == CHOOSE i \in DOMAIN l : l[i] = t
    IN  [k \in 1 .. Len(l) - 1 |-> IF k < i THEN l[k] ELSE l[k + 1]]
Remove(s) ==
    /\ At(s, "remove")
    /\ list' = [list EXCEPT ![s] = Unlinked(@, thread[s].task)]
    /\ thread' = [thread EXCEPT ![s].fd = req[thread[s].task].fd,
                      ![s].at = CASE thread[s].task = "connect" /\ req["connect"].fd # 0 -> "close"
                                  [] thread[s].task = "write" /\ ~thread[s].ok -> "half"
                                  [] OTHER -> "stop"]
    /\ UNCHANGED <<socketVars, op, req, expired, addresses, current, wake, peerVars>>
FinishHalf(s) ==
    /\ At(s, "half")
    /\ HalfTaken(FALSE)
    /\ LET left == HalfLeft(FALSE, "stop")
       IN thread' = [thread EXCEPT ![s].at = left.do, ![s].fd = left.fd]
    /\ UNCHANGED <<holds, lsock, lrefs, crefs, fullOpen, shutR, shutW, agent, stray,
                   op, req, expired, addresses, current, list, wake, peerVars>>
FinishClose(s) ==
    /\ At(s, "close") /\ holds' = [holds EXCEPT ![thread[s].fd] = "free"]
    /\ Step(s, "stop")
    /\ dialed' = IF thread[s].task = "connect" THEN "no" ELSE dialed
    /\ UNCHANGED <<lsock, lrefs, csock, crefs, fullOpen, readOpen, writeOpen, shutR, shutW, agent, stray,
                   op, req, expired, addresses, current, list, wake, backlog, arrived, room>>
FinishShut(s) ==
    /\ At(s, "shut") /\ ShutsDown(thread[s].fd, FALSE) /\ Step(s, "stop")
    /\ UNCHANGED <<holds, lsock, lrefs, csock, crefs, fullOpen, readOpen, writeOpen, agent,
                   op, req, expired, addresses, current, list, wake, peerVars>>

(* fdn_net_service_stop_if_empty, under the global lock.                   *)
MutStops(s) == TRUE
Stops(s) == list[s] = <<>>
StopIfEmpty(s) ==
    /\ At(s, "stop")
    /\ current' = IF Stops(s) THEN NoService ELSE current
    /\ Step(s, IF Stops(s) THEN "last" ELSE "complete")
    /\ UNCHANGED <<socketVars, op, req, expired, addresses, list, wake, peerVars>>
Complete(s) ==
    /\ At(s, "last") \/ At(s, "complete")
    /\ op' = [op EXCEPT ![thread[s].task] = "done"]
    /\ req' = [req EXCEPT ![thread[s].task] = Request(0)]
    /\ thread' = [thread EXCEPT ![s] = IF At(s, "last") THEN NoThread ELSE Thread("snapshot", <<>>, <<>>, {})]
    /\ UNCHANGED <<socketVars, expired, addresses, current, list, wake, peerVars>>

-----------------------------------------------------------------------------
(* External: peers, and the clock.  A client may give up before accept,    *)
(* and what arrives after a shutdown is not delivered.                     *)
Peers ==
    /\ \/ lsock # 0 /\ op["accept"] # "off" /\ backlog' = ~backlog /\ UNCHANGED <<arrived, room, dialed>>
       \/ /\ arrived = "none" /\ (op["read"] # "off" \/ op["write"] # "off") /\ arrived' \in IF shutR THEN {"end"} ELSE {"data", "end"}
          /\ UNCHANGED <<backlog, room, dialed>>
       \/ ~room /\ op["write"] # "off" /\ room' = TRUE /\ UNCHANGED <<backlog, arrived, dialed>>
       \/ /\ dialed = "no" /\ (\E fd \in Fds : holds[fd] = "dial") /\ dialed' \in {"ok", "refused"}
          /\ UNCHANGED <<backlog, arrived, room>>
    /\ UNCHANGED <<socketVars, serviceVars>>
Expires(t) ==
    /\ t \in Timed /\ op[t] \notin {"off", "done"} /\ ~expired[t] /\ expired' = [expired EXCEPT ![t] = TRUE]
    /\ UNCHANGED <<socketVars, op, req, addresses, current, list, wake, thread, peerVars>>

Calls ==
    \/ AcceptStart \/ ReadBegin \/ ReadBad \/ WriteBegin \/ ConnectStart
    \/ \E t \in Tasks : HalfStart(t) \/ HalfFails(t) \/ Cancel(t)
(* What the owner of a handle begins, and what it must finish.             *)
Owners ==
    /\ \/ OtherSockets \/ Split(TRUE) \/ Split(FALSE) \/ CloseConnection \/ TakeSocket \/ Abort
       \/ Control /\ ~InUse("listener")
       \/ \E h \in Handles : (CloseListener(h) \/ CloseHalf(h) \/ DropController(h)) /\ ~InUse(h)
    /\ UNCHANGED <<serviceVars, peerVars>>
Finishes(h) ==
    \/ (Close(h) \/ Shutdown(h) \/ ReleaseListener(h) \/ ReleaseConnection(h)) /\ UNCHANGED <<serviceVars, peerVars>>
    \/ StopAccepts(h)
ServiceThread(s) ==
    \/ Snapshot(s) \/ EnterPoll(s) \/ ReturnPoll(s) \/ Drain(s) \/ Visit(s) \/ Unread(s) \/ Remove(s)
    \/ FinishHalf(s) \/ FinishClose(s) \/ FinishShut(s) \/ StopIfEmpty(s) \/ Complete(s)

Next ==
    \/ Calls \/ Owners \/ Peers
    \/ \E h \in Handles : Finishes(h)
    \/ \E s \in Services : ServiceThread(s)
    \/ \E t \in Tasks : Expires(t)
Spec == Init /\ [][Next]_vars

(* The service's thread runs, and a call that has begun ends.              *)
FairSpec ==
    /\ Spec
    /\ \A s \in Services : WF_vars(ServiceThread(s))
    /\ \A h \in Handles : WF_vars(Finishes(h))

-----------------------------------------------------------------------------
(* Nothing is lost or used after it was freed: a pending request is in the *)
(* list of the current service, whose thread runs, or is being completed   *)
(* by one thread; and the object its pointers lead to still has owners.    *)
Completer(t) == {s \in Services : thread[s].task = t /\ thread[s].at \notin {"unread", "remove"}}
References(t) == IF t = "accept" THEN lrefs ELSE crefs
RequestsAreServed ==
    \A t \in Tasks : op[t] = "pending" =>
        /\ \/ InList(t) /\ ~At(current, "free") /\ ~At(current, "last") /\ Completer(t) = {}
           \/ ~InList(t) /\ Cardinality(Completer(t)) = 1
        /\ t # "connect" => References(t) > 0

(* A descriptor is closed once, by the one that took it, and not leaked:   *)
(* every number that stands for the connection or the listener is in its   *)
(* object or with one thread that will close it, and an object has as many *)
(* references as handles.                                                  *)
Takers(hs, fd) == Cardinality({h \in hs : Does(h, "close") /\ agent[h].fd = fd})
Finishers(t, fd) == Cardinality({s \in Services : At(s, "close") /\ thread[s].task = t /\ thread[s].fd = fd})
One(b) == IF b THEN 1 ELSE 0
DescriptorsAreOwned ==
    /\ \A fd \in Fds :
          /\ One(holds[fd] = "listener") = One(lsock = fd) + Takers(ListenerHandles, fd)
          /\ One(holds[fd] = "conn") = One(csock = fd) + Takers(ConnectionHandles, fd) + Finishers("write", fd)
          /\ One(holds[fd] = "dial") =
                One(op["connect"] = "pending" /\ InList("connect") /\ req["connect"].fd = fd) + Finishers("connect", fd)
    /\ lrefs = Cardinality({h \in ListenerHandles : agent[h] # Gone})
    /\ crefs = Cardinality({h \in ConnectionHandles : agent[h] # Gone})

(* The service accepts, receives and sends only on the request's own       *)
(* socket, except after Abort, which lets the halves close a socket the    *)
(* service still has a request for.                                        *)
ServiceKeepsToItsSockets == "transfer" \in stray => ~readOpen /\ ~writeOpen /\ shutR /\ shutW

(* A late request ends, and so does a cancelled one that has its service   *)
(* to itself.  One whose listener is closed or whose connection is aborted *)
(* ends too, unless its number went to another socket before the thread's  *)
(* next poll.                                                              *)
Alone(t) == \A u \in Tasks \ {t} : op[u] = "off"
Late(t) == expired[t] \/ (req[t].cancelled /\ Alone(t))
Closed(t) == req[t].closed \/ (t # "accept" /\ shutR /\ shutW)
Renumbered(t) == op[t] = "pending" /\ req[t].fd # 0 /\ holds[req[t].fd] \notin {Own(t), "free"}
RequestEnds ==
    /\ \A t \in Cancellable \cup Timed : (op[t] = "pending" /\ Late(t)) ~> op[t] = "done"
    /\ \A t \in Tasks \ {"connect"} : (op[t] = "pending" /\ Closed(t)) ~> (op[t] = "done" \/ Renumbered(t))

(* "Dropping a live handle requests cancellation and joins it"             *)
(* (docs/language.md): a cancelled request ends, whoever shares its        *)
(* service.                                                                *)
CancelEnds == \A t \in Cancellable : (op[t] = "pending" /\ req[t].cancelled) ~> op[t] = "done"
=============================================================================
