----------------------------- MODULE NetSockets -----------------------------
(***************************************************************************)
(* A listener and a split connection of the network runtime                *)
(* (runtime/src/net.c): their descriptors, the handles that share them by  *)
(* reference count, and the calls that close them.  A descriptor is taken  *)
(* out of its object under the object's lock and closed after the lock was *)
(* left; the number goes to the next socket the process opens.             *)
(***************************************************************************)
EXTENDS Integers, FiniteSetsExt

CONSTANT Fds    \* bound: the descriptor numbers

ASSUME FdsAssumption == Fds \subseteq Nat \ {0} /\ \E fd, other \in Fds : fd # other

VARIABLES
    holds,      \* the kernel's table: what a number stands for
    lsock,      \* fdn_net_listener.socket, 0 for FDN_NET_INVALID_SOCKET
    lrefs,      \* fdn_net_listener.references
    csock, crefs, fullOpen, readOpen, writeOpen,    \* fdn_net_connection
    shutR, shutW,   \* the connection's socket was shut down
    agent,      \* what the owner of a handle is doing to it
    stray       \* system calls that met another's socket

socketVars == <<holds, lsock, lrefs, csock, crefs, fullOpen, readOpen, writeOpen, shutR, shutW, agent, stray>>

ListenerHandles == {"listener", "stopper"}
ConnectionHandles == {"whole", "reader", "writer", "controller"}
Handles == ListenerHandles \cup ConnectionHandles

(* "rest": not in a call; then: what follows the system call.              *)
Doing(do, fd, then) == [do |-> do, fd |-> fd, then |-> then]
Rest == Doing("rest", 0, "release")
Gone == Doing("gone", 0, "release")
Holds(h) == agent[h].do = "rest"
Does(h, do) == agent[h].do = do
Act(h, d) == agent' = [agent EXCEPT ![h] = d]

(* External: the kernel gives out the lowest number that is free.          *)
Numbers(table) == {fd \in Fds : table[fd] = "free"}
Opened(table, o) == [table EXCEPT ![Min(Numbers(table))] = o]

(* A listener, a connection, both or neither: what the tasks at hand use.  *)
SocketsInit(listener, connection) ==
    /\ lsock = (IF listener THEN Min(Fds) ELSE 0) /\ lrefs = (IF listener THEN 1 ELSE 0)
    /\ csock = (IF connection THEN Min(Fds \ {lsock}) ELSE 0) /\ crefs = (IF connection THEN 1 ELSE 0)
    /\ holds = [fd \in Fds |-> CASE fd = lsock -> "listener" [] fd = csock -> "conn" [] OTHER -> "free"]
    /\ fullOpen = connection /\ readOpen = connection /\ writeOpen = connection
    /\ shutR = FALSE /\ shutW = FALSE
    /\ agent = [h \in Handles |-> IF (listener /\ h = "listener") \/ (connection /\ h = "whole") THEN Rest ELSE Gone]
    /\ stray = {}

-----------------------------------------------------------------------------
(* The rest of the process opens and closes sockets, which stay quiet.     *)
OtherSockets ==
    /\ \/ Numbers(holds) # {} /\ holds' = Opened(holds, "other")
       \/ \E fd \in Fds : holds[fd] = "other" /\ holds' = [holds EXCEPT ![fd] = "free"]
    /\ UNCHANGED <<lsock, lrefs, csock, crefs, fullOpen, readOpen, writeOpen, shutR, shutW, agent, stray>>

(* fdn_net_close_socket.                                                   *)
Close(h) ==
    /\ Does(h, "close")
    /\ holds' = [holds EXCEPT ![agent[h].fd] = "free"]
    /\ Act(h, Doing(agent[h].then, 0, "release"))
    /\ UNCHANGED <<lsock, lrefs, csock, crefs, fullOpen, readOpen, writeOpen, shutR, shutW, stray>>

(* fdn_net_shutdown reaches whatever the number stands for by now.         *)
ShutsDown(fd, reader) ==
    /\ shutR' = (shutR \/ (reader /\ holds[fd] = "conn"))
    /\ shutW' = (shutW \/ (~reader /\ holds[fd] = "conn"))
    /\ stray' = IF holds[fd] \in {"conn", "free"} THEN stray ELSE stray \cup {"shutdown"}
Shutdown(h) ==
    /\ Does(h, "shut")
    /\ ShutsDown(agent[h].fd, h = "reader")
    /\ Act(h, Doing(agent[h].then, 0, "release"))
    /\ UNCHANGED <<holds, lsock, lrefs, csock, crefs, fullOpen, readOpen, writeOpen>>

(* foundation_runtime_net_listener_control.                                *)
Control ==
    /\ Holds("listener") /\ agent["stopper"] = Gone /\ lsock # 0
    /\ lrefs' = lrefs + 1
    /\ Act("stopper", Rest)
    /\ UNCHANGED <<holds, lsock, csock, crefs, fullOpen, readOpen, writeOpen, shutR, shutW, stray>>

(* foundation_runtime_net_listener_close and _controller_close.            *)
CloseListener(h) ==
    /\ h \in ListenerHandles /\ Holds(h)
    /\ lsock' = 0
    /\ Act(h, IF lsock = 0 THEN Doing("release", 0, "release") ELSE Doing("close", lsock, "stop"))
    /\ UNCHANGED <<holds, lrefs, csock, crefs, fullOpen, readOpen, writeOpen, shutR, shutW, stray>>

(* fdn_net_listener_release and fdn_net_connection_release; the last one   *)
(* destroys the object and with it a socket that was not taken.            *)
Destroyed(refs, sock) == IF refs = 1 /\ sock # 0 THEN [holds EXCEPT ![sock] = "free"] ELSE holds
ReleaseListener(h) ==
    /\ h \in ListenerHandles /\ Does(h, "release")
    /\ lrefs' = lrefs - 1
    /\ holds' = Destroyed(lrefs, lsock)
    /\ lsock' = IF lrefs = 1 THEN 0 ELSE lsock
    /\ Act(h, Gone)
    /\ UNCHANGED <<csock, crefs, fullOpen, readOpen, writeOpen, shutR, shutW, stray>>
ReleaseConnection(h) ==
    /\ h \in ConnectionHandles /\ Does(h, "release")
    /\ crefs' = crefs - 1
    /\ holds' = Destroyed(crefs, csock)
    /\ csock' = IF crefs = 1 THEN 0 ELSE csock
    /\ Act(h, Gone)
    /\ UNCHANGED <<lsock, lrefs, fullOpen, readOpen, writeOpen, shutR, shutW, stray>>

(* Dropping a controller without closing or aborting.                      *)
DropController(h) ==
    /\ h \in {"stopper", "controller"} /\ Holds(h)
    /\ Act(h, Doing("release", 0, "release"))
    /\ UNCHANGED <<holds, lsock, lrefs, csock, crefs, fullOpen, readOpen, writeOpen, shutR, shutW, stray>>

-----------------------------------------------------------------------------
(* foundation_runtime_net_split and _split_controlled, which consume the   *)
(* connection: its drop releases a reference.                              *)
Halves(controlled) == IF controlled THEN 4 ELSE 3
Split(controlled) ==
    /\ Holds("whole") /\ fullOpen /\ csock # 0
    /\ fullOpen' = FALSE
    /\ crefs' = Halves(controlled)
    /\ agent' = [agent EXCEPT !["whole"] = Doing("release", 0, "release"), !["reader"] = Rest, !["writer"] = Rest,
                              !["controller"] = IF controlled THEN Rest ELSE Gone]
    /\ UNCHANGED <<holds, lsock, lrefs, csock, readOpen, writeOpen, shutR, shutW, stray>>

(* foundation_runtime_net_connection_close of one that was not split, and  *)
(* foundation_runtime_net_connection_take_socket, which gives the socket   *)
(* to another owner.                                                       *)
CloseConnection ==
    /\ Holds("whole") /\ fullOpen
    /\ fullOpen' = FALSE /\ readOpen' = FALSE /\ writeOpen' = FALSE /\ csock' = 0
    /\ Act("whole", Doing("close", csock, "release"))
    /\ UNCHANGED <<holds, lsock, lrefs, crefs, shutR, shutW, stray>>
TakeSocket ==
    /\ Holds("whole") /\ fullOpen /\ csock # 0
    /\ fullOpen' = FALSE /\ readOpen' = FALSE /\ writeOpen' = FALSE /\ csock' = 0
    /\ holds' = [holds EXCEPT ![csock] = "other"]
    /\ Act("whole", Doing("release", 0, "release"))
    /\ UNCHANGED <<lsock, lrefs, crefs, shutR, shutW, stray>>

(* fdn_net_close_half under the lock, and what it leaves to be done after: *)
(* the second half to go closes the socket.                                *)
LastHalf(reader) == csock # 0 /\ ~(IF reader THEN writeOpen ELSE readOpen)
MutHalfTaken(reader) ==
    /\ readOpen' = (readOpen /\ ~reader)
    /\ writeOpen' = (writeOpen /\ reader)
    /\ UNCHANGED csock
HalfTaken(reader) ==
    /\ readOpen' = (readOpen /\ ~reader)
    /\ writeOpen' = (writeOpen /\ reader)
    /\ csock' = IF LastHalf(reader) THEN 0 ELSE csock
HalfLeft(reader, then) ==
    CASE LastHalf(reader) -> Doing("close", csock, then)
      [] ~LastHalf(reader) /\ csock # 0 /\ (IF reader THEN readOpen ELSE writeOpen) -> Doing("shut", csock, then)
      [] OTHER -> Doing(then, 0, "release")

(* foundation_runtime_net_reader_close and _writer_close.                  *)
CloseHalf(h) ==
    /\ h \in {"reader", "writer"} /\ Holds(h)
    /\ HalfTaken(h = "reader")
    /\ Act(h, HalfLeft(h = "reader", "release"))
    /\ UNCHANGED <<holds, lsock, lrefs, crefs, fullOpen, shutR, shutW, stray>>

(* foundation_runtime_net_controller_abort shuts down under the lock.      *)
Abort ==
    /\ Holds("controller")
    /\ IF csock = 0 THEN UNCHANGED <<readOpen, writeOpen, shutR, shutW>>
       ELSE readOpen' = FALSE /\ writeOpen' = FALSE /\ shutR' = TRUE /\ shutW' = TRUE
    /\ Act("controller", Doing("release", 0, "release"))
    /\ UNCHANGED <<holds, lsock, lrefs, csock, crefs, fullOpen, stray>>
=============================================================================
