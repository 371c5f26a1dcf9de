-------------------------- MODULE NetServiceProofs --------------------------
(***************************************************************************)
(* Proofs about NetService, for any number of descriptor numbers, services *)
(* and addresses and any choice of tasks, deadlines and cancellations.     *)
(***************************************************************************)
EXTENDS NetService, WellFoundedInduction, FiniteSetTheorems, TLAPS

(***************************************************************************)
(* The inductive invariant.                                                *)
(***************************************************************************)

(* The types.                                                              *)
Kinds == {"free", "listener", "conn", "other", "dial"}
Numbered == Fds \cup {0}
Doings == [do : {"rest", "gone", "close", "shut", "stop", "release"}, fd : Numbered,
           then : {"rest", "stop", "release"}]
SocketsTypeOK ==
    /\ holds \in [Fds -> Kinds]
    /\ lsock \in Numbered /\ csock \in Numbered /\ lrefs \in Int /\ crefs \in Int
    /\ fullOpen \in BOOLEAN /\ readOpen \in BOOLEAN /\ writeOpen \in BOOLEAN
    /\ shutR \in BOOLEAN /\ shutW \in BOOLEAN
    /\ agent \in [Handles -> Doings]
    /\ stray \subseteq {"shutdown", "transfer"}
OpStates == {"off", "idle", "starting", "failing", "pending", "done"}
Requests == [fd : Numbered, cancelled : BOOLEAN, closed : BOOLEAN]
Rounds == {"enter", "poll", "drain", "visit"}
Endings == {"half", "close", "shut", "stop", "last", "complete"}
Places == {"free", "snapshot", "unread", "remove"} \cup Rounds \cup Endings
Polled == UNION {[T -> Kinds] : T \in SUBSET Tasks}
Threads == [at : Places, todo : Seq(Tasks), polled : Polled, events : SUBSET Tasks,
            task : Tasks \cup {"none"}, fd : Numbered, ok : BOOLEAN]
ServiceTypeOK ==
    /\ op \in [Tasks -> OpStates]
    /\ req \in [Tasks -> Requests]
    /\ current \in Services \cup {NoService}
    /\ list \in [Services -> Seq(Tasks)]
    /\ thread \in [Services -> Threads]

(* What the owner of a handle is doing to it.                              *)
Is(h, d) == agent[h] = d
Release == Doing("release", 0, "release")
Closing(h) == Does(h, "close")
AgentsInv ==
    /\ \A h \in Handles : /\ Does(h, "rest") => Is(h, Rest)
                          /\ Does(h, "gone") => Is(h, Gone)
    /\ \A h \in Handles : Closing(h) /\ agent[h].then = "rest" => h \in {"reader", "writer"}
    /\ \A h \in Handles : Does(h, "shut") => h \in {"reader", "writer"}
    /\ agent["controller"].do \in {"rest", "gone", "release"}
    /\ fullOpen <=> Does("whole", "rest")
    /\ fullOpen => /\ Is("reader", Gone) /\ Is("writer", Gone) /\ Is("controller", Gone)
                   /\ csock # 0
    /\ readOpen => csock # 0 /\ (Does("whole", "rest") \/ Does("reader", "rest"))
    /\ writeOpen => csock # 0 /\ (Does("whole", "rest") \/ Does("writer", "rest"))
(* An operation that has begun has its handle.                             *)
Begun(t) == op[t] \in {"starting", "pending"}
HandlesInv ==
    \A t \in Tasks \ {"connect"} :
        /\ Begun(t) => Does(Handle(t), "rest")
        /\ op[t] = "failing" => \/ Does(Handle(t), "rest")
                                \/ agent[Handle(t)].do \in {"shut", "close"} /\ agent[Handle(t)].then = "rest"
        /\ op[t] \in {"starting", "failing"} => t \in {"read", "write"}
(* A connect has no handle; what it does before it waits is one step.      *)
OpInv == op["connect"] \notin {"starting", "failing"}

(* The references are the handles.                                         *)
RefsInv ==
    /\ lrefs = One(~Is("listener", Gone)) + One(~Is("stopper", Gone))
    /\ crefs = One(~Is("whole", Gone)) + One(~Is("reader", Gone)) + One(~Is("writer", Gone))
                 + One(~Is("controller", Gone))

(* The service: a request is once in a list, only the current service has  *)
(* requests, and a thread that looks after requests has some.              *)
Member(l, x) == \E i \in DOMAIN l : l[i] = x
Once(l) == \A i, k \in DOMAIN l : l[i] = l[k] => i = k
Listed(s, t) == Member(list[s], t)
Ends(s, t) == thread[s].at \in Endings /\ thread[s].task = t
ListsInv ==
    /\ \A s \in Services : Once(list[s])
    /\ \A s \in Services : \A t \in Tasks : Listed(s, t) => op[t] = "pending"
    /\ \A s \in Services : s # current =>
          (\A t \in Tasks : ~Listed(s, t)) /\ thread[s].at \in {"free", "last"}
    /\ current # NoService => thread[current].at \notin {"free", "last"}
ThreadInv(s, r) ==
    /\ r.at \in {"snapshot", "unread", "remove", "complete"} \cup Rounds => \E t \in Tasks : Listed(s, t)
    /\ r.at \in Rounds => r.todo # <<>> /\ \A t \in Tasks : Member(r.todo, t) => Listed(s, t)
    /\ r.at \in {"free", "snapshot"} \cup Rounds <=> r.task = "none"
    /\ \A t \in Tasks : r.at \in {"unread", "remove"} /\ r.task = t => Listed(s, t)
    /\ r.at = "unread" => r.task = "read"
    /\ r.at \in {"half", "shut"} => r.task = "write"
    /\ r.at = "close" => r.task \in {"write", "connect"}
ThreadsInv == \A s \in Services : ThreadInv(s, thread[s])
(* A pending request is listed or with the one thread that ends it.        *)
EndingsInv ==
    /\ \A s \in Services, t \in Tasks : Ends(s, t) => op[t] = "pending" /\ \A u \in Services : ~Listed(u, t)
    /\ \A s, u \in Services, t \in Tasks : Ends(s, t) /\ Ends(u, t) => s = u
    /\ \A t \in Tasks : op[t] = "pending" => \E s \in Services : Listed(s, t) \/ Ends(s, t)

(* Descriptors: what the kernel's table says is in the object or with the  *)
(* one that took it, and with nobody else.                                 *)
Closer(s, t) == At(s, "close") /\ thread[s].task = t
OwnListener ==
    /\ lsock # 0 => holds[lsock] = "listener"
    /\ \A h \in ListenerHandles : Closing(h) => lsock = 0 /\ agent[h].fd \in Fds /\ holds[agent[h].fd] = "listener"
    /\ ~(Closing("listener") /\ Closing("stopper"))
    /\ \A fd \in Fds : holds[fd] = "listener" => lsock = fd \/ \E h \in ListenerHandles : Closing(h) /\ agent[h].fd = fd
OwnConnection ==
    /\ csock # 0 => holds[csock] = "conn"
    /\ \A h \in ConnectionHandles : Closing(h) => csock = 0 /\ agent[h].fd \in Fds /\ holds[agent[h].fd] = "conn"
    /\ \A s \in Services : Closer(s, "write") => csock = 0 /\ thread[s].fd \in Fds /\ holds[thread[s].fd] = "conn"
    /\ \A h, k \in ConnectionHandles : Closing(h) /\ Closing(k) => h = k
    /\ \A h \in ConnectionHandles, s \in Services : ~(Closing(h) /\ Closer(s, "write"))
    /\ \A fd \in Fds : holds[fd] = "conn" =>
          \/ csock = fd \/ \E h \in ConnectionHandles : Closing(h) /\ agent[h].fd = fd
          \/ \E s \in Services : Closer(s, "write") /\ thread[s].fd = fd
Dials == \E s \in Services : Listed(s, "connect")
OwnDial ==
    /\ Dials /\ req["connect"].fd # 0 => holds[req["connect"].fd] = "dial"
    /\ \A s \in Services : Closer(s, "connect") => thread[s].fd \in Fds /\ holds[thread[s].fd] = "dial"
    /\ \A fd \in Fds : holds[fd] = "dial" =>
          \/ Dials /\ req["connect"].fd = fd
          \/ \E s \in Services : Closer(s, "connect") /\ thread[s].fd = fd

(* A request the thread may still look at is about its own socket.         *)
Aborted == ~readOpen /\ ~writeOpen /\ shutR /\ shutW
Waits(t) == op[t] = "starting" \/ \E s \in Services : Listed(s, t) /\ thread[s].task # t
WaitsInv ==
    /\ \A t \in Tasks : Waits(t) => req[t].fd # 0
    /\ \A t \in {"read", "write"} : Waits(t) => /\ req[t].fd = csock \/ Aborted
                                                /\ HalfOpen(t) \/ Aborted
    /\ "transfer" \in stray => Aborted

(* The invariant; the service's part stands by itself.                     *)
ServiceInv == ServiceTypeOK /\ ListsInv /\ ThreadsInv /\ EndingsInv
NetInv ==
    /\ SocketsTypeOK /\ ServiceTypeOK
    /\ AgentsInv /\ HandlesInv /\ OpInv /\ RefsInv
    /\ ListsInv /\ ThreadsInv /\ EndingsInv
    /\ OwnListener /\ OwnConnection /\ OwnDial
    /\ WaitsInv

(***************************************************************************)
(* Lists.                                                                  *)
(***************************************************************************)

(* The lowest of some numbers is one of them.                              *)
LEMMA MinOf ==
    ASSUME NEW S, S \subseteq Nat, S # {}
    PROVE  Min(S) \in S
  <1>1. IsWellFoundedOn(OpToRel(<, Nat), Nat)
    BY NatLessThanWellFounded
  <1>2. \E x \in S : \A y \in S : ~ (<<y, x>> \in OpToRel(<, Nat))
    BY <1>1, WFMin
  <1>3. PICK x \in S : \A y \in S : ~ (<<y, x>> \in OpToRel(<, Nat))
    BY <1>2
  <1>4. \A y \in S : ~(y < x)
    BY <1>3 DEF OpToRel
  <1>5. \A y \in S : x =< y
    BY <1>4
  <1> QED
    BY <1>5 DEF Min

LEMMA EmptyIsPolled == <<>> \in Polled
  <1>1. <<>> \in [{} -> Kinds]
    OBVIOUS
  <1> QED BY <1>1 DEF Polled

(* A request that is submitted goes to the head of the list.               *)
LEMMA Prepended ==
    ASSUME NEW S, NEW l \in Seq(S), NEW x \in S
    PROVE  /\ <<x>> \o l \in Seq(S) /\ <<x>> \o l # <<>>
           /\ \A y : Member(<<x>> \o l, y) <=> (y = x \/ Member(l, y))
           /\ Once(l) /\ ~Member(l, x) => Once(<<x>> \o l)
  <1>. DEFINE m == <<x>> \o l
  <1>1. Len(l) \in Nat /\ DOMAIN l = 1 .. Len(l)
    OBVIOUS
  <1>2. /\ m \in Seq(S) /\ DOMAIN m = 1 .. Len(l) + 1 /\ m[1] = x
        /\ \A i \in 1 .. Len(l) : m[i + 1] = l[i]
    OBVIOUS
  <1>. HIDE DEF m
  <1>3. \A i \in DOMAIN m : i = 1 \/ (i - 1 \in DOMAIN l /\ m[i] = l[i - 1])
    <2>. TAKE i \in DOMAIN m
    <2>1. CASE i # 1
      <3>1. i - 1 \in 1 .. Len(l) /\ (i - 1) + 1 = i
        BY <1>1, <1>2, <2>1
      <3>. QED  BY <1>1, <1>2, <3>1
    <2>. QED  BY <2>1
  <1>4. m # <<>>
    BY <1>1, <1>2
  <1>5. \A y : Member(m, y) <=> (y = x \/ Member(l, y))
    <2>. TAKE y
    <2>1. Member(m, y) => (y = x \/ Member(l, y))
      BY <1>2, <1>3 DEF Member
    <2>2. y = x => Member(m, y)
      BY <1>1, <1>2 DEF Member
    <2>3. Member(l, y) => Member(m, y)
      <3>1. \A i \in DOMAIN l : i + 1 \in DOMAIN m
        BY <1>1, <1>2
      <3>. QED  BY <1>1, <1>2, <3>1 DEF Member
    <2>. QED  BY <2>1, <2>2, <2>3
  <1>6. Once(l) /\ ~Member(l, x) => Once(m)
    <2>1. \A i \in DOMAIN m : i \in Int
      BY <1>1, <1>2
    <2>. QED  BY <1>2, <1>3, <2>1 DEF Once, Member
  <1>. QED  BY <1>2, <1>4, <1>5, <1>6 DEF m

(* A request that is taken out leaves the others in the list.              *)
LEMMA UnlinkedOf ==
    ASSUME NEW S, NEW l \in Seq(S), NEW x, Once(l), Member(l, x)
    PROVE  /\ Unlinked(l, x) \in Seq(S) /\ Once(Unlinked(l, x))
           /\ \A y : Member(Unlinked(l, x), y) <=> (Member(l, y) /\ y # x)
  <1>. DEFINE i == CHOOSE i \in DOMAIN l : l[i] = x
              m == Unlinked(l, x)
  <1>1. Len(l) \in Nat /\ DOMAIN l = 1 .. Len(l)
    OBVIOUS
  <1>2. i \in DOMAIN l /\ l[i] = x
    BY DEF Member
  <1>3. m = [k \in 1 .. Len(l) - 1 |-> IF k < i THEN l[k] ELSE l[k + 1]]
    BY DEF Unlinked
  <1>. HIDE DEF i, m
  <1>4. /\ m \in Seq(S) /\ DOMAIN m = 1 .. Len(l) - 1
        /\ \A k \in 1 .. Len(l) - 1 : m[k] = IF k < i THEN l[k] ELSE l[k + 1]
    <2>1. Len(l) - 1 \in Nat
      BY <1>1, <1>2
    <2>2. \A k \in 1 .. Len(l) - 1 : (IF k < i THEN l[k] ELSE l[k + 1]) \in S
      BY <1>1, <1>2
    <2>. QED  BY <1>3, <2>1, <2>2
  <1>5. \A k \in DOMAIN m : \E j \in DOMAIN l : m[k] = l[j] /\ j # i
    BY <1>1, <1>2, <1>4
  <1>6. \A j \in DOMAIN l : j # i => \E k \in DOMAIN m : m[k] = l[j]
    <2>. TAKE j \in DOMAIN l
    <2>1. CASE j < i
      BY <1>1, <1>2, <1>4, <2>1
    <2>2. CASE j > i
      <3>1. j - 1 \in 1 .. Len(l) - 1 /\ ~(j - 1 < i) /\ (j - 1) + 1 = j
        BY <1>1, <1>2, <2>2
      <3>. QED  BY <1>4, <3>1
    <2>. QED  BY <1>1, <1>2, <2>1, <2>2
  <1>7. \A y : Member(m, y) <=> (Member(l, y) /\ y # x)
    <2>1. \A j \in DOMAIN l : l[j] = x => j = i
      BY <1>2 DEF Once
    <2>. TAKE y
    <2>2. Member(m, y) => Member(l, y) /\ y # x
      BY <1>5, <2>1 DEF Member
    <2>3. Member(l, y) /\ y # x => Member(m, y)
      BY <1>2, <1>6 DEF Member
    <2>. QED  BY <2>2, <2>3
  <1>8. Once(m)
    <2>. SUFFICES ASSUME NEW a \in DOMAIN m, NEW b \in DOMAIN m, m[a] = m[b]  PROVE a = b
      BY DEF Once
    <2>1. \A c, d \in DOMAIN l : l[c] = l[d] => c = d
      BY DEF Once
    <2>. DEFINE Index(k) == IF k < i THEN k ELSE k + 1
    <2>2. \A k \in DOMAIN m : Index(k) \in DOMAIN l /\ m[k] = l[Index(k)]
      BY <1>1, <1>2, <1>4
    <2>3. Index(a) = Index(b) => a = b
      BY <1>1, <1>2, <1>4
    <2>. HIDE DEF Index
    <2>. QED  BY <2>1, <2>2, <2>3
  <1>. QED  BY <1>4, <1>7, <1>8 DEF m

(* What is left to visit when the first has been visited.                  *)
LEMMA TailMembers ==
    ASSUME NEW S, NEW l \in Seq(S), l # <<>>
    PROVE  /\ Head(l) \in S /\ Member(l, Head(l))
           /\ Tail(l) \in Seq(S) /\ (Len(l) # 1 => Tail(l) # <<>>)
           /\ \A y : Member(Tail(l), y) => Member(l, y)
  <1>1. /\ Tail(l) \in Seq(S) /\ Len(l) > 0 /\ DOMAIN Tail(l) = 1 .. Len(l) - 1 /\ DOMAIN l = 1 .. Len(l)
        /\ Head(l) = l[1] /\ Len(l) \in Nat
    OBVIOUS
  <1>2. \A i \in DOMAIN Tail(l) : Tail(l)[i] = l[i + 1] /\ i + 1 \in DOMAIN l
    BY <1>1
  <1>3. ASSUME Len(l) # 1  PROVE Tail(l) # <<>>
    <2>. DEFINE m == Tail(l)
    <2>1. 1 \in DOMAIN m
      BY <1>1, <1>3
    <2>. HIDE DEF m
    <2>2. m # <<>>
      BY <2>1
    <2>. QED  BY <2>2 DEF m
  <1>4. Head(l) \in S /\ 1 \in DOMAIN l
    BY <1>1
  <1>. QED  BY <1>1, <1>2, <1>3, <1>4 DEF Member

LEMMA EmptyMembers ==
    ASSUME NEW S, NEW l \in Seq(S)
    PROVE  /\ l = <<>> <=> \A y \in S : ~Member(l, y)
           /\ \A y : ~Member(<<>>, y)
           /\ \A y : Member(l, y) => y \in S /\ l # <<>>
  <1>1. \A i \in DOMAIN l : l[i] \in S
    OBVIOUS
  <1>2. l = <<>> <=> DOMAIN l = {}
    OBVIOUS
  <1>. QED  BY <1>1, <1>2 DEF Member

LEMMA SingleMember ==
    ASSUME NEW S, NEW x \in S
    PROVE  /\ <<x>> \in Seq(S) /\ <<x>> # <<>> /\ Once(<<x>>)
           /\ \A y : Member(<<x>>, y) <=> y = x
  BY DEF Once, Member

(***************************************************************************)
(* The service: requests, lists and threads.                               *)
(***************************************************************************)

(* The fields of the records the service keeps.                            *)
LEMMA ThreadIsTyped ==
    ASSUME NEW at \in Places, NEW todo \in Seq(Tasks), NEW polled \in Polled, NEW events \in SUBSET Tasks
    PROVE  /\ Thread(at, todo, polled, events) \in Threads
           /\ Thread(at, todo, polled, events).at = at /\ Thread(at, todo, polled, events).todo = todo
           /\ Thread(at, todo, polled, events).task = "none"
  BY DEF Thread, Threads, Numbered

(* The threads that begin, rest or have ended.                             *)
LEMMA FreshThreads ==
    /\ Thread("snapshot", <<>>, <<>>, {}) \in Threads /\ NoThread \in Threads
    /\ Thread("snapshot", <<>>, <<>>, {}).at = "snapshot" /\ Thread("snapshot", <<>>, <<>>, {}).task = "none"
    /\ NoThread.at = "free" /\ NoThread.task = "none"
  <1>1. <<>> \in Seq(Tasks) /\ {} \in SUBSET Tasks /\ "snapshot" \in Places /\ "free" \in Places
    BY DEF Places
  <1>2. /\ Thread("snapshot", <<>>, <<>>, {}) \in Threads
        /\ Thread("snapshot", <<>>, <<>>, {}).at = "snapshot" /\ Thread("snapshot", <<>>, <<>>, {}).task = "none"
    BY <1>1, EmptyIsPolled DEF Thread, Threads, Numbered
  <1>3. /\ Thread("free", <<>>, <<>>, {}) \in Threads
        /\ Thread("free", <<>>, <<>>, {}).at = "free" /\ Thread("free", <<>>, <<>>, {}).task = "none"
    BY <1>1, EmptyIsPolled DEF Thread, Threads, Numbered
  <1>. QED  BY <1>2, <1>3 DEF NoThread

LEMMA RequestIsTyped ==
    ASSUME NEW fd \in Numbered
    PROVE  Request(fd) \in Requests /\ Request(fd).fd = fd
  BY DEF Request, Requests

LEMMA Zero == 0 \in Numbered
  BY DEF Numbered

(* A request joins the list of the current service, or of a new one.       *)
SubmitsTo(s, t) ==
    /\ s \in Services /\ current' = s
    /\ \/ current = s /\ UNCHANGED thread
       \/ /\ current = NoService /\ thread[s].at = "free"
          /\ thread' = [thread EXCEPT ![s] = Thread("snapshot", <<>>, <<>>, {})]
    /\ \A u \in Services, x \in Tasks : Listed(u, x)' <=> Listed(u, x) \/ (u = s /\ x = t)
    /\ \A u \in Services : Once(list'[u])
    /\ list' \in [Services -> Seq(Tasks)]

(* What a submission does: the request is in the list of the current       *)
(* service, new or not, and nobody else's request moves.                   *)
LEMMA SubmittedEffect ==
    ASSUME ServiceTypeOK, ListsInv, NEW t \in Tasks, op[t] # "pending", NEW fd, Submitted(t, fd)
    PROVE  \E s \in Services : SubmitsTo(s, t)
  <1>. USE DEF ServiceTypeOK
  <1>1. CASE current # NoService
    <2>. DEFINE new == <<t>> \o list[current]
    <2>1. current \in Services /\ list[current] \in Seq(Tasks) /\ Once(list[current]) /\ ~Member(list[current], t)
      BY <1>1 DEF ListsInv, Listed
    <2>2. new \in Seq(Tasks) /\ Once(new) /\ \A y : Member(new, y) <=> (y = t \/ Member(list[current], y))
      BY <2>1, Prepended
    <2>3. current' = current /\ thread' = thread /\ list' = [list EXCEPT ![current] = new]
      BY <1>1 DEF Submitted
    <2>. HIDE DEF new
    <2>4. /\ list' \in [Services -> Seq(Tasks)]
          /\ \A u \in Services : list'[u] = IF u = current THEN new ELSE list[u]
      BY <2>1, <2>2, <2>3
    <2>5. \A u \in Services : Once(list'[u])
      BY <2>2, <2>4 DEF ListsInv
    <2>6. \A u \in Services, x \in Tasks : Listed(u, x)' <=> Listed(u, x) \/ (u = current /\ x = t)
      BY <2>1, <2>2, <2>4 DEF Listed
    <2>. QED  BY <2>1, <2>3, <2>4, <2>5, <2>6 DEF SubmitsTo
  <1>2. CASE current = NoService
    <2>. DEFINE s == CHOOSE s \in Services : At(s, "free")
    <2>1. s \in Services /\ thread[s].at = "free"
      BY <1>2 DEF Submitted, At
    <2>2. /\ current' = s /\ thread' = [thread EXCEPT ![s] = Thread("snapshot", <<>>, <<>>, {})]
          /\ list' = [list EXCEPT ![s] = <<t>>]
      BY <1>2 DEF Submitted
    <2>. HIDE DEF s
    <2>3. <<t>> \in Seq(Tasks) /\ Once(<<t>>) /\ \A y : Member(<<t>>, y) <=> y = t
      BY SingleMember
    <2>4. /\ list' \in [Services -> Seq(Tasks)]
          /\ \A u \in Services : list'[u] = IF u = s THEN <<t>> ELSE list[u]
      BY <2>1, <2>2, <2>3
    <2>5. \A u \in Services : Once(list'[u])
      BY <2>3, <2>4 DEF ListsInv
    <2>6. s # current
      BY <1>2, <2>1, ServiceAssumption
    <2>7. \A x \in Tasks : ~Listed(s, x)
      BY <2>1, <2>6 DEF ListsInv
    <2>8. \A u \in Services, x \in Tasks : Listed(u, x)' <=> Listed(u, x) \/ (u = s /\ x = t)
      BY <2>3, <2>4, <2>7 DEF Listed
    <2>. QED  BY <1>2, <2>1, <2>2, <2>4, <2>5, <2>8 DEF SubmitsTo
  <1>. QED  BY <1>1, <1>2

(* A submission keeps the lists and threads in order.                      *)
LEMMA SubmittedService ==
    ASSUME ServiceInv, NEW t \in Tasks, op[t] # "pending", NEW fd \in Numbered, Submitted(t, fd)
    PROVE  ServiceInv'
  <1>. USE DEF ServiceInv
  <1>1. PICK s \in Services : SubmitsTo(s, t)
    BY SubmittedEffect
  <1>2. op' = [op EXCEPT ![t] = "pending"] /\ req' = [req EXCEPT ![t] = Request(fd)]
    BY DEF Submitted
  <1>. DEFINE fresh == Thread("snapshot", <<>>, <<>>, {})
  <1>3. fresh \in Threads /\ fresh.at = "snapshot" /\ fresh.task = "none"
    BY FreshThreads
  <1>4. thread' = [thread EXCEPT ![s] = IF current = s THEN thread[s] ELSE fresh]
    BY <1>1, ServiceAssumption DEF SubmitsTo, ServiceTypeOK
  <1>. HIDE DEF fresh
  <1>5. \A u \in Services : thread'[u] = IF u = s /\ current # s THEN fresh ELSE thread[u]
    BY <1>3, <1>4 DEF ServiceTypeOK
  <1>6. \A u \in Services, x \in Tasks : Listed(u, x)' <=> Listed(u, x) \/ (u = s /\ x = t)
    BY <1>1 DEF SubmitsTo
  <1>7. current' = s /\ (current # s => current = NoService /\ thread[s].at = "free")
    BY <1>1 DEF SubmitsTo
  <1>8. ServiceTypeOK'
    <2>1. op' \in [Tasks -> OpStates]
      BY <1>2 DEF ServiceTypeOK, OpStates
    <2>2. req' \in [Tasks -> Requests]
      BY <1>2, RequestIsTyped DEF ServiceTypeOK
    <2>3. thread' \in [Services -> Threads]
      BY <1>3, <1>4 DEF ServiceTypeOK
    <2>. QED  BY <1>1, <1>7, <2>1, <2>2, <2>3 DEF ServiceTypeOK, SubmitsTo
  <1>9. \A x \in Tasks : op'[x] = IF x = t THEN "pending" ELSE op[x]
    BY <1>2 DEF ServiceTypeOK
  <1>10. \A u \in Services : Once(list'[u])
    BY <1>1 DEF SubmitsTo
  <1>11. ListsInv'
    <2>1. \A u \in Services : Once(list[u])'
      BY <1>10
    <2>2. \A u \in Services : \A x \in Tasks : Listed(u, x)' => op'[x] = "pending"
      BY <1>6, <1>9 DEF ListsInv
    <2>3. \A u \in Services : u # current' => (\A x \in Tasks : ~Listed(u, x)') /\ thread'[u].at \in {"free", "last"}
      BY <1>5, <1>6, <1>7, ServiceAssumption DEF ListsInv
    <2>4. current' # NoService => thread'[current'].at \notin {"free", "last"}
      BY <1>3, <1>5, <1>7, ServiceAssumption DEF ListsInv
    <2>. QED  BY <2>1, <2>2, <2>3, <2>4 DEF ListsInv
  <1>12. ThreadsInv'
    <2>. SUFFICES ASSUME NEW u \in Services  PROVE ThreadInv(u, thread[u])'
      BY DEF ThreadsInv
    <2>1. ThreadInv(u, thread[u])
      BY DEF ThreadsInv
    <2>2. CASE thread'[u] = thread[u]
      BY <1>6, <2>1, <2>2 DEF ThreadInv
    <2>3. CASE u = s /\ thread'[u] = fresh
      BY <1>3, <1>6, <2>3 DEF ThreadInv, Rounds
    <2>. QED  BY <1>5, <2>2, <2>3
  <1>13. EndingsInv'
    <2>1. \A u \in Services, x \in Tasks : Ends(u, x)' <=> Ends(u, x)
      BY <1>3, <1>5, <1>7 DEF Ends, Endings
    <2>2. \A u \in Services, x \in Tasks : Ends(u, x)' => op'[x] = "pending" /\ \A v \in Services : ~Listed(v, x)'
      BY <1>6, <1>9, <2>1 DEF EndingsInv
    <2>3. \A x \in Tasks : op'[x] = "pending" => \E u \in Services : Listed(u, x)' \/ Ends(u, x)'
      BY <1>6, <1>9, <2>1 DEF EndingsInv
    <2>. QED  BY <2>1, <2>2, <2>3 DEF EndingsInv
  <1>. QED  BY <1>8, <1>11, <1>12, <1>13

(* A thread moves on, and the requests stay where they are.                *)
LEMMA ThreadMoves ==
    ASSUME ServiceInv, NEW s \in Services, NEW r \in Threads, thread' = [thread EXCEPT ![s] = r],
           UNCHANGED <<op, current, list>>, req' \in [Tasks -> Requests],
           ThreadInv(s, r), thread[s].at \notin {"free", "last"}, r.at \notin {"free", "last"},
           (r.at \in Endings \/ thread[s].at \in Endings) =>
                r.at \in Endings /\ thread[s].at \in Endings /\ r.task = thread[s].task
    PROVE  ServiceInv'
  <1>. USE DEF ServiceInv
  <1>1. \A u \in Services : thread'[u] = IF u = s THEN r ELSE thread[u]
    BY DEF ServiceTypeOK
  <1>2. \A u \in Services, x \in Tasks : Listed(u, x)' <=> Listed(u, x)
    BY DEF Listed
  <1>3. ServiceTypeOK'
    BY DEF ServiceTypeOK
  <1>4. ListsInv'
    <2>1. \A u \in Services : Once(list[u])'
      BY DEF ListsInv
    <2>. QED  BY <1>1, <1>2, <2>1, ServiceAssumption DEF ListsInv, ServiceTypeOK
  <1>5. ThreadsInv'
    <2>. SUFFICES ASSUME NEW u \in Services  PROVE ThreadInv(u, thread[u])'
      BY DEF ThreadsInv
    <2>1. ThreadInv(u, thread[u])
      BY DEF ThreadsInv
    <2>. QED  BY <1>1, <1>2, <2>1 DEF ThreadInv
  <1>6. EndingsInv'
    <2>1. \A u \in Services, x \in Tasks : Ends(u, x)' <=> Ends(u, x)
      BY <1>1 DEF Ends
    <2>. QED  BY <1>2, <2>1 DEF EndingsInv
  <1>. QED  BY <1>3, <1>4, <1>5, <1>6

(* An operation that the service has not begins, fails or is answered.     *)
LEMMA OpMoves ==
    ASSUME ServiceInv, NEW t \in Tasks, op[t] # "pending", NEW o \in OpStates \ {"pending"},
           op' = [op EXCEPT ![t] = o], UNCHANGED <<current, list, thread>>, req' \in [Tasks -> Requests]
    PROVE  ServiceInv'
  <1>. USE DEF ServiceInv
  <1>1. \A x \in Tasks : op'[x] = "pending" <=> op[x] = "pending"
    BY DEF ServiceTypeOK
  <1>2. \A u \in Services, x \in Tasks : (Listed(u, x)' <=> Listed(u, x)) /\ (Ends(u, x)' <=> Ends(u, x))
    BY DEF Listed, Ends
  <1>3. ServiceTypeOK'
    BY DEF ServiceTypeOK
  <1>4. ListsInv'
    <2>1. \A u \in Services : Once(list[u])'
      BY DEF ListsInv
    <2>. QED  BY <1>1, <1>2, <2>1 DEF ListsInv
  <1>5. ThreadsInv'
    BY <1>2 DEF ThreadsInv, ThreadInv
  <1>6. EndingsInv'
    BY <1>1, <1>2 DEF EndingsInv
  <1>. QED  BY <1>3, <1>4, <1>5, <1>6

(* A thread moves on with what it has.                                     *)
LEMMA StepIs ==
    ASSUME ServiceTypeOK, NEW s \in Services, NEW at \in Places, Step(s, at)
    PROVE  \E r \in Threads : /\ thread' = [thread EXCEPT ![s] = r]
                              /\ r.at = at /\ r.task = thread[s].task /\ r.todo = thread[s].todo /\ r.fd = thread[s].fd
  <1>. DEFINE r == [thread[s] EXCEPT !.at = at]
  <1>1. thread[s] \in Threads
    BY DEF ServiceTypeOK
  <1>2. r \in Threads /\ r.at = at /\ r.task = thread[s].task /\ r.todo = thread[s].todo /\ r.fd = thread[s].fd
    BY <1>1 DEF Threads
  <1>3. thread' = [thread EXCEPT ![s] = r]
    BY DEF Step
  <1>. HIDE DEF r
  <1>. QED  BY <1>2, <1>3

(* The steps of a round that only the thread takes part in.                *)
LEMMA SnapshotService ==
    ASSUME ServiceInv, NEW s \in Services, Snapshot(s)
    PROVE  ServiceInv'
  <1>. USE DEF ServiceInv
  <1>. DEFINE r == Thread("enter", list[s], <<>>, {})
  <1>1. thread[s].at = "snapshot" /\ thread' = [thread EXCEPT ![s] = r] /\ UNCHANGED <<op, req, current, list>>
    BY DEF Snapshot, At
  <1>2. list[s] \in Seq(Tasks) /\ {} \in SUBSET Tasks /\ "enter" \in Places /\ req \in [Tasks -> Requests]
    BY DEF ServiceTypeOK, Places, Rounds
  <1>3. r \in Threads /\ r.at = "enter" /\ r.todo = list[s] /\ r.task = "none"
    BY <1>2, EmptyIsPolled DEF Thread, Threads, Numbered
  <1>. HIDE DEF r
  <1>4. \E t \in Tasks : Listed(s, t)
    BY <1>1 DEF ThreadsInv, ThreadInv
  <1>5. list[s] # <<>>
    BY <1>2, <1>4, EmptyMembers DEF Listed
  <1>6. ThreadInv(s, r)
    BY <1>3, <1>4, <1>5 DEF ThreadInv, Listed, Rounds
  <1>7. r.at \notin Endings /\ thread[s].at \notin Endings
    BY <1>1, <1>3 DEF Endings
  <1>. QED  BY <1>1, <1>2, <1>3, <1>6, <1>7, ThreadMoves

(* Entering and leaving poll.                                              *)
LEMMA PollService ==
    ASSUME ServiceInv, NEW s \in Services, EnterPoll(s) \/ ReturnPoll(s) \/ Drain(s),
           holds \in [Fds -> Kinds], \A t \in Tasks : Waits(t) => req[t].fd # 0
    PROVE  ServiceInv'
  <1>. USE DEF ServiceInv
  <1>1. thread[s] \in Threads /\ req \in [Tasks -> Requests]
    BY DEF ServiceTypeOK
  <1>2. \E r : /\ r \in Threads /\ thread' = [thread EXCEPT ![s] = r] /\ r.at \in Rounds /\ r.todo = thread[s].todo
               /\ r.task = thread[s].task
    <2>1. CASE EnterPoll(s)
      <3>. DEFINE p == [t \in Polls(s) |-> holds[req[t].fd]]
                  r == [thread[s] EXCEPT !.at = "poll", !.polled = p]
      <3>1. p \in Polled
        <4>1. \A t \in Polls(s) : t \in Tasks /\ Member(thread[s].todo, t)
          BY <1>1 DEF Polls, Member, Threads
        <4>2. thread[s].task = "none" /\ \A t \in Tasks : Member(thread[s].todo, t) => Listed(s, t)
          BY <2>1 DEF EnterPoll, At, ThreadsInv, ThreadInv, Rounds
        <4>3. \A t \in Polls(s) : Waits(t)
          BY <4>1, <4>2 DEF Waits, Tasks
        <4>4. \A t \in Polls(s) : holds[req[t].fd] \in Kinds
          BY <1>1, <4>1, <4>3 DEF Requests, Numbered
        <4>5. p \in [Polls(s) -> Kinds] /\ Polls(s) \in SUBSET Tasks
          BY <4>1, <4>4
        <4>. QED  BY <4>5 DEF Polled
      <3>2. thread' = [thread EXCEPT ![s] = r]
        BY <2>1 DEF EnterPoll
      <3>. HIDE DEF p
      <3>3. r \in Threads /\ r.at = "poll" /\ r.todo = thread[s].todo /\ r.task = thread[s].task
        BY <1>1, <3>1 DEF Threads, Places, Rounds
      <3>. QED  BY <3>2, <3>3 DEF Rounds
    <2>2. CASE ReturnPoll(s)
      <3>1. PICK E \in SUBSET Polls(s) : thread' = [thread EXCEPT ![s].at = IF wake[s] THEN "drain" ELSE "visit",
                                                           ![s].polled = <<>>, ![s].events = E]
        BY <2>2 DEF ReturnPoll
      <3>. DEFINE a == IF wake[s] THEN "drain" ELSE "visit"
                  r == [thread[s] EXCEPT !.at = a, !.polled = <<>>, !.events = E]
      <3>2. a \in Rounds /\ a \in Places
        BY DEF Rounds, Places
      <3>3. E \in SUBSET Tasks
        BY <1>1 DEF Polls, Threads
      <3>4. thread' = [thread EXCEPT ![s] = r]
        BY <3>1
      <3>. HIDE DEF a
      <3>5. r \in Threads /\ r.at = a /\ r.todo = thread[s].todo /\ r.task = thread[s].task
        BY <1>1, <3>2, <3>3, EmptyIsPolled DEF Threads
      <3>. QED  BY <3>2, <3>4, <3>5
    <2>3. CASE Drain(s)
      <3>1. Step(s, "visit") /\ "visit" \in Places /\ "visit" \in Rounds
        BY <2>3 DEF Drain, Places, Rounds
      <3>. QED  BY <3>1, StepIs
    <2>. QED  BY <2>1, <2>2, <2>3
  <1>3. PICK r \in Threads : /\ thread' = [thread EXCEPT ![s] = r] /\ r.at \in Rounds /\ r.todo = thread[s].todo
                             /\ r.task = thread[s].task
    BY <1>2
  <1>4. UNCHANGED <<op, req, current, list>> /\ thread[s].at \in Rounds
    BY DEF EnterPoll, ReturnPoll, Drain, At, Rounds
  <1>5. ThreadInv(s, r)
    BY <1>3, <1>4 DEF ThreadsInv, ThreadInv, Rounds
  <1>6. /\ r.at \notin Endings /\ thread[s].at \notin Endings
        /\ r.at \notin {"free", "last"} /\ thread[s].at \notin {"free", "last"}
    BY <1>3, <1>4 DEF Endings, Rounds
  <1>. QED  BY <1>1, <1>3, <1>4, <1>5, <1>6, ThreadMoves

(* A request that stays pending; the last one ends the round.              *)
LEMMA VisitedIs ==
    ASSUME ServiceInv, NEW s \in Services, At(s, "visit"), thread' = Visited(s)
    PROVE  \E r \in Threads : /\ thread' = [thread EXCEPT ![s] = r] /\ ThreadInv(s, r)
                              /\ r.at \in {"snapshot", "visit"} /\ r.task = "none"
  <1>. USE DEF ServiceInv
  <1>1. thread[s] \in Threads /\ thread[s].todo \in Seq(Tasks) /\ thread[s].at = "visit"
    BY DEF ServiceTypeOK, Threads, At
  <1>2. /\ thread[s].todo # <<>> /\ thread[s].task = "none" /\ \E t \in Tasks : Listed(s, t)
        /\ \A t \in Tasks : Member(thread[s].todo, t) => Listed(s, t)
    BY <1>1 DEF ThreadsInv, ThreadInv, Rounds
  <1>3. /\ Tail(thread[s].todo) \in Seq(Tasks) /\ (Len(thread[s].todo) # 1 => Tail(thread[s].todo) # <<>>)
        /\ \A t : Member(Tail(thread[s].todo), t) => Member(thread[s].todo, t)
    BY <1>1, <1>2, TailMembers
  <1>4. CASE Len(thread[s].todo) = 1
    <2>. DEFINE r == Thread("snapshot", <<>>, <<>>, {})
    <2>1. r \in Threads /\ r.at = "snapshot" /\ r.task = "none"
      BY FreshThreads
    <2>2. thread' = [thread EXCEPT ![s] = r]
      BY <1>4 DEF Visited
    <2>. HIDE DEF r
    <2>3. ThreadInv(s, r)
      BY <1>2, <2>1 DEF ThreadInv, Rounds
    <2>. QED  BY <2>1, <2>2, <2>3
  <1>5. CASE Len(thread[s].todo) # 1
    <2>. DEFINE rest == Tail(thread[s].todo)
                r == [thread[s] EXCEPT !.todo = rest]
    <2>1. thread' = [thread EXCEPT ![s] = r]
      BY <1>5 DEF Visited
    <2>2. rest \in Seq(Tasks) /\ rest # <<>> /\ \A t : Member(rest, t) => Member(thread[s].todo, t)
      BY <1>3, <1>5
    <2>. HIDE DEF rest
    <2>3. r \in Threads /\ r.at = "visit" /\ r.todo = rest /\ r.task = "none"
      BY <1>1, <1>2, <2>2 DEF Threads
    <2>. HIDE DEF r
    <2>4. ThreadInv(s, r)
      BY <1>2, <2>2, <2>3 DEF ThreadInv, Rounds
    <2>. QED  BY <2>1, <2>3, <2>4
  <1>. QED  BY <1>4, <1>5

(* A request that is to be completed.                                      *)
LEMMA CompletingIs ==
    ASSUME ServiceInv, NEW s \in Services, NEW t \in Tasks, Listed(s, t), NEW at \in {"unread", "remove"},
           at = "unread" => t = "read",
           NEW fd \in Numbered, NEW ok \in BOOLEAN, thread' = Completing(s, t, at, fd, ok)
    PROVE  \E r \in Threads : /\ thread' = [thread EXCEPT ![s] = r] /\ ThreadInv(s, r) /\ r.at = at /\ r.task = t
  <1>. DEFINE r == [at |-> at, todo |-> <<>>, polled |-> <<>>, events |-> {}, task |-> t, fd |-> fd, ok |-> ok]
  <1>1. <<>> \in Seq(Tasks) /\ at \in Places /\ {} \in SUBSET Tasks
    BY DEF Places
  <1>3. r \in Threads /\ r.at = at /\ r.task = t
    BY <1>1, EmptyIsPolled DEF Threads
  <1>4. thread' = [thread EXCEPT ![s] = r]
    BY DEF Completing
  <1>. HIDE DEF r
  <1>5. ThreadInv(s, r)
    BY <1>3 DEF ThreadInv, Rounds, Tasks
  <1>. QED  BY <1>3, <1>4, <1>5

(* The kernel's table.                                                     *)
LEMMA OpenedIs ==
    ASSUME NEW table \in [Fds -> Kinds], Numbers(table) # {}, NEW o \in Kinds
    PROVE  \E fd \in Fds : /\ Min(Numbers(table)) = fd /\ table[fd] = "free" /\ fd # 0
                           /\ Opened(table, o) \in [Fds -> Kinds]
                           /\ Opened(table, o) = [table EXCEPT ![fd] = o]
  <1>. DEFINE fd == Min(Numbers(table))
  <1>1. Numbers(table) \subseteq Nat /\ Numbers(table) \subseteq Fds
    BY FdsAssumption DEF Numbers
  <1>2. fd \in Numbers(table)
    BY <1>1, MinOf
  <1>. HIDE DEF fd
  <1>3. fd \in Fds /\ table[fd] = "free" /\ fd # 0
    BY <1>2, FdsAssumption DEF Numbers
  <1>4. Opened(table, o) = [table EXCEPT ![fd] = o]
    BY DEF Opened, fd
  <1>. QED  BY <1>3, <1>4 DEF fd

(* What trying the addresses can come to.                                  *)
LEMMA DialledIs ==
    ASSUME NEW table, NEW left, NEW d \in Dialled(table, left)
    PROVE  \/ d.r = "failed" /\ d.table = table
           \/ Numbers(table) # {} /\ d.r = "ok" /\ d.table = Opened(table, "other")
           \/ Numbers(table) # {} /\ d.r = "pending" /\ d.table = Opened(table, "dial")
  BY DEF Dialled

(* What the thread makes of a request: it takes it out of the round unless *)
(* it is still pending.                                                    *)
LEMMA ProcessRequest ==
    ASSUME req \in [Tasks -> Requests], holds \in [Fds -> Kinds], NEW t \in Tasks, req[t].fd # 0, NEW r, Process(t, r)
    PROVE  /\ req' \in [Tasks -> Requests]
           /\ r = "bad" => t = "read"
  <1>1. req[t].fd \in Fds
    BY DEF Requests, Numbered
  <1>2. CASE Over(t) /\ UNCHANGED req /\ r = "failed"
    BY <1>2
  <1>3. CASE t = "accept" /\ AcceptReady(t, r) /\ UNCHANGED req
    BY <1>3 DEF AcceptReady
  <1>4. CASE t = "connect" /\ ConnectReady(t, r)
    <2>. DEFINE closed == [holds EXCEPT ![req[t].fd] = "free"]
    <2>1. closed \in [Fds -> Kinds]
      BY <1>1 DEF Kinds
    <2>2. CASE r = "ok" /\ req' = [req EXCEPT ![t].fd = 0]
      BY <2>2 DEF Requests, Numbered
    <2>3. ASSUME NEW d \in Dialled(closed, addresses), d.r = r,
                 req' = [req EXCEPT ![t].fd = IF r = "pending" THEN Min(Numbers(closed)) ELSE 0]
          PROVE  req' \in [Tasks -> Requests] /\ r # "bad"
      <3>. HIDE DEF closed
      <3>1. r \in {"ok", "pending", "failed"} /\ (r = "pending" => Numbers(closed) # {})
        BY <2>3, DialledIs
      <3>2. r = "pending" => Min(Numbers(closed)) \in Numbered
        BY <2>1, <3>1, OpenedIs DEF Numbered, Kinds
      <3>. DEFINE fd == IF r = "pending" THEN Min(Numbers(closed)) ELSE 0
      <3>3. fd \in Numbered
        BY <3>2 DEF Numbered
      <3>4. req' = [req EXCEPT ![t].fd = fd]
        BY <2>3
      <3>. HIDE DEF fd
      <3>5. req' \in [Tasks -> Requests]
        BY <3>3, <3>4 DEF Requests
      <3>. QED  BY <3>1, <3>5
    <2>. QED  BY <1>4, <2>2, <2>3 DEF ConnectReady
  <1>5. CASE t = "read" /\ UNCHANGED req
    BY <1>5
  <1>6. CASE t = "write" /\ Send(req[t].fd, r) /\ UNCHANGED req
    BY <1>6 DEF Send
  <1>. QED  BY <1>2, <1>3, <1>4, <1>5, <1>6 DEF Process

(* A visit leaves the thread with the rest of its round, or with the       *)
(* request it completes.                                                   *)
LEMMA VisitEffect ==
    ASSUME ServiceInv, holds \in [Fds -> Kinds], csock \in Numbered, \A t \in Tasks : Waits(t) => req[t].fd # 0,
           NEW s \in Services, Visit(s)
    PROVE  \E t \in Tasks, r \in Threads :
              /\ thread[s].at = "visit" /\ thread[s].task = "none" /\ Listed(s, t) /\ Waits(t) /\ req[t].fd \in Fds
              /\ thread' = [thread EXCEPT ![s] = r] /\ ThreadInv(s, r)
              /\ req' \in [Tasks -> Requests]
              /\ \/ /\ r.at \in {"snapshot", "visit"} /\ r.task = "none"
                    /\ \/ UNCHANGED <<holds, req, readOpen, stray>>
                       \/ Process(t, "pending")
                 \/ \E p \in {"ok", "failed", "bad"} :
                       /\ Process(t, p) /\ r.task = t /\ r.at \in {"unread", "remove"} /\ (r.at = "unread" => t = "read")
  <1>. USE DEF ServiceInv
  <1>. DEFINE t == Head(thread[s].todo)
  <1>1. thread[s].at = "visit" /\ thread[s].todo \in Seq(Tasks) /\ req \in [Tasks -> Requests]
    BY DEF Visit, At, ServiceTypeOK, Threads
  <1>2. /\ thread[s].todo # <<>> /\ thread[s].task = "none"
        /\ \A x \in Tasks : Member(thread[s].todo, x) => Listed(s, x)
    BY <1>1 DEF ThreadsInv, ThreadInv, Rounds
  <1>3. t \in Tasks /\ Listed(s, t)
    BY <1>1, <1>2, TailMembers
  <1>4. \/ thread' = Visited(s) /\ UNCHANGED <<holds, req, readOpen, stray>>
        \/ \E p \in {"ok", "pending", "failed", "bad"} :
              /\ Process(t, p)
              /\ thread' = CASE p = "pending" -> Visited(s)
                             [] p = "bad" /\ readOpen -> Completing(s, t, "unread", csock, FALSE)
                             [] OTHER -> Completing(s, t, "remove", 0, p = "ok")
    BY DEF Visit
  <1>. HIDE DEF t
  <1>5. Waits(t)
    BY <1>2, <1>3 DEF Waits, Tasks
  <1>6. req[t].fd \in Fds /\ req[t].fd # 0
    BY <1>1, <1>3, <1>5 DEF Requests, Numbered
  <1>7. CASE thread' = Visited(s) /\ UNCHANGED <<holds, req, readOpen, stray>>
    <2>1. PICK r \in Threads : /\ thread' = [thread EXCEPT ![s] = r] /\ ThreadInv(s, r)
                               /\ r.at \in {"snapshot", "visit"} /\ r.task = "none"
      BY <1>1, <1>7, VisitedIs DEF At
    <2>2. req' \in [Tasks -> Requests]
      BY <1>1, <1>7
    <2>. QED  BY <1>1, <1>2, <1>3, <1>5, <1>6, <1>7, <2>1, <2>2
  <1>8. ASSUME Process(t, "pending"), thread' = Visited(s)
        PROVE  \E r \in Threads : /\ thread' = [thread EXCEPT ![s] = r] /\ ThreadInv(s, r)
                                  /\ r.at \in {"snapshot", "visit"} /\ r.task = "none"
                                  /\ req' \in [Tasks -> Requests]
    <2>1. PICK r \in Threads : /\ thread' = [thread EXCEPT ![s] = r] /\ ThreadInv(s, r)
                               /\ r.at \in {"snapshot", "visit"} /\ r.task = "none"
      BY <1>1, <1>8, VisitedIs DEF At
    <2>2. req' \in [Tasks -> Requests]
      BY <1>1, <1>3, <1>6, <1>8, ProcessRequest
    <2>. QED  BY <2>1, <2>2
  <1>9. ASSUME NEW p \in {"ok", "failed", "bad"}, Process(t, p),
               thread' = CASE p = "bad" /\ readOpen -> Completing(s, t, "unread", csock, FALSE)
                           [] OTHER -> Completing(s, t, "remove", 0, p = "ok")
        PROVE  \E r \in Threads : /\ thread' = [thread EXCEPT ![s] = r] /\ ThreadInv(s, r)
                                  /\ r.task = t /\ r.at \in {"unread", "remove"} /\ (r.at = "unread" => t = "read")
                                  /\ req' \in [Tasks -> Requests]
    <2>1. req' \in [Tasks -> Requests] /\ (p = "bad" => t = "read")
      BY <1>1, <1>3, <1>6, <1>9, ProcessRequest
    <2>2. CASE p = "bad" /\ readOpen
      <3>1. thread' = Completing(s, t, "unread", csock, FALSE) /\ t = "read"
        BY <1>9, <2>1, <2>2
      <3>. DEFINE ok == FALSE
                  at == "unread"
      <3>3. ok \in BOOLEAN /\ at \in {"unread", "remove"} /\ thread' = Completing(s, t, at, csock, ok)
        BY <3>1
      <3>4. at = "unread"
        OBVIOUS
      <3>5. at = "unread" => t = "read"
        BY <3>1
      <3>. HIDE DEF ok, at
      <3>2. \E r \in Threads : /\ thread' = [thread EXCEPT ![s] = r] /\ ThreadInv(s, r) /\ r.at = "unread" /\ r.task = t
        BY <1>3, <3>3, <3>4, <3>5, CompletingIs
      <3>. QED  BY <2>1, <3>1, <3>2
    <2>3. CASE ~(p = "bad" /\ readOpen)
      <3>1. thread' = Completing(s, t, "remove", 0, p = "ok")
        BY <1>9, <2>3
      <3>. DEFINE ok == (p = "ok")
                  at == "remove"
      <3>3. ok \in BOOLEAN /\ at \in {"unread", "remove"} /\ thread' = Completing(s, t, at, 0, ok)
        BY <3>1
      <3>4. at = "remove"
        OBVIOUS
      <3>. HIDE DEF ok, at
      <3>2. \E r \in Threads : /\ thread' = [thread EXCEPT ![s] = r] /\ ThreadInv(s, r) /\ r.at = "remove" /\ r.task = t
        BY <1>3, <3>3, <3>4, CompletingIs, Zero
      <3>. QED  BY <2>1, <3>2
    <2>. QED  BY <2>2, <2>3
  <1>10. CASE \E p \in {"ok", "pending", "failed", "bad"} :
              /\ Process(t, p)
              /\ thread' = CASE p = "pending" -> Visited(s)
                             [] p = "bad" /\ readOpen -> Completing(s, t, "unread", csock, FALSE)
                             [] OTHER -> Completing(s, t, "remove", 0, p = "ok")
    <2>1. PICK p \in {"ok", "pending", "failed", "bad"} :
              /\ Process(t, p)
              /\ thread' = CASE p = "pending" -> Visited(s)
                             [] p = "bad" /\ readOpen -> Completing(s, t, "unread", csock, FALSE)
                             [] OTHER -> Completing(s, t, "remove", 0, p = "ok")
      BY <1>10
    <2>2. CASE p = "pending"
      <3>1. Process(t, "pending") /\ thread' = Visited(s)
        BY <2>1, <2>2
      <3>. QED  BY <1>1, <1>2, <1>3, <1>5, <1>6, <1>8, <3>1
    <2>3. CASE p # "pending"
      <3>1. /\ p \in {"ok", "failed", "bad"}
            /\ thread' = CASE p = "bad" /\ readOpen -> Completing(s, t, "unread", csock, FALSE)
                           [] OTHER -> Completing(s, t, "remove", 0, p = "ok")
        BY <2>1, <2>3
      <3>. QED  BY <1>1, <1>2, <1>3, <1>5, <1>6, <1>9, <2>1, <3>1
    <2>. QED  BY <2>2, <2>3
  <1>. QED  BY <1>4, <1>7, <1>10

LEMMA VisitService ==
    ASSUME ServiceInv, holds \in [Fds -> Kinds], csock \in Numbered, \A t \in Tasks : Waits(t) => req[t].fd # 0,
           NEW s \in Services, Visit(s)
    PROVE  ServiceInv'
  <1>1. PICK t \in Tasks, r \in Threads :
              /\ thread[s].at = "visit" /\ thread' = [thread EXCEPT ![s] = r] /\ ThreadInv(s, r)
              /\ req' \in [Tasks -> Requests] /\ r.at \in {"snapshot", "visit", "unread", "remove"}
    BY VisitEffect
  <1>2. UNCHANGED <<op, current, list>>
    BY DEF Visit
  <1>3. /\ r.at \notin Endings /\ thread[s].at \notin Endings
        /\ r.at \notin {"free", "last"} /\ thread[s].at \notin {"free", "last"}
    BY <1>1 DEF Endings
  <1>. QED  BY <1>1, <1>2, <1>3, ThreadMoves

(* The thread takes a request out of its list.                             *)
RemovesFrom(s, t, r) ==
    /\ t \in Tasks /\ thread[s].at = "remove" /\ thread[s].task = t /\ Listed(s, t)
    /\ r \in Threads /\ thread' = [thread EXCEPT ![s] = r] /\ r.task = t
    /\ r.at \in {"close", "half", "stop"} /\ (r.at = "half" => t = "write")
    /\ r.at = "close" <=> t = "connect" /\ req[t].fd # 0
    /\ r.fd = req[t].fd
    /\ \A u \in Services, x \in Tasks : Listed(u, x)' <=> Listed(u, x) /\ ~(u = s /\ x = t)
    /\ \A u \in Services : Once(list[u])'
    /\ list' \in [Services -> Seq(Tasks)]

(* A completed request leaves the list before anything of it is closed.    *)
LEMMA RemoveEffect ==
    ASSUME ServiceInv, NEW s \in Services, Remove(s)
    PROVE  \E t, r : RemovesFrom(s, t, r)
  <1>. USE DEF ServiceInv
  <1>. DEFINE t == thread[s].task
              new == Unlinked(list[s], t)
  <1>1. thread[s] \in Threads /\ thread[s].at = "remove" /\ list[s] \in Seq(Tasks) /\ Once(list[s])
    BY DEF Remove, At, ServiceTypeOK, ListsInv
  <1>2. t \in Tasks
    BY <1>1 DEF Threads, ThreadsInv, ThreadInv, Rounds
  <1>3. Listed(s, t)
    BY <1>1, <1>2 DEF ThreadsInv, ThreadInv
  <1>4. new \in Seq(Tasks) /\ Once(new) /\ \A y : Member(new, y) <=> (Member(list[s], y) /\ y # t)
    BY <1>1, <1>3, UnlinkedOf DEF Listed
  <1>5. list' = [list EXCEPT ![s] = new]
    BY DEF Remove
  <1>. DEFINE a == CASE t = "connect" /\ req["connect"].fd # 0 -> "close"
                     [] t = "write" /\ ~thread[s].ok -> "half"
                     [] OTHER -> "stop"
              r == [thread[s] EXCEPT !.fd = req[t].fd, !.at = a]
  <1>6. thread' = [thread EXCEPT ![s] = r]
    BY DEF Remove
  <1>7. a \in {"close", "half", "stop"} /\ (a = "half" => t = "write") /\ (a = "close" <=> t = "connect" /\ req[t].fd # 0)
    OBVIOUS
  <1>8. req[t].fd \in Numbered
    BY <1>2 DEF ServiceTypeOK, Requests
  <1>9. a \in Places
    BY <1>7 DEF Places, Endings
  <1>. HIDE DEF a
  <1>10. r \in Threads /\ r.at = a /\ r.fd = req[t].fd /\ r.task = t
    BY <1>1, <1>8, <1>9 DEF Threads
  <1>. HIDE DEF r, t, new
  <1>11. /\ list' \in [Services -> Seq(Tasks)]
         /\ \A u \in Services : list'[u] = IF u = s THEN new ELSE list[u]
    BY <1>4, <1>5 DEF ServiceTypeOK
  <1>12. \A u \in Services : Once(list[u])'
    BY <1>4, <1>11 DEF ListsInv
  <1>13. \A u \in Services, x \in Tasks : Listed(u, x)' <=> Listed(u, x) /\ ~(u = s /\ x = t)
    BY <1>4, <1>11 DEF Listed
  <1>14. thread[s].task = t
    BY DEF t
  <1>. QED  BY <1>1, <1>2, <1>3, <1>6, <1>7, <1>10, <1>11, <1>12, <1>13, <1>14 DEF RemovesFrom

LEMMA RemoveService ==
    ASSUME ServiceInv, NEW s \in Services, Remove(s)
    PROVE  ServiceInv'
  <1>. USE DEF ServiceInv
  <1>1. PICK t, r : RemovesFrom(s, t, r)
    BY RemoveEffect
  <1>2. UNCHANGED <<op, req, current>>
    BY DEF Remove
  <1>3. /\ t \in Tasks /\ thread[s].at = "remove" /\ thread[s].task = t /\ Listed(s, t)
        /\ r \in Threads /\ r.task = t /\ r.at \in {"close", "half", "stop"} /\ (r.at = "half" => t = "write")
        /\ (r.at = "close" => t = "connect")
    BY <1>1 DEF RemovesFrom
  <1>4. \A u \in Services : thread'[u] = IF u = s THEN r ELSE thread[u]
    BY <1>1 DEF RemovesFrom, ServiceTypeOK
  <1>5. \A u \in Services, x \in Tasks : Listed(u, x)' <=> Listed(u, x) /\ ~(u = s /\ x = t)
    BY <1>1 DEF RemovesFrom
  <1>6. ServiceTypeOK'
    BY <1>1, <1>2 DEF RemovesFrom, ServiceTypeOK
  <1>7. s = current
    BY <1>3 DEF ListsInv
  <1>8. ListsInv'
    <2>1. \A u \in Services : Once(list[u])'
      BY <1>1 DEF RemovesFrom
    <2>. QED  BY <1>2, <1>3, <1>4, <1>5, <1>7, <2>1 DEF ListsInv
  <1>9. ThreadsInv'
    <2>. SUFFICES ASSUME NEW u \in Services  PROVE ThreadInv(u, thread[u])'
      BY DEF ThreadsInv
    <2>1. ThreadInv(u, thread[u])
      BY DEF ThreadsInv
    <2>2. CASE u = s
      BY <1>3, <1>4, <2>2 DEF ThreadInv, Rounds, Tasks
    <2>3. CASE u # s
      BY <1>4, <1>5, <2>1, <2>3 DEF ThreadInv
    <2>. QED  BY <2>2, <2>3
  <1>10. EndingsInv'
    <2>1. \A u \in Services, x \in Tasks : Ends(u, x)' <=> Ends(u, x) \/ (u = s /\ x = t)
      BY <1>3, <1>4 DEF Ends, Endings
    <2>2. op[t] = "pending" /\ \A u \in Services : Listed(u, t) => u = s
      BY <1>3, <1>7 DEF ListsInv
    <2>3. \A u \in Services : ~Ends(u, t)
      BY <1>3 DEF EndingsInv
    <2>. QED  BY <1>2, <1>5, <2>1, <2>2, <2>3 DEF EndingsInv
  <1>. QED  BY <1>6, <1>8, <1>9, <1>10

(* What follows when a request is out of the list.                         *)
LEMMA FinishEffect ==
    ASSUME ServiceTypeOK, csock \in Numbered, NEW s \in Services,
           Unread(s) \/ FinishHalf(s) \/ FinishClose(s) \/ FinishShut(s)
    PROVE  \E r \in Threads :
              /\ thread' = [thread EXCEPT ![s] = r] /\ r.task = thread[s].task
              /\ \/ Unread(s) /\ thread[s].at = "unread" /\ r.at = "remove"
                 \/ /\ FinishHalf(s) /\ thread[s].at = "half" /\ r.at = HalfLeft(FALSE, "stop").do
                    /\ r.fd = HalfLeft(FALSE, "stop").fd /\ r.at \in {"close", "shut", "stop"}
                 \/ FinishClose(s) /\ thread[s].at = "close" /\ r.at = "stop"
                 \/ FinishShut(s) /\ thread[s].at = "shut" /\ r.at = "stop"
  <1>1. "stop" \in Places /\ "remove" \in Places
    BY DEF Places, Endings
  <1>2. CASE Unread(s)
    <2>1. Step(s, "remove") /\ thread[s].at = "unread"
      BY <1>2 DEF Unread, At
    <2>. QED  BY <1>1, <1>2, <2>1, StepIs
  <1>3. CASE FinishClose(s)
    BY <1>1, <1>3, StepIs DEF FinishClose, At
  <1>4. CASE FinishShut(s)
    <2>1. Step(s, "stop") /\ thread[s].at = "shut"
      BY <1>4 DEF FinishShut, At
    <2>. QED  BY <1>1, <1>4, <2>1, StepIs
  <1>5. CASE FinishHalf(s)
    <2>. DEFINE left == HalfLeft(FALSE, "stop")
                r == [thread[s] EXCEPT !.at = left.do, !.fd = left.fd]
    <2>1. left.do \in {"close", "shut", "stop"} /\ left.fd \in Numbered
      BY DEF HalfLeft, Doing, Numbered
    <2>2. thread' = [thread EXCEPT ![s] = r] /\ thread[s].at = "half"
      BY <1>5 DEF FinishHalf, At
    <2>. HIDE DEF left
    <2>3. left.do \in Places
      BY <2>1 DEF Places, Endings
    <2>4. r \in Threads /\ r.at = left.do /\ r.fd = left.fd /\ r.task = thread[s].task
      BY <2>1, <2>3 DEF Threads, ServiceTypeOK
    <2>. QED  BY <1>5, <2>1, <2>2, <2>4 DEF left
  <1>. QED  BY <1>2, <1>3, <1>4, <1>5

(* Closing, shutting down, stopping and completing.                        *)
LEMMA FinishService ==
    ASSUME ServiceInv, csock \in Numbered, NEW s \in Services,
           Unread(s) \/ FinishHalf(s) \/ FinishClose(s) \/ FinishShut(s)
    PROVE  ServiceInv'
  <1>. USE DEF ServiceInv
  <1>1. PICK r \in Threads :
              /\ thread' = [thread EXCEPT ![s] = r] /\ r.task = thread[s].task
              /\ \/ thread[s].at = "unread" /\ r.at = "remove"
                 \/ thread[s].at = "half" /\ r.at \in {"close", "shut", "stop"}
                 \/ thread[s].at = "close" /\ r.at = "stop"
                 \/ thread[s].at = "shut" /\ r.at = "stop"
    BY FinishEffect
  <1>2. UNCHANGED <<op, req, current, list>> /\ req \in [Tasks -> Requests]
    BY DEF Unread, FinishHalf, FinishClose, FinishShut, ServiceTypeOK
  <1>3. ThreadInv(s, thread[s])
    BY DEF ThreadsInv
  <1>4. ThreadInv(s, r)
    BY <1>1, <1>3 DEF ThreadInv, Rounds
  <1>5. /\ r.at \notin {"free", "last"} /\ thread[s].at \notin {"free", "last"}
        /\ r.at \in Endings <=> thread[s].at \in Endings
    BY <1>1 DEF Endings
  <1>. QED  BY <1>1, <1>2, <1>4, <1>5, ThreadMoves

(* The service ends with its last request.                                 *)
LEMMA StopIfEmptyService ==
    ASSUME ServiceInv, NEW s \in Services, StopIfEmpty(s)
    PROVE  ServiceInv'
  <1>. USE DEF ServiceInv
  <1>. DEFINE at == IF Stops(s) THEN "last" ELSE "complete"
  <1>1. at \in Places /\ Step(s, at)
    BY DEF StopIfEmpty, Places, Endings
  <1>2. at = (IF Stops(s) THEN "last" ELSE "complete")
    OBVIOUS
  <1>. HIDE DEF at
  <1>3. PICK r \in Threads : thread' = [thread EXCEPT ![s] = r] /\ r.at = at /\ r.task = thread[s].task
    BY <1>1, StepIs
  <1>4. thread[s].at = "stop" /\ UNCHANGED <<op, req, list>> /\ current' = IF Stops(s) THEN NoService ELSE current
    BY DEF StopIfEmpty, At
  <1>5. s = current /\ s # NoService
    BY <1>4, ServiceAssumption DEF ListsInv
  <1>6. \A u \in Services, x \in Tasks : Listed(u, x)' <=> Listed(u, x)
    BY <1>4 DEF Listed
  <1>7. Stops(s) <=> \A x \in Tasks : ~Listed(s, x)
    <2>1. list[s] \in Seq(Tasks)
      BY DEF ServiceTypeOK
    <2>. QED  BY <2>1, EmptyMembers DEF Stops, Listed
  <1>8. \A u \in Services : thread'[u] = IF u = s THEN r ELSE thread[u]
    BY <1>3 DEF ServiceTypeOK
  <1>9. ServiceTypeOK'
    BY <1>3, <1>4 DEF ServiceTypeOK
  <1>10. ListsInv'
    <2>1. \A u \in Services : Once(list[u])'
      BY <1>4 DEF ListsInv
    <2>. QED  BY <1>2, <1>3, <1>4, <1>5, <1>6, <1>7, <1>8, <2>1 DEF ListsInv
  <1>11. ThreadsInv'
    <2>. SUFFICES ASSUME NEW u \in Services  PROVE ThreadInv(u, thread[u])'
      BY DEF ThreadsInv
    <2>1. ThreadInv(u, thread[u])
      BY DEF ThreadsInv
    <2>2. CASE u = s
      BY <1>2, <1>3, <1>4, <1>6, <1>7, <1>8, <2>1, <2>2 DEF ThreadInv, Rounds
    <2>3. CASE u # s
      BY <1>6, <1>8, <2>1, <2>3 DEF ThreadInv
    <2>. QED  BY <2>2, <2>3
  <1>12. EndingsInv'
    <2>1. \A u \in Services, x \in Tasks : Ends(u, x)' <=> Ends(u, x)
      BY <1>2, <1>3, <1>4, <1>8 DEF Ends, Endings
    <2>. QED  BY <1>4, <1>6, <2>1 DEF EndingsInv
  <1>. QED  BY <1>9, <1>10, <1>11, <1>12

(* The operation is complete.                                              *)
LEMMA CompleteService ==
    ASSUME ServiceInv, NEW s \in Services, Complete(s)
    PROVE  ServiceInv'
  <1>. USE DEF ServiceInv
  <1>. DEFINE t == thread[s].task
              r == IF At(s, "last") THEN NoThread ELSE Thread("snapshot", <<>>, <<>>, {})
  <1>1. /\ thread[s].at \in {"last", "complete"} /\ thread' = [thread EXCEPT ![s] = r]
        /\ op' = [op EXCEPT ![t] = "done"] /\ req' = [req EXCEPT ![t] = Request(0)] /\ UNCHANGED <<current, list>>
    BY DEF Complete, At
  <1>2. /\ r \in Threads /\ r.task = "none"
        /\ r.at = IF thread[s].at = "last" THEN "free" ELSE "snapshot"
    BY FreshThreads DEF At
  <1>3. t \in Tasks /\ Ends(s, t)
    BY <1>1 DEF ThreadsInv, ThreadInv, Rounds, ServiceTypeOK, Threads, Ends, Endings
  <1>. HIDE DEF r
  <1>4. \A u \in Services : thread'[u] = IF u = s THEN r ELSE thread[u]
    BY <1>1 DEF ServiceTypeOK
  <1>. HIDE DEF t
  <1>5. \A x \in Tasks : op'[x] = IF x = t THEN "done" ELSE op[x]
    BY <1>1 DEF ServiceTypeOK
  <1>6. \A u \in Services, x \in Tasks : Listed(u, x)' <=> Listed(u, x)
    BY <1>1 DEF Listed
  <1>7. (\A u \in Services : ~Listed(u, t)) /\ \A u \in Services : Ends(u, t) => u = s
    BY <1>3 DEF EndingsInv
  <1>8. ServiceTypeOK'
    <2>1. op' \in [Tasks -> OpStates]
      BY <1>1, <1>3 DEF ServiceTypeOK, OpStates
    <2>2. req' \in [Tasks -> Requests]
      BY <1>1, <1>3, RequestIsTyped, Zero DEF ServiceTypeOK
    <2>. QED  BY <1>1, <1>2, <2>1, <2>2 DEF ServiceTypeOK
  <1>9. ListsInv'
    <2>1. \A u \in Services : Once(list[u])'
      BY <1>1 DEF ListsInv
    <2>2. thread[s].at = "last" => s # current
      BY ServiceAssumption DEF ListsInv
    <2>3. thread[s].at = "complete" => s = current
      BY DEF ListsInv
    <2>. QED  BY <1>1, <1>2, <1>4, <1>5, <1>6, <1>7, <2>1, <2>2, <2>3, ServiceAssumption DEF ListsInv
  <1>10. ThreadsInv'
    <2>. SUFFICES ASSUME NEW u \in Services  PROVE ThreadInv(u, thread[u])'
      BY DEF ThreadsInv
    <2>1. ThreadInv(u, thread[u])
      BY DEF ThreadsInv
    <2>2. CASE u = s
      BY <1>1, <1>2, <1>4, <1>6, <2>1, <2>2 DEF ThreadInv, Rounds
    <2>3. CASE u # s
      BY <1>4, <1>6, <2>1, <2>3 DEF ThreadInv
    <2>. QED  BY <2>2, <2>3
  <1>11. EndingsInv'
    <2>1. \A u \in Services, x \in Tasks : Ends(u, x)' <=> Ends(u, x) /\ u # s
      BY <1>2, <1>4 DEF Ends, Endings
    <2>2. \A x \in Tasks : Ends(s, x) => x = t
      BY <1>3 DEF Ends
    <2>3. \A u \in Services, x \in Tasks : Ends(u, x)' => op'[x] = "pending" /\ \A v \in Services : ~Listed(v, x)'
      BY <1>5, <1>6, <1>7, <2>1 DEF EndingsInv
    <2>4. \A x \in Tasks : op'[x] = "pending" => \E u \in Services : Listed(u, x)' \/ Ends(u, x)'
      BY <1>5, <1>6, <2>1, <2>2 DEF EndingsInv
    <2>. QED  BY <2>1, <2>3, <2>4 DEF EndingsInv
  <1>. QED  BY <1>8, <1>9, <1>10, <1>11

(* A step that touches none of the service's state.                        *)
LEMMA ServiceStays ==
    ASSUME ServiceInv, UNCHANGED <<op, current, list, thread>>, req' \in [Tasks -> Requests]
    PROVE  ServiceInv'
  <1>. USE DEF ServiceInv
  <1>1. \A u \in Services, x \in Tasks : (Listed(u, x)' <=> Listed(u, x)) /\ (Ends(u, x)' <=> Ends(u, x))
    BY DEF Listed, Ends
  <1>2. ServiceTypeOK'
    BY DEF ServiceTypeOK
  <1>3. ListsInv'
    <2>1. \A u \in Services : Once(list[u])'
      BY DEF ListsInv
    <2>. QED  BY <1>1, <2>1 DEF ListsInv
  <1>4. ThreadsInv'
    BY <1>1 DEF ThreadsInv, ThreadInv
  <1>5. EndingsInv'
    BY <1>1 DEF EndingsInv
  <1>. QED  BY <1>2, <1>3, <1>4, <1>5

(* The kinds of steps: calls that begin or answer an operation, what       *)
(* reaches a request from outside, what the owners of the handles do, and  *)
(* the service's thread.                                                   *)
Quiet == Peers \/ (\E t \in Tasks : Expires(t)) \/ UNCHANGED vars

(* The steps of the owners of handles.                                     *)
OwnerSteps ==
    \/ OtherSockets \/ Split(TRUE) \/ Split(FALSE) \/ CloseConnection \/ TakeSocket \/ Abort \/ Control
    \/ \E h \in Handles : \/ (CloseListener(h) \/ CloseHalf(h) \/ DropController(h)) /\ ~InUse(h)
                          \/ Close(h) \/ Shutdown(h) \/ ReleaseListener(h) \/ ReleaseConnection(h)

(* The steps, by what they are about.                                      *)
LEMMA StepCases ==
    ASSUME [Next]_vars
    PROVE  \/ Quiet
           \/ OwnerSteps /\ UNCHANGED <<serviceVars, peerVars>>
           \/ AcceptStart \/ ReadBegin \/ ReadBad \/ WriteBegin \/ ConnectStart
           \/ \E t \in Tasks : HalfStart(t) \/ HalfFails(t) \/ Cancel(t)
           \/ \E h \in Handles : StopAccepts(h)
           \/ \E s \in Services : ServiceThread(s)
  <1>1. CASE Owners
    BY <1>1 DEF Owners, OwnerSteps
  <1>2. ASSUME NEW h \in Handles, Finishes(h)
        PROVE  (OwnerSteps /\ UNCHANGED <<serviceVars, peerVars>>) \/ StopAccepts(h)
    BY <1>2 DEF Finishes, OwnerSteps
  <1>3. CASE Calls
    BY <1>3 DEF Calls
  <1>4. CASE Peers \/ (\E t \in Tasks : Expires(t)) \/ UNCHANGED vars
    BY <1>4 DEF Quiet
  <1>. QED  BY <1>1, <1>2, <1>3, <1>4 DEF Next

(* A call that is answered at once, without a request.                     *)
LEMMA AnsweredService ==
    ASSUME ServiceInv, NEW t \in Tasks, op[t] # "pending", Answered(t)
    PROVE  ServiceInv'
  <1>1. req' \in [Tasks -> Requests]
    BY RequestIsTyped, Zero DEF Answered, ServiceInv, ServiceTypeOK
  <1>. QED  BY <1>1, OpMoves DEF Answered, OpStates

LEMMA CallsService ==
    ASSUME ServiceInv, SocketsTypeOK, HandlesInv, OpInv,
           AcceptStart \/ ReadBegin \/ ReadBad \/ WriteBegin \/ ConnectStart
           \/ \E t \in Tasks : HalfStart(t) \/ HalfFails(t)
    PROVE  ServiceInv'
  <1>1. lsock \in Numbered /\ csock \in Numbered /\ holds \in [Fds -> Kinds]
    BY DEF SocketsTypeOK
  <1>2. req \in [Tasks -> Requests] /\ \A t \in Tasks : req[t].fd \in Numbered
    BY DEF ServiceInv, ServiceTypeOK, Requests
  <1>3. "accept" \in Tasks /\ "read" \in Tasks /\ "write" \in Tasks /\ "connect" \in Tasks
    BY DEF Tasks
  <1>4. CASE AcceptStart
    <2>1. op["accept"] # "pending" /\ (Answered("accept") \/ Submitted("accept", lsock))
      BY <1>4 DEF AcceptStart, Starts, Refused
    <2>. QED  BY <1>1, <1>3, <2>1, AnsweredService, SubmittedService
  <1>5. CASE ReadBegin
    <2>1. op["read"] # "pending" /\ (Answered("read") \/ Submitted("read", req["read"].fd))
      BY <1>5 DEF ReadBegin, Refused
    <2>. QED  BY <1>2, <1>3, <2>1, AnsweredService, SubmittedService
  <1>6. CASE ReadBad
    <2>1. op["read"] # "pending" /\ op' = [op EXCEPT !["read"] = "failing"] /\ UNCHANGED <<req, current, list, thread>>
      BY <1>6 DEF ReadBad
    <2>. QED  BY <1>2, <1>3, <2>1, OpMoves DEF OpStates
  <1>7. CASE WriteBegin
    <2>1. op["write"] # "pending"
      BY <1>7 DEF WriteBegin
    <2>2. \/ Answered("write") \/ Submitted("write", req["write"].fd)
          \/ op' = [op EXCEPT !["write"] = "failing"] /\ UNCHANGED <<req, current, list, thread>>
      BY <1>7 DEF WriteBegin
    <2>3. CASE op' = [op EXCEPT !["write"] = "failing"] /\ UNCHANGED <<req, current, list, thread>>
      BY <1>2, <1>3, <2>1, <2>3, OpMoves DEF OpStates
    <2>. QED  BY <1>2, <1>3, <2>1, <2>2, <2>3, AnsweredService, SubmittedService
  <1>8. CASE ConnectStart
    <2>1. op["connect"] # "pending"
      BY <1>8 DEF ConnectStart, Starts
    <2>2. \/ Answered("connect")
          \/ \E d \in Dialled(holds, addresses) : d.r = "pending" /\ Submitted("connect", Min(Numbers(holds)))
      BY <1>8 DEF ConnectStart, Refused
    <2>3. ASSUME NEW d \in Dialled(holds, addresses), d.r = "pending", Submitted("connect", Min(Numbers(holds)))
          PROVE  ServiceInv'
      <3>. DEFINE fd == Min(Numbers(holds))
      <3>1. Numbers(holds) # {}
        BY <2>3, DialledIs
      <3>2. fd \in Numbered
        BY <1>1, <3>1, OpenedIs DEF Numbered, Kinds
      <3>3. Submitted("connect", fd)
        BY <2>3
      <3>. HIDE DEF fd
      <3>. QED  BY <1>3, <2>1, <3>2, <3>3, SubmittedService
    <2>. QED  BY <1>3, <2>1, <2>2, <2>3, AnsweredService
  <1>9. ASSUME NEW t \in Tasks, HalfStart(t)  PROVE ServiceInv'
    <2>1. op[t] # "pending"
      BY <1>9 DEF HalfStart, Starts
    <2>2. \/ Answered(t)
          \/ op' = [op EXCEPT ![t] = "starting"] /\ req' = [req EXCEPT ![t].fd = csock] /\ UNCHANGED <<current, list, wake, thread>>
      BY <1>9 DEF HalfStart
    <2>3. CASE op' = [op EXCEPT ![t] = "starting"] /\ req' = [req EXCEPT ![t].fd = csock] /\ UNCHANGED <<current, list, wake, thread>>
      <3>1. req' \in [Tasks -> Requests]
        BY <1>1, <1>2, <2>3 DEF Requests
      <3>. QED  BY <2>1, <2>3, <3>1, OpMoves DEF OpStates
    <2>. QED  BY <2>1, <2>2, <2>3, AnsweredService
  <1>10. ASSUME NEW t \in Tasks, HalfFails(t)  PROVE ServiceInv'
    BY <1>10, AnsweredService DEF HalfFails
  <1>. QED  BY <1>4, <1>5, <1>6, <1>7, <1>8, <1>9, <1>10

(* Every step keeps the lists, the threads and what they complete in       *)
(* order.                                                                  *)
LEMMA ServiceStep ==
    ASSUME NetInv, [Next]_vars
    PROVE  ServiceInv'
  <1>1. ServiceInv /\ SocketsTypeOK /\ HandlesInv /\ OpInv
    BY DEF NetInv, ServiceInv
  <1>2. req \in [Tasks -> Requests] /\ holds \in [Fds -> Kinds] /\ csock \in Numbered
    BY DEF NetInv, ServiceTypeOK, SocketsTypeOK
  <1>3. \A t \in Tasks : Waits(t) => req[t].fd # 0
    BY DEF NetInv, WaitsInv
  <1>4. CASE Quiet
    <2>1. UNCHANGED <<op, current, list, thread, req>>
      BY <1>4 DEF Quiet, Peers, Expires, vars, serviceVars
    <2>. QED  BY <1>1, <1>2, <2>1, ServiceStays
  <1>5. CASE UNCHANGED <<serviceVars, peerVars>>
    BY <1>1, <1>2, <1>5, ServiceStays DEF serviceVars
  <1>6. CASE AcceptStart \/ ReadBegin \/ ReadBad \/ WriteBegin \/ ConnectStart
             \/ \E t \in Tasks : HalfStart(t) \/ HalfFails(t)
    BY <1>1, <1>6, CallsService
  <1>7. ASSUME NEW t \in Tasks, Cancel(t)  PROVE ServiceInv'
    <2>1. req' \in [Tasks -> Requests] /\ UNCHANGED <<op, current, list, thread>>
      BY <1>2, <1>7 DEF Cancel, Requests
    <2>. QED  BY <1>1, <2>1, ServiceStays
  <1>8. ASSUME NEW h \in Handles, StopAccepts(h)  PROVE ServiceInv'
    <2>1. UNCHANGED <<op, current, list, thread>>
      BY <1>8 DEF StopAccepts
    <2>2. req' \in [Tasks -> Requests]
      <3>1. CASE UNCHANGED req
        BY <1>2, <3>1
      <3>2. CASE req' = [req EXCEPT !["accept"].closed = @ \/ InList("accept")]
        <4>1. "accept" \in Tasks
          BY DEF Tasks
        <4>. QED  BY <1>2, <3>2, <4>1 DEF Requests
      <3>. QED  BY <1>8, <3>1, <3>2 DEF StopAccepts
    <2>. QED  BY <1>1, <2>1, <2>2, ServiceStays
  <1>9. ASSUME NEW s \in Services, ServiceThread(s)  PROVE ServiceInv'
    <2>1. CASE Snapshot(s)
      BY <1>1, <2>1, SnapshotService
    <2>2. CASE EnterPoll(s) \/ ReturnPoll(s) \/ Drain(s)
      BY <1>1, <1>2, <1>3, <2>2, PollService
    <2>3. CASE Visit(s)
      BY <1>1, <1>2, <1>3, <2>3, VisitService
    <2>4. CASE Unread(s) \/ FinishHalf(s) \/ FinishClose(s) \/ FinishShut(s)
      BY <1>1, <1>2, <2>4, FinishService
    <2>5. CASE Remove(s)
      BY <1>1, <2>5, RemoveService
    <2>6. CASE StopIfEmpty(s)
      BY <1>1, <2>6, StopIfEmptyService
    <2>7. CASE Complete(s)
      BY <1>1, <2>7, CompleteService
    <2>. QED  BY <1>9, <2>1, <2>2, <2>3, <2>4, <2>5, <2>6, <2>7 DEF ServiceThread
  <1>. QED  BY <1>4, <1>5, <1>6, <1>7, <1>8, <1>9, StepCases

(***************************************************************************)
(* The handles and their references.                                       *)
(***************************************************************************)

LEMMA DoingIs ==
    ASSUME NEW do \in {"rest", "gone", "close", "shut", "stop", "release"}, NEW fd \in Numbered,
           NEW then \in {"rest", "stop", "release"}
    PROVE  /\ Doing(do, fd, then) \in Doings
           /\ Doing(do, fd, then).do = do /\ Doing(do, fd, then).fd = fd /\ Doing(do, fd, then).then = then
  BY DEF Doing, Doings

LEMMA NamedDoings ==
    Rest \in Doings /\ Gone \in Doings /\ Doing("release", 0, "release") \in Doings
  BY Zero DEF Rest, Gone, Doing, Doings

(* What closing a half leaves to be done.                                  *)
LEMMA HalfLeftIs ==
    ASSUME csock \in Numbered, NEW reader \in BOOLEAN, NEW then \in {"rest", "stop", "release"}
    PROVE  /\ HalfLeft(reader, then) \in Doings
           /\ HalfLeft(reader, then).do \in {"close", "shut", then}
           /\ HalfLeft(reader, then).do \in {"close", "shut"} => /\ HalfLeft(reader, then).then = then
                                                                 /\ HalfLeft(reader, then).fd = csock
           /\ HalfLeft(reader, then).do = then => HalfLeft(reader, then) = Doing(then, 0, "release")
           /\ HalfLeft(reader, then).do = "close" <=> LastHalf(reader)
  BY DEF HalfLeft, Doing, Doings, Numbered

(* What the thread does to the sockets and to the request it looks at.     *)
ProcessHolds(t, r) ==
    \/ UNCHANGED <<holds, req>>
    \/ /\ t = "accept" /\ r = "ok" /\ UNCHANGED req
       /\ \E fd \in Fds : holds[fd] = "free" /\ holds' = [holds EXCEPT ![fd] = "other"]
    \/ /\ t = "connect" /\ r \in {"ok", "failed"} /\ req' = [req EXCEPT ![t].fd = 0]
       /\ \E fd \in Fds, o \in {"free", "other"} :
             /\ fd = req[t].fd \/ holds[fd] = "free"
             /\ holds' = [[holds EXCEPT ![req[t].fd] = "free"] EXCEPT ![fd] = o]
    \/ /\ t = "connect" /\ r = "pending"
       /\ \E fd \in Fds :
             /\ fd = req[t].fd \/ holds[fd] = "free"
             /\ holds' = [[holds EXCEPT ![req[t].fd] = "free"] EXCEPT ![fd] = "dial"]
             /\ req' = [req EXCEPT ![t].fd = fd]

(* The system calls of a visit that may meet another's socket.             *)
ProcessStray(t) ==
    \/ UNCHANGED stray
    \/ /\ stray' = stray \cup {"transfer"}
       /\ \/ t = "accept" /\ lsock = req[t].fd /\ holds[lsock] # "listener"
          \/ t \in {"read", "write"} /\ holds[req[t].fd] \notin {"conn", "free"}

(* What processing a request may change.                                   *)
LEMMA ProcessEffect ==
    ASSUME SocketsTypeOK, NEW t \in Tasks, req[t].fd \in Fds, NEW r, Process(t, r)
    PROVE  /\ ProcessHolds(t, r) /\ ProcessStray(t)
           /\ readOpen' = readOpen \/ (readOpen' = FALSE /\ t = "read" /\ r = "bad")
           /\ holds' \in [Fds -> Kinds]
  <1>1. holds \in [Fds -> Kinds] /\ readOpen \in BOOLEAN
    BY DEF SocketsTypeOK
  <1>2. CASE Over(t) /\ UNCHANGED <<holds, req, addresses, readOpen, stray, peerVars>>
    BY <1>1, <1>2 DEF ProcessHolds, ProcessStray
  <1>3. CASE t = "accept" /\ AcceptReady(t, r) /\ UNCHANGED <<req, readOpen>>
    <2>1. ProcessStray(t)
      BY <1>3 DEF AcceptReady, Listens, ProcessStray
    <2>2. CASE UNCHANGED holds
      BY <1>1, <1>3, <2>1, <2>2 DEF ProcessHolds
    <2>3. CASE r = "ok" /\ Numbers(holds) # {} /\ holds' = Opened(holds, "other")
      <3>1. PICK fd \in Fds : holds[fd] = "free" /\ holds' = [holds EXCEPT ![fd] = "other"]
        BY <1>1, <2>3, OpenedIs DEF Kinds
      <3>. QED  BY <1>1, <1>3, <2>1, <2>3, <3>1 DEF ProcessHolds, Kinds
    <2>. QED  BY <1>3, <2>2, <2>3 DEF AcceptReady
  <1>4. CASE t = "connect" /\ ConnectReady(t, r) /\ UNCHANGED <<readOpen, stray>>
    <2>. DEFINE closed == [holds EXCEPT ![req[t].fd] = "free"]
    <2>1. ProcessStray(t)
      BY <1>4 DEF ProcessStray
    <2>2. closed \in [Fds -> Kinds] /\ \A fd \in Fds : closed[fd] = "free" => fd = req[t].fd \/ holds[fd] = "free"
      BY <1>1 DEF Kinds
    <2>3. CASE r = "ok" /\ holds' = [holds EXCEPT ![req[t].fd] = "other"] /\ req' = [req EXCEPT ![t].fd = 0]
      <3>1. holds' = [[holds EXCEPT ![req[t].fd] = "free"] EXCEPT ![req[t].fd] = "other"]
        BY <1>1, <2>3
      <3>. QED  BY <1>1, <1>4, <2>1, <2>3, <3>1 DEF ProcessHolds, Kinds
    <2>4. ASSUME NEW d \in Dialled(closed, addresses), d.r = r, holds' = d.table,
                 req' = [req EXCEPT ![t].fd = IF r = "pending" THEN Min(Numbers(closed)) ELSE 0]
          PROVE  ProcessHolds(t, r) /\ holds' \in [Fds -> Kinds]
      <3>1. \/ r = "failed" /\ holds' = closed
            \/ Numbers(closed) # {} /\ r = "ok" /\ holds' = Opened(closed, "other")
            \/ Numbers(closed) # {} /\ r = "pending" /\ holds' = Opened(closed, "dial")
        <4>. HIDE DEF closed
        <4>. QED  BY <2>4, DialledIs
      <3>2. CASE r = "failed" /\ holds' = closed
        <4>1. holds' = [[holds EXCEPT ![req[t].fd] = "free"] EXCEPT ![req[t].fd] = "free"]
          BY <1>1, <3>2
        <4>2. req' = [req EXCEPT ![t].fd = 0]
          BY <2>4, <3>2
        <4>. QED  BY <1>4, <2>2, <3>2, <4>1, <4>2 DEF ProcessHolds
      <3>3. CASE Numbers(closed) # {} /\ r = "ok" /\ holds' = Opened(closed, "other")
        <4>. HIDE DEF closed
        <4>1. PICK fd \in Fds : closed[fd] = "free" /\ holds' = [closed EXCEPT ![fd] = "other"] /\ holds' \in [Fds -> Kinds]
          BY <2>2, <3>3, OpenedIs DEF Kinds
        <4>2. fd = req[t].fd \/ holds[fd] = "free"
          BY <2>2, <4>1
        <4>3. req' = [req EXCEPT ![t].fd = 0]
          BY <2>4, <3>3
        <4>. QED  BY <1>4, <3>3, <4>1, <4>2, <4>3 DEF ProcessHolds, closed
      <3>4. CASE Numbers(closed) # {} /\ r = "pending" /\ holds' = Opened(closed, "dial")
        <4>. HIDE DEF closed
        <4>1. PICK fd \in Fds : /\ closed[fd] = "free" /\ holds' = [closed EXCEPT ![fd] = "dial"] /\ holds' \in [Fds -> Kinds]
                                /\ Min(Numbers(closed)) = fd
          BY <2>2, <3>4, OpenedIs DEF Kinds
        <4>2. fd = req[t].fd \/ holds[fd] = "free"
          BY <2>2, <4>1
        <4>3. req' = [req EXCEPT ![t].fd = fd]
          BY <2>4, <3>4, <4>1
        <4>. QED  BY <1>4, <3>4, <4>1, <4>2, <4>3 DEF ProcessHolds, closed
      <3>. QED  BY <3>1, <3>2, <3>3, <3>4
    <2>. QED  BY <1>1, <1>4, <2>1, <2>3, <2>4 DEF ConnectReady
  <1>5. CASE t = "read" /\ Recv(req[t].fd, r) /\ readOpen' = (readOpen /\ r # "bad") /\ UNCHANGED <<holds, req>>
    <2>1. ProcessStray(t)
      BY <1>5 DEF Recv, ProcessStray
    <2>. QED  BY <1>1, <1>5, <2>1 DEF ProcessHolds
  <1>6. CASE t = "write" /\ Send(req[t].fd, r) /\ UNCHANGED <<holds, req, readOpen>>
    <2>1. ProcessStray(t)
      BY <1>6 DEF Send, ProcessStray
    <2>. QED  BY <1>1, <1>6, <2>1 DEF ProcessHolds
  <1>. QED  BY <1>2, <1>3, <1>4, <1>5, <1>6 DEF Process

(* Every step keeps the types of the sockets and handles.                  *)
LEMMA SocketsTypeStep ==
    ASSUME NetInv, [Next]_vars
    PROVE  SocketsTypeOK'
  <1>1. SocketsTypeOK /\ AgentsInv /\ req \in [Tasks -> Requests]
    BY DEF NetInv, ServiceTypeOK
  <1>. USE DEF SocketsTypeOK
  <1>2. CASE Quiet
    BY <1>1, <1>2 DEF Quiet, Peers, Expires, vars, serviceVars, socketVars
  <1>3. CASE AcceptStart \/ ReadBegin \/ \E t \in Tasks : HalfStart(t) \/ HalfFails(t) \/ Cancel(t)
    BY <1>1, <1>3 DEF AcceptStart, ReadBegin, HalfStart, HalfFails, Cancel, socketVars
  <1>4. CASE ReadBad
    <2>1. agent' \in [Handles -> Doings]
      BY <1>1, <1>4 DEF ReadBad, Act, Doing, Rest, Doings, Numbered
    <2>. QED  BY <1>1, <1>4, <2>1 DEF ReadBad
  <1>5. CASE WriteBegin
    <2>1. agent' \in [Handles -> Doings]
      <3>1. HalfLeft(FALSE, "rest") \in Doings
        BY <1>1, HalfLeftIs
      <3>. QED  BY <1>1, <1>5, <3>1 DEF WriteBegin, Act
    <2>2. readOpen' \in BOOLEAN /\ writeOpen' \in BOOLEAN /\ csock' \in Numbered
      BY <1>1, <1>5 DEF WriteBegin, HalfTaken, Numbered
    <2>3. stray' \subseteq {"shutdown", "transfer"}
      BY <1>1, <1>5 DEF WriteBegin, Send
    <2>. QED  BY <1>1, <1>5, <2>1, <2>2, <2>3 DEF WriteBegin
  <1>6. CASE ConnectStart
    <2>1. holds' \in [Fds -> Kinds]
      <3>1. CASE UNCHANGED holds
        BY <1>1, <3>1
      <3>2. ASSUME NEW d \in Dialled(holds, addresses), holds' = d.table  PROVE holds' \in [Fds -> Kinds]
        BY <1>1, <3>2, DialledIs, OpenedIs DEF Kinds
      <3>. QED  BY <1>6, <3>1, <3>2 DEF ConnectStart
    <2>. QED  BY <1>1, <1>6, <2>1 DEF ConnectStart
  <1>7. ASSUME NEW h \in Handles, StopAccepts(h)  PROVE SocketsTypeOK'
    <2>1. agent' \in [Handles -> Doings]
      BY <1>1, <1>7 DEF StopAccepts, Act, Doing, Doings, Numbered
    <2>. QED  BY <1>1, <1>7, <2>1 DEF StopAccepts
  <1>8. ASSUME NEW s \in Services, ServiceThread(s)  PROVE SocketsTypeOK'
    <2>1. CASE Snapshot(s) \/ EnterPoll(s) \/ ReturnPoll(s) \/ Drain(s) \/ Remove(s) \/ StopIfEmpty(s) \/ Complete(s)
      BY <1>1, <2>1 DEF Snapshot, EnterPoll, ReturnPoll, Drain, Remove, StopIfEmpty, Complete, socketVars
    <2>2. CASE Visit(s)
      <3>1. ServiceInv /\ holds \in [Fds -> Kinds] /\ csock \in Numbered /\ \A t \in Tasks : Waits(t) => req[t].fd # 0
        BY <1>1 DEF NetInv, ServiceInv, WaitsInv
      <3>2. PICK t \in Tasks : /\ req[t].fd \in Fds
                               /\ UNCHANGED <<holds, req, readOpen, stray>> \/ \E p : Process(t, p)
        BY <2>2, <3>1, VisitEffect
      <3>3. holds' \in [Fds -> Kinds] /\ readOpen' \in BOOLEAN /\ stray' \subseteq {"shutdown", "transfer"}
        <4>1. ASSUME NEW p, Process(t, p)
              PROVE  holds' \in [Fds -> Kinds] /\ readOpen' \in BOOLEAN /\ stray' \subseteq {"shutdown", "transfer"}
          <5>1. ProcessStray(t) /\ holds' \in [Fds -> Kinds] /\ (readOpen' = readOpen \/ readOpen' = FALSE)
            BY <1>1, <3>2, <4>1, ProcessEffect
          <5>. QED  BY <1>1, <5>1 DEF ProcessStray
        <4>. QED  BY <1>1, <3>2, <4>1
      <3>. QED  BY <1>1, <2>2, <3>3 DEF Visit
    <2>3. CASE Unread(s) \/ FinishShut(s)
      BY <1>1, <2>3 DEF Unread, FinishShut, ShutsDown
    <2>4. CASE FinishHalf(s)
      BY <1>1, <2>4 DEF FinishHalf, HalfTaken, Numbered
    <2>5. CASE FinishClose(s)
      BY <1>1, <2>5 DEF FinishClose, Kinds
    <2>. QED  BY <1>8, <2>1, <2>2, <2>3, <2>4, <2>5 DEF ServiceThread
  <1>9. CASE OwnerSteps
    <2>1. CASE OtherSockets
      <3>1. holds' \in [Fds -> Kinds]
        BY <1>1, <2>1, OpenedIs DEF OtherSockets, Kinds
      <3>. QED  BY <1>1, <2>1, <3>1 DEF OtherSockets
    <2>2. ASSUME NEW c \in BOOLEAN, Split(c)  PROVE SocketsTypeOK'
      <3>1. agent' \in [Handles -> Doings]
        BY <1>1, <2>2, NamedDoings DEF Split
      <3>2. crefs' \in Int
        BY <2>2 DEF Split, Halves
      <3>. QED  BY <1>1, <2>2, <3>1, <3>2 DEF Split
    <2>3. CASE CloseConnection
      BY <1>1, <2>3 DEF CloseConnection, Act, Doing, Doings, Numbered
    <2>4. CASE TakeSocket
      BY <1>1, <2>4 DEF TakeSocket, Act, Doing, Doings, Numbered, Kinds
    <2>5. CASE Abort
      BY <1>1, <2>5 DEF Abort, Act, Doing, Doings, Numbered
    <2>6. CASE Control
      <3>1. agent' \in [Handles -> Doings]
        BY <1>1, <2>6, NamedDoings DEF Control, Act
      <3>. QED  BY <1>1, <2>6, <3>1 DEF Control
    <2>7. ASSUME NEW h \in Handles, CloseListener(h) \/ DropController(h)  PROVE SocketsTypeOK'
      <3>1. CASE CloseListener(h)
        <4>1. agent' \in [Handles -> Doings]
          <5>1. lsock = 0 \/ Doing("close", lsock, "stop") \in Doings
            BY <1>1 DEF Doing, Doings
          <5>. QED  BY <1>1, <3>1, <5>1, NamedDoings DEF CloseListener, Act
        <4>. QED  BY <1>1, <3>1, <4>1, Zero DEF CloseListener
      <3>2. CASE DropController(h)
        <4>1. agent' \in [Handles -> Doings]
          BY <1>1, <3>2, NamedDoings DEF DropController, Act
        <4>. QED  BY <1>1, <3>2, <4>1 DEF DropController
      <3>. QED  BY <2>7, <3>1, <3>2
    <2>8. ASSUME NEW h \in Handles, CloseHalf(h)  PROVE SocketsTypeOK'
      <3>1. HalfLeft(h = "reader", "release") \in Doings
        <4>. DEFINE reader == (h = "reader")
        <4>1. reader \in BOOLEAN
          OBVIOUS
        <4>. HIDE DEF reader
        <4>2. HalfLeft(reader, "release") \in Doings
          BY <1>1, <4>1, HalfLeftIs
        <4>. QED  BY <4>2 DEF reader
      <3>2. agent' \in [Handles -> Doings]
        BY <1>1, <2>8, <3>1 DEF CloseHalf, Act
      <3>. QED  BY <1>1, <2>8, <3>2 DEF CloseHalf, HalfTaken, Numbered
    <2>9. ASSUME NEW h \in Handles, Close(h) \/ Shutdown(h)  PROVE SocketsTypeOK'
      <3>1. agent[h] \in Doings
        BY <1>1
      <3>2. agent' \in [Handles -> Doings]
        <4>1. Doing(agent[h].then, 0, "release") \in Doings
          BY <3>1, Zero DEF Doings, Doing
        <4>. QED  BY <1>1, <2>9, <4>1 DEF Close, Shutdown, Act
      <3>3. holds' \in [Fds -> Kinds]
        BY <1>1, <2>9 DEF Close, Shutdown, Kinds
      <3>4. shutR' \in BOOLEAN /\ shutW' \in BOOLEAN /\ stray' \subseteq {"shutdown", "transfer"}
        BY <1>1, <2>9 DEF Close, Shutdown, ShutsDown
      <3>. QED  BY <1>1, <2>9, <3>2, <3>3, <3>4 DEF Close, Shutdown
    <2>10. ASSUME NEW h \in Handles, ReleaseListener(h) \/ ReleaseConnection(h)  PROVE SocketsTypeOK'
      <3>1. agent' \in [Handles -> Doings]
        BY <1>1, <2>10, NamedDoings DEF ReleaseListener, ReleaseConnection, Act
      <3>2. holds' \in [Fds -> Kinds]
        BY <1>1, <2>10 DEF ReleaseListener, ReleaseConnection, Destroyed, Kinds
      <3>3. lsock' \in Numbered /\ csock' \in Numbered /\ lrefs' \in Int /\ crefs' \in Int
        BY <1>1, <2>10, Zero DEF ReleaseListener, ReleaseConnection
      <3>. QED  BY <1>1, <2>10, <3>1, <3>2, <3>3 DEF ReleaseListener, ReleaseConnection
    <2>. QED  BY <1>9, <2>1, <2>2, <2>3, <2>4, <2>5, <2>6, <2>7, <2>8, <2>9, <2>10 DEF OwnerSteps
  <1>. QED  BY <1>2, <1>3, <1>4, <1>5, <1>6, <1>7, <1>8, <1>9, StepCases

(* One handle moves.                                                       *)
LEMMA ActIs ==
    ASSUME agent \in [Handles -> Doings], NEW h \in Handles, NEW d, Act(h, d)
    PROVE  \A k \in Handles : agent'[k] = IF k = h THEN d ELSE agent[k]
  BY DEF Act

LEMMA HandleNames ==
    /\ "listener" \in Handles /\ "stopper" \in Handles /\ "whole" \in Handles /\ "reader" \in Handles
    /\ "writer" \in Handles /\ "controller" \in Handles
    /\ \A h \in Handles : h \in {"listener", "stopper", "whole", "reader", "writer", "controller"}
  BY DEF Handles, ListenerHandles, ConnectionHandles

LEMMA DoingFields ==
    /\ Rest.do = "rest" /\ Gone.do = "gone" /\ Doing("release", 0, "release").do = "release"
    /\ Rest = Doing("rest", 0, "release") /\ Rest # Gone /\ Doing("release", 0, "release") # Gone
    /\ \A do, fd, then : Doing(do, fd, then).do = do /\ Doing(do, fd, then).fd = fd /\ Doing(do, fd, then).then = then
  BY DEF Rest, Gone, Doing

(* What AgentsInv says when only some of what it is about changes.         *)
LEMMA AgentsFrame ==
    ASSUME AgentsInv, UNCHANGED <<agent, fullOpen>>,
           readOpen' => readOpen, writeOpen' => writeOpen,
           (fullOpen \/ readOpen' \/ writeOpen') => UNCHANGED csock
    PROVE  AgentsInv'
  BY DEF AgentsInv, Does, Is, Closing

(* A handle with an operation under way is not closed by its owner.        *)
LEMMA InUseFacts ==
    ASSUME HandlesInv, AgentsInv, SocketsTypeOK
    PROVE  /\ op["read"] \in {"starting", "pending"} => agent["reader"] = Rest
           /\ op["write"] \in {"starting", "pending"} => agent["writer"] = Rest
           /\ op["accept"] \in {"starting", "pending"} => agent["listener"] = Rest
           /\ agent["reader"] = Rest \/ agent["writer"] = Rest \/ agent["controller"] = Rest => ~fullOpen
  BY HandleNames, DoingFields DEF HandlesInv, Begun, Handle, Tasks, AgentsInv, Does, Is

(* Every step keeps what an owner does in line with what is open.          *)
LEMMA AgentsStep ==
    ASSUME NetInv, [Next]_vars
    PROVE  AgentsInv'
  <1>1. SocketsTypeOK /\ AgentsInv /\ HandlesInv /\ RefsInv /\ ServiceInv
    BY DEF NetInv, ServiceInv
  <1>2. /\ agent \in [Handles -> Doings] /\ readOpen \in BOOLEAN /\ writeOpen \in BOOLEAN /\ csock \in Numbered
        /\ fullOpen \in BOOLEAN /\ crefs \in Int
    BY <1>1 DEF SocketsTypeOK
  <1>3. CASE UNCHANGED <<agent, fullOpen, readOpen, writeOpen, csock>>
    BY <1>1, <1>3, AgentsFrame
  <1>4. CASE Quiet
    BY <1>3, <1>4 DEF Quiet, Peers, Expires, vars, serviceVars, socketVars
  <1>5. CASE AcceptStart \/ ReadBegin \/ ConnectStart \/ \E t \in Tasks : HalfStart(t) \/ HalfFails(t) \/ Cancel(t)
    BY <1>3, <1>5 DEF AcceptStart, ReadBegin, HalfStart, HalfFails, Cancel, socketVars, ConnectStart
  <1>6. CASE ReadBad
    <2>1. agent["reader"] = Rest /\ ~fullOpen
      BY <1>1, <1>6, InUseFacts DEF ReadBad
    <2>. DEFINE d == IF readOpen THEN Doing("shut", csock, "rest") ELSE Rest
    <2>2. \A k \in Handles : agent'[k] = IF k = "reader" THEN d ELSE agent[k]
      BY <1>2, <1>6, ActIs, HandleNames DEF ReadBad
    <2>3. d.do \in {"shut", "rest"} /\ (d.do = "rest" => d = Rest)
      BY DoingFields
    <2>4. readOpen' = FALSE /\ UNCHANGED <<fullOpen, writeOpen, csock>>
      BY <1>6 DEF ReadBad
    <2>. HIDE DEF d
    <2>. QED  BY <1>1, <2>1, <2>2, <2>3, <2>4, HandleNames DEF AgentsInv, Does, Is, Closing
  <1>7. CASE WriteBegin
    <2>1. agent["writer"] = Rest /\ ~fullOpen
      BY <1>1, <1>7, InUseFacts DEF WriteBegin
    <2>2. CASE HalfTaken(FALSE) /\ Act("writer", HalfLeft(FALSE, "rest")) /\ UNCHANGED fullOpen
      <3>. DEFINE d == HalfLeft(FALSE, "rest")
      <3>1. d.do \in {"close", "shut", "rest"} /\ (d.do = "rest" => d = Rest)
        BY <1>2, HalfLeftIs, DoingFields
      <3>2. \A k \in Handles : agent'[k] = IF k = "writer" THEN d ELSE agent[k]
        BY <1>2, <2>2, ActIs, HandleNames
      <3>. HIDE DEF d
      <3>3. writeOpen' = FALSE /\ readOpen' = readOpen /\ (readOpen => csock' = csock)
        BY <1>2, <2>2 DEF HalfTaken, LastHalf
      <3>. QED  BY <1>1, <2>1, <2>2, <3>1, <3>2, <3>3, HandleNames DEF AgentsInv, Does, Is, Closing
    <2>. QED  BY <1>3, <1>7, <2>2 DEF WriteBegin
  <1>8. ASSUME NEW h \in Handles, StopAccepts(h)  PROVE AgentsInv'
    <2>1. \A k \in Handles : agent'[k] = IF k = h THEN Doing("release", 0, "release") ELSE agent[k]
      BY <1>2, <1>8, ActIs DEF StopAccepts
    <2>2. UNCHANGED <<fullOpen, readOpen, writeOpen, csock>> /\ agent[h].do = "stop"
      BY <1>8 DEF StopAccepts, Does
    <2>. QED  BY <1>1, <2>1, <2>2, HandleNames, DoingFields DEF AgentsInv, Does, Is, Closing
  <1>9. ASSUME NEW s \in Services, ServiceThread(s)  PROVE AgentsInv'
    <2>1. CASE Snapshot(s) \/ EnterPoll(s) \/ ReturnPoll(s) \/ Drain(s) \/ Remove(s) \/ StopIfEmpty(s) \/ Complete(s)
               \/ Unread(s) \/ FinishShut(s) \/ FinishClose(s)
      BY <1>3, <2>1 DEF Snapshot, EnterPoll, ReturnPoll, Drain, Remove, StopIfEmpty, Complete, socketVars,
                        Unread, FinishShut, FinishClose
    <2>2. CASE Visit(s)
      <3>1. holds \in [Fds -> Kinds] /\ \A t \in Tasks : Waits(t) => req[t].fd # 0
        BY <1>1 DEF NetInv, SocketsTypeOK, WaitsInv
      <3>2. PICK t \in Tasks : /\ req[t].fd \in Fds
                               /\ UNCHANGED <<holds, req, readOpen, stray>> \/ \E p : Process(t, p)
        BY <1>1, <1>2, <2>2, <3>1, VisitEffect
      <3>3. readOpen' => readOpen
        BY <1>1, <3>2, ProcessEffect
      <3>. QED  BY <1>1, <2>2, <3>3, AgentsFrame DEF Visit
    <2>3. CASE FinishHalf(s)
      <3>1. op["write"] = "pending"
        <4>1. Ends(s, "write") /\ "write" \in Tasks
          BY <1>1, <2>3 DEF FinishHalf, At, ServiceInv, ThreadsInv, ThreadInv, Ends, Endings, Tasks
        <4>. QED  BY <1>1, <4>1 DEF ServiceInv, EndingsInv
      <3>2. ~fullOpen
        BY <1>1, <3>1, InUseFacts
      <3>3. writeOpen' = FALSE /\ readOpen' = readOpen /\ (readOpen => csock' = csock) /\ UNCHANGED <<agent, fullOpen>>
        BY <1>2, <2>3 DEF FinishHalf, HalfTaken, LastHalf
      <3>. QED  BY <1>1, <3>2, <3>3, AgentsFrame
    <2>. QED  BY <1>9, <2>1, <2>2, <2>3 DEF ServiceThread
  <1>10. CASE OwnerSteps
    <2>1. CASE OtherSockets
      BY <1>3, <2>1 DEF OtherSockets
    <2>2. ASSUME NEW c \in BOOLEAN, Split(c)  PROVE AgentsInv'
      <3>1. /\ agent'["whole"] = Doing("release", 0, "release") /\ agent'["reader"] = Rest /\ agent'["writer"] = Rest
            /\ agent'["controller"] \in {Rest, Gone}
            /\ agent'["listener"] = agent["listener"] /\ agent'["stopper"] = agent["stopper"]
        BY <1>2, <2>2, HandleNames DEF Split
      <3>2. fullOpen' = FALSE /\ UNCHANGED <<readOpen, writeOpen, csock>>
        BY <2>2 DEF Split
      <3>. QED  BY <1>1, <3>1, <3>2, HandleNames, DoingFields DEF AgentsInv, Does, Is, Closing
    <2>3. CASE CloseConnection \/ TakeSocket
      <3>1. /\ agent["whole"].do = "rest" /\ readOpen' = FALSE /\ writeOpen' = FALSE /\ fullOpen' = FALSE
            /\ \/ \A k \in Handles : agent'[k] = IF k = "whole" THEN Doing("close", csock, "release") ELSE agent[k]
               \/ \A k \in Handles : agent'[k] = IF k = "whole" THEN Doing("release", 0, "release") ELSE agent[k]
        BY <1>2, <2>3, ActIs, HandleNames DEF CloseConnection, TakeSocket, Holds
      <3>. QED  BY <1>1, <3>1, HandleNames, DoingFields DEF AgentsInv, Does, Is, Closing
    <2>4. CASE Abort
      <3>1. agent["controller"].do = "rest" /\ UNCHANGED <<fullOpen, csock>>
        BY <2>4 DEF Abort, Holds
      <3>2. \A k \in Handles : agent'[k] = IF k = "controller" THEN Doing("release", 0, "release") ELSE agent[k]
        BY <1>2, <2>4, ActIs, HandleNames DEF Abort
      <3>3. (readOpen' => readOpen) /\ (writeOpen' => writeOpen)
        BY <2>4 DEF Abort
      <3>. QED  BY <1>1, <3>1, <3>2, <3>3, HandleNames, DoingFields DEF AgentsInv, Does, Is, Closing
    <2>5. CASE Control
      <3>1. \A k \in Handles : agent'[k] = IF k = "stopper" THEN Rest ELSE agent[k]
        BY <1>2, <2>5, ActIs, HandleNames DEF Control
      <3>2. UNCHANGED <<fullOpen, readOpen, writeOpen, csock>>
        BY <2>5 DEF Control
      <3>. QED  BY <1>1, <3>1, <3>2, HandleNames, DoingFields DEF AgentsInv, Does, Is, Closing
    <2>6. ASSUME NEW h \in Handles, CloseListener(h)  PROVE AgentsInv'
      <3>1. /\ h \in {"listener", "stopper"} /\ UNCHANGED <<fullOpen, readOpen, writeOpen, csock>>
            /\ \/ \A k \in Handles : agent'[k] = IF k = h THEN Doing("close", lsock, "stop") ELSE agent[k]
               \/ \A k \in Handles : agent'[k] = IF k = h THEN Doing("release", 0, "release") ELSE agent[k]
        BY <1>2, <2>6, ActIs DEF CloseListener, ListenerHandles
      <3>. QED  BY <1>1, <3>1, HandleNames, DoingFields DEF AgentsInv, Does, Is, Closing
    <2>7. ASSUME NEW h \in Handles, DropController(h)  PROVE AgentsInv'
      <3>1. /\ h \in {"controller", "stopper"} /\ UNCHANGED <<fullOpen, readOpen, writeOpen, csock>> /\ agent[h].do = "rest"
            /\ \A k \in Handles : agent'[k] = IF k = h THEN Doing("release", 0, "release") ELSE agent[k]
        BY <1>2, <2>7, ActIs DEF DropController, Holds
      <3>. QED  BY <1>1, <3>1, HandleNames, DoingFields DEF AgentsInv, Does, Is, Closing
    <2>8. ASSUME NEW h \in Handles, CloseHalf(h)  PROVE AgentsInv'
      <3>. DEFINE reader == (h = "reader")
                  d == HalfLeft(reader, "release")
      <3>1. reader \in BOOLEAN /\ (reader <=> h = "reader") /\ h \in {"reader", "writer"} /\ agent[h].do = "rest"
        BY <2>8 DEF CloseHalf, Holds
      <3>2. /\ HalfTaken(reader) /\ UNCHANGED fullOpen
            /\ \A k \in Handles : agent'[k] = IF k = h THEN d ELSE agent[k]
        BY <1>2, <2>8, ActIs DEF CloseHalf
      <3>. HIDE DEF reader
      <3>3. d.do \in {"close", "shut", "release"} /\ (d.do \in {"close", "shut"} => d.then = "release")
        BY <1>2, <3>1, HalfLeftIs
      <3>. HIDE DEF d
      <3>4. CASE h = "reader"
        <4>1. readOpen' = FALSE /\ writeOpen' = writeOpen /\ (writeOpen => csock' = csock)
          BY <1>2, <3>1, <3>2, <3>4 DEF HalfTaken, LastHalf
        <4>. QED  BY <1>1, <3>1, <3>2, <3>3, <3>4, <4>1, HandleNames, DoingFields DEF AgentsInv, Does, Is, Closing
      <3>5. CASE h = "writer"
        <4>1. writeOpen' = FALSE /\ readOpen' = readOpen /\ (readOpen => csock' = csock)
          BY <1>2, <3>1, <3>2, <3>5 DEF HalfTaken, LastHalf
        <4>. QED  BY <1>1, <3>1, <3>2, <3>3, <3>5, <4>1, HandleNames, DoingFields DEF AgentsInv, Does, Is, Closing
      <3>. QED  BY <3>1, <3>4, <3>5
    <2>9. ASSUME NEW h \in Handles, Close(h) \/ Shutdown(h)  PROVE AgentsInv'
      <3>1. /\ agent[h].do \in {"close", "shut"} /\ UNCHANGED <<fullOpen, readOpen, writeOpen, csock>>
            /\ \A k \in Handles : agent'[k] = IF k = h THEN Doing(agent[h].then, 0, "release") ELSE agent[k]
        BY <1>2, <2>9, ActIs DEF Close, Shutdown, Does
      <3>2. agent[h].then \in {"rest", "stop", "release"}
        BY <1>2 DEF Doings
      <3>. QED  BY <1>1, <3>1, <3>2, HandleNames, DoingFields DEF AgentsInv, Does, Is, Closing
    <2>10. ASSUME NEW h \in Handles, ReleaseListener(h)  PROVE AgentsInv'
      <3>1. /\ h \in {"listener", "stopper"} /\ UNCHANGED <<fullOpen, readOpen, writeOpen, csock>>
            /\ \A k \in Handles : agent'[k] = IF k = h THEN Gone ELSE agent[k]
        BY <1>2, <2>10, ActIs DEF ReleaseListener, ListenerHandles
      <3>. QED  BY <1>1, <3>1, HandleNames, DoingFields DEF AgentsInv, Does, Is, Closing
    <2>11. ASSUME NEW h \in Handles, ReleaseConnection(h)  PROVE AgentsInv'
      <3>1. /\ h \in {"whole", "reader", "writer", "controller"} /\ UNCHANGED <<fullOpen, readOpen, writeOpen>>
            /\ agent[h].do = "release" /\ csock' = (IF crefs = 1 THEN 0 ELSE csock)
            /\ \A k \in Handles : agent'[k] = IF k = h THEN Gone ELSE agent[k]
        BY <1>2, <2>11, ActIs DEF ReleaseConnection, ConnectionHandles, Does
      <3>2. crefs = 1 => ~readOpen /\ ~writeOpen /\ ~fullOpen
        BY <1>1, <3>1, HandleNames, DoingFields DEF AgentsInv, Does, Is, RefsInv, One
      <3>. QED  BY <1>1, <3>1, <3>2, HandleNames, DoingFields DEF AgentsInv, Does, Is, Closing
    <2>. QED  BY <1>10, <2>1, <2>2, <2>3, <2>4, <2>5, <2>6, <2>7, <2>8, <2>9, <2>10, <2>11 DEF OwnerSteps
  <1>. QED  BY <1>4, <1>5, <1>6, <1>7, <1>8, <1>9, <1>10, StepCases

(* The kinds of an owner's step, by what they do to the handles.           *)
LEMMA OwnerMoves ==
    ASSUME SocketsTypeOK, AgentsInv, RefsInv, OwnerSteps
    PROVE  \/ UNCHANGED <<agent, lrefs, crefs>>
           \/ /\ agent["whole"] = Rest /\ agent'["whole"] = Doing("release", 0, "release")
              /\ agent["reader"] = Gone /\ agent["writer"] = Gone /\ agent["controller"] = Gone
              /\ agent'["reader"] = Rest /\ agent'["writer"] = Rest
              /\ \/ agent'["controller"] = Rest /\ crefs' = 4
                 \/ agent'["controller"] = Gone /\ crefs' = 3
              /\ agent'["listener"] = agent["listener"] /\ agent'["stopper"] = agent["stopper"] /\ UNCHANGED lrefs
           \/ /\ \A k \in Handles : agent'[k] = IF k = "stopper" THEN Rest ELSE agent[k]
              /\ agent["stopper"] = Gone /\ lrefs' = lrefs + 1 /\ UNCHANGED crefs
           \/ \E h \in Handles, d \in Doings :
                 /\ \A k \in Handles : agent'[k] = IF k = h THEN d ELSE agent[k]
                 /\ UNCHANGED <<lrefs, crefs>> /\ agent[h] # Gone /\ d # Gone
                 /\ \/ agent[h].do = "rest" /\ (~InUse(h) \/ h \in {"whole", "controller"})
                    \/ agent[h].do \in {"close", "shut"} /\ d.do = agent[h].then
           \/ \E h \in Handles :
                 /\ agent[h].do = "release"
                 /\ \A k \in Handles : agent'[k] = IF k = h THEN Gone ELSE agent[k]
                 /\ \/ h \in ListenerHandles /\ lrefs' = lrefs - 1 /\ UNCHANGED crefs
                    \/ h \in ConnectionHandles /\ crefs' = crefs - 1 /\ UNCHANGED lrefs
  <1>1. agent \in [Handles -> Doings] /\ csock \in Numbered /\ lsock \in Numbered
    BY DEF SocketsTypeOK
  <1>2. \A h \in Handles : (agent[h].do = "rest" => agent[h] = Rest) /\ (agent[h] = Gone => agent[h].do = "gone")
    BY DoingFields DEF AgentsInv, Does, Is
  <1>. DEFINE rel == Doing("release", 0, "release")
  <1>3. rel \in Doings /\ rel # Gone
    BY NamedDoings, DoingFields
  <1>4. ASSUME NEW h \in Handles, NEW d \in Doings, d # Gone, Act(h, d), UNCHANGED <<lrefs, crefs>>,
               \/ agent[h].do = "rest" /\ (~InUse(h) \/ h \in {"whole", "controller"})
               \/ agent[h].do \in {"close", "shut"} /\ d.do = agent[h].then
        PROVE  \E g \in Handles, e \in Doings :
                 /\ \A k \in Handles : agent'[k] = IF k = g THEN e ELSE agent[k]
                 /\ UNCHANGED <<lrefs, crefs>> /\ agent[g] # Gone /\ e # Gone
                 /\ \/ agent[g].do = "rest" /\ (~InUse(g) \/ g \in {"whole", "controller"})
                    \/ agent[g].do \in {"close", "shut"} /\ e.do = agent[g].then
    <2>1. \A k \in Handles : agent'[k] = IF k = h THEN d ELSE agent[k]
      BY <1>1, <1>4, ActIs
    <2>2. agent[h] # Gone
      BY <1>2, <1>4
    <2>. QED  BY <1>4, <2>1, <2>2
  <1>5. CASE OtherSockets
    BY <1>5 DEF OtherSockets
  <1>6. ASSUME NEW c \in BOOLEAN, Split(c)
        PROVE  /\ agent["whole"] = Rest /\ agent'["whole"] = Doing("release", 0, "release")
               /\ agent["reader"] = Gone /\ agent["writer"] = Gone /\ agent["controller"] = Gone
               /\ agent'["reader"] = Rest /\ agent'["writer"] = Rest
               /\ \/ agent'["controller"] = Rest /\ crefs' = 4
                  \/ agent'["controller"] = Gone /\ crefs' = 3
               /\ agent'["listener"] = agent["listener"] /\ agent'["stopper"] = agent["stopper"] /\ UNCHANGED lrefs
    <2>1. agent["whole"] = Rest /\ agent["reader"] = Gone /\ agent["writer"] = Gone /\ agent["controller"] = Gone
      BY <1>6, HandleNames DEF Split, Holds, AgentsInv, Does, Is
    <2>2. /\ agent'["whole"] = Doing("release", 0, "release") /\ agent'["reader"] = Rest /\ agent'["writer"] = Rest
          /\ agent'["controller"] = (IF c THEN Rest ELSE Gone) /\ crefs' = (IF c THEN 4 ELSE 3)
          /\ agent'["listener"] = agent["listener"] /\ agent'["stopper"] = agent["stopper"] /\ UNCHANGED lrefs
      BY <1>1, <1>6, HandleNames DEF Split, Halves
    <2>. QED  BY <2>1, <2>2
  <1>7. CASE CloseConnection
    <2>. DEFINE d == Doing("close", csock, "release")
    <2>1. d \in Doings /\ d # Gone
      BY <1>1, DoingIs, DoingFields
    <2>2. Act("whole", d) /\ agent["whole"].do = "rest" /\ UNCHANGED <<lrefs, crefs>>
      BY <1>7 DEF CloseConnection, Holds
    <2>. HIDE DEF d
    <2>. QED  BY <1>4, <2>1, <2>2, HandleNames
  <1>8. CASE TakeSocket
    <2>1. Act("whole", rel) /\ agent["whole"].do = "rest" /\ UNCHANGED <<lrefs, crefs>>
      BY <1>8 DEF TakeSocket, Holds
    <2>. HIDE DEF rel
    <2>. QED  BY <1>3, <1>4, <2>1, HandleNames
  <1>9. CASE Abort
    <2>1. Act("controller", rel) /\ agent["controller"].do = "rest" /\ UNCHANGED <<lrefs, crefs>>
      BY <1>9 DEF Abort, Holds
    <2>. HIDE DEF rel
    <2>. QED  BY <1>3, <1>4, <2>1, HandleNames
  <1>10. CASE Control
    <2>1. \A k \in Handles : agent'[k] = IF k = "stopper" THEN Rest ELSE agent[k]
      BY <1>1, <1>10, ActIs, HandleNames DEF Control
    <2>. QED  BY <1>10, <2>1 DEF Control
  <1>11. ASSUME NEW h \in Handles, CloseListener(h), ~InUse(h)
         PROVE  \E d \in Doings : /\ d # Gone /\ Act(h, d) /\ UNCHANGED <<lrefs, crefs>> /\ agent[h].do = "rest"
    <2>1. Doing("close", lsock, "stop") \in Doings /\ Doing("close", lsock, "stop") # Gone
      BY <1>1, DoingIs, DoingFields
    <2>. QED  BY <1>3, <1>11, <2>1 DEF CloseListener, Holds
  <1>12. ASSUME NEW h \in Handles, CloseHalf(h), ~InUse(h)
         PROVE  \E d \in Doings : /\ d # Gone /\ Act(h, d) /\ UNCHANGED <<lrefs, crefs>> /\ agent[h].do = "rest"
    <2>. DEFINE reader == (h = "reader")
                d == HalfLeft(reader, "release")
    <2>1. reader \in BOOLEAN
      OBVIOUS
    <2>2. Act(h, d) /\ UNCHANGED <<lrefs, crefs>> /\ agent[h].do = "rest"
      BY <1>12 DEF CloseHalf, Holds
    <2>. HIDE DEF reader
    <2>3. d \in Doings /\ d.do \in {"close", "shut", "release"}
      BY <1>1, <2>1, HalfLeftIs
    <2>. HIDE DEF d
    <2>4. d # Gone
      BY <2>3, DoingFields
    <2>. QED  BY <2>2, <2>3, <2>4
  <1>13. ASSUME NEW h \in Handles, DropController(h), ~InUse(h)
         PROVE  \E d \in Doings : /\ d # Gone /\ Act(h, d) /\ UNCHANGED <<lrefs, crefs>> /\ agent[h].do = "rest"
    BY <1>3, <1>13 DEF DropController, Holds
  <1>14. ASSUME NEW h \in Handles, Close(h) \/ Shutdown(h)
         PROVE  \E d \in Doings : /\ d # Gone /\ Act(h, d) /\ UNCHANGED <<lrefs, crefs>>
                                  /\ agent[h].do \in {"close", "shut"} /\ d.do = agent[h].then
    <2>. DEFINE then == agent[h].then
                d == Doing(then, 0, "release")
    <2>1. then \in {"rest", "stop", "release"}
      BY <1>1 DEF Doings
    <2>2. Act(h, d) /\ UNCHANGED <<lrefs, crefs>> /\ agent[h].do \in {"close", "shut"}
      BY <1>14 DEF Close, Shutdown, Does
    <2>3. agent[h].then = then
      OBVIOUS
    <2>. HIDE DEF then
    <2>4. d \in Doings /\ d.do = then
      BY <2>1, DoingIs, Zero
    <2>. HIDE DEF d
    <2>5. d # Gone
      BY <2>1, <2>4, DoingFields
    <2>. QED  BY <2>2, <2>3, <2>4, <2>5
  <1>15. ASSUME NEW h \in Handles, ReleaseListener(h) \/ ReleaseConnection(h)
         PROVE  /\ agent[h].do = "release"
                /\ \A k \in Handles : agent'[k] = IF k = h THEN Gone ELSE agent[k]
                /\ \/ h \in ListenerHandles /\ lrefs' = lrefs - 1 /\ UNCHANGED crefs
                   \/ h \in ConnectionHandles /\ crefs' = crefs - 1 /\ UNCHANGED lrefs
    BY <1>1, <1>15, ActIs DEF ReleaseListener, ReleaseConnection, Does
  <1>. HIDE DEF rel
  <1>16. ASSUME NEW h \in Handles, (CloseListener(h) \/ CloseHalf(h) \/ DropController(h)) /\ ~InUse(h)
         PROVE  \E g \in Handles, e \in Doings :
                 /\ \A k \in Handles : agent'[k] = IF k = g THEN e ELSE agent[k]
                 /\ UNCHANGED <<lrefs, crefs>> /\ agent[g] # Gone /\ e # Gone
                 /\ \/ agent[g].do = "rest" /\ (~InUse(g) \/ g \in {"whole", "controller"})
                    \/ agent[g].do \in {"close", "shut"} /\ e.do = agent[g].then
    <2>1. PICK d \in Doings : d # Gone /\ Act(h, d) /\ UNCHANGED <<lrefs, crefs>> /\ agent[h].do = "rest"
      BY <1>11, <1>12, <1>13, <1>16
    <2>. QED  BY <1>4, <1>16, <2>1
  <1>17. ASSUME NEW h \in Handles, Close(h) \/ Shutdown(h)
         PROVE  \E g \in Handles, e \in Doings :
                 /\ \A k \in Handles : agent'[k] = IF k = g THEN e ELSE agent[k]
                 /\ UNCHANGED <<lrefs, crefs>> /\ agent[g] # Gone /\ e # Gone
                 /\ \/ agent[g].do = "rest" /\ (~InUse(g) \/ g \in {"whole", "controller"})
                    \/ agent[g].do \in {"close", "shut"} /\ e.do = agent[g].then
    <2>1. PICK d \in Doings : d # Gone /\ Act(h, d) /\ UNCHANGED <<lrefs, crefs>> /\ agent[h].do \in {"close", "shut"} /\ d.do = agent[h].then
      BY <1>14, <1>17
    <2>. QED  BY <1>4, <2>1
  <1>18. CASE Split(TRUE) \/ Split(FALSE)
    BY <1>6, <1>18
  <1>19. CASE \E h \in Handles : (CloseListener(h) \/ CloseHalf(h) \/ DropController(h)) /\ ~InUse(h)
    BY <1>16, <1>19
  <1>20. CASE \E h \in Handles : Close(h) \/ Shutdown(h)
    BY <1>17, <1>20
  <1>21. CASE \E h \in Handles : ReleaseListener(h) \/ ReleaseConnection(h)
    BY <1>15, <1>21
  <1>. QED  BY <1>5, <1>7, <1>8, <1>9, <1>10, <1>18, <1>19, <1>20, <1>21 DEF OwnerSteps

(* Every step keeps the references in line with the handles.               *)
LEMMA RefsStep ==
    ASSUME NetInv, [Next]_vars
    PROVE  RefsInv'
  <1>1. SocketsTypeOK /\ AgentsInv /\ HandlesInv /\ RefsInv /\ ServiceInv
    BY DEF NetInv, ServiceInv
  <1>2. agent \in [Handles -> Doings] /\ csock \in Numbered /\ lrefs \in Int /\ crefs \in Int
    BY <1>1 DEF SocketsTypeOK
  <1>3. CASE UNCHANGED <<agent, lrefs, crefs>>
    BY <1>1, <1>3 DEF RefsInv, Is
  <1>4. ASSUME NEW h \in Handles, NEW d, \A k \in Handles : agent'[k] = IF k = h THEN d ELSE agent[k],
               UNCHANGED <<lrefs, crefs>>, agent[h] # Gone, d # Gone
        PROVE  RefsInv'
    BY <1>1, <1>4, HandleNames DEF RefsInv, Is
  <1>5. CASE Quiet
    BY <1>3, <1>5 DEF Quiet, Peers, Expires, vars, serviceVars, socketVars
  <1>6. CASE AcceptStart \/ ReadBegin \/ ConnectStart \/ \E t \in Tasks : HalfStart(t) \/ HalfFails(t) \/ Cancel(t)
    BY <1>3, <1>6 DEF AcceptStart, ReadBegin, HalfStart, HalfFails, Cancel, socketVars, ConnectStart
  <1>7. CASE ReadBad
    <2>. DEFINE d == IF readOpen THEN Doing("shut", csock, "rest") ELSE Rest
    <2>1. d # Gone /\ Rest # Gone
      BY DoingFields
    <2>2. Act("reader", d) /\ UNCHANGED <<lrefs, crefs>> /\ agent["reader"] = Rest
      BY <1>1, <1>7, InUseFacts DEF ReadBad
    <2>. HIDE DEF d
    <2>3. \A k \in Handles : agent'[k] = IF k = "reader" THEN d ELSE agent[k]
      BY <1>2, <2>2, ActIs, HandleNames
    <2>. QED  BY <1>4, <2>1, <2>2, <2>3, HandleNames
  <1>8. CASE WriteBegin
    <2>1. agent["writer"] = Rest /\ Rest # Gone
      BY <1>1, <1>8, InUseFacts, DoingFields DEF WriteBegin
    <2>2. CASE Act("writer", HalfLeft(FALSE, "rest")) /\ UNCHANGED <<lrefs, crefs>>
      <3>. DEFINE d == HalfLeft(FALSE, "rest")
      <3>1. d.do \in {"close", "shut", "rest"}
        BY <1>2, HalfLeftIs
      <3>2. Act("writer", d)
        BY <2>2
      <3>. HIDE DEF d
      <3>3. d # Gone
        BY <3>1, DoingFields
      <3>4. \A k \in Handles : agent'[k] = IF k = "writer" THEN d ELSE agent[k]
        BY <1>2, <3>2, ActIs, HandleNames
      <3>. QED  BY <1>4, <2>1, <2>2, <3>3, <3>4, HandleNames
    <2>. QED  BY <1>3, <1>8, <2>2 DEF WriteBegin
  <1>9. ASSUME NEW h \in Handles, StopAccepts(h)  PROVE RefsInv'
    <2>1. \A k \in Handles : agent'[k] = IF k = h THEN Doing("release", 0, "release") ELSE agent[k]
      BY <1>2, <1>9, ActIs DEF StopAccepts
    <2>2. UNCHANGED <<lrefs, crefs>> /\ agent[h].do = "stop"
      BY <1>9 DEF StopAccepts, Does
    <2>3. agent[h] # Gone /\ Doing("release", 0, "release") # Gone
      BY <2>2, DoingFields
    <2>. QED  BY <1>4, <2>1, <2>2, <2>3
  <1>10. ASSUME NEW s \in Services, ServiceThread(s)  PROVE RefsInv'
    BY <1>3, <1>10 DEF ServiceThread, Snapshot, EnterPoll, ReturnPoll, Drain, Visit, Unread, Remove, FinishHalf,
                       FinishClose, FinishShut, StopIfEmpty, Complete, socketVars
  <1>11. CASE OwnerSteps
    <2>. USE HandleNames, DoingFields DEF RefsInv, Is
    <2>1. CASE UNCHANGED <<agent, lrefs, crefs>>
      BY <1>3, <2>1
    <2>2. CASE /\ agent["whole"] = Rest /\ agent'["whole"] = Doing("release", 0, "release")
               /\ agent'["reader"] = Rest /\ agent'["writer"] = Rest
               /\ \/ agent'["controller"] = Rest /\ crefs' = 4
                  \/ agent'["controller"] = Gone /\ crefs' = 3
               /\ agent'["listener"] = agent["listener"] /\ agent'["stopper"] = agent["stopper"] /\ UNCHANGED lrefs
      BY <1>1, <2>2 DEF One
    <2>3. CASE /\ \A k \in Handles : agent'[k] = IF k = "stopper" THEN Rest ELSE agent[k]
               /\ agent["stopper"] = Gone /\ lrefs' = lrefs + 1 /\ UNCHANGED crefs
      BY <1>1, <2>3 DEF One
    <2>4. ASSUME NEW h \in Handles, agent[h].do = "release",
                 \A k \in Handles : agent'[k] = IF k = h THEN Gone ELSE agent[k],
                 \/ h \in ListenerHandles /\ lrefs' = lrefs - 1 /\ UNCHANGED crefs
                 \/ h \in ConnectionHandles /\ crefs' = crefs - 1 /\ UNCHANGED lrefs
          PROVE  RefsInv'
      BY <1>1, <2>4 DEF One, ListenerHandles, ConnectionHandles
    <2>. QED  BY <1>1, <1>4, <1>11, <2>1, <2>2, <2>3, <2>4, OwnerMoves
  <1>. QED  BY <1>5, <1>6, <1>7, <1>8, <1>9, <1>10, <1>11, StepCases

LEMMA HandleIs ==
    /\ Handle("accept") = "listener" /\ Handle("read") = "reader" /\ Handle("write") = "writer"
    /\ \A t \in Tasks \ {"connect"} : t \in {"accept", "read", "write"} /\ Handle(t) \in Handles
  BY HandleNames DEF Handle, Tasks

(* One operation changes while its handle stays.                           *)
LEMMA OpHandles ==
    ASSUME ServiceTypeOK, HandlesInv, OpInv, UNCHANGED agent, NEW t \in Tasks, NEW o, op' = [op EXCEPT ![t] = o],
           o # "failing", o \in {"starting", "pending"} /\ t # "connect" => Does(Handle(t), "rest"),
           o = "starting" => t \in {"read", "write"}
    PROVE  HandlesInv' /\ OpInv'
  <1>1. \A x \in Tasks : op'[x] = IF x = t THEN o ELSE op[x]
    BY DEF ServiceTypeOK
  <1>2. HandlesInv'
    <2>. SUFFICES ASSUME NEW x \in Tasks \ {"connect"}
                  PROVE  /\ Begun(x)' => Does(Handle(x), "rest")'
                         /\ op'[x] = "failing" => \/ Does(Handle(x), "rest")'
                                                  \/ agent'[Handle(x)].do \in {"shut", "close"} /\ agent'[Handle(x)].then = "rest"
                         /\ op'[x] \in {"starting", "failing"} => x \in {"read", "write"}
      BY DEF HandlesInv
    <2>1. Does(Handle(x), "rest")' <=> Does(Handle(x), "rest")
      BY DEF Does
    <2>2. CASE x = t
      BY <1>1, <2>1, <2>2 DEF Begun
    <2>3. CASE x # t
      BY <1>1, <2>1, <2>3 DEF Begun, HandlesInv
    <2>. QED  BY <2>2, <2>3
  <1>3. OpInv'
    BY <1>1 DEF OpInv, Tasks
  <1>. QED  BY <1>2, <1>3

(* One handle moves while the operations stay, or its own fails.           *)
LEMMA AgentHandles ==
    ASSUME HandlesInv, OpInv, SocketsTypeOK, NEW h \in Handles, NEW d,
           \A k \in Handles : agent'[k] = IF k = h THEN d ELSE agent[k],
           \A t \in Tasks : op'[t] = op[t] \/ (op'[t] = "failing" /\ t \in {"read", "write"} /\ Handle(t) = h),
           \A t \in Tasks \ {"connect"} : Handle(t) = h =>
              \/ op'[t] \notin {"starting", "failing", "pending"}
              \/ op'[t] = "failing" /\ (d.do = "rest" \/ (d.do \in {"shut", "close"} /\ d.then = "rest"))
    PROVE  HandlesInv' /\ OpInv'
  <1>1. HandlesInv'
    <2>. SUFFICES ASSUME NEW x \in Tasks \ {"connect"}
                  PROVE  /\ Begun(x)' => Does(Handle(x), "rest")'
                         /\ op'[x] = "failing" => \/ Does(Handle(x), "rest")'
                                                  \/ agent'[Handle(x)].do \in {"shut", "close"} /\ agent'[Handle(x)].then = "rest"
                         /\ op'[x] \in {"starting", "failing"} => x \in {"read", "write"}
      BY DEF HandlesInv
    <2>1. agent'[Handle(x)] = IF Handle(x) = h THEN d ELSE agent[Handle(x)]
      BY HandleIs
    <2>2. CASE Handle(x) = h
      BY <2>1, <2>2 DEF Begun, HandlesInv, Does
    <2>3. CASE Handle(x) # h
      BY <2>1, <2>3 DEF Begun, HandlesInv, Does
    <2>. QED  BY <2>2, <2>3
  <1>2. OpInv'
    BY DEF OpInv, Tasks
  <1>. QED  BY <1>1, <1>2

(* Every step keeps the handle of an operation that has begun.             *)
LEMMA HandlesStep ==
    ASSUME NetInv, [Next]_vars
    PROVE  HandlesInv' /\ OpInv'
  <1>1. SocketsTypeOK /\ AgentsInv /\ HandlesInv /\ RefsInv /\ ServiceInv /\ OpInv /\ ServiceTypeOK
    BY DEF NetInv, ServiceInv
  <1>2. agent \in [Handles -> Doings] /\ csock \in Numbered
    BY <1>1 DEF SocketsTypeOK
  <1>3. CASE UNCHANGED <<op, agent>>
    BY <1>1, <1>3 DEF HandlesInv, OpInv, Begun, Does
  <1>4. ASSUME NEW t \in Tasks, Answered(t), UNCHANGED agent  PROVE HandlesInv' /\ OpInv'
    <2>. DEFINE o == "done"
    <2>1. op' = [op EXCEPT ![t] = o] /\ o \notin {"starting", "pending", "failing"}
      BY <1>4 DEF Answered
    <2>. HIDE DEF o
    <2>. QED  BY <1>1, <1>4, <2>1, OpHandles
  <1>5. ASSUME NEW t \in Tasks, NEW fd, Submitted(t, fd), UNCHANGED agent, t # "connect" => Does(Handle(t), "rest")
        PROVE  HandlesInv' /\ OpInv'
    <2>. DEFINE o == "pending"
    <2>1. op' = [op EXCEPT ![t] = o] /\ o = "pending"
      BY <1>5 DEF Submitted
    <2>. HIDE DEF o
    <2>. QED  BY <1>1, <1>5, <2>1, OpHandles
  <1>6. "accept" \in Tasks /\ "read" \in Tasks /\ "write" \in Tasks /\ "connect" \in Tasks
    BY DEF Tasks
  <1>7. CASE Quiet
    BY <1>3, <1>7 DEF Quiet, Peers, Expires, vars, serviceVars, socketVars
  <1>8. CASE AcceptStart
    <2>1. UNCHANGED agent /\ Does(Handle("accept"), "rest") /\ (Answered("accept") \/ Submitted("accept", lsock))
      BY <1>8 DEF AcceptStart, Starts, Refused, socketVars, Holds, Does
    <2>. QED  BY <1>4, <1>5, <1>6, <2>1
  <1>9. CASE ReadBegin
    <2>1. UNCHANGED agent /\ Does(Handle("read"), "rest") /\ (Answered("read") \/ Submitted("read", req["read"].fd))
      BY <1>1, <1>6, <1>9 DEF ReadBegin, Refused, socketVars, HandlesInv, Begun
    <2>. QED  BY <1>4, <1>5, <1>6, <2>1
  <1>10. CASE ConnectStart
    <2>1. UNCHANGED agent /\ (Answered("connect") \/ Submitted("connect", Min(Numbers(holds))))
      BY <1>10 DEF ConnectStart, Refused
    <2>. QED  BY <1>4, <1>5, <1>6, <2>1
  <1>11. ASSUME NEW t \in Tasks, HalfStart(t)  PROVE HandlesInv' /\ OpInv'
    <2>1. CASE Answered(t)
      BY <1>4, <1>11, <2>1 DEF HalfStart, socketVars
    <2>2. CASE op' = [op EXCEPT ![t] = "starting"]
      <3>. DEFINE o == "starting"
      <3>1. /\ op' = [op EXCEPT ![t] = o] /\ o # "failing" /\ t \in {"read", "write"} /\ Does(Handle(t), "rest")
            /\ UNCHANGED agent
        BY <1>11, <2>2 DEF HalfStart, socketVars, Starts, Holds, Does
      <3>. HIDE DEF o
      <3>. QED  BY <1>1, <3>1, OpHandles
    <2>. QED  BY <1>11, <2>1, <2>2 DEF HalfStart
  <1>12. ASSUME NEW t \in Tasks, HalfFails(t) \/ Cancel(t)  PROVE HandlesInv' /\ OpInv'
    <2>1. CASE HalfFails(t)
      BY <1>4, <2>1 DEF HalfFails, socketVars
    <2>2. CASE Cancel(t)
      BY <1>3, <2>2 DEF Cancel, socketVars
    <2>. QED  BY <1>12, <2>1, <2>2
  <1>13. ASSUME NEW t \in {"read", "write"}, NEW d, Act(Handle(t), d), op' = [op EXCEPT ![t] = "failing"],
                d.do = "rest" \/ (d.do \in {"shut", "close"} /\ d.then = "rest")
         PROVE  HandlesInv' /\ OpInv'
    <2>. DEFINE h == Handle(t)
    <2>1. \A x \in Tasks : op'[x] = IF x = t THEN "failing" ELSE op[x]
      BY <1>1, <1>13 DEF ServiceTypeOK
    <2>2. h \in Handles /\ t \in Tasks /\ \A x \in Tasks \ {"connect"} : Handle(x) = h => x = t
      BY <1>13, HandleIs, HandleNames DEF Tasks
    <2>3. \A k \in Handles : agent'[k] = IF k = h THEN d ELSE agent[k]
      BY <1>2, <1>13, <2>2, ActIs
    <2>4. \A x \in Tasks : op'[x] = op[x] \/ (op'[x] = "failing" /\ x \in {"read", "write"} /\ Handle(x) = h)
      BY <1>13, <2>1
    <2>5. \A x \in Tasks \ {"connect"} : Handle(x) = h =>
              \/ op'[x] \notin {"starting", "failing", "pending"}
              \/ op'[x] = "failing" /\ (d.do = "rest" \/ (d.do \in {"shut", "close"} /\ d.then = "rest"))
      BY <1>13, <2>1, <2>2
    <2>. HIDE DEF h
    <2>. QED  BY <1>1, <2>2, <2>3, <2>4, <2>5, AgentHandles
  <1>14. CASE ReadBad
    <2>. DEFINE d == IF readOpen THEN Doing("shut", csock, "rest") ELSE Rest
    <2>1. d.do = "rest" \/ (d.do \in {"shut", "close"} /\ d.then = "rest")
      BY DoingFields
    <2>2. Act(Handle("read"), d) /\ op' = [op EXCEPT !["read"] = "failing"]
      BY <1>14, HandleIs DEF ReadBad
    <2>. HIDE DEF d
    <2>. QED  BY <1>13, <2>1, <2>2
  <1>15. CASE WriteBegin
    <2>1. op["write"] = "starting" /\ Does(Handle("write"), "rest")
      BY <1>1, <1>6, <1>15 DEF WriteBegin, HandlesInv, Begun
    <2>2. \/ UNCHANGED agent /\ (Answered("write") \/ Submitted("write", req["write"].fd))
          \/ op' = [op EXCEPT !["write"] = "failing"] /\ Act("writer", HalfLeft(FALSE, "rest"))
      BY <1>15 DEF WriteBegin
    <2>3. CASE op' = [op EXCEPT !["write"] = "failing"] /\ Act("writer", HalfLeft(FALSE, "rest"))
      <3>. DEFINE d == HalfLeft(FALSE, "rest")
      <3>1. d.do = "rest" \/ (d.do \in {"shut", "close"} /\ d.then = "rest")
        BY <1>2, HalfLeftIs
      <3>2. Act(Handle("write"), d) /\ op' = [op EXCEPT !["write"] = "failing"]
        BY <2>3, HandleIs
      <3>. HIDE DEF d
      <3>. QED  BY <1>13, <3>1, <3>2
    <2>. QED  BY <1>4, <1>5, <1>6, <2>1, <2>2, <2>3
  <1>16. ASSUME NEW h \in Handles, NEW d, \A k \in Handles : agent'[k] = IF k = h THEN d ELSE agent[k], UNCHANGED op,
                \/ ~InUse(h) \/ h \in {"whole", "controller", "stopper"}
                \/ agent[h].do \in {"stop", "release"}
                \/ agent[h].do \in {"close", "shut"} /\ d.do = agent[h].then
         PROVE  HandlesInv' /\ OpInv'
    <2>1. \A t \in Tasks : op'[t] = op[t]
      BY <1>16
    <2>2. ASSUME NEW x \in Tasks \ {"connect"}, Handle(x) = h
          PROVE  \/ op[x] \notin {"starting", "failing", "pending"}
                 \/ op[x] = "failing" /\ (d.do = "rest" \/ (d.do \in {"shut", "close"} /\ d.then = "rest"))
      <3>1. CASE ~InUse(h)
        BY <2>2, <3>1 DEF InUse
      <3>2. CASE h \in {"whole", "controller", "stopper"}
        BY <2>2, <3>2, HandleIs
      <3>3. CASE agent[h].do \in {"stop", "release"}
        BY <1>1, <2>2, <3>3 DEF HandlesInv, Begun, Does
      <3>4. CASE agent[h].do \in {"close", "shut"} /\ d.do = agent[h].then
        BY <1>1, <2>2, <3>4 DEF HandlesInv, Begun, Does
      <3>. QED  BY <1>16, <3>1, <3>2, <3>3, <3>4
    <2>3. \A t \in Tasks \ {"connect"} : Handle(t) = h =>
              \/ op'[t] \notin {"starting", "failing", "pending"}
              \/ op'[t] = "failing" /\ (d.do = "rest" \/ (d.do \in {"shut", "close"} /\ d.then = "rest"))
      BY <2>1, <2>2
    <2>. QED  BY <1>1, <1>16, <2>1, <2>3, AgentHandles
  <1>17. ASSUME NEW h \in Handles, StopAccepts(h)  PROVE HandlesInv' /\ OpInv'
    <2>. DEFINE d == Doing("release", 0, "release")
    <2>1. (\A k \in Handles : agent'[k] = IF k = h THEN d ELSE agent[k]) /\ UNCHANGED op /\ agent[h].do = "stop"
      BY <1>2, <1>17, ActIs DEF StopAccepts, Does
    <2>. HIDE DEF d
    <2>. QED  BY <1>16, <2>1
  <1>18. ASSUME NEW s \in Services, ServiceThread(s)  PROVE HandlesInv' /\ OpInv'
    <2>1. CASE Complete(s)
      <3>. DEFINE o == "done"
                  t == thread[s].task
      <3>1. op' = [op EXCEPT ![t] = o] /\ o \notin {"starting", "pending", "failing"} /\ UNCHANGED agent
        BY <2>1 DEF Complete, socketVars
      <3>2. t \in Tasks
        <4>1. thread[s].at \in {"last", "complete"} /\ thread[s] \in Threads
          BY <1>1, <2>1 DEF Complete, At, ServiceTypeOK
        <4>2. ThreadInv(s, thread[s])
          BY <1>1 DEF ServiceInv, ThreadsInv
        <4>. QED  BY <4>1, <4>2 DEF ThreadInv, Rounds, Threads
      <3>. HIDE DEF o, t
      <3>. QED  BY <1>1, <3>1, <3>2, OpHandles
    <2>. QED  BY <1>3, <1>18, <2>1 DEF ServiceThread, Snapshot, EnterPoll, ReturnPoll, Drain, Visit, Unread, Remove, FinishHalf,
                       FinishClose, FinishShut, StopIfEmpty, socketVars
  <1>19. CASE OwnerSteps /\ UNCHANGED op
    <2>1. CASE UNCHANGED agent
      BY <1>3, <1>19, <2>1
    <2>2. CASE /\ agent'["reader"] = Rest /\ agent'["writer"] = Rest /\ agent'["listener"] = agent["listener"]
      <3>1. /\ agent'[Handle("read")].do = "rest" /\ agent'[Handle("write")].do = "rest"
            /\ agent'[Handle("accept")] = agent[Handle("accept")]
        BY <2>2, HandleIs, DoingFields
      <3>. QED  BY <1>1, <1>19, <3>1, HandleIs DEF HandlesInv, OpInv, Begun, Does
    <2>3. CASE \A k \in Handles : agent'[k] = IF k = "stopper" THEN Rest ELSE agent[k]
      <3>. DEFINE h == "stopper"
                  d == Rest
      <3>1. h \in Handles /\ h = "stopper" /\ \A k \in Handles : agent'[k] = IF k = h THEN d ELSE agent[k]
        BY <2>3, HandleNames
      <3>. HIDE DEF h, d
      <3>. QED  BY <1>16, <1>19, <3>1
    <2>4. ASSUME NEW h \in Handles, agent[h].do = "release",
                 \A k \in Handles : agent'[k] = IF k = h THEN Gone ELSE agent[k]
          PROVE  HandlesInv' /\ OpInv'
      BY <1>16, <1>19, <2>4
    <2>5. ASSUME NEW h \in Handles, NEW d \in Doings,
                 \A k \in Handles : agent'[k] = IF k = h THEN d ELSE agent[k],
                 \/ agent[h].do = "rest" /\ (~InUse(h) \/ h \in {"whole", "controller"})
                 \/ agent[h].do \in {"close", "shut"} /\ d.do = agent[h].then
          PROVE  HandlesInv' /\ OpInv'
      BY <1>16, <1>19, <2>5
    <2>. QED  BY <1>1, <1>19, <2>1, <2>2, <2>3, <2>4, <2>5, OwnerMoves
  <1>20. CASE OwnerSteps /\ UNCHANGED <<serviceVars, peerVars>>
    BY <1>19, <1>20 DEF serviceVars
  <1>. QED  BY <1>7, <1>8, <1>9, <1>10, <1>11, <1>12, <1>14, <1>15, <1>17, <1>18, <1>20, StepCases

(***************************************************************************)
(* Descriptors.                                                            *)
(***************************************************************************)

(* The numbers that stand for a kind of socket stay.                       *)
Kept(o) == \A fd \in Fds : holds'[fd] = o <=> holds[fd] = o

(* A thread that is not closing a descriptor before or after its step.     *)
ClosersStay(t) == \A s \in Services : /\ Closer(s, t)' <=> Closer(s, t)
                                      /\ Closer(s, t) => thread'[s].fd = thread[s].fd

(* The threads that close a descriptor after a thread's own step.          *)
LEMMA ThreadClosers ==
    ASSUME ServiceTypeOK, NEW s \in Services, NEW r, thread' = [thread EXCEPT ![s] = r], thread[s].at # "close",
           NEW t, r.at = "close" => r.task # t
    PROVE  ClosersStay(t)
  <1>1. \A u \in Services : thread'[u] = IF u = s THEN r ELSE thread[u]
    BY DEF ServiceTypeOK
  <1>. QED  BY <1>1 DEF ClosersStay, Closer, At

LEMMA SubmittedClosers ==
    ASSUME ServiceTypeOK, ListsInv, NEW t \in Tasks, op[t] # "pending", NEW fd, Submitted(t, fd), NEW x
    PROVE  ClosersStay(x)
  <1>1. PICK s \in Services : SubmitsTo(s, t)
    BY SubmittedEffect
  <1>2. CASE UNCHANGED thread
    BY <1>2 DEF ClosersStay, Closer, At
  <1>. DEFINE r == Thread("snapshot", <<>>, <<>>, {})
  <1>3. r.at = "snapshot"
    BY FreshThreads
  <1>. HIDE DEF r
  <1>4. CASE thread[s].at = "free" /\ thread' = [thread EXCEPT ![s] = r]
    BY <1>3, <1>4, ThreadClosers
  <1>. QED  BY <1>1, <1>2, <1>4 DEF SubmitsTo, r

(* The thread that visits, or begins to complete, a request.               *)
LEMMA VisitKept ==
    ASSUME NetInv, NEW s \in Services, Visit(s)
    PROVE  Kept("listener") /\ Kept("conn") /\ \A t : ClosersStay(t)
  <1>1. /\ SocketsTypeOK /\ ServiceInv /\ ServiceTypeOK /\ OwnDial /\ holds \in [Fds -> Kinds] /\ csock \in Numbered
        /\ \A t \in Tasks : Waits(t) => req[t].fd # 0
    BY DEF NetInv, ServiceInv, WaitsInv, SocketsTypeOK
  <1>2. PICK t \in Tasks, r \in Threads :
              /\ thread[s].at = "visit" /\ Listed(s, t) /\ req[t].fd \in Fds
              /\ thread' = [thread EXCEPT ![s] = r] /\ r.at \in {"snapshot", "visit", "unread", "remove"}
              /\ UNCHANGED <<holds, req, readOpen, stray>> \/ \E p : Process(t, p)
    BY <1>1, VisitEffect
  <1>3. ASSUME NEW x  PROVE ClosersStay(x)
    <2>1. thread[s].at # "close" /\ r.at # "close"
      BY <1>2
    <2>. QED  BY <1>1, <1>2, <2>1, ThreadClosers
  <1>4. CASE UNCHANGED holds
    BY <1>3, <1>4 DEF Kept
  <1>5. ASSUME NEW p, Process(t, p)  PROVE Kept("listener") /\ Kept("conn")
    <2>1. ProcessHolds(t, p)
      BY <1>1, <1>2, <1>5, ProcessEffect
    <2>2. CASE UNCHANGED holds
      BY <2>2 DEF Kept
    <2>3. CASE \E fd \in Fds : holds[fd] = "free" /\ holds' = [holds EXCEPT ![fd] = "other"]
      BY <1>1, <2>3 DEF Kept
    <2>4. ASSUME t = "connect", NEW fd \in Fds, fd = req[t].fd \/ holds[fd] = "free", NEW o \in {"free", "other", "dial"},
                 holds' = [[holds EXCEPT ![req[t].fd] = "free"] EXCEPT ![fd] = o]
          PROVE  Kept("listener") /\ Kept("conn")
      <3>1. holds[req[t].fd] = "dial"
        BY <1>1, <1>2, <2>4, FdsAssumption DEF OwnDial, Dials
      <3>2. \A k \in Fds : holds'[k] = IF k = fd THEN o ELSE IF k = req[t].fd THEN "free" ELSE holds[k]
        BY <1>1, <1>2, <2>4
      <3>. QED  BY <2>4, <3>1, <3>2 DEF Kept
    <2>. QED  BY <2>1, <2>2, <2>3, <2>4 DEF ProcessHolds
  <1>. QED  BY <1>2, <1>3, <1>4, <1>5

(* The steps of a thread that close nothing.                               *)
LEMMA RoundClosers ==
    ASSUME ServiceInv, NEW s \in Services,
           Snapshot(s) \/ EnterPoll(s) \/ ReturnPoll(s) \/ Drain(s) \/ Unread(s) \/ FinishShut(s) \/ StopIfEmpty(s) \/ Complete(s)
    PROVE  \A t : ClosersStay(t)
  <1>. SUFFICES ASSUME NEW t  PROVE ClosersStay(t)
    OBVIOUS
  <1>1. ServiceTypeOK /\ thread[s] \in Threads
    BY DEF ServiceInv, ServiceTypeOK
  <1>2. \E r : thread' = [thread EXCEPT ![s] = r] /\ r.at # "close"
    <2>1. ASSUME NEW at, at # "close", Step(s, at)
          PROVE  \E r : thread' = [thread EXCEPT ![s] = r] /\ r.at # "close"
      <3>. DEFINE r == [thread[s] EXCEPT !.at = at]
      <3>1. thread' = [thread EXCEPT ![s] = r] /\ r.at = at
        BY <1>1, <2>1 DEF Step, Threads
      <3>. HIDE DEF r
      <3>. QED  BY <2>1, <3>1
    <2>2. CASE Snapshot(s)
      <3>. DEFINE r == Thread("enter", list[s], <<>>, {})
      <3>1. thread' = [thread EXCEPT ![s] = r] /\ r.at = "enter"
        BY <2>2 DEF Snapshot, Thread
      <3>. HIDE DEF r
      <3>. QED  BY <3>1
    <2>3. CASE EnterPoll(s)
      <3>. DEFINE p == [x \in Polls(s) |-> holds[req[x].fd]]
                  r == [thread[s] EXCEPT !.at = "poll", !.polled = p]
      <3>1. thread' = [thread EXCEPT ![s] = r]
        BY <2>3 DEF EnterPoll
      <3>. HIDE DEF p
      <3>2. r.at = "poll"
        BY <1>1 DEF Threads
      <3>. HIDE DEF r
      <3>. QED  BY <3>1, <3>2
    <2>4. CASE ReturnPoll(s)
      <3>1. PICK E : thread' = [thread EXCEPT ![s].at = IF wake[s] THEN "drain" ELSE "visit",
                                                           ![s].polled = <<>>, ![s].events = E]
        BY <2>4 DEF ReturnPoll
      <3>. DEFINE a == IF wake[s] THEN "drain" ELSE "visit"
                  r == [thread[s] EXCEPT !.at = a, !.polled = <<>>, !.events = E]
      <3>2. a # "close" /\ thread' = [thread EXCEPT ![s] = r]
        BY <3>1
      <3>. HIDE DEF a
      <3>3. r.at = a
        BY <1>1 DEF Threads
      <3>. HIDE DEF r
      <3>. QED  BY <3>2, <3>3
    <2>5. CASE Drain(s) \/ Unread(s) \/ FinishShut(s) \/ StopIfEmpty(s)
      <3>1. \E at : at # "close" /\ Step(s, at)
        BY <2>5 DEF Drain, Unread, FinishShut, StopIfEmpty
      <3>. QED  BY <2>1, <3>1
    <2>6. CASE Complete(s)
      BY <2>6, FreshThreads DEF Complete
    <2>. QED  BY <2>2, <2>3, <2>4, <2>5, <2>6
  <1>3. thread[s].at # "close"
    BY DEF Snapshot, EnterPoll, ReturnPoll, Drain, Unread, FinishShut, StopIfEmpty, Complete, At
  <1>. QED  BY <1>1, <1>2, <1>3, ThreadClosers

(* What keeps the ownership of the listener's number.                      *)
LEMMA ListenerFrame ==
    ASSUME OwnListener, SocketsTypeOK, UNCHANGED lsock, Kept("listener"),
           \A h \in ListenerHandles : /\ Closing(h)' <=> Closing(h)
                                      /\ Closing(h) => agent'[h].fd = agent[h].fd
    PROVE  OwnListener'
  <1>1. \A fd \in Fds : holds'[fd] = "listener" <=> holds[fd] = "listener"
    BY DEF Kept
  <1>2. lsock \in Fds \cup {0} /\ "listener" \in ListenerHandles /\ "stopper" \in ListenerHandles
    BY DEF SocketsTypeOK, Numbered, ListenerHandles
  <1>3. lsock' # 0 => holds'[lsock'] = "listener"
    BY <1>1, <1>2 DEF OwnListener
  <1>4. \A h \in ListenerHandles : Closing(h)' => lsock' = 0 /\ agent'[h].fd \in Fds /\ holds'[agent'[h].fd] = "listener"
    BY <1>1 DEF OwnListener
  <1>5. ~(Closing("listener")' /\ Closing("stopper")')
    BY <1>2 DEF OwnListener
  <1>6. \A fd \in Fds : holds'[fd] = "listener" => lsock' = fd \/ \E h \in ListenerHandles : Closing(h)' /\ agent'[h].fd = fd
    BY <1>1 DEF OwnListener
  <1>. QED  BY <1>3, <1>4, <1>5, <1>6 DEF OwnListener

(* Steps that neither the listener nor its handles take part in.           *)
LEMMA ListenerSame ==
    ASSUME OwnListener, SocketsTypeOK, UNCHANGED lsock, Kept("listener"),
           \A h \in ListenerHandles : agent'[h] = agent[h]
    PROVE  OwnListener'
  BY ListenerFrame DEF Closing, Does

LEMMA HandleKinds ==
    /\ \A h \in ListenerHandles : h \in Handles /\ h \notin ConnectionHandles /\ h \in {"listener", "stopper"}
    /\ \A h \in ConnectionHandles : h \in Handles /\ h \notin ListenerHandles /\ h \in {"whole", "reader", "writer", "controller"}
    /\ \A h \in Handles : h \in ListenerHandles \/ h \in ConnectionHandles
    /\ {"listener", "stopper"} \subseteq ListenerHandles /\ {"whole", "reader", "writer", "controller"} \subseteq ConnectionHandles
  BY DEF Handles, ListenerHandles, ConnectionHandles

(* The owners' steps: the listener's descriptor is in the listener or with *)
(* the one that took it.                                                   *)
LEMMA ListenerOwners ==
    ASSUME NetInv, OwnerSteps
    PROVE  OwnListener'
  <1>1. /\ SocketsTypeOK /\ AgentsInv /\ OwnListener /\ OwnConnection /\ agent \in [Handles -> Doings]
        /\ holds \in [Fds -> Kinds] /\ lsock \in Numbered /\ csock \in Numbered
    BY DEF NetInv, SocketsTypeOK
  <1>. USE HandleKinds
  <1>2. ASSUME NEW h \in Handles, NEW d, Act(h, d), UNCHANGED lsock, Kept("listener"),
               h \in ConnectionHandles \/ (~Closing(h) /\ d.do # "close")
        PROVE  OwnListener'
    <2>1. \A k \in Handles : agent'[k] = IF k = h THEN d ELSE agent[k]
      BY <1>1, <1>2, ActIs
    <2>2. \A k \in ListenerHandles : (Closing(k)' <=> Closing(k)) /\ (Closing(k) => agent'[k].fd = agent[k].fd)
      BY <1>2, <2>1 DEF Closing, Does
    <2>. QED  BY <1>1, <1>2, <2>2, ListenerFrame
  <1>3. CASE OtherSockets
    <2>1. Kept("listener")
      BY <1>1, <1>3, OpenedIs DEF OtherSockets, Kept, Kinds
    <2>. QED  BY <1>1, <1>3, <2>1, ListenerSame DEF OtherSockets
  <1>4. ASSUME NEW c \in BOOLEAN, Split(c)  PROVE OwnListener'
    <2>1. \A h \in ListenerHandles : agent'[h] = agent[h]
      BY <1>1, <1>4 DEF Split
    <2>. QED  BY <1>1, <1>4, <2>1, ListenerSame DEF Split, Kept
  <1>5. CASE CloseConnection \/ TakeSocket \/ Abort
    <2>1. UNCHANGED lsock /\ \E h \in ConnectionHandles : \E d : Act(h, d)
      BY <1>5 DEF CloseConnection, TakeSocket, Abort
    <2>2. Kept("listener")
      BY <1>1, <1>5 DEF CloseConnection, TakeSocket, Abort, Kept, OwnConnection, Numbered
    <2>. QED  BY <1>2, <2>1, <2>2
  <1>6. CASE Control
    <2>. DEFINE h == "stopper"
                d == Rest
    <2>1. /\ h \in Handles /\ Act(h, d) /\ UNCHANGED lsock /\ Kept("listener")
          /\ ~Closing(h) /\ d.do # "close"
      BY <1>6, DoingFields DEF Control, Kept, Closing, Does
    <2>. HIDE DEF h, d
    <2>. QED  BY <1>2, <2>1
  <1>7. ASSUME NEW h \in Handles, CloseListener(h)  PROVE OwnListener'
    <2>1. CASE lsock = 0
      <3>. DEFINE d == Doing("release", 0, "release")
      <3>1. Act(h, d) /\ UNCHANGED lsock /\ Kept("listener") /\ ~Closing(h) /\ d.do # "close"
        BY <1>7, <2>1, DoingFields DEF CloseListener, Kept, Closing, Does, Holds
      <3>. HIDE DEF d
      <3>. QED  BY <1>2, <3>1
    <2>2. CASE lsock # 0
      <3>. DEFINE d == Doing("close", lsock, "stop")
      <3>1. Act(h, d) /\ lsock' = 0 /\ UNCHANGED holds /\ h \in ListenerHandles
        BY <1>7, <2>2 DEF CloseListener
      <3>2. d.do = "close" /\ d.fd = lsock
        BY DoingFields
      <3>. HIDE DEF d
      <3>3. \A k \in Handles : agent'[k] = IF k = h THEN d ELSE agent[k]
        BY <1>1, <3>1, ActIs
      <3>4. lsock \in Fds /\ holds[lsock] = "listener" /\ \A k \in ListenerHandles : ~Closing(k)
        BY <1>1, <2>2 DEF OwnListener, Numbered
      <3>. QED  BY <1>1, <3>1, <3>2, <3>3, <3>4 DEF OwnListener, Closing, Does
    <2>. QED  BY <2>1, <2>2
  <1>8. ASSUME NEW h \in Handles, CloseHalf(h)  PROVE OwnListener'
    <2>1. UNCHANGED <<lsock, holds>> /\ h \in ConnectionHandles /\ \E d : Act(h, d)
      BY <1>8 DEF CloseHalf
    <2>. QED  BY <1>2, <2>1 DEF Kept
  <1>9. ASSUME NEW h \in Handles, DropController(h)  PROVE OwnListener'
    <2>. DEFINE d == Doing("release", 0, "release")
    <2>1. Act(h, d) /\ UNCHANGED <<lsock, holds>> /\ ~Closing(h) /\ d.do # "close"
      BY <1>9, DoingFields DEF DropController, Holds, Closing, Does
    <2>. HIDE DEF d
    <2>. QED  BY <1>2, <2>1 DEF Kept
  <1>10. ASSUME NEW h \in Handles, Close(h)  PROVE OwnListener'
    <2>. DEFINE d == Doing(agent[h].then, 0, "release")
    <2>1. Act(h, d) /\ UNCHANGED lsock /\ Closing(h) /\ holds' = [holds EXCEPT ![agent[h].fd] = "free"]
      BY <1>10 DEF Close, Closing
    <2>2. d.do \in {"rest", "stop", "release"}
      BY <1>1, DoingFields DEF Doings
    <2>. HIDE DEF d
    <2>3. CASE h \in ConnectionHandles
      <3>1. Kept("listener")
        BY <1>1, <2>1, <2>3 DEF OwnConnection, Kept
      <3>. QED  BY <1>2, <2>1, <2>3, <3>1
    <2>4. CASE h \in ListenerHandles
      <3>1. \A k \in Handles : agent'[k] = IF k = h THEN d ELSE agent[k]
        BY <1>1, <2>1, ActIs
      <3>2. lsock = 0 /\ agent[h].fd \in Fds /\ \A k \in ListenerHandles : Closing(k) => k = h
        BY <1>1, <2>1, <2>4 DEF OwnListener
      <3>3. \A fd \in Fds : holds'[fd] = IF fd = agent[h].fd THEN "free" ELSE holds[fd]
        BY <1>1, <2>1, <3>2
      <3>4. \A k \in ListenerHandles : ~Closing(k)'
        BY <2>2, <3>1, <3>2 DEF Closing, Does
      <3>5. \A fd \in Fds : holds'[fd] # "listener"
        BY <1>1, <3>2, <3>3, FdsAssumption DEF OwnListener
      <3>. QED  BY <2>1, <3>2, <3>4, <3>5 DEF OwnListener
    <2>. QED  BY <2>3, <2>4
  <1>11. ASSUME NEW h \in Handles, Shutdown(h)  PROVE OwnListener'
    <2>1. h \in ConnectionHandles /\ UNCHANGED <<lsock, holds>> /\ \E d : Act(h, d)
      BY <1>1, <1>11 DEF Shutdown, AgentsInv
    <2>. QED  BY <1>2, <2>1 DEF Kept
  <1>12. ASSUME NEW h \in Handles, ReleaseConnection(h)  PROVE OwnListener'
    <2>1. h \in ConnectionHandles /\ UNCHANGED lsock /\ Act(h, Gone) /\ holds' = Destroyed(crefs, csock)
      BY <1>12 DEF ReleaseConnection
    <2>2. Kept("listener")
      BY <1>1, <2>1 DEF OwnConnection, Kept, Destroyed, Numbered
    <2>. QED  BY <1>2, <2>1, <2>2
  <1>13. ASSUME NEW h \in Handles, ReleaseListener(h)  PROVE OwnListener'
    <2>1. h \in ListenerHandles /\ Act(h, Gone) /\ agent[h].do = "release" /\ Gone.do # "close"
      BY <1>13, DoingFields DEF ReleaseListener, Does
    <2>2. CASE UNCHANGED <<lsock, holds>>
      BY <1>2, <2>1, <2>2 DEF Kept, Closing, Does
    <2>3. CASE lrefs = 1 /\ lsock # 0
      <3>1. lsock' = 0 /\ holds' = [holds EXCEPT ![lsock] = "free"]
        BY <1>13, <2>3 DEF ReleaseListener, Destroyed
      <3>2. lsock \in Fds /\ \A k \in ListenerHandles : ~Closing(k)
        BY <1>1, <2>3 DEF OwnListener, Numbered
      <3>3. \A k \in Handles : agent'[k] = IF k = h THEN Gone ELSE agent[k]
        BY <1>1, <2>1, ActIs
      <3>4. \A k \in ListenerHandles : ~Closing(k)'
        BY <2>1, <3>2, <3>3 DEF Closing, Does
      <3>5. \A fd \in Fds : holds'[fd] # "listener"
        BY <1>1, <3>1, <3>2 DEF OwnListener
      <3>. QED  BY <3>1, <3>4, <3>5 DEF OwnListener
    <2>. QED  BY <1>1, <1>13, <2>2, <2>3 DEF ReleaseListener, Destroyed
  <1>. QED  BY <1>3, <1>4, <1>5, <1>6, <1>7, <1>8, <1>9, <1>10, <1>11, <1>12, <1>13 DEF OwnerSteps

LEMMA ConnectStartKept ==
    ASSUME holds \in [Fds -> Kinds], ConnectStart
    PROVE  Kept("listener") /\ Kept("conn")
  <1>1. CASE UNCHANGED holds
    BY <1>1 DEF Kept
  <1>2. ASSUME NEW d \in Dialled(holds, addresses), holds' = d.table  PROVE Kept("listener") /\ Kept("conn")
    <2>1. CASE d.table = holds
      BY <1>2, <2>1 DEF Kept
    <2>2. ASSUME NEW o \in {"other", "dial"}, Numbers(holds) # {}, d.table = Opened(holds, o)
          PROVE  Kept("listener") /\ Kept("conn")
      <3>1. PICK fd \in Fds : holds[fd] = "free" /\ holds' = [holds EXCEPT ![fd] = o]
        BY <1>2, <2>2, OpenedIs DEF Kinds
      <3>. QED  BY <2>2, <3>1 DEF Kept
    <2>. QED  BY <2>1, <2>2, DialledIs
  <1>. QED  BY <1>1, <1>2 DEF ConnectStart

(* Every step keeps the listener's descriptor with one owner.              *)
LEMMA ListenerStep ==
    ASSUME NetInv, [Next]_vars
    PROVE  OwnListener'
  <1>1. /\ SocketsTypeOK /\ AgentsInv /\ OwnListener /\ OwnConnection /\ OwnDial /\ agent \in [Handles -> Doings]
        /\ holds \in [Fds -> Kinds] /\ lsock \in Numbered
    BY DEF NetInv, SocketsTypeOK
  <1>. USE HandleKinds
  <1>2. CASE UNCHANGED <<lsock, holds, agent>>
    BY <1>1, <1>2, ListenerSame DEF Kept
  <1>3. ASSUME NEW h \in ConnectionHandles, NEW d, Act(h, d), UNCHANGED <<lsock, holds>>  PROVE OwnListener'
    <2>1. \A k \in ListenerHandles : agent'[k] = agent[k]
      BY <1>1, <1>3, ActIs
    <2>. QED  BY <1>1, <1>3, <2>1, ListenerSame DEF Kept
  <1>4. CASE Quiet
    BY <1>2, <1>4 DEF Quiet, Peers, Expires, vars, serviceVars, socketVars
  <1>5. CASE AcceptStart \/ ReadBegin \/ \E t \in Tasks : HalfStart(t) \/ HalfFails(t) \/ Cancel(t)
    BY <1>2, <1>5 DEF AcceptStart, ReadBegin, HalfStart, HalfFails, Cancel, socketVars
  <1>6. CASE ConnectStart
    BY <1>1, <1>6, ConnectStartKept, ListenerSame DEF ConnectStart
  <1>7. CASE ReadBad
    <2>1. \E d : Act("reader", d)
      BY <1>7 DEF ReadBad
    <2>. QED  BY <1>3, <1>7, <2>1 DEF ReadBad
  <1>8. CASE WriteBegin
    <2>1. UNCHANGED agent \/ \E d : Act("writer", d)
      BY <1>8 DEF WriteBegin
    <2>. QED  BY <1>2, <1>3, <1>8, <2>1 DEF WriteBegin
  <1>9. ASSUME NEW h \in Handles, StopAccepts(h)  PROVE OwnListener'
    <2>1. /\ \A k \in Handles : agent'[k] = IF k = h THEN Doing("release", 0, "release") ELSE agent[k]
          /\ UNCHANGED <<lsock, holds>> /\ agent[h].do = "stop"
      BY <1>1, <1>9, ActIs DEF StopAccepts, Does
    <2>2. \A k \in ListenerHandles : (Closing(k)' <=> Closing(k)) /\ (Closing(k) => agent'[k].fd = agent[k].fd)
      BY <2>1, DoingFields DEF Closing, Does
    <2>. QED  BY <1>1, <2>1, <2>2, ListenerFrame DEF Kept
  <1>10. ASSUME NEW s \in Services, ServiceThread(s)  PROVE OwnListener'
    <2>1. CASE Visit(s)
      BY <1>1, <2>1, VisitKept, ListenerSame DEF Visit
    <2>2. CASE FinishClose(s)
      <3>1. thread[s].fd \in Fds /\ holds[thread[s].fd] \in {"conn", "dial"}
        <4>1. ThreadInv(s, thread[s]) /\ thread[s].at = "close"
          BY <2>2 DEF NetInv, ThreadsInv, FinishClose, At
        <4>2. Closer(s, "write") \/ Closer(s, "connect")
          BY <4>1 DEF ThreadInv, Closer, At
        <4>. QED  BY <1>1, <4>2 DEF OwnConnection, OwnDial
      <3>2. Kept("listener")
        BY <1>1, <2>2, <3>1 DEF FinishClose, Kept
      <3>. QED  BY <1>1, <2>2, <3>2, ListenerSame DEF FinishClose
    <2>. QED  BY <1>2, <1>10, <2>1, <2>2 DEF ServiceThread, Snapshot, EnterPoll, ReturnPoll, Drain, Unread, Remove, FinishHalf,
                       FinishShut, StopIfEmpty, Complete, socketVars
  <1>11. CASE OwnerSteps
    BY <1>11, ListenerOwners
  <1>. QED  BY <1>4, <1>5, <1>6, <1>7, <1>8, <1>9, <1>10, <1>11, StepCases

(* What keeps the ownership of the connection's number.                    *)
LEMMA ConnectionFrame ==
    ASSUME OwnConnection, SocketsTypeOK, UNCHANGED csock, Kept("conn"), ClosersStay("write"),
           \A h \in ConnectionHandles : /\ Closing(h)' <=> Closing(h)
                                        /\ Closing(h) => agent'[h].fd = agent[h].fd
    PROVE  OwnConnection'
  <1>1. \A fd \in Fds : holds'[fd] = "conn" <=> holds[fd] = "conn"
    BY DEF Kept
  <1>2. csock \in Fds \cup {0}
    BY DEF SocketsTypeOK, Numbered
  <1>3. \A s \in Services : (Closer(s, "write")' <=> Closer(s, "write")) /\ (Closer(s, "write") => thread'[s].fd = thread[s].fd)
    BY DEF ClosersStay
  <1>4. csock' # 0 => holds'[csock'] = "conn"
    BY <1>1, <1>2 DEF OwnConnection
  <1>5. \A h \in ConnectionHandles : Closing(h)' => csock' = 0 /\ agent'[h].fd \in Fds /\ holds'[agent'[h].fd] = "conn"
    BY <1>1 DEF OwnConnection
  <1>6. \A s \in Services : Closer(s, "write")' => csock' = 0 /\ thread'[s].fd \in Fds /\ holds'[thread'[s].fd] = "conn"
    BY <1>1, <1>3 DEF OwnConnection
  <1>7. \A h, k \in ConnectionHandles : Closing(h)' /\ Closing(k)' => h = k
    BY DEF OwnConnection
  <1>8. \A h \in ConnectionHandles, s \in Services : ~(Closing(h)' /\ Closer(s, "write")')
    BY <1>3 DEF OwnConnection
  <1>9. \A fd \in Fds : holds'[fd] = "conn" =>
          \/ csock' = fd \/ \E h \in ConnectionHandles : Closing(h)' /\ agent'[h].fd = fd
          \/ \E s \in Services : Closer(s, "write")' /\ thread'[s].fd = fd
    BY <1>1, <1>3 DEF OwnConnection
  <1>. QED  BY <1>4, <1>5, <1>6, <1>7, <1>8, <1>9 DEF OwnConnection

LEMMA ConnectionSame ==
    ASSUME OwnConnection, SocketsTypeOK, UNCHANGED csock, Kept("conn"), ClosersStay("write"),
           \A h \in ConnectionHandles : agent'[h] = agent[h]
    PROVE  OwnConnection'
  BY ConnectionFrame DEF Closing, Does

(* A connection without a socket has nothing left to close.                *)
LEMMA NoConnection ==
    ASSUME csock' = 0, \A h \in ConnectionHandles : ~Closing(h)', \A s \in Services : ~Closer(s, "write")',
           \A fd \in Fds : holds'[fd] # "conn"
    PROVE  OwnConnection'
  BY DEF OwnConnection

(* A handle's owner takes the socket to close it.                          *)
LEMMA TakenByHandle ==
    ASSUME OwnConnection, SocketsTypeOK, csock # 0, csock' = 0, UNCHANGED holds, ClosersStay("write"),
           NEW h \in ConnectionHandles, NEW d, \A k \in Handles : agent'[k] = IF k = h THEN d ELSE agent[k],
           d.do = "close", d.fd = csock
    PROVE  OwnConnection'
  <1>1. csock \in Fds /\ holds[csock] = "conn"
    BY DEF SocketsTypeOK, Numbered, OwnConnection
  <1>2. (\A k \in ConnectionHandles : ~Closing(k)) /\ \A s \in Services : ~Closer(s, "write")
    BY DEF OwnConnection
  <1>3. \A s \in Services : ~Closer(s, "write")'
    BY <1>2 DEF ClosersStay
  <1>4. \A k \in ConnectionHandles : Closing(k)' <=> k = h
    BY <1>2, HandleKinds DEF Closing, Does
  <1>5. agent'[h].fd = csock
    BY HandleKinds
  <1>6. \A fd \in Fds : holds[fd] = "conn" => fd = csock
    BY <1>2 DEF OwnConnection
  <1>. QED  BY <1>1, <1>3, <1>4, <1>5, <1>6 DEF OwnConnection

(* ... or the service's thread, for a write that failed.                   *)
LEMMA TakenByThread ==
    ASSUME OwnConnection, SocketsTypeOK, ServiceTypeOK, csock # 0, csock' = 0, UNCHANGED <<holds, agent>>,
           NEW s \in Services, NEW r, thread' = [thread EXCEPT ![s] = r], r.at = "close", r.task = "write", r.fd = csock
    PROVE  OwnConnection'
  <1>1. csock \in Fds /\ holds[csock] = "conn"
    BY DEF SocketsTypeOK, Numbered, OwnConnection
  <1>2. (\A k \in ConnectionHandles : ~Closing(k)) /\ \A u \in Services : ~Closer(u, "write")
    BY DEF OwnConnection
  <1>3. \A k \in ConnectionHandles : ~Closing(k)'
    BY <1>2 DEF Closing, Does
  <1>4. \A u \in Services : thread'[u] = IF u = s THEN r ELSE thread[u]
    BY DEF ServiceTypeOK
  <1>5. \A u \in Services : Closer(u, "write")' <=> u = s
    BY <1>2, <1>4 DEF Closer, At
  <1>6. thread'[s].fd = csock
    BY <1>4
  <1>7. \A fd \in Fds : holds[fd] = "conn" => fd = csock
    BY <1>2 DEF OwnConnection
  <1>. QED  BY <1>1, <1>3, <1>5, <1>6, <1>7 DEF OwnConnection

(* The socket is given away or destroyed with its object.                  *)
LEMMA ConnectionGone ==
    ASSUME OwnConnection, SocketsTypeOK, csock # 0, csock' = 0, ClosersStay("write"),
           NEW o, o # "conn", holds' = [holds EXCEPT ![csock] = o],
           NEW h \in ConnectionHandles, NEW d, Act(h, d), d.do # "close"
    PROVE  OwnConnection'
  <1>1. csock \in Fds /\ holds \in [Fds -> Kinds] /\ agent \in [Handles -> Doings]
    BY DEF SocketsTypeOK, Numbered
  <1>2. (\A k \in ConnectionHandles : ~Closing(k)) /\ \A s \in Services : ~Closer(s, "write")
    BY DEF OwnConnection
  <1>3. \A k \in Handles : agent'[k] = IF k = h THEN d ELSE agent[k]
    BY <1>1, HandleKinds, ActIs
  <1>4. \A k \in ConnectionHandles : ~Closing(k)'
    BY <1>2, <1>3, HandleKinds DEF Closing, Does
  <1>5. \A s \in Services : ~Closer(s, "write")'
    BY <1>2 DEF ClosersStay
  <1>6. \A fd \in Fds : holds'[fd] # "conn"
    BY <1>1, <1>2 DEF OwnConnection
  <1>. QED  BY <1>4, <1>5, <1>6, NoConnection

(* Half of the connection is closed by its owner.                          *)
LEMMA HalfByHandle ==
    ASSUME OwnConnection, SocketsTypeOK, UNCHANGED holds, ClosersStay("write"), NEW h \in ConnectionHandles, ~Closing(h),
           NEW reader \in BOOLEAN, NEW then \in {"rest", "release"}, HalfTaken(reader), Act(h, HalfLeft(reader, then))
    PROVE  OwnConnection'
  <1>. DEFINE d == HalfLeft(reader, then)
  <1>1. agent \in [Handles -> Doings] /\ csock \in Numbered
    BY DEF SocketsTypeOK
  <1>2. \A k \in Handles : agent'[k] = IF k = h THEN d ELSE agent[k]
    BY <1>1, HandleKinds, ActIs
  <1>3. (d.do = "close" <=> LastHalf(reader)) /\ (d.do = "close" => d.fd = csock)
    BY <1>1, HalfLeftIs
  <1>. HIDE DEF d
  <1>4. CASE LastHalf(reader)
    <2>1. csock # 0 /\ csock' = 0
      BY <1>4 DEF LastHalf, HalfTaken
    <2>. QED  BY <1>2, <1>3, <1>4, <2>1, TakenByHandle
  <1>5. CASE ~LastHalf(reader)
    <2>1. csock' = csock
      BY <1>5 DEF HalfTaken
    <2>2. \A k \in ConnectionHandles : (Closing(k)' <=> Closing(k)) /\ (Closing(k) => agent'[k].fd = agent[k].fd)
      BY <1>2, <1>3, <1>5, HandleKinds DEF Closing, Does
    <2>. QED  BY <2>1, <2>2, ConnectionFrame DEF Kept
  <1>. QED  BY <1>4, <1>5

(* The owners' steps: the connection's descriptor is in the connection or  *)
(* with the one that took it.                                              *)
LEMMA ConnectionOwners ==
    ASSUME NetInv, OwnerSteps, UNCHANGED <<serviceVars, peerVars>>
    PROVE  OwnConnection'
  <1>1. /\ SocketsTypeOK /\ AgentsInv /\ OwnListener /\ OwnConnection /\ agent \in [Handles -> Doings]
        /\ holds \in [Fds -> Kinds] /\ lsock \in Numbered /\ csock \in Numbered
    BY DEF NetInv, SocketsTypeOK
  <1>2. ClosersStay("write")
    BY DEF ClosersStay, Closer, At, serviceVars
  <1>. USE HandleKinds
  <1>3. ASSUME NEW h \in Handles, NEW d, Act(h, d), UNCHANGED csock, Kept("conn"),
               h \in ListenerHandles \/ (~Closing(h) /\ d.do # "close")
        PROVE  OwnConnection'
    <2>1. \A k \in Handles : agent'[k] = IF k = h THEN d ELSE agent[k]
      BY <1>1, <1>3, ActIs
    <2>2. \A k \in ConnectionHandles : (Closing(k)' <=> Closing(k)) /\ (Closing(k) => agent'[k].fd = agent[k].fd)
      BY <1>3, <2>1 DEF Closing, Does
    <2>. QED  BY <1>1, <1>2, <1>3, <2>2, ConnectionFrame
  <1>4. CASE OtherSockets
    <2>1. Kept("conn")
      BY <1>1, <1>4, OpenedIs DEF OtherSockets, Kept, Kinds
    <2>. QED  BY <1>1, <1>2, <1>4, <2>1, ConnectionSame DEF OtherSockets
  <1>5. ASSUME NEW c \in BOOLEAN, Split(c)  PROVE OwnConnection'
    <2>1. /\ agent["whole"].do = "rest" /\ agent["reader"].do = "gone" /\ agent["writer"].do = "gone" /\ agent["controller"].do = "gone"
      BY <1>1, <1>5, DoingFields DEF Split, Holds, AgentsInv, Is
    <2>2. /\ agent'["whole"] = Doing("release", 0, "release") /\ agent'["reader"] = Rest /\ agent'["writer"] = Rest
          /\ agent'["controller"] \in {Rest, Gone}
      BY <1>1, <1>5 DEF Split
    <2>3. \A h \in ConnectionHandles : ~Closing(h) /\ ~Closing(h)'
      BY <2>1, <2>2, DoingFields DEF Closing, Does
    <2>. QED  BY <1>1, <1>2, <1>5, <2>3, ConnectionFrame DEF Split, Kept
  <1>6. CASE CloseConnection
    <2>. DEFINE d == Doing("close", csock, "release")
                h == "whole"
    <2>1. Act(h, d) /\ csock' = 0 /\ UNCHANGED holds /\ csock # 0
      BY <1>1, <1>6 DEF CloseConnection, AgentsInv
    <2>2. d.do = "close" /\ d.fd = csock /\ h \in ConnectionHandles /\ h \in Handles
      BY DoingFields
    <2>. HIDE DEF d, h
    <2>3. \A k \in Handles : agent'[k] = IF k = h THEN d ELSE agent[k]
      BY <1>1, <2>1, <2>2, ActIs
    <2>. QED  BY <1>1, <1>2, <2>1, <2>2, <2>3, TakenByHandle
  <1>7. CASE TakeSocket
    <2>. DEFINE d == Doing("release", 0, "release")
                h == "whole"
                o == "other"
    <2>1. /\ Act(h, d) /\ csock' = 0 /\ holds' = [holds EXCEPT ![csock] = o] /\ csock # 0 /\ o # "conn"
          /\ h \in ConnectionHandles /\ d.do # "close"
      BY <1>7, DoingFields DEF TakeSocket
    <2>. HIDE DEF d, h, o
    <2>. QED  BY <1>1, <1>2, <2>1, ConnectionGone
  <1>8. CASE Abort \/ Control
    <2>1. \E h \in Handles : \E d : Act(h, d) /\ (h \in ListenerHandles \/ (~Closing(h) /\ d.do # "close"))
      BY <1>8, DoingFields DEF Abort, Control, Holds, Closing, Does
    <2>2. UNCHANGED <<csock, holds>>
      BY <1>8 DEF Abort, Control
    <2>. QED  BY <1>3, <2>1, <2>2 DEF Kept
  <1>9. ASSUME NEW h \in Handles, CloseListener(h) \/ DropController(h)  PROVE OwnConnection'
    <2>1. \E d : Act(h, d) /\ (h \in ListenerHandles \/ (~Closing(h) /\ d.do # "close"))
      BY <1>9, DoingFields DEF CloseListener, DropController, Holds, Closing, Does
    <2>2. UNCHANGED <<csock, holds>>
      BY <1>9 DEF CloseListener, DropController
    <2>. QED  BY <1>3, <2>1, <2>2 DEF Kept
  <1>10. ASSUME NEW h \in Handles, CloseHalf(h)  PROVE OwnConnection'
    <2>. DEFINE reader == (h = "reader")
                then == "release"
    <2>1. /\ HalfTaken(reader) /\ Act(h, HalfLeft(reader, then)) /\ UNCHANGED holds /\ ~Closing(h) /\ h \in ConnectionHandles
          /\ reader \in BOOLEAN /\ then \in {"rest", "release"}
      BY <1>10 DEF CloseHalf, Holds, Closing, Does
    <2>. HIDE DEF reader, then
    <2>. QED  BY <1>1, <1>2, <2>1, HalfByHandle
  <1>11. ASSUME NEW h \in Handles, Close(h)  PROVE OwnConnection'
    <2>. DEFINE d == Doing(agent[h].then, 0, "release")
    <2>1. Act(h, d) /\ UNCHANGED csock /\ Closing(h) /\ holds' = [holds EXCEPT ![agent[h].fd] = "free"]
      BY <1>11 DEF Close, Closing
    <2>2. d.do \in {"rest", "stop", "release"}
      BY <1>1, DoingFields DEF Doings
    <2>. HIDE DEF d
    <2>3. CASE h \in ListenerHandles
      <3>1. Kept("conn")
        BY <1>1, <2>1, <2>3 DEF OwnListener, Kept
      <3>. QED  BY <1>3, <2>1, <2>3, <3>1
    <2>4. CASE h \in ConnectionHandles
      <3>1. \A k \in Handles : agent'[k] = IF k = h THEN d ELSE agent[k]
        BY <1>1, <2>1, ActIs
      <3>2. /\ csock = 0 /\ agent[h].fd \in Fds /\ (\A k \in ConnectionHandles : Closing(k) => k = h)
            /\ \A s \in Services : ~Closer(s, "write")
        BY <1>1, <2>1, <2>4 DEF OwnConnection
      <3>3. \A k \in ConnectionHandles : ~Closing(k)'
        BY <2>2, <3>1, <3>2 DEF Closing, Does
      <3>4. \A s \in Services : ~Closer(s, "write")'
        BY <1>2, <3>2 DEF ClosersStay
      <3>5. \A fd \in Fds : holds'[fd] # "conn"
        BY <1>1, <2>1, <3>2, FdsAssumption DEF OwnConnection
      <3>. QED  BY <2>1, <3>2, <3>3, <3>4, <3>5, NoConnection
    <2>. QED  BY <2>3, <2>4
  <1>12. ASSUME NEW h \in Handles, Shutdown(h)  PROVE OwnConnection'
    <2>. DEFINE d == Doing(agent[h].then, 0, "release")
    <2>1. Act(h, d) /\ UNCHANGED <<csock, holds>> /\ ~Closing(h)
      BY <1>12 DEF Shutdown, Closing, Does
    <2>2. d.do # "close"
      BY <1>1, DoingFields DEF Doings
    <2>. HIDE DEF d
    <2>. QED  BY <1>3, <2>1, <2>2 DEF Kept
  <1>13. ASSUME NEW h \in Handles, ReleaseListener(h)  PROVE OwnConnection'
    <2>1. h \in ListenerHandles /\ UNCHANGED csock /\ Act(h, Gone) /\ holds' = Destroyed(lrefs, lsock)
      BY <1>13 DEF ReleaseListener
    <2>2. Kept("conn")
      BY <1>1, <2>1 DEF OwnListener, Kept, Destroyed, Numbered
    <2>. QED  BY <1>3, <2>1, <2>2
  <1>14. ASSUME NEW h \in Handles, ReleaseConnection(h)  PROVE OwnConnection'
    <2>1. h \in ConnectionHandles /\ Act(h, Gone) /\ ~Closing(h) /\ Gone.do # "close"
      BY <1>14, DoingFields DEF ReleaseConnection, Closing, Does
    <2>2. CASE UNCHANGED <<csock, holds>>
      BY <1>3, <2>1, <2>2 DEF Kept
    <2>3. CASE crefs = 1 /\ csock # 0
      <3>. DEFINE o == "free"
      <3>1. csock' = 0 /\ holds' = [holds EXCEPT ![csock] = o] /\ o # "conn"
        BY <1>14, <2>3 DEF ReleaseConnection, Destroyed
      <3>. HIDE DEF o
      <3>. QED  BY <1>1, <1>2, <2>1, <2>3, <3>1, ConnectionGone
    <2>. QED  BY <1>1, <1>14, <2>2, <2>3 DEF ReleaseConnection, Destroyed
  <1>. QED  BY <1>4, <1>5, <1>6, <1>7, <1>8, <1>9, <1>10, <1>11, <1>12, <1>13, <1>14 DEF OwnerSteps

(* Every step keeps the connection's descriptor with one owner.            *)
LEMMA ConnectionStep ==
    ASSUME NetInv, [Next]_vars
    PROVE  OwnConnection'
  <1>1. /\ SocketsTypeOK /\ AgentsInv /\ HandlesInv /\ OwnConnection /\ OwnDial /\ agent \in [Handles -> Doings]
        /\ holds \in [Fds -> Kinds] /\ csock \in Numbered /\ ServiceInv /\ ServiceTypeOK /\ ListsInv
    BY DEF NetInv, ServiceInv, SocketsTypeOK
  <1>. USE HandleKinds
  <1>2. CASE UNCHANGED <<csock, holds, agent>> /\ ClosersStay("write")
    BY <1>1, <1>2, ConnectionSame DEF Kept
  <1>3. ASSUME UNCHANGED thread  PROVE ClosersStay("write")
    BY <1>3 DEF ClosersStay, Closer, At
  <1>4. CASE Quiet
    BY <1>2, <1>3, <1>4 DEF Quiet, Peers, Expires, vars, serviceVars, socketVars
  <1>5. ASSUME NEW t \in Tasks, Answered(t)  PROVE ClosersStay("write")
    BY <1>3, <1>5 DEF Answered
  <1>6. ASSUME NEW t \in Tasks, op[t] # "pending", NEW fd, Submitted(t, fd)  PROVE ClosersStay("write")
    BY <1>1, <1>6, SubmittedClosers
  <1>7. "accept" \in Tasks /\ "read" \in Tasks /\ "write" \in Tasks /\ "connect" \in Tasks
    BY DEF Tasks
  <1>8. CASE AcceptStart
    <2>1. /\ op["accept"] # "pending" /\ (Answered("accept") \/ Submitted("accept", lsock)) /\ UNCHANGED <<csock, holds, agent>>
      BY <1>8 DEF AcceptStart, Starts, Refused, socketVars
    <2>. QED  BY <1>2, <1>5, <1>6, <1>7, <2>1
  <1>9. CASE ReadBegin
    <2>1. /\ op["read"] # "pending" /\ (Answered("read") \/ Submitted("read", req["read"].fd)) /\ UNCHANGED <<csock, holds, agent>>
      BY <1>9 DEF ReadBegin, Refused, socketVars
    <2>. QED  BY <1>2, <1>5, <1>6, <1>7, <2>1
  <1>10. CASE ConnectStart
    <2>1. /\ op["connect"] # "pending" /\ (Answered("connect") \/ Submitted("connect", Min(Numbers(holds)))) /\ UNCHANGED <<csock, agent>>
      BY <1>10 DEF ConnectStart, Starts, Refused
    <2>2. ClosersStay("write")
      BY <1>5, <1>6, <1>7, <2>1
    <2>. QED  BY <1>1, <1>10, <2>1, <2>2, ConnectStartKept, ConnectionSame
  <1>11. CASE \E t \in Tasks : HalfStart(t) \/ HalfFails(t) \/ Cancel(t)
    BY <1>2, <1>3, <1>11 DEF HalfStart, HalfFails, Cancel, socketVars, Answered
  <1>12. CASE ReadBad
    <2>. DEFINE d == IF readOpen THEN Doing("shut", csock, "rest") ELSE Rest
    <2>1. Act("reader", d) /\ UNCHANGED <<csock, holds, thread>> /\ agent["reader"] = Rest
      BY <1>1, <1>12, InUseFacts DEF ReadBad
    <2>2. d.do # "close" /\ Rest.do # "close"
      BY DoingFields
    <2>. HIDE DEF d
    <2>3. \A k \in Handles : agent'[k] = IF k = "reader" THEN d ELSE agent[k]
      BY <1>1, <2>1, ActIs
    <2>4. \A k \in ConnectionHandles : (Closing(k)' <=> Closing(k)) /\ (Closing(k) => agent'[k].fd = agent[k].fd)
      BY <2>1, <2>2, <2>3 DEF Closing, Does
    <2>. QED  BY <1>1, <1>3, <2>1, <2>4, ConnectionFrame DEF Kept
  <1>13. CASE WriteBegin
    <2>1. op["write"] # "pending" /\ ~Closing("writer") /\ UNCHANGED holds
      BY <1>1, <1>13, InUseFacts, DoingFields DEF WriteBegin, Closing, Does
    <2>2. \/ (Answered("write") \/ Submitted("write", req["write"].fd)) /\ UNCHANGED <<csock, agent>>
          \/ HalfTaken(FALSE) /\ Act("writer", HalfLeft(FALSE, "rest")) /\ UNCHANGED thread
      BY <1>13 DEF WriteBegin
    <2>3. CASE (Answered("write") \/ Submitted("write", req["write"].fd)) /\ UNCHANGED <<csock, agent>>
      BY <1>2, <1>5, <1>6, <1>7, <2>1, <2>3
    <2>4. CASE HalfTaken(FALSE) /\ Act("writer", HalfLeft(FALSE, "rest")) /\ UNCHANGED thread
      <3>. DEFINE h == "writer"
                  reader == FALSE
                  then == "rest"
      <3>1. /\ HalfTaken(reader) /\ Act(h, HalfLeft(reader, then)) /\ ~Closing(h) /\ h \in ConnectionHandles
            /\ reader \in BOOLEAN /\ then \in {"rest", "release"}
        BY <2>1, <2>4
      <3>. HIDE DEF h, reader, then
      <3>. QED  BY <1>1, <1>3, <2>1, <2>4, <3>1, HalfByHandle
    <2>. QED  BY <2>2, <2>3, <2>4
  <1>14. ASSUME NEW h \in Handles, StopAccepts(h)  PROVE OwnConnection'
    <2>1. /\ \A k \in Handles : agent'[k] = IF k = h THEN Doing("release", 0, "release") ELSE agent[k]
          /\ UNCHANGED <<csock, holds, thread>> /\ agent[h].do = "stop"
      BY <1>1, <1>14, ActIs DEF StopAccepts, Does
    <2>2. \A k \in ConnectionHandles : (Closing(k)' <=> Closing(k)) /\ (Closing(k) => agent'[k].fd = agent[k].fd)
      BY <2>1, DoingFields DEF Closing, Does
    <2>. QED  BY <1>1, <1>3, <2>1, <2>2, ConnectionFrame DEF Kept
  <1>15. ASSUME NEW s \in Services, ServiceThread(s)  PROVE OwnConnection'
    <2>1. CASE Visit(s)
      BY <1>1, <2>1, VisitKept, ConnectionSame DEF Visit
    <2>2. CASE Snapshot(s) \/ EnterPoll(s) \/ ReturnPoll(s) \/ Drain(s) \/ Unread(s) \/ FinishShut(s) \/ StopIfEmpty(s) \/ Complete(s)
      <3>1. UNCHANGED <<csock, holds, agent>>
        BY <2>2 DEF Snapshot, EnterPoll, ReturnPoll, Drain, Unread, FinishShut, StopIfEmpty, Complete, socketVars
      <3>. QED  BY <1>1, <1>2, <2>2, <3>1, RoundClosers
    <2>3. CASE Remove(s)
      <3>1. PICK t, r : RemovesFrom(s, t, r)
        BY <1>1, <2>3, RemoveEffect
      <3>2. /\ thread[s].at # "close" /\ thread' = [thread EXCEPT ![s] = r] /\ (r.at = "close" => r.task # "write")
        BY <3>1 DEF RemovesFrom
      <3>3. ClosersStay("write")
        <4>. DEFINE w == "write"
        <4>1. r.at = "close" => r.task # w
          BY <3>2
        <4>. HIDE DEF w
        <4>2. ClosersStay(w)
          BY <1>1, <3>2, <4>1, ThreadClosers
        <4>. QED  BY <4>2 DEF w
      <3>. QED  BY <1>2, <2>3, <3>3 DEF Remove, socketVars
    <2>4. CASE FinishHalf(s)
      <3>. DEFINE left == HalfLeft(FALSE, "stop")
                  r == [thread[s] EXCEPT !.at = left.do, !.fd = left.fd]
      <3>1. thread[s] \in Threads /\ thread[s].at = "half" /\ thread[s].task = "write"
        BY <1>1, <2>4 DEF FinishHalf, At, ServiceInv, ServiceTypeOK, ThreadsInv, ThreadInv
      <3>2. thread' = [thread EXCEPT ![s] = r] /\ UNCHANGED <<holds, agent>> /\ HalfTaken(FALSE)
        BY <2>4 DEF FinishHalf
      <3>3. (left.do = "close" <=> LastHalf(FALSE)) /\ (left.do = "close" => left.fd = csock)
        BY <1>1, HalfLeftIs
      <3>. HIDE DEF left
      <3>4. r.at = left.do /\ r.fd = left.fd /\ r.task = "write"
        BY <3>1 DEF Threads
      <3>. HIDE DEF r
      <3>5. CASE LastHalf(FALSE)
        <4>1. csock # 0 /\ csock' = 0
          BY <3>2, <3>5 DEF LastHalf, HalfTaken
        <4>. QED  BY <1>1, <3>2, <3>3, <3>4, <3>5, <4>1, TakenByThread
      <3>6. CASE ~LastHalf(FALSE)
        <4>1. UNCHANGED csock
          BY <3>2, <3>6 DEF HalfTaken
        <4>2. \A w : ClosersStay(w)
          BY <1>1, <3>1, <3>2, <3>3, <3>4, <3>6, ThreadClosers
        <4>. QED  BY <1>2, <3>2, <4>1, <4>2
      <3>. QED  BY <3>5, <3>6
    <2>5. CASE FinishClose(s)
      <3>1. PICK r \in Threads : thread' = [thread EXCEPT ![s] = r] /\ r.at = "stop" /\ r.task = thread[s].task
        <4>1. "stop" \in Places /\ Step(s, "stop")
          BY <2>5 DEF Places, Endings, FinishClose
        <4>. QED  BY <1>1, <4>1, StepIs
      <3>2. \A u \in Services : thread'[u] = IF u = s THEN r ELSE thread[u]
        BY <1>1, <3>1 DEF ServiceTypeOK
      <3>3. ThreadInv(s, thread[s]) /\ thread[s].at = "close"
        BY <1>1, <2>5 DEF ServiceInv, ThreadsInv, FinishClose, At
      <3>4. UNCHANGED <<csock, agent>> /\ holds' = [holds EXCEPT ![thread[s].fd] = "free"]
        BY <2>5 DEF FinishClose
      <3>5. CASE thread[s].task = "connect"
        <4>1. Closer(s, "connect")
          BY <3>3, <3>5 DEF Closer, At
        <4>2. thread[s].fd \in Fds /\ holds[thread[s].fd] = "dial"
          BY <1>1, <4>1 DEF OwnDial
        <4>3. Kept("conn")
          BY <1>1, <3>4, <4>2 DEF Kept
        <4>4. ClosersStay("write")
          BY <3>1, <3>2, <3>3, <3>5 DEF ClosersStay, Closer, At
        <4>. QED  BY <1>1, <3>4, <4>3, <4>4, ConnectionSame
      <3>6. CASE thread[s].task = "write"
        <4>1. Closer(s, "write") /\ "write" \in Tasks
          BY <3>3, <3>6 DEF Closer, At, Tasks
        <4>2. /\ csock = 0 /\ thread[s].fd \in Fds /\ \A h \in ConnectionHandles : ~Closing(h)
          BY <1>1, <4>1 DEF OwnConnection
        <4>3. \A u \in Services : Closer(u, "write") => u = s
          <5>1. \A u \in Services : Closer(u, "write") => Ends(u, "write")
            BY DEF Closer, At, Ends, Endings
          <5>. QED  BY <1>1, <4>1, <5>1 DEF ServiceInv, EndingsInv
        <4>4. \A u \in Services : ~Closer(u, "write")'
          BY <3>1, <3>2, <4>3 DEF Closer, At
        <4>5. \A h \in ConnectionHandles : ~Closing(h)'
          BY <3>4, <4>2 DEF Closing, Does
        <4>6. \A fd \in Fds : holds'[fd] # "conn"
          BY <1>1, <3>4, <4>2, <4>3, FdsAssumption DEF OwnConnection
        <4>. QED  BY <3>4, <4>2, <4>4, <4>5, <4>6, NoConnection
      <3>. QED  BY <3>3, <3>5, <3>6 DEF ThreadInv
    <2>. QED  BY <1>15, <2>1, <2>2, <2>3, <2>4, <2>5 DEF ServiceThread
  <1>16. CASE OwnerSteps /\ UNCHANGED <<serviceVars, peerVars>>
    BY <1>16, ConnectionOwners
  <1>. QED  BY <1>4, <1>8, <1>9, <1>10, <1>11, <1>12, <1>13, <1>14, <1>15, <1>16, StepCases

(* What keeps the ownership of the number a connect waits on.              *)
LEMMA DialFrame ==
    ASSUME OwnDial, ServiceTypeOK, Dials' <=> Dials, Dials => req'["connect"].fd = req["connect"].fd,
           ClosersStay("connect"), Kept("dial")
    PROVE  OwnDial'
  <1>1. \A fd \in Fds : holds'[fd] = "dial" <=> holds[fd] = "dial"
    BY DEF Kept
  <1>2. \A s \in Services : (Closer(s, "connect")' <=> Closer(s, "connect")) /\ (Closer(s, "connect") => thread'[s].fd = thread[s].fd)
    BY DEF ClosersStay
  <1>3. req["connect"].fd \in Fds \cup {0}
    BY DEF ServiceTypeOK, Requests, Numbered, Tasks
  <1>4. Dials' /\ req'["connect"].fd # 0 => holds'[req'["connect"].fd] = "dial"
    BY <1>1, <1>3 DEF OwnDial
  <1>5. \A s \in Services : Closer(s, "connect")' => thread'[s].fd \in Fds /\ holds'[thread'[s].fd] = "dial"
    BY <1>1, <1>2 DEF OwnDial
  <1>6. \A fd \in Fds : holds'[fd] = "dial" =>
          \/ Dials' /\ req'["connect"].fd = fd
          \/ \E s \in Services : Closer(s, "connect")' /\ thread'[s].fd = fd
    BY <1>1, <1>2 DEF OwnDial
  <1>. QED  BY <1>4, <1>5, <1>6 DEF OwnDial

LEMMA DialSame ==
    ASSUME OwnDial, ServiceTypeOK, UNCHANGED <<list, thread>>, Dials => req'["connect"].fd = req["connect"].fd, Kept("dial")
    PROVE  OwnDial'
  <1>1. Dials' <=> Dials
    BY DEF Dials, Listed
  <1>2. ClosersStay("connect")
    BY DEF ClosersStay, Closer, At
  <1>. QED  BY <1>1, <1>2, DialFrame

(* While the connect is not pending, nobody holds a socket for it.         *)
LEMMA NotDialling ==
    ASSUME ServiceInv
    PROVE  /\ op["connect"] # "pending" => ~Dials /\ \A s \in Services : ~Closer(s, "connect")
           /\ \A s \in Services : Closer(s, "connect") => ~Dials /\ \A u \in Services : Closer(u, "connect") => u = s
  <1>1. "connect" \in Tasks /\ \A s \in Services : Closer(s, "connect") => Ends(s, "connect")
    BY DEF Closer, At, Ends, Endings, Tasks
  <1>2. ListsInv /\ EndingsInv
    BY DEF ServiceInv
  <1>3. op["connect"] # "pending" => ~Dials
    BY <1>1, <1>2 DEF ListsInv, Dials
  <1>4. op["connect"] # "pending" => \A s \in Services : ~Closer(s, "connect")
    BY <1>1, <1>2 DEF EndingsInv
  <1>5. \A s \in Services : Closer(s, "connect") => ~Dials
    BY <1>1, <1>2 DEF EndingsInv, Dials
  <1>6. \A s, u \in Services : Closer(s, "connect") /\ Closer(u, "connect") => u = s
    BY <1>1, <1>2 DEF EndingsInv
  <1>. QED  BY <1>3, <1>4, <1>5, <1>6

LEMMA AnsweredDial ==
    ASSUME OwnDial, ServiceInv, NEW t \in Tasks, op[t] # "pending", Answered(t), Kept("dial")
    PROVE  OwnDial'
  <1>1. ServiceTypeOK
    BY DEF ServiceInv
  <1>2. Dials => t # "connect"
    BY NotDialling
  <1>3. t # "connect" => req'["connect"] = req["connect"]
    BY <1>1 DEF Answered, ServiceTypeOK, Tasks
  <1>. QED  BY <1>1, <1>2, <1>3, DialSame DEF Answered

LEMMA SubmittedDial ==
    ASSUME OwnDial, ServiceInv, NEW t \in Tasks \ {"connect"}, op[t] # "pending", NEW fd, Submitted(t, fd), Kept("dial")
    PROVE  OwnDial'
  <1>1. ServiceTypeOK /\ ListsInv
    BY DEF ServiceInv
  <1>2. PICK s \in Services : SubmitsTo(s, t)
    BY <1>1, SubmittedEffect
  <1>3. Dials' <=> Dials
    BY <1>2 DEF SubmitsTo, Dials, Tasks
  <1>4. ClosersStay("connect")
    BY <1>1, SubmittedClosers
  <1>5. req'["connect"] = req["connect"]
    BY <1>1 DEF Submitted, ServiceTypeOK, Tasks
  <1>. QED  BY <1>1, <1>3, <1>4, <1>5, DialFrame

(* fdn_net_connect_start.                                                  *)
LEMMA ConnectStartDial ==
    ASSUME OwnDial, ServiceInv, holds \in [Fds -> Kinds], ConnectStart
    PROVE  OwnDial'
  <1>1. ServiceTypeOK /\ ListsInv /\ op["connect"] # "pending" /\ "connect" \in Tasks
    BY DEF ServiceInv, ConnectStart, Starts, Tasks
  <1>2. CASE Answered("connect") /\ UNCHANGED holds
    BY <1>1, <1>2, AnsweredDial DEF Kept
  <1>3. ASSUME NEW d \in Dialled(holds, addresses), d.r # "pending", Answered("connect"), holds' = d.table
        PROVE  OwnDial'
    <2>1. d.table = holds \/ (Numbers(holds) # {} /\ d.table = Opened(holds, "other"))
      BY <1>3, DialledIs
    <2>2. Kept("dial")
      <3>1. CASE d.table = holds
        BY <1>3, <3>1 DEF Kept
      <3>2. CASE Numbers(holds) # {} /\ d.table = Opened(holds, "other")
        <4>1. PICK fd \in Fds : holds[fd] = "free" /\ holds' = [holds EXCEPT ![fd] = "other"]
          BY <1>3, <3>2, OpenedIs DEF Kinds
        <4>. QED  BY <4>1 DEF Kept
      <3>. QED  BY <2>1, <3>1, <3>2
    <2>. QED  BY <1>1, <1>3, <2>2, AnsweredDial
  <1>4. ASSUME NEW d \in Dialled(holds, addresses), d.r = "pending", Submitted("connect", Min(Numbers(holds))), holds' = d.table
        PROVE  OwnDial'
    <2>1. Numbers(holds) # {} /\ d.table = Opened(holds, "dial")
      BY <1>4, DialledIs
    <2>2. PICK fd \in Fds : /\ fd = Min(Numbers(holds)) /\ holds[fd] = "free" /\ fd # 0
                            /\ holds' = [holds EXCEPT ![fd] = "dial"]
      BY <1>4, <2>1, OpenedIs DEF Kinds
    <2>3. Submitted("connect", fd)
      BY <1>4, <2>2
    <2>4. ~Dials /\ \A s \in Services : ~Closer(s, "connect")
      BY <1>1, NotDialling
    <2>5. \A k \in Fds : holds[k] # "dial"
      BY <2>4 DEF OwnDial
    <2>6. PICK s \in Services : SubmitsTo(s, "connect")
      BY <1>1, <2>3, SubmittedEffect
    <2>7. Dials'
      BY <1>1, <2>6 DEF SubmitsTo, Dials
    <2>8. \A u \in Services : ~Closer(u, "connect")'
      <3>1. ClosersStay("connect")
        BY <1>1, <2>3, SubmittedClosers
      <3>. QED  BY <2>4, <3>1 DEF ClosersStay
    <2>9. req'["connect"].fd = fd
      <3>1. req'["connect"] = Request(fd)
        BY <1>1, <2>3 DEF Submitted, ServiceTypeOK
      <3>. QED  BY <3>1 DEF Request
    <2>10. holds'[fd] = "dial" /\ \A k \in Fds : holds'[k] = "dial" => k = fd
      BY <2>2, <2>5
    <2>. QED  BY <2>7, <2>8, <2>9, <2>10 DEF OwnDial
  <1>. QED  BY <1>2, <1>3, <1>4 DEF ConnectStart, Refused

(* The thread looks at the connect it waits for.                           *)
LEMMA VisitDial ==
    ASSUME NetInv, NEW s \in Services, Visit(s)
    PROVE  OwnDial'
  <1>1. /\ SocketsTypeOK /\ ServiceInv /\ ServiceTypeOK /\ OwnDial /\ holds \in [Fds -> Kinds] /\ csock \in Numbered
        /\ \A t \in Tasks : Waits(t) => req[t].fd # 0
    BY DEF NetInv, ServiceInv, WaitsInv, SocketsTypeOK
  <1>2. PICK t \in Tasks : /\ Listed(s, t) /\ req[t].fd \in Fds
                           /\ UNCHANGED <<holds, req, readOpen, stray>> \/ \E p : Process(t, p)
    BY <1>1, VisitEffect
  <1>3. ClosersStay("connect")
    BY VisitKept
  <1>4. Dials' <=> Dials
    BY DEF Visit, Dials, Listed
  <1>5. CASE UNCHANGED req /\ Kept("dial")
    BY <1>1, <1>3, <1>4, <1>5, DialFrame
  <1>6. ASSUME NEW p, Process(t, p)  PROVE OwnDial'
    <2>1. ProcessHolds(t, p)
      BY <1>1, <1>2, <1>6, ProcessEffect
    <2>2. CASE UNCHANGED <<holds, req>>
      BY <1>5, <2>2 DEF Kept
    <2>3. CASE UNCHANGED req /\ \E fd \in Fds : holds[fd] = "free" /\ holds' = [holds EXCEPT ![fd] = "other"]
      <3>1. Kept("dial")
        BY <1>1, <2>3 DEF Kept
      <3>. QED  BY <1>5, <2>3, <3>1
    <2>4. ASSUME t = "connect", NEW fd \in Fds, fd = req[t].fd \/ holds[fd] = "free", NEW o \in {"free", "other", "dial"},
                 holds' = [[holds EXCEPT ![req[t].fd] = "free"] EXCEPT ![fd] = o], NEW n, req' = [req EXCEPT ![t].fd = n],
                 n = IF o = "dial" THEN fd ELSE 0
          PROVE  OwnDial'
      <3>1. Dials /\ Dials' /\ \A u \in Services : ~Closer(u, "connect") /\ ~Closer(u, "connect")'
        BY <1>1, <1>2, <1>3, <1>4, <2>4, NotDialling DEF Dials, ClosersStay
      <3>2. \A k \in Fds : holds'[k] = IF k = fd THEN o ELSE IF k = req[t].fd THEN "free" ELSE holds[k]
        BY <1>1, <1>2, <2>4
      <3>3. \A k \in Fds : holds[k] = "dial" => k = req[t].fd
        BY <1>1, <2>4, <3>1 DEF OwnDial
      <3>4. req'["connect"].fd = n
        BY <1>1, <2>4 DEF ServiceTypeOK, Requests
      <3>5. \A k \in Fds : holds'[k] = "dial" => k = fd /\ o = "dial"
        BY <2>4, <3>2, <3>3
      <3>6. n # 0 => n = fd /\ o = "dial" /\ holds'[fd] = "dial"
        BY <2>4, <3>2
      <3>7. o = "dial" => n = fd
        BY <2>4
      <3>8. req'["connect"].fd # 0 => holds'[req'["connect"].fd] = "dial"
        BY <3>4, <3>6
      <3>9. \A k \in Fds : holds'[k] = "dial" => req'["connect"].fd = k
        BY <3>4, <3>5, <3>7
      <3>. QED  BY <3>1, <3>8, <3>9 DEF OwnDial
    <2>5. CASE t = "connect" /\ p \in {"ok", "failed"} /\ req' = [req EXCEPT ![t].fd = 0]
      BY <2>1, <2>2, <2>4, <2>5 DEF ProcessHolds
    <2>6. CASE /\ t = "connect" /\ p = "pending"
               /\ \E fd \in Fds :
                     /\ fd = req[t].fd \/ holds[fd] = "free"
                     /\ holds' = [[holds EXCEPT ![req[t].fd] = "free"] EXCEPT ![fd] = "dial"]
                     /\ req' = [req EXCEPT ![t].fd = fd]
      BY <2>4, <2>6
    <2>. QED  BY <2>1, <2>2, <2>3, <2>5, <2>6 DEF ProcessHolds
  <1>. QED  BY <1>2, <1>5, <1>6 DEF Kept

(* A connect that leaves the list with a socket goes to close it.          *)
LEMMA RemoveDial ==
    ASSUME ServiceInv, OwnDial, NEW s \in Services, Remove(s)
    PROVE  OwnDial'
  <1>1. ServiceTypeOK /\ ListsInv
    BY DEF ServiceInv
  <1>2. PICK t, r : RemovesFrom(s, t, r)
    BY RemoveEffect
  <1>3. UNCHANGED <<holds, req>>
    BY DEF Remove, socketVars
  <1>4. /\ t \in Tasks /\ thread[s].at = "remove" /\ Listed(s, t) /\ thread' = [thread EXCEPT ![s] = r] /\ r.task = t
        /\ (r.at = "close" <=> t = "connect" /\ req[t].fd # 0) /\ r.fd = req[t].fd
        /\ \A u \in Services, x \in Tasks : Listed(u, x)' <=> Listed(u, x) /\ ~(u = s /\ x = t)
    BY <1>2 DEF RemovesFrom
  <1>5. \A u \in Services : thread'[u] = IF u = s THEN r ELSE thread[u]
    BY <1>1, <1>4 DEF ServiceTypeOK
  <1>6. CASE t # "connect"
    <2>1. Dials' <=> Dials
      BY <1>4, <1>6 DEF Dials, Tasks
    <2>2. ClosersStay("connect")
      BY <1>4, <1>5, <1>6 DEF ClosersStay, Closer, At
    <2>. QED  BY <1>1, <1>3, <2>1, <2>2, DialFrame DEF Kept
  <1>7. CASE t = "connect"
    <2>1. Dials /\ \A u \in Services : ~Closer(u, "connect")
      BY <1>4, <1>7, NotDialling DEF Dials
    <2>2. \A u \in Services : Listed(u, t) => u = s
      BY <1>1, <1>4 DEF ListsInv
    <2>3. ~Dials'
      BY <1>4, <1>7, <2>2 DEF Dials
    <2>4. \A u \in Services : Closer(u, "connect")' <=> u = s /\ req["connect"].fd # 0
      BY <1>4, <1>5, <1>7, <2>1 DEF Closer, At
    <2>5. thread'[s].fd = req["connect"].fd /\ req["connect"].fd \in Fds \cup {0}
      BY <1>1, <1>4, <1>5, <1>7 DEF ServiceTypeOK, Requests, Numbered
    <2>6. \A u \in Services : Closer(u, "connect")' => thread'[u].fd \in Fds /\ holds'[thread'[u].fd] = "dial"
      BY <1>3, <2>1, <2>4, <2>5 DEF OwnDial
    <2>7. \A fd \in Fds : holds'[fd] = "dial" => \E u \in Services : Closer(u, "connect")' /\ thread'[u].fd = fd
      BY <1>3, <2>1, <2>4, <2>5, FdsAssumption DEF OwnDial
    <2>. QED  BY <2>3, <2>6, <2>7 DEF OwnDial
  <1>. QED  BY <1>6, <1>7

LEMMA FinishCloseDial ==
    ASSUME NetInv, NEW s \in Services, FinishClose(s)
    PROVE  OwnDial'
  <1>1. ServiceTypeOK /\ ServiceInv /\ OwnDial /\ OwnConnection /\ holds \in [Fds -> Kinds]
    BY DEF NetInv, ServiceInv, SocketsTypeOK
  <1>2. PICK r \in Threads : thread' = [thread EXCEPT ![s] = r] /\ r.at = "stop" /\ r.task = thread[s].task
    <2>1. "stop" \in Places /\ Step(s, "stop")
      BY DEF Places, Endings, FinishClose
    <2>. QED  BY <1>1, <2>1, StepIs
  <1>3. \A u \in Services : thread'[u] = IF u = s THEN r ELSE thread[u]
    BY <1>1, <1>2 DEF ServiceTypeOK
  <1>4. ThreadInv(s, thread[s]) /\ thread[s].at = "close"
    BY <1>1 DEF ServiceInv, ThreadsInv, FinishClose, At
  <1>5. UNCHANGED <<list, req>> /\ holds' = [holds EXCEPT ![thread[s].fd] = "free"]
    BY DEF FinishClose
  <1>6. Dials' <=> Dials
    BY <1>5 DEF Dials, Listed
  <1>7. CASE thread[s].task = "connect"
    <2>1. Closer(s, "connect")
      BY <1>4, <1>7 DEF Closer, At
    <2>2. ~Dials /\ \A u \in Services : Closer(u, "connect") => u = s
      BY <1>1, <2>1, NotDialling
    <2>3. \A u \in Services : ~Closer(u, "connect")'
      BY <1>2, <1>3, <2>2 DEF Closer, At
    <2>4. \A fd \in Fds : holds'[fd] # "dial"
      BY <1>1, <1>5, <2>1, <2>2 DEF OwnDial
    <2>. QED  BY <1>6, <2>2, <2>3, <2>4 DEF OwnDial
  <1>8. CASE thread[s].task = "write"
    <2>1. Closer(s, "write")
      BY <1>4, <1>8 DEF Closer, At
    <2>2. thread[s].fd \in Fds /\ holds[thread[s].fd] = "conn"
      BY <1>1, <2>1 DEF OwnConnection
    <2>3. Kept("dial")
      BY <1>1, <1>5, <2>2 DEF Kept
    <2>4. ClosersStay("connect")
      BY <1>2, <1>3, <1>4, <1>8 DEF ClosersStay, Closer, At
    <2>. QED  BY <1>1, <1>5, <1>6, <2>3, <2>4, DialFrame
  <1>. QED  BY <1>4, <1>7, <1>8 DEF ThreadInv

(* What the owners of the handles do to the table.                         *)
LEMMA OwnersKeepDials ==
    ASSUME NetInv, OwnerSteps
    PROVE  Kept("dial")
  <1>1. /\ OwnListener /\ OwnConnection /\ agent \in [Handles -> Doings]
        /\ holds \in [Fds -> Kinds] /\ lsock \in Numbered /\ csock \in Numbered
    BY DEF NetInv, SocketsTypeOK
  <1>2. CASE UNCHANGED holds
    BY <1>2 DEF Kept
  <1>3. CASE OtherSockets
    BY <1>1, <1>3, OpenedIs DEF OtherSockets, Kept, Kinds
  <1>4. CASE TakeSocket
    BY <1>1, <1>4 DEF TakeSocket, OwnConnection, Kept, Numbered
  <1>5. ASSUME NEW h \in Handles, Close(h)  PROVE Kept("dial")
    <2>1. agent[h].fd \in Fds /\ holds[agent[h].fd] \in {"listener", "conn"}
      BY <1>1, <1>5, HandleKinds DEF Close, OwnListener, OwnConnection, Closing
    <2>. QED  BY <1>1, <1>5, <2>1 DEF Close, Kept
  <1>6. ASSUME NEW h \in Handles, ReleaseListener(h) \/ ReleaseConnection(h)  PROVE Kept("dial")
    <2>1. /\ (lsock # 0 => lsock \in Fds /\ holds[lsock] = "listener") /\ (csock # 0 => csock \in Fds /\ holds[csock] = "conn")
      BY <1>1 DEF OwnListener, OwnConnection, Numbered
    <2>. QED  BY <1>1, <1>6, <2>1 DEF ReleaseListener, ReleaseConnection, Destroyed, Kept
  <1>. QED  BY <1>2, <1>3, <1>4, <1>5, <1>6 DEF OwnerSteps, Split, CloseConnection, Abort, Control, CloseListener, CloseHalf,
                                                 DropController, Shutdown

(* Every step keeps the socket of a connect with the connect or with the   *)
(* thread that closes it.                                                  *)
LEMMA DialStep ==
    ASSUME NetInv, [Next]_vars
    PROVE  OwnDial'
  <1>1. /\ SocketsTypeOK /\ OwnDial /\ holds \in [Fds -> Kinds] /\ csock \in Numbered /\ ServiceInv /\ ServiceTypeOK /\ ListsInv
        /\ HandlesInv
    BY DEF NetInv, ServiceInv, SocketsTypeOK
  <1>2. CASE UNCHANGED <<list, thread, req, holds>>
    BY <1>1, <1>2, DialSame DEF Kept
  <1>3. "accept" \in Tasks /\ "read" \in Tasks /\ "write" \in Tasks /\ "connect" \in Tasks
    BY DEF Tasks
  <1>4. ASSUME NEW t \in Tasks, op[t] # "pending", Answered(t), UNCHANGED holds  PROVE OwnDial'
    BY <1>1, <1>4, AnsweredDial DEF Kept
  <1>5. ASSUME NEW t \in Tasks \ {"connect"}, op[t] # "pending", NEW fd, Submitted(t, fd), UNCHANGED holds  PROVE OwnDial'
    BY <1>1, <1>5, SubmittedDial DEF Kept
  <1>6. CASE Quiet
    BY <1>2, <1>6 DEF Quiet, Peers, Expires, vars, serviceVars, socketVars
  <1>7. CASE AcceptStart
    <2>1. /\ op["accept"] # "pending" /\ (Answered("accept") \/ Submitted("accept", lsock)) /\ UNCHANGED holds
      BY <1>7 DEF AcceptStart, Starts, Refused, socketVars
    <2>. QED  BY <1>3, <1>4, <1>5, <2>1
  <1>8. CASE ReadBegin
    <2>1. /\ op["read"] # "pending" /\ (Answered("read") \/ Submitted("read", req["read"].fd)) /\ UNCHANGED holds
      BY <1>8 DEF ReadBegin, Refused, socketVars
    <2>. QED  BY <1>3, <1>4, <1>5, <2>1
  <1>9. CASE ConnectStart
    BY <1>1, <1>9, ConnectStartDial
  <1>10. CASE ReadBad
    BY <1>2, <1>10 DEF ReadBad
  <1>11. CASE WriteBegin
    <2>1. /\ op["write"] # "pending" /\ UNCHANGED holds
          /\ Answered("write") \/ Submitted("write", req["write"].fd) \/ UNCHANGED <<list, thread, req>>
      BY <1>11 DEF WriteBegin
    <2>. QED  BY <1>2, <1>3, <1>4, <1>5, <2>1
  <1>12. ASSUME NEW t \in Tasks, HalfStart(t) \/ HalfFails(t)  PROVE OwnDial'
    <2>1. t \in {"read", "write"} /\ op[t] # "pending" /\ UNCHANGED holds
      BY <1>12 DEF HalfStart, HalfFails, Starts, socketVars
    <2>2. CASE Answered(t)
      BY <1>4, <2>1, <2>2
    <2>3. CASE req' = [req EXCEPT ![t].fd = csock] /\ UNCHANGED <<list, thread>>
      <3>1. req'["connect"] = req["connect"]
        BY <1>1, <1>3, <2>1, <2>3 DEF ServiceTypeOK
      <3>. QED  BY <1>1, <2>1, <2>3, <3>1, DialSame DEF Kept
    <2>. QED  BY <1>12, <2>2, <2>3 DEF HalfStart, HalfFails
  <1>13. ASSUME NEW t \in Tasks, Cancel(t)  PROVE OwnDial'
    <2>1. req' = [req EXCEPT ![t].cancelled = TRUE] /\ UNCHANGED <<list, thread, holds>>
      BY <1>13 DEF Cancel, socketVars
    <2>2. req'["connect"].fd = req["connect"].fd
      BY <1>1, <1>3, <2>1 DEF ServiceTypeOK, Requests
    <2>. QED  BY <1>1, <2>1, <2>2, DialSame DEF Kept
  <1>14. ASSUME NEW h \in Handles, StopAccepts(h)  PROVE OwnDial'
    <2>1. UNCHANGED <<list, thread, holds>> /\ (UNCHANGED req \/ req' = [req EXCEPT !["accept"].closed = @ \/ InList("accept")])
      BY <1>14 DEF StopAccepts
    <2>2. req'["connect"].fd = req["connect"].fd
      BY <1>1, <1>3, <2>1 DEF ServiceTypeOK
    <2>. QED  BY <1>1, <2>1, <2>2, DialSame DEF Kept
  <1>15. ASSUME NEW s \in Services, ServiceThread(s)  PROVE OwnDial'
    <2>1. CASE Visit(s)
      BY <2>1, VisitDial
    <2>2. CASE Snapshot(s) \/ EnterPoll(s) \/ ReturnPoll(s) \/ Drain(s) \/ Unread(s) \/ FinishShut(s) \/ StopIfEmpty(s)
      <3>1. UNCHANGED <<list, req, holds>>
        BY <2>2 DEF Snapshot, EnterPoll, ReturnPoll, Drain, Unread, FinishShut, StopIfEmpty, socketVars
      <3>2. ClosersStay("connect") /\ (Dials' <=> Dials)
        BY <1>1, <2>2, <3>1, RoundClosers DEF Dials, Listed
      <3>. QED  BY <1>1, <3>1, <3>2, DialFrame DEF Kept
    <2>3. CASE Complete(s)
      <3>1. UNCHANGED <<list, holds>> /\ req' = [req EXCEPT ![thread[s].task] = Request(0)]
        BY <2>3 DEF Complete, socketVars
      <3>2. ClosersStay("connect") /\ (Dials' <=> Dials)
        BY <1>1, <2>3, <3>1, RoundClosers DEF Dials, Listed
      <3>3. Dials => thread[s].task # "connect"
        <4>1. thread[s].at \in Endings
          BY <2>3 DEF Complete, At, Endings
        <4>. QED  BY <1>1, <1>3, <4>1 DEF ServiceInv, EndingsInv, Ends, Dials
      <3>4. thread[s].task # "connect" => req'["connect"] = req["connect"]
        BY <1>1, <1>3, <3>1 DEF ServiceTypeOK
      <3>. QED  BY <1>1, <3>1, <3>2, <3>3, <3>4, DialFrame DEF Kept
    <2>4. CASE Remove(s)
      BY <1>1, <2>4, RemoveDial
    <2>5. CASE FinishHalf(s)
      <3>1. PICK r \in Threads : thread' = [thread EXCEPT ![s] = r] /\ r.task = thread[s].task
        BY <1>1, <2>5, FinishEffect
      <3>2. thread[s].at = "half" /\ thread[s].task = "write"
        BY <1>1, <2>5 DEF FinishHalf, At, ServiceInv, ThreadsInv, ThreadInv
      <3>3. thread[s].at # "close" /\ (r.at = "close" => r.task # "connect")
        BY <3>1, <3>2
      <3>4. ClosersStay("connect")
        <4>. DEFINE w == "connect"
        <4>1. r.at = "close" => r.task # w
          BY <3>3
        <4>. HIDE DEF w
        <4>2. ClosersStay(w)
          BY <1>1, <3>1, <3>3, <4>1, ThreadClosers
        <4>. QED  BY <4>2 DEF w
      <3>5. UNCHANGED <<list, req, holds>>
        BY <2>5 DEF FinishHalf
      <3>6. Dials' <=> Dials
        BY <3>5 DEF Dials, Listed
      <3>. QED  BY <1>1, <3>4, <3>5, <3>6, DialFrame DEF Kept
    <2>6. CASE FinishClose(s)
      BY <2>6, FinishCloseDial
    <2>. QED  BY <1>15, <2>1, <2>2, <2>3, <2>4, <2>5, <2>6 DEF ServiceThread
  <1>16. CASE OwnerSteps /\ UNCHANGED <<serviceVars, peerVars>>
    BY <1>1, <1>16, OwnersKeepDials, DialSame DEF serviceVars
  <1>. QED  BY <1>6, <1>7, <1>8, <1>9, <1>10, <1>11, <1>12, <1>13, <1>14, <1>15, <1>16, StepCases

(***************************************************************************)
(* The sockets of the requests.                                            *)
(***************************************************************************)

(* Halves do not open again, and a shutdown is for good.                   *)
Closes ==
    /\ readOpen' => readOpen
    /\ writeOpen' => writeOpen
    /\ shutR => shutR'
    /\ shutW => shutW'

(* No step opens a half again, and a socket leaves a connection only when  *)
(* both halves are closed.                                                 *)
LEMMA StepCloses ==
    ASSUME NetInv, [Next]_vars
    PROVE  Closes
  <1>1. /\ SocketsTypeOK /\ ServiceInv /\ holds \in [Fds -> Kinds] /\ csock \in Numbered
        /\ \A t \in Tasks : Waits(t) => req[t].fd # 0
    BY DEF NetInv, ServiceInv, SocketsTypeOK, WaitsInv
  <1>9. readOpen \in BOOLEAN /\ writeOpen \in BOOLEAN /\ shutR \in BOOLEAN /\ shutW \in BOOLEAN
    BY <1>1 DEF SocketsTypeOK
  <1>. USE DEF Closes
  <1>2. CASE Quiet
    BY <1>2 DEF Quiet, Peers, Expires, vars, serviceVars, socketVars
  <1>3. CASE AcceptStart \/ ReadBegin \/ \E t \in Tasks : HalfStart(t) \/ HalfFails(t) \/ Cancel(t)
    BY <1>3 DEF AcceptStart, ReadBegin, HalfStart, HalfFails, Cancel, socketVars
  <1>4. CASE ReadBad \/ ConnectStart
    BY <1>4 DEF ReadBad, ConnectStart
  <1>5. CASE WriteBegin
    <2>1. UNCHANGED <<shutR, shutW>> /\ (UNCHANGED <<readOpen, writeOpen>> \/ HalfTaken(FALSE))
      BY <1>5 DEF WriteBegin
    <2>2. CASE HalfTaken(FALSE)
      <3>1. readOpen' => readOpen
        BY <1>9, <2>2 DEF HalfTaken
      <3>2. writeOpen' = FALSE
        BY <1>9, <2>2 DEF HalfTaken
      <3>. QED  BY <2>1, <3>1, <3>2
    <2>3. CASE UNCHANGED <<readOpen, writeOpen>>
      BY <2>1, <2>3
    <2>. QED  BY <2>1, <2>2, <2>3
  <1>6. CASE \E h \in Handles : StopAccepts(h)
    BY <1>6 DEF StopAccepts
  <1>7. ASSUME NEW s \in Services, ServiceThread(s)  PROVE Closes
    <2>1. CASE Visit(s)
      <3>1. PICK t \in Tasks : /\ req[t].fd \in Fds
                               /\ UNCHANGED <<holds, req, readOpen, stray>> \/ \E p : Process(t, p)
        BY <1>1, <2>1, VisitEffect
      <3>2. readOpen' => readOpen
        BY <1>1, <3>1, ProcessEffect
      <3>. QED  BY <2>1, <3>2 DEF Visit
    <2>2. CASE FinishHalf(s)
      BY <1>9, <2>2 DEF FinishHalf, HalfTaken
    <2>3. CASE Unread(s) \/ FinishShut(s)
      BY <1>9, <2>3 DEF Unread, FinishShut, ShutsDown
    <2>. QED  BY <1>7, <2>1, <2>2, <2>3 DEF ServiceThread, Snapshot, EnterPoll, ReturnPoll, Drain, Remove,
                       FinishClose, StopIfEmpty, Complete, socketVars
  <1>8. CASE OwnerSteps
    <2>1. CASE OtherSockets \/ Split(TRUE) \/ Split(FALSE) \/ CloseConnection \/ TakeSocket \/ Control
      <3>1. UNCHANGED <<readOpen, writeOpen, shutR, shutW>> \/ (readOpen' = FALSE /\ writeOpen' = FALSE /\ UNCHANGED <<shutR, shutW>>)
        BY <2>1 DEF OtherSockets, Split, CloseConnection, TakeSocket, Control
      <3>. QED  BY <3>1
    <2>4. CASE Abort
      <3>1. \/ UNCHANGED <<readOpen, writeOpen, shutR, shutW>>
            \/ readOpen' = FALSE /\ writeOpen' = FALSE /\ shutR' = TRUE /\ shutW' = TRUE
        BY <2>4 DEF Abort
      <3>. QED  BY <3>1
    <2>2. ASSUME NEW h \in Handles, CloseListener(h) \/ CloseHalf(h) \/ DropController(h)  PROVE Closes
      BY <1>9, <2>2 DEF CloseListener, CloseHalf, DropController, HalfTaken
    <2>3. ASSUME NEW h \in Handles, Close(h) \/ Shutdown(h) \/ ReleaseListener(h) \/ ReleaseConnection(h)  PROVE Closes
      BY <1>9, <2>3 DEF Close, Shutdown, ShutsDown, ReleaseListener, ReleaseConnection
    <2>. QED  BY <1>8, <2>1, <2>2, <2>3, <2>4 DEF OwnerSteps
  <1>. QED  BY <1>2, <1>3, <1>4, <1>5, <1>6, <1>7, <1>8, StepCases

(* What WaitsInv says of one operation.                                    *)
WaitInv(t) ==
    Waits(t) => /\ req[t].fd # 0
                /\ t \in {"read", "write"} => (req[t].fd = csock \/ Aborted) /\ (HalfOpen(t) \/ Aborted)
LEMMA WaitsParts ==
    WaitsInv => (\A t \in Tasks : WaitInv(t)) /\ ("transfer" \in stray => Aborted)
  BY DEF WaitsInv, WaitInv, Tasks
LEMMA WaitsWhole ==
    ASSUME \A t \in Tasks : WaitInv(t)', "transfer" \in stray' => Aborted'
    PROVE  WaitsInv'
  BY DEF WaitsInv, WaitInv, Tasks

LEMMA AbortedStays ==
    ASSUME Closes, Aborted
    PROVE  Aborted'
  BY DEF Closes, Aborted

(* An operation that waits goes on waiting.                                *)
LEMMA StillWaits ==
    ASSUME Closes, NEW t \in Tasks, WaitInv(t), Waits(t)' => Waits(t) /\ req'[t].fd = req[t].fd,
           t \in {"read", "write"} /\ Waits(t) =>
              \/ Aborted'
              \/ csock' = csock /\ (HalfOpen(t)' <=> HalfOpen(t))
    PROVE  WaitInv(t)'
  <1>1. Aborted => Aborted'
    BY AbortedStays
  <1>. QED  BY <1>1 DEF WaitInv

LEMMA WaitsBegun ==
    ASSUME ListsInv, HandlesInv, AgentsInv, SocketsTypeOK
    PROVE  /\ \A t \in Tasks : Waits(t) => Begun(t)
           /\ Waits("read") => agent["reader"] = Rest
           /\ Waits("write") => agent["writer"] = Rest
  <1>1. \A t \in Tasks : Waits(t) => Begun(t)
    BY DEF Waits, Begun, ListsInv
  <1>2. "read" \in Tasks /\ "write" \in Tasks
    BY DEF Tasks
  <1>. QED  BY <1>1, <1>2, InUseFacts DEF Begun

(* The owner of one half closes it while the other half waits.             *)
LEMMA OtherHalfWaits ==
    ASSUME SocketsTypeOK, Closes, HalfTaken(FALSE), WaitInv("read"), Waits("read")
    PROVE  Aborted' \/ (csock' = csock /\ (HalfOpen("read")' <=> HalfOpen("read")))
  <1>1. Aborted => Aborted'
    BY AbortedStays
  <1>2. readOpen \/ Aborted
    BY DEF WaitInv, HalfOpen
  <1>3. readOpen => csock' = csock /\ readOpen' = readOpen
    BY DEF HalfTaken, LastHalf, SocketsTypeOK
  <1>. QED  BY <1>1, <1>2, <1>3 DEF HalfOpen
LEMMA OtherHalfWrites ==
    ASSUME SocketsTypeOK, Closes, HalfTaken(TRUE), WaitInv("write"), Waits("write")
    PROVE  Aborted' \/ (csock' = csock /\ (HalfOpen("write")' <=> HalfOpen("write")))
  <1>1. Aborted => Aborted'
    BY AbortedStays
  <1>2. writeOpen \/ Aborted
    BY DEF WaitInv, HalfOpen
  <1>3. writeOpen => csock' = csock /\ writeOpen' = writeOpen
    BY DEF HalfTaken, LastHalf, SocketsTypeOK
  <1>. QED  BY <1>1, <1>2, <1>3 DEF HalfOpen

(* What the owners of the handles do.                                      *)
LEMMA OwnersWait ==
    ASSUME NetInv, Closes, OwnerSteps, UNCHANGED <<serviceVars, peerVars>>
    PROVE  WaitsInv'
  <1>1. /\ SocketsTypeOK /\ ListsInv /\ HandlesInv /\ AgentsInv /\ RefsInv /\ WaitsInv /\ agent \in [Handles -> Doings]
        /\ crefs \in Int
    BY DEF NetInv, SocketsTypeOK
  <1>2. \A t \in Tasks : (Waits(t)' <=> Waits(t)) /\ req'[t] = req[t]
    BY DEF Waits, Listed, serviceVars
  <1>3. (\A t \in Tasks : WaitInv(t)) /\ ("transfer" \in stray => Aborted)
    BY <1>1, WaitsParts
  <1>4. Aborted => Aborted'
    BY AbortedStays
  <1>5. /\ Waits("read") => agent["reader"] = Rest /\ ~fullOpen
        /\ Waits("write") => agent["writer"] = Rest /\ ~fullOpen
    BY <1>1, WaitsBegun, InUseFacts
  <1>6. "transfer" \in stray' => "transfer" \in stray
    <2>1. CASE UNCHANGED stray
      BY <2>1
    <2>2. ASSUME NEW h \in Handles, Shutdown(h)  PROVE "transfer" \in stray' => "transfer" \in stray
      BY <2>2 DEF Shutdown, ShutsDown
    <2>. QED  BY <2>1, <2>2 DEF OwnerSteps, OtherSockets, Split, CloseConnection, TakeSocket, Abort, Control, CloseListener,
                                CloseHalf, DropController, Close, ReleaseListener, ReleaseConnection
  <1>7. SUFFICES ASSUME NEW t \in {"read", "write"}, Waits(t)
                 PROVE  Aborted' \/ (csock' = csock /\ (HalfOpen(t)' <=> HalfOpen(t)))
    <2>1. \A t \in Tasks : t \in {"read", "write"} /\ Waits(t) => Aborted' \/ (csock' = csock /\ (HalfOpen(t)' <=> HalfOpen(t)))
      BY <1>7
    <2>2. \A t \in Tasks : WaitInv(t)'
      BY <1>2, <1>3, <2>1, StillWaits
    <2>. QED  BY <1>3, <1>4, <1>6, <2>2, WaitsWhole
  <1>8. CASE UNCHANGED <<csock, readOpen, writeOpen>>
    BY <1>8 DEF HalfOpen
  <1>9. CASE CloseConnection \/ TakeSocket
    BY <1>5, <1>7, <1>9 DEF CloseConnection, TakeSocket
  <1>10. CASE Abort
    <2>1. CASE csock = 0
      BY <1>8, <1>10, <2>1 DEF Abort
    <2>2. CASE csock # 0
      BY <1>10, <2>2 DEF Abort, Aborted
    <2>. QED  BY <2>1, <2>2
  <1>11. ASSUME NEW h \in Handles, CloseHalf(h), ~InUse(h)
         PROVE  Aborted' \/ (csock' = csock /\ (HalfOpen(t)' <=> HalfOpen(t)))
    <2>1. "read" \in Tasks \ {"connect"} /\ "write" \in Tasks \ {"connect"}
      BY DEF Tasks
    <2>2. Begun(t)
      BY <1>1, <1>7, <2>1, WaitsBegun
    <2>3. Handle(t) # h
      BY <1>7, <1>11, <2>1, <2>2 DEF InUse, Begun
    <2>4. CASE t = "read"
      <3>1. HalfTaken(FALSE)
        BY <1>11, <2>3, <2>4, HandleIs DEF CloseHalf
      <3>. QED  BY <1>1, <1>3, <1>7, <2>1, <2>4, <3>1, OtherHalfWaits
    <2>5. CASE t = "write"
      <3>1. HalfTaken(TRUE)
        BY <1>11, <2>3, <2>5, HandleIs DEF CloseHalf
      <3>. QED  BY <1>1, <1>3, <1>7, <2>1, <2>5, <3>1, OtherHalfWrites
    <2>. QED  BY <1>7, <2>4, <2>5
  <1>12. ASSUME NEW h \in Handles, ReleaseConnection(h)
         PROVE  Aborted' \/ (csock' = csock /\ (HalfOpen(t)' <=> HalfOpen(t)))
    <2>1. /\ h \in {"whole", "reader", "writer", "controller"} /\ UNCHANGED <<readOpen, writeOpen>>
          /\ agent[h].do = "release" /\ csock' = (IF crefs = 1 THEN 0 ELSE csock)
      BY <1>12 DEF ReleaseConnection, ConnectionHandles, Does
    <2>2. crefs # 1
      BY <1>1, <1>5, <1>7, <2>1, HandleNames, DoingFields DEF RefsInv, Is, One
    <2>. QED  BY <2>1, <2>2 DEF HalfOpen
  <1>. QED  BY <1>8, <1>9, <1>10, <1>11, <1>12 DEF OwnerSteps, OtherSockets, Split, Control, CloseListener, DropController,
                                                  Close, Shutdown, ReleaseListener

(* One operation begins or ends, and the sockets stay.                     *)
LEMMA OneWaits ==
    ASSUME Closes, WaitsInv, NEW t \in Tasks, WaitInv(t)', UNCHANGED <<csock, readOpen, writeOpen>>,
           \A x \in Tasks \ {t} : (Waits(x)' => Waits(x)) /\ req'[x].fd = req[x].fd,
           "transfer" \in stray' => "transfer" \in stray \/ Aborted
    PROVE  WaitsInv'
  <1>1. (\A x \in Tasks : WaitInv(x)) /\ ("transfer" \in stray => Aborted)
    BY WaitsParts
  <1>2. Aborted => Aborted'
    BY AbortedStays
  <1>3. ASSUME NEW x \in Tasks \ {t}  PROVE WaitInv(x)'
    <2>1. csock' = csock /\ (HalfOpen(x)' <=> HalfOpen(x))
      BY DEF HalfOpen
    <2>. QED  BY <1>1, <2>1, StillWaits
  <1>. QED  BY <1>1, <1>2, <1>3, WaitsWhole

LEMMA AnsweredWaits ==
    ASSUME Closes, WaitsInv, ServiceInv, NEW t \in Tasks, op[t] # "pending", Answered(t),
           UNCHANGED <<csock, readOpen, writeOpen>>, "transfer" \in stray' => "transfer" \in stray \/ Aborted
    PROVE  WaitsInv'
  <1>1. ServiceTypeOK /\ ListsInv
    BY DEF ServiceInv
  <1>2. \A x \in Tasks : op'[x] = (IF x = t THEN "done" ELSE op[x]) /\ (x # t => req'[x] = req[x])
    BY <1>1 DEF Answered, ServiceTypeOK
  <1>3. \A u \in Services, x \in Tasks : Listed(u, x)' <=> Listed(u, x)
    BY DEF Answered, Listed
  <1>4. thread' = thread
    BY DEF Answered
  <1>5. ~Waits(t)'
    BY <1>1, <1>2, <1>3 DEF Waits, ListsInv
  <1>6. \A x \in Tasks \ {t} : Waits(x)' => Waits(x)
    BY <1>2, <1>3, <1>4 DEF Waits
  <1>7. WaitInv(t)'
    BY <1>5 DEF WaitInv
  <1>. QED  BY <1>2, <1>6, <1>7, OneWaits

LEMMA SubmittedWaits ==
    ASSUME Closes, WaitsInv, ServiceInv, NEW t \in Tasks, op[t] # "pending", NEW fd, fd # 0, Submitted(t, fd),
           t \in {"read", "write"} => op[t] = "starting" /\ req[t].fd = fd,
           UNCHANGED <<csock, readOpen, writeOpen>>, "transfer" \in stray' => "transfer" \in stray \/ Aborted
    PROVE  WaitsInv'
  <1>1. ServiceTypeOK /\ ListsInv
    BY DEF ServiceInv
  <1>2. PICK s \in Services : SubmitsTo(s, t)
    BY <1>1, SubmittedEffect
  <1>3. \A x \in Tasks : op'[x] = (IF x = t THEN "pending" ELSE op[x]) /\ (x # t => req'[x] = req[x])
    BY <1>1 DEF Submitted, ServiceTypeOK
  <1>4. req'[t].fd = fd
    <2>1. req'[t] = Request(fd)
      BY <1>1 DEF Submitted, ServiceTypeOK
    <2>. QED  BY <2>1 DEF Request
  <1>5. \A u \in Services, x \in Tasks : Listed(u, x)' <=> Listed(u, x) \/ (u = s /\ x = t)
    BY <1>2 DEF SubmitsTo
  <1>6. \A u \in Services : thread'[u] = thread[u] \/ (u = s /\ s # current)
    BY <1>1, <1>2, ServiceAssumption DEF SubmitsTo, ServiceTypeOK
  <1>7. \A x \in Tasks \ {t} : Waits(x)' => Waits(x)
    <2>. SUFFICES ASSUME NEW x \in Tasks \ {t}, NEW u \in Services, Listed(u, x)', thread'[u].task # x  PROVE Waits(x)
      BY <1>3 DEF Waits
    <2>1. Listed(u, x)
      BY <1>5
    <2>2. thread'[u] = thread[u]
      BY <1>1, <1>6, <2>1 DEF ListsInv
    <2>. QED  BY <2>1, <2>2 DEF Waits
  <1>8. WaitInv(t)'
    <2>1. t \in {"read", "write"} => (fd = csock \/ Aborted) /\ (HalfOpen(t) \/ Aborted)
      <3>1. t \in {"read", "write"} => Waits(t) /\ WaitInv(t)
        BY WaitsParts DEF Waits
      <3>. QED  BY <3>1 DEF WaitInv
    <2>2. (Aborted => Aborted') /\ (HalfOpen(t)' <=> HalfOpen(t))
      BY AbortedStays DEF HalfOpen
    <2>. QED  BY <1>4, <2>1, <2>2 DEF WaitInv
  <1>. QED  BY <1>3, <1>7, <1>8, OneWaits

(* A system call of the service on a number its request no longer owns.    *)
LEMMA StraysAreAborted ==
    ASSUME WaitsInv, OwnConnection, NEW t \in {"read", "write"}, Waits(t), holds[req[t].fd] \notin {"conn", "free"}
    PROVE  Aborted
  BY DEF WaitsInv, OwnConnection, Tasks

(* A write that sends at once, waits or closes its half.                   *)
LEMMA WriteBeginWaits ==
    ASSUME NetInv, Closes, WriteBegin
    PROVE  WaitsInv'
  <1>1. /\ SocketsTypeOK /\ ServiceInv /\ ServiceTypeOK /\ ListsInv /\ WaitsInv /\ OwnConnection
    BY DEF NetInv, ServiceInv
  <1>2. op["write"] = "starting" /\ Waits("write") /\ "write" \in Tasks /\ "read" \in Tasks
    BY DEF WriteBegin, Waits, Tasks
  <1>3. "transfer" \in stray' => "transfer" \in stray \/ Aborted
    <2>1. UNCHANGED stray \/ holds[req["write"].fd] \notin {"conn", "free"}
      BY DEF WriteBegin, Send
    <2>2. CASE holds[req["write"].fd] \notin {"conn", "free"}
      <3>. DEFINE w == "write"
      <3>1. w \in {"read", "write"} /\ Waits(w) /\ holds[req[w].fd] \notin {"conn", "free"}
        BY <1>2, <2>2
      <3>. HIDE DEF w
      <3>. QED  BY <1>1, <3>1, StraysAreAborted
    <2>. QED  BY <2>1, <2>2
  <1>4. req["write"].fd # 0
    BY <1>1, <1>2 DEF WaitsInv
  <1>5. CASE Answered("write") /\ UNCHANGED <<csock, readOpen, writeOpen>>
    BY <1>1, <1>2, <1>3, <1>5, AnsweredWaits
  <1>6. CASE Submitted("write", req["write"].fd) /\ UNCHANGED <<csock, readOpen, writeOpen>>
    <2>. DEFINE fd == req["write"].fd
    <2>1. fd # 0 /\ Submitted("write", fd) /\ req["write"].fd = fd
      BY <1>4, <1>6
    <2>. HIDE DEF fd
    <2>. QED  BY <1>1, <1>2, <1>3, <1>6, <2>1, SubmittedWaits
  <1>7. CASE HalfTaken(FALSE) /\ op' = [op EXCEPT !["write"] = "failing"] /\ UNCHANGED <<req, list, thread>>
    <2>1. \A x \in Tasks : op'[x] = IF x = "write" THEN "failing" ELSE op[x]
      BY <1>1, <1>7 DEF ServiceTypeOK
    <2>2. \A u \in Services, x \in Tasks : Listed(u, x)' <=> Listed(u, x)
      BY <1>7 DEF Listed
    <2>3. ~Waits("write")'
      BY <1>1, <1>2, <2>1, <2>2 DEF Waits, ListsInv
    <2>4. \A x \in Tasks : (Waits(x)' => Waits(x)) /\ req'[x] = req[x]
      BY <1>7, <2>1, <2>2, <2>3 DEF Waits
    <2>5. (\A x \in Tasks : WaitInv(x)) /\ ("transfer" \in stray => Aborted)
      BY <1>1, WaitsParts
    <2>6. Waits("read") => Aborted' \/ (csock' = csock /\ (HalfOpen("read")' <=> HalfOpen("read")))
      BY <1>1, <1>2, <1>7, <2>5, OtherHalfWaits
    <2>7. WaitInv("read")'
      <3>. DEFINE x == "read"
      <3>1. x \in Tasks /\ (Waits(x)' => Waits(x) /\ req'[x].fd = req[x].fd) /\ WaitInv(x)
        BY <1>2, <2>4, <2>5
      <3>2. Waits(x) => Aborted' \/ (csock' = csock /\ (HalfOpen(x)' <=> HalfOpen(x)))
        BY <2>6
      <3>. HIDE DEF x
      <3>3. WaitInv(x)'
        BY <3>1, <3>2, StillWaits
      <3>. QED  BY <3>3 DEF x
    <2>8. WaitInv("write")'
      BY <2>3 DEF WaitInv
    <2>9. ASSUME NEW x \in Tasks, x \notin {"read", "write"}  PROVE WaitInv(x)'
      BY <2>4, <2>5, <2>9, StillWaits
    <2>10. \A x \in Tasks : WaitInv(x)'
      BY <2>7, <2>8, <2>9
    <2>11. Aborted => Aborted'
      BY AbortedStays
    <2>. QED  BY <1>3, <2>5, <2>10, <2>11, WaitsWhole
  <1>. QED  BY <1>5, <1>6, <1>7 DEF WriteBegin

(* A step of the thread adds no request.                                   *)
LEMMA ThreadWaits ==
    ASSUME ServiceTypeOK, NEW s \in Services, NEW r, thread' = [thread EXCEPT ![s] = r],
           \A x \in Tasks : op'[x] = "starting" => op[x] = "starting",
           \A u \in Services, x \in Tasks : Listed(u, x)' => Listed(u, x),
           \A x \in Tasks : Listed(s, x)' /\ thread[s].task = x => r.task = x
    PROVE  \A x \in Tasks : Waits(x)' => Waits(x)
  <1>1. \A u \in Services : thread'[u] = IF u = s THEN r ELSE thread[u]
    BY DEF ServiceTypeOK
  <1>. QED  BY <1>1 DEF Waits

(* A visit, which is where the system calls are made.                      *)
LEMMA VisitWaits ==
    ASSUME NetInv, Closes, NEW s \in Services, Visit(s)
    PROVE  WaitsInv'
  <1>1. /\ SocketsTypeOK /\ ServiceInv /\ ServiceTypeOK /\ ListsInv /\ OwnListener /\ OwnConnection /\ WaitsInv
        /\ holds \in [Fds -> Kinds] /\ csock \in Numbered /\ \A t \in Tasks : Waits(t) => req[t].fd # 0
    BY DEF NetInv, ServiceInv, WaitsInv, SocketsTypeOK
  <1>2. PICK t \in Tasks, r \in Threads :
              /\ thread[s].task = "none" /\ Listed(s, t) /\ Waits(t) /\ req[t].fd \in Fds
              /\ thread' = [thread EXCEPT ![s] = r]
              /\ \/ /\ r.task = "none"
                    /\ UNCHANGED <<holds, req, readOpen, stray>> \/ Process(t, "pending")
                 \/ \E p \in {"ok", "failed", "bad"} : Process(t, p) /\ r.task = t
    BY <1>1, VisitEffect
  <1>3. UNCHANGED <<op, list, csock, writeOpen>>
    BY DEF Visit
  <1>4. \A u \in Services, x \in Tasks : Listed(u, x)' <=> Listed(u, x)
    BY <1>3 DEF Listed
  <1>5. \A x \in Tasks : Waits(x)' => Waits(x)
    <2>1. \A x \in Tasks : Listed(s, x)' /\ thread[s].task = x => r.task = x
      BY <1>2 DEF Tasks
    <2>. QED  BY <1>1, <1>2, <1>3, <1>4, <2>1, ThreadWaits
  <1>6. r.task = t => ~Waits(t)'
    <2>1. \A u \in Services : Listed(u, t) => u = s
      BY <1>1, <1>2 DEF ListsInv
    <2>2. thread'[s] = r /\ op[t] = "pending"
      BY <1>1, <1>2 DEF ServiceTypeOK, ListsInv
    <2>. QED  BY <1>3, <1>4, <2>1, <2>2 DEF Waits
  <1>7. (\A x \in Tasks : WaitInv(x)) /\ ("transfer" \in stray => Aborted)
    BY <1>1, WaitsParts
  <1>8. Aborted => Aborted'
    BY AbortedStays
  <1>9. CASE UNCHANGED <<holds, req, readOpen, stray>>
    <2>1. ASSUME NEW x \in Tasks  PROVE WaitInv(x)'
      <3>1. csock' = csock /\ (HalfOpen(x)' <=> HalfOpen(x))
        BY <1>3, <1>9 DEF HalfOpen
      <3>. QED  BY <1>5, <1>7, <1>9, <3>1, StillWaits
    <2>. QED  BY <1>7, <1>8, <1>9, <2>1, WaitsWhole
  <1>10. ASSUME NEW p, Process(t, p), r.task = t \/ p = "pending"  PROVE WaitsInv'
    <2>1. /\ ProcessHolds(t, p) /\ ProcessStray(t)
          /\ readOpen' = readOpen \/ (readOpen' = FALSE /\ t = "read" /\ p = "bad")
      BY <1>1, <1>2, <1>10, ProcessEffect
    <2>2. "transfer" \in stray' => Aborted
      <3>1. CASE UNCHANGED stray
        BY <1>7, <3>1
      <3>2. CASE t = "accept" /\ lsock = req[t].fd /\ holds[lsock] # "listener"
        BY <1>1, <1>2, <3>2 DEF OwnListener
      <3>3. CASE t \in {"read", "write"} /\ holds[req[t].fd] \notin {"conn", "free"}
        BY <1>1, <1>2, <3>3, StraysAreAborted
      <3>. QED  BY <2>1, <3>1, <3>2, <3>3 DEF ProcessStray
    <2>3. req \in [Tasks -> Requests]
      BY <1>1 DEF ServiceTypeOK
    <2>4. \A x \in Tasks : x # t => req'[x].fd = req[x].fd
      BY <1>2, <2>1, <2>3 DEF ProcessHolds
    <2>5. ASSUME NEW x \in Tasks, x # t  PROVE WaitInv(x)'
      <3>1. x \in {"read", "write"} => csock' = csock /\ (HalfOpen(x)' <=> HalfOpen(x))
        BY <1>3, <2>1, <2>5 DEF HalfOpen
      <3>. QED  BY <1>5, <1>7, <2>4, <2>5, <3>1, StillWaits
    <2>6. WaitInv(t)'
      <3>1. CASE r.task = t
        BY <1>6, <3>1 DEF WaitInv
      <3>2. CASE p = "pending" /\ t # "connect"
        <4>1. UNCHANGED <<req, readOpen>>
          BY <2>1, <3>2 DEF ProcessHolds
        <4>2. csock' = csock /\ (HalfOpen(t)' <=> HalfOpen(t))
          BY <1>3, <4>1 DEF HalfOpen
        <4>. QED  BY <1>5, <1>7, <4>1, <4>2, StillWaits
      <3>3. CASE p = "pending" /\ t = "connect"
        <4>1. req'[t].fd # 0
          <5>1. CASE UNCHANGED req
            BY <1>1, <1>2, <5>1
          <5>2. CASE \E fd \in Fds : req' = [req EXCEPT ![t].fd = fd]
            BY <2>3, <5>2, FdsAssumption DEF Requests
          <5>. QED  BY <2>1, <3>3, <5>1, <5>2 DEF ProcessHolds
        <4>. QED  BY <3>3, <4>1 DEF WaitInv
      <3>. QED  BY <1>10, <3>1, <3>2, <3>3
    <2>. QED  BY <1>8, <2>2, <2>5, <2>6, WaitsWhole
  <1>. QED  BY <1>2, <1>9, <1>10

(* The other steps of the thread.                                          *)
LEMMA ThreadStepWaits ==
    ASSUME NetInv, Closes, NEW s \in Services, ServiceThread(s), ~Visit(s)
    PROVE  WaitsInv'
  <1>1. /\ SocketsTypeOK /\ ServiceInv /\ ServiceTypeOK /\ ListsInv /\ ThreadsInv /\ EndingsInv /\ WaitsInv
        /\ holds \in [Fds -> Kinds] /\ csock \in Numbered
    BY DEF NetInv, ServiceInv, SocketsTypeOK
  <1>2. thread[s] \in Threads /\ ThreadInv(s, thread[s])
    BY <1>1 DEF ServiceTypeOK, ThreadsInv
  <1>3. (\A x \in Tasks : WaitInv(x)) /\ ("transfer" \in stray => Aborted)
    BY <1>1, WaitsParts
  <1>4. Aborted => Aborted'
    BY AbortedStays
  <1>5. ASSUME \A x \in Tasks : (Waits(x)' => Waits(x) /\ req'[x].fd = req[x].fd),
               Waits("read") => Aborted' \/ (csock' = csock /\ (HalfOpen("read")' <=> HalfOpen("read"))),
               Waits("write")' => Aborted' \/ (csock' = csock /\ (HalfOpen("write")' <=> HalfOpen("write"))),
               "transfer" \in stray' => "transfer" \in stray
        PROVE  WaitsInv'
    <2>1. ASSUME NEW x \in Tasks  PROVE WaitInv(x)'
      <3>1. CASE ~Waits(x)'
        BY <3>1 DEF WaitInv
      <3>2. CASE Waits(x)'
        BY <1>3, <1>5, <3>2, StillWaits
      <3>. QED  BY <3>1, <3>2
    <2>. QED  BY <1>3, <1>4, <1>5, <2>1, WaitsWhole
  <1>6. CASE Snapshot(s) \/ EnterPoll(s) \/ ReturnPoll(s) \/ Drain(s) \/ Unread(s) \/ FinishShut(s) \/ FinishClose(s) \/ StopIfEmpty(s)
             \/ FinishHalf(s)
    <2>1. UNCHANGED <<op, req, list>>
      BY <1>6 DEF Snapshot, EnterPoll, ReturnPoll, Drain, Unread, FinishShut, FinishClose, StopIfEmpty, FinishHalf
    <2>2. \A u \in Services, x \in Tasks : Listed(u, x)' <=> Listed(u, x)
      BY <2>1 DEF Listed
    <2>3. \E r : thread' = [thread EXCEPT ![s] = r] /\ (thread[s].task = "none" \/ r.task = thread[s].task)
      <3>1. CASE Snapshot(s)
        <4>1. thread[s].task = "none"
          BY <1>2, <3>1 DEF Snapshot, At, ThreadInv
        <4>. QED  BY <3>1, <4>1 DEF Snapshot
      <3>2. CASE EnterPoll(s) \/ ReturnPoll(s) \/ Drain(s)
        <4>1. thread[s].task = "none"
          BY <1>2, <3>2 DEF EnterPoll, ReturnPoll, Drain, At, ThreadInv, Rounds
        <4>2. \E r : thread' = [thread EXCEPT ![s] = r]
          BY <3>2 DEF EnterPoll, ReturnPoll, Drain, Step
        <4>. QED  BY <4>1, <4>2
      <3>3. CASE Unread(s) \/ FinishShut(s) \/ FinishClose(s) \/ FinishHalf(s)
        BY <1>1, <3>3, FinishEffect
      <3>4. CASE StopIfEmpty(s)
        <4>. DEFINE at == IF Stops(s) THEN "last" ELSE "complete"
        <4>1. at \in Places /\ Step(s, at)
          BY <3>4 DEF StopIfEmpty, Places, Endings
        <4>. HIDE DEF at
        <4>. QED  BY <1>1, <4>1, StepIs
      <3>. QED  BY <1>6, <3>1, <3>2, <3>3, <3>4
    <2>4. PICK r : thread' = [thread EXCEPT ![s] = r] /\ (thread[s].task = "none" \/ r.task = thread[s].task)
      BY <2>3
    <2>5. \A x \in Tasks : Waits(x)' => Waits(x)
      <3>1. \A x \in Tasks : Listed(s, x)' /\ thread[s].task = x => r.task = x
        BY <2>4 DEF Tasks
      <3>. QED  BY <1>1, <2>1, <2>2, <2>4, <3>1, ThreadWaits
    <2>6. "transfer" \in stray' => "transfer" \in stray
      <3>1. CASE Unread(s) \/ FinishShut(s)
        BY <3>1 DEF Unread, FinishShut, ShutsDown
      <3>. QED  BY <1>6, <3>1 DEF Snapshot, EnterPoll, ReturnPoll, Drain, FinishClose, StopIfEmpty, FinishHalf, socketVars
    <2>7. CASE FinishHalf(s)
      <3>1. Ends(s, "write") /\ "write" \in Tasks /\ "read" \in Tasks
        BY <1>2, <2>7 DEF FinishHalf, At, ThreadInv, Ends, Endings, Tasks
      <3>2. op["write"] = "pending" /\ \A u \in Services : ~Listed(u, "write")
        BY <1>1, <3>1 DEF EndingsInv
      <3>3. ~Waits("write")'
        BY <2>1, <2>2, <3>1, <3>2 DEF Waits
      <3>4. HalfTaken(FALSE)
        BY <2>7 DEF FinishHalf
      <3>5. Waits("read") => Aborted' \/ (csock' = csock /\ (HalfOpen("read")' <=> HalfOpen("read")))
        BY <1>1, <1>3, <3>1, <3>4, OtherHalfWaits
      <3>. QED  BY <1>5, <2>1, <2>5, <2>6, <3>3, <3>5
    <2>8. CASE ~FinishHalf(s)
      <3>1. UNCHANGED <<csock, readOpen, writeOpen>>
        BY <1>6, <2>8 DEF Snapshot, EnterPoll, ReturnPoll, Drain, Unread, FinishShut, FinishClose, StopIfEmpty, socketVars
      <3>2. (HalfOpen("read")' <=> HalfOpen("read")) /\ (HalfOpen("write")' <=> HalfOpen("write"))
        BY <3>1 DEF HalfOpen
      <3>. QED  BY <1>5, <2>1, <2>5, <2>6, <3>1, <3>2
    <2>. QED  BY <2>7, <2>8
  <1>7. CASE Remove(s)
    <2>1. PICK t, r : RemovesFrom(s, t, r)
      BY <1>1, <1>7, RemoveEffect
    <2>2. UNCHANGED <<op, req, csock, readOpen, writeOpen, stray>>
      BY <1>7 DEF Remove, socketVars
    <2>3. \A x \in Tasks : Waits(x)' => Waits(x)
      <3>1. /\ thread' = [thread EXCEPT ![s] = r] /\ thread[s].task = t /\ r.task = t
            /\ \A u \in Services, x \in Tasks : Listed(u, x)' => Listed(u, x)
        BY <2>1 DEF RemovesFrom
      <3>. QED  BY <1>1, <2>2, <3>1, ThreadWaits
    <2>4. (HalfOpen("read")' <=> HalfOpen("read")) /\ (HalfOpen("write")' <=> HalfOpen("write"))
      BY <2>2 DEF HalfOpen
    <2>. QED  BY <1>5, <2>2, <2>3, <2>4
  <1>8. CASE Complete(s)
    <2>. DEFINE t == thread[s].task
    <2>1. Ends(s, t) /\ t \in Tasks
      BY <1>2, <1>8 DEF Complete, At, Ends, Endings, ThreadInv, Rounds, Threads
    <2>2. op[t] = "pending" /\ \A u \in Services : ~Listed(u, t)
      BY <1>1, <2>1 DEF EndingsInv
    <2>3. op' = [op EXCEPT ![t] = "done"] /\ req' = [req EXCEPT ![t] = Request(0)] /\ UNCHANGED <<list, csock, readOpen, writeOpen, stray>>
      BY <1>8 DEF Complete, socketVars
    <2>4. \E r : thread' = [thread EXCEPT ![s] = r]
      BY <1>8 DEF Complete
    <2>5. thread[s].task = t
      OBVIOUS
    <2>. HIDE DEF t
    <2>6. PICK r : thread' = [thread EXCEPT ![s] = r]
      BY <2>4
    <2>7. \A u \in Services, x \in Tasks : Listed(u, x)' <=> Listed(u, x)
      BY <2>3 DEF Listed
    <2>8. \A x \in Tasks : op'[x] = (IF x = t THEN "done" ELSE op[x]) /\ (x # t => req'[x] = req[x])
      BY <1>1, <2>3 DEF ServiceTypeOK
    <2>9. \A x \in Tasks : Waits(x)' => Waits(x)
      <3>1. \A x \in Tasks : op'[x] = "starting" => op[x] = "starting"
        BY <2>8
      <3>2. \A x \in Tasks : Listed(s, x)' /\ thread[s].task = x => r.task = x
        BY <2>2, <2>5, <2>7
      <3>. QED  BY <1>1, <2>6, <2>7, <3>1, <3>2, ThreadWaits
    <2>10. ~Waits(t)
      BY <2>2 DEF Waits
    <2>11. (HalfOpen("read")' <=> HalfOpen("read")) /\ (HalfOpen("write")' <=> HalfOpen("write"))
      BY <2>3 DEF HalfOpen
    <2>. QED  BY <1>5, <2>3, <2>8, <2>9, <2>10, <2>11
  <1>. QED  BY <1>6, <1>7, <1>8 DEF ServiceThread

(* Every step keeps the requests on their own sockets, until an abort.     *)
LEMMA WaitsStep ==
    ASSUME NetInv, [Next]_vars
    PROVE  WaitsInv'
  <1>1. /\ SocketsTypeOK /\ ServiceInv /\ ServiceTypeOK /\ ListsInv /\ WaitsInv /\ holds \in [Fds -> Kinds] /\ csock \in Numbered
        /\ lsock \in Numbered
    BY DEF NetInv, ServiceInv, SocketsTypeOK
  <1>2. Closes
    BY StepCloses
  <1>3. (\A x \in Tasks : WaitInv(x)) /\ ("transfer" \in stray => Aborted)
    BY <1>1, WaitsParts
  <1>4. Aborted => Aborted'
    BY <1>2, AbortedStays
  <1>5. "accept" \in Tasks /\ "read" \in Tasks /\ "write" \in Tasks /\ "connect" \in Tasks
    BY DEF Tasks
  <1>6. ASSUME UNCHANGED <<op, list, thread, csock, readOpen, writeOpen, stray>>, \A x \in Tasks : req'[x].fd = req[x].fd
        PROVE  WaitsInv'
    <2>1. ASSUME NEW x \in Tasks  PROVE WaitInv(x)'
      <3>1. (Waits(x)' <=> Waits(x)) /\ (HalfOpen(x)' <=> HalfOpen(x))
        BY <1>6 DEF Waits, Listed, HalfOpen
      <3>. QED  BY <1>2, <1>3, <1>6, <3>1, StillWaits
    <2>. QED  BY <1>3, <1>4, <1>6, <2>1, WaitsWhole
  <1>7. CASE Quiet
    <2>1. UNCHANGED <<op, list, thread, csock, readOpen, writeOpen, stray, req>>
      BY <1>7 DEF Quiet, Peers, Expires, vars, serviceVars, socketVars
    <2>. QED  BY <1>6, <2>1
  <1>8. ASSUME NEW t \in Tasks, op[t] # "pending", Answered(t), UNCHANGED <<csock, readOpen, writeOpen, stray>>
        PROVE  WaitsInv'
    BY <1>1, <1>2, <1>8, AnsweredWaits
  <1>9. CASE AcceptStart
    <2>1. /\ op["accept"] # "pending" /\ UNCHANGED <<csock, readOpen, writeOpen, stray>>
          /\ Answered("accept") \/ (lsock # 0 /\ Submitted("accept", lsock))
      BY <1>9 DEF AcceptStart, Starts, Refused, socketVars
    <2>. QED  BY <1>1, <1>2, <1>5, <1>8, <2>1, SubmittedWaits
  <1>10. CASE ReadBegin
    <2>. DEFINE fd == req["read"].fd
    <2>1. /\ op["read"] = "starting" /\ UNCHANGED <<csock, readOpen, writeOpen, stray>>
          /\ Answered("read") \/ Submitted("read", fd)
      BY <1>10 DEF ReadBegin, Refused, socketVars
    <2>2. fd # 0 /\ req["read"].fd = fd
      BY <1>3, <1>5, <2>1 DEF WaitInv, Waits
    <2>. HIDE DEF fd
    <2>. QED  BY <1>1, <1>2, <1>5, <1>8, <2>1, <2>2, SubmittedWaits
  <1>11. CASE ConnectStart
    <2>1. op["connect"] # "pending" /\ UNCHANGED <<csock, readOpen, writeOpen, stray>>
      BY <1>11 DEF ConnectStart, Starts
    <2>2. \/ Answered("connect")
          \/ \E d \in Dialled(holds, addresses) : d.r = "pending" /\ Submitted("connect", Min(Numbers(holds)))
      BY <1>11 DEF ConnectStart, Refused
    <2>3. ASSUME NEW d \in Dialled(holds, addresses), d.r = "pending", Submitted("connect", Min(Numbers(holds)))
          PROVE  WaitsInv'
      <3>. DEFINE fd == Min(Numbers(holds))
      <3>1. Numbers(holds) # {}
        BY <2>3, DialledIs
      <3>2. fd # 0
        BY <1>1, <3>1, OpenedIs DEF Kinds
      <3>3. Submitted("connect", fd)
        BY <2>3
      <3>. HIDE DEF fd
      <3>. QED  BY <1>1, <1>2, <1>5, <2>1, <3>2, <3>3, SubmittedWaits
    <2>. QED  BY <1>5, <1>8, <2>1, <2>2, <2>3
  <1>12. CASE ReadBad
    <2>1. /\ op["read"] = "starting" /\ op' = [op EXCEPT !["read"] = "failing"]
          /\ UNCHANGED <<csock, writeOpen, stray, req, list, thread>>
      BY <1>12 DEF ReadBad
    <2>2. \A x \in Tasks : op'[x] = IF x = "read" THEN "failing" ELSE op[x]
      BY <1>1, <2>1 DEF ServiceTypeOK
    <2>3. \A u \in Services, x \in Tasks : Listed(u, x)' <=> Listed(u, x)
      BY <2>1 DEF Listed
    <2>4. ~Waits("read")'
      BY <1>1, <1>5, <2>1, <2>2, <2>3 DEF Waits, ListsInv
    <2>5. \A x \in Tasks : Waits(x)' => Waits(x)
      BY <2>1, <2>2, <2>3, <2>4 DEF Waits
    <2>6. ASSUME NEW x \in Tasks, x # "read"  PROVE WaitInv(x)'
      <3>1. HalfOpen(x)' <=> HalfOpen(x)
        BY <2>1, <2>6 DEF HalfOpen
      <3>. QED  BY <1>2, <1>3, <2>1, <2>5, <3>1, StillWaits
    <2>7. WaitInv("read")'
      BY <2>4 DEF WaitInv
    <2>. QED  BY <1>3, <1>4, <2>1, <2>6, <2>7, WaitsWhole
  <1>13. ASSUME NEW t \in Tasks, HalfStart(t) \/ HalfFails(t)  PROVE WaitsInv'
    <2>1. t \in {"read", "write"} /\ op[t] # "pending" /\ UNCHANGED <<csock, readOpen, writeOpen, stray>>
      BY <1>13 DEF HalfStart, HalfFails, Starts, socketVars
    <2>2. CASE Answered(t)
      BY <1>8, <2>1, <2>2
    <2>3. CASE /\ op' = [op EXCEPT ![t] = "starting"] /\ req' = [req EXCEPT ![t].fd = csock] /\ UNCHANGED <<list, thread>>
               /\ HalfOpen(t) /\ csock # 0
      <3>1. \A x \in Tasks : op'[x] = (IF x = t THEN "starting" ELSE op[x]) /\ (x # t => req'[x] = req[x])
        BY <1>1, <2>3 DEF ServiceTypeOK
      <3>2. req'[t].fd = csock
        BY <1>1, <2>3 DEF ServiceTypeOK, Requests
      <3>3. \A x \in Tasks \ {t} : Waits(x)' => Waits(x)
        BY <2>3, <3>1 DEF Waits, Listed
      <3>4. WaitInv(t)'
        BY <2>1, <2>3, <3>2 DEF WaitInv, HalfOpen
      <3>. QED  BY <1>1, <1>2, <2>1, <3>1, <3>3, <3>4, OneWaits
    <2>. QED  BY <1>13, <2>2, <2>3 DEF HalfStart, HalfFails
  <1>14. ASSUME NEW t \in Tasks, Cancel(t)  PROVE WaitsInv'
    <2>1. req' = [req EXCEPT ![t].cancelled = TRUE] /\ UNCHANGED <<op, list, thread, csock, readOpen, writeOpen, stray>>
      BY <1>14 DEF Cancel, socketVars
    <2>2. \A x \in Tasks : req'[x].fd = req[x].fd
      BY <1>1, <2>1 DEF ServiceTypeOK, Requests
    <2>. QED  BY <1>6, <2>1, <2>2
  <1>15. ASSUME NEW h \in Handles, StopAccepts(h)  PROVE WaitsInv'
    <2>1. /\ UNCHANGED <<op, list, thread, csock, readOpen, writeOpen, stray>>
          /\ UNCHANGED req \/ req' = [req EXCEPT !["accept"].closed = @ \/ InList("accept")]
      BY <1>15 DEF StopAccepts
    <2>2. \A x \in Tasks : req'[x].fd = req[x].fd
      BY <1>1, <2>1 DEF ServiceTypeOK, Requests
    <2>. QED  BY <1>6, <2>1, <2>2
  <1>16. CASE WriteBegin
    BY <1>2, <1>16, WriteBeginWaits
  <1>17. ASSUME NEW s \in Services, ServiceThread(s)  PROVE WaitsInv'
    BY <1>2, <1>17, VisitWaits, ThreadStepWaits
  <1>18. CASE OwnerSteps /\ UNCHANGED <<serviceVars, peerVars>>
    BY <1>2, <1>18, OwnersWait
  <1>. QED  BY <1>7, <1>9, <1>10, <1>11, <1>12, <1>13, <1>14, <1>15, <1>16, <1>17, <1>18, StepCases

(* The invariant is inductive.                                             *)
LEMMA NetStep ==
    ASSUME NetInv, [Next]_vars
    PROVE  NetInv'
  <1>1. ServiceInv'
    BY ServiceStep
  <1>2. SocketsTypeOK' /\ AgentsInv' /\ RefsInv'
    BY SocketsTypeStep, AgentsStep, RefsStep
  <1>3. HandlesInv' /\ OpInv'
    BY HandlesStep
  <1>4. OwnListener' /\ OwnConnection' /\ OwnDial' /\ WaitsInv'
    BY ListenerStep, ConnectionStep, DialStep, WaitsStep
  <1>. QED  BY <1>1, <1>2, <1>3, <1>4 DEF NetInv, ServiceInv

(* The first state: nobody waits, and what is open is in its object.       *)
LEMMA NetInit == Init => NetInv
  <1>. SUFFICES ASSUME Init  PROVE NetInv
    OBVIOUS
  <1>1. PICK w \in Workloads : /\ op = [t \in Tasks |-> IF t \in w THEN "idle" ELSE "off"]
                               /\ SocketsInit("accept" \in w, w \cap {"read", "write"} # {})
    BY DEF Init
  <1>2. \E l, c \in BOOLEAN : SocketsInit(l, c)
    <2>1. ("accept" \in w) \in BOOLEAN /\ (w \cap {"read", "write"} # {}) \in BOOLEAN
      OBVIOUS
    <2>. QED  BY <1>1, <2>1
  <1>3. PICK l \in BOOLEAN, c \in BOOLEAN : SocketsInit(l, c)
    BY <1>2
  <1>4. /\ lsock = (IF l THEN Min(Fds) ELSE 0) /\ lrefs = (IF l THEN 1 ELSE 0)
        /\ csock = (IF c THEN Min(Fds \ {lsock}) ELSE 0) /\ crefs = (IF c THEN 1 ELSE 0)
        /\ holds = [fd \in Fds |-> CASE fd = lsock -> "listener" [] fd = csock -> "conn" [] OTHER -> "free"]
        /\ fullOpen = c /\ readOpen = c /\ writeOpen = c /\ shutR = FALSE /\ shutW = FALSE
        /\ agent = [h \in Handles |-> IF (l /\ h = "listener") \/ (c /\ h = "whole") THEN Rest ELSE Gone]
        /\ stray = {}
    BY <1>3 DEF SocketsInit
  <1>5. /\ req = [t \in Tasks |-> Request(0)] /\ current = NoService
        /\ list = [s \in Services |-> <<>>] /\ thread = [s \in Services |-> NoThread]
    BY DEF Init
  <1>6. l => lsock \in Fds
    <2>1. Fds \subseteq Nat /\ Fds # {}
      BY FdsAssumption
    <2>2. Min(Fds) \in Fds
      BY <2>1, MinOf
    <2>. QED  BY <1>4, <2>2
  <1>7. c => csock \in Fds /\ csock # lsock
    <2>. DEFINE S == Fds \ {lsock}
    <2>3. PICK fd \in Fds, other \in Fds : fd # other
      BY FdsAssumption
    <2>4. fd \in S \/ other \in S
      BY <2>3
    <2>1. S \subseteq Nat /\ S # {}
      BY <2>4, FdsAssumption
    <2>. HIDE DEF S
    <2>2. Min(S) \in S
      BY <2>1, MinOf
    <2>. QED  BY <1>4, <2>2 DEF S
  <1>8. /\ ~l => lsock = 0
        /\ ~c => csock = 0
    BY <1>4
  <1>9. 0 \notin Fds
    BY FdsAssumption
  <1>10. \A fd \in Fds : /\ holds[fd] \in Kinds
                         /\ holds[fd] = "listener" <=> fd = lsock
                         /\ holds[fd] = "conn" <=> fd = csock
                         /\ holds[fd] # "dial"
    <2>1. \A fd \in Fds : ~(fd = lsock /\ fd = csock)
      BY <1>6, <1>7, <1>8, <1>9
    <2>2. \A fd \in Fds : holds[fd] = CASE fd = lsock -> "listener" [] fd = csock -> "conn" [] OTHER -> "free"
      BY <1>4
    <2>. QED  BY <2>1, <2>2 DEF Kinds
  <1>11. \A h \in Handles : agent[h] = IF (l /\ h = "listener") \/ (c /\ h = "whole") THEN Rest ELSE Gone
    BY <1>4
  <1>12. \A h \in Handles : ~Closing(h) /\ agent[h].do \in {"rest", "gone"}
    BY <1>11, DoingFields DEF Closing, Does
  <1>13. SocketsTypeOK
    <2>1. agent \in [Handles -> Doings]
      BY <1>4, NamedDoings
    <2>2. holds \in [Fds -> Kinds]
      BY <1>4, <1>10
    <2>3. lsock \in Numbered /\ csock \in Numbered
      BY <1>6, <1>7, <1>8 DEF Numbered
    <2>4. lrefs \in Int /\ crefs \in Int
      BY <1>4
    <2>5. fullOpen \in BOOLEAN /\ readOpen \in BOOLEAN /\ writeOpen \in BOOLEAN /\ shutR \in BOOLEAN /\ shutW \in BOOLEAN
      BY <1>4, Zenon
    <2>6. stray \subseteq {"shutdown", "transfer"}
      BY <1>4
    <2>. QED  BY <2>1, <2>2, <2>3, <2>4, <2>5, <2>6 DEF SocketsTypeOK
  <1>14. \A t \in Tasks : op[t] \in {"idle", "off"}
    BY <1>1
  <1>15. ServiceTypeOK
    <2>1. op \in [Tasks -> OpStates]
      BY <1>1 DEF OpStates
    <2>2. req \in [Tasks -> Requests]
      BY <1>5, RequestIsTyped, Zero
    <2>3. list \in [Services -> Seq(Tasks)]
      BY <1>5
    <2>4. thread \in [Services -> Threads]
      BY <1>5, FreshThreads
    <2>. QED  BY <1>5, <2>1, <2>2, <2>3, <2>4 DEF ServiceTypeOK
  <1>16. AgentsInv
    <2>1. "whole" \in Handles /\ (Does("whole", "rest") <=> c)
      BY <1>11, HandleNames, DoingFields DEF Does
    <2>2. Is("reader", Gone) /\ Is("writer", Gone) /\ Is("controller", Gone)
      BY <1>11, HandleNames DEF Is
    <2>3. \A h \in Handles : (Does(h, "rest") => Is(h, Rest)) /\ (Does(h, "gone") => Is(h, Gone)) /\ ~Does(h, "shut")
      BY <1>11, DoingFields DEF Does, Is
    <2>4. c => csock # 0
      BY <1>7, <1>9
    <2>5. agent["controller"].do = "gone"
      BY <2>2, DoingFields DEF Is
    <2>. QED  BY <1>4, <1>12, <2>1, <2>2, <2>3, <2>4, <2>5 DEF AgentsInv
  <1>17. HandlesInv /\ OpInv
    BY <1>14 DEF HandlesInv, OpInv, Begun, Tasks
  <1>18. RefsInv
    <2>1. /\ Is("listener", Gone) <=> ~l
          /\ Is("stopper", Gone)
          /\ Is("whole", Gone) <=> ~c
          /\ Is("reader", Gone) /\ Is("writer", Gone) /\ Is("controller", Gone)
      BY <1>11, HandleNames, DoingFields DEF Is
    <2>. QED  BY <1>4, <2>1 DEF RefsInv, One
  <1>19. \A s \in Services : thread[s] = NoThread /\ list[s] = <<>>
    BY <1>5
  <1>20. \A s \in Services, t \in Tasks : ~Listed(s, t)
    BY <1>19 DEF Listed, Member
  <1>21. ListsInv
    BY <1>5, <1>19, <1>20, FreshThreads DEF ListsInv, Once
  <1>22. \A s \in Services : thread[s].at = "free" /\ thread[s].task = "none"
    BY <1>19, FreshThreads
  <1>23. ThreadsInv
    BY <1>22 DEF ThreadsInv, ThreadInv, Rounds, Tasks
  <1>24. EndingsInv
    BY <1>14, <1>22 DEF EndingsInv, Ends, Endings
  <1>25. OwnListener
    BY <1>6, <1>8, <1>10, <1>12, HandleKinds DEF OwnListener
  <1>26. \A s \in Services, t \in Tasks : ~Closer(s, t)
    BY <1>22 DEF Closer, At
  <1>27. "write" \in Tasks /\ "connect" \in Tasks
    BY DEF Tasks
  <1>28. OwnConnection
    BY <1>7, <1>8, <1>10, <1>12, <1>26, <1>27, HandleKinds DEF OwnConnection
  <1>29. OwnDial
    BY <1>10, <1>20, <1>26, <1>27 DEF OwnDial, Dials
  <1>30. WaitsInv
    BY <1>4, <1>14, <1>20 DEF WaitsInv, Waits, Tasks
  <1>. QED  BY <1>13, <1>15, <1>16, <1>17, <1>18, <1>21, <1>23, <1>24, <1>25, <1>28, <1>29, <1>30 DEF NetInv

(***************************************************************************)
(* What the invariant means for requests and descriptors.                  *)
(***************************************************************************)

(* A set with at most one element.                                         *)
LEMMA AtMostOne ==
    ASSUME NEW S, \A x, y \in S : x = y
    PROVE  Cardinality(S) = One(S # {})
  <1>1. CASE S = {}
    BY <1>1, FS_EmptySet DEF One
  <1>2. CASE S # {}
    <2>1. PICK x : x \in S
      BY <1>2
    <2>2. S = {x}
      BY <2>1
    <2>. QED  BY <1>2, <2>2, FS_Singleton DEF One
  <1>. QED  BY <1>1, <1>2

(* One element more, or not.                                               *)
LEMMA AddOne ==
    ASSUME NEW S, NEW x, NEW b \in BOOLEAN, IsFiniteSet(S), x \notin S
    PROVE  LET T == S \cup (IF b THEN {x} ELSE {})
           IN  IsFiniteSet(T) /\ Cardinality(T) = Cardinality(S) + One(b)
  <1>1. Cardinality(S) \in Nat
    BY FS_CardinalityType
  <1>2. CASE b
    BY <1>1, <1>2, FS_AddElement DEF One
  <1>3. CASE ~b
    <2>1. S \cup (IF b THEN {x} ELSE {}) = S
      BY <1>3
    <2>. QED  BY <1>1, <1>3, <2>1 DEF One
  <1>. QED  BY <1>2, <1>3

(* A pending request is in the current service's list or with one thread.  *)
LEMMA KeptRequests ==
    ASSUME NetInv
    PROVE  RequestsAreServed
  <1>. SUFFICES ASSUME NEW t \in Tasks, op[t] = "pending"
                PROVE  /\ \/ InList(t) /\ ~At(current, "free") /\ ~At(current, "last") /\ Completer(t) = {}
                          \/ ~InList(t) /\ Cardinality(Completer(t)) = 1
                       /\ t # "connect" => References(t) > 0
    BY DEF RequestsAreServed
  <1>1. ServiceTypeOK /\ ListsInv /\ ThreadsInv /\ EndingsInv /\ HandlesInv /\ RefsInv /\ SocketsTypeOK
    BY DEF NetInv
  <1>2. InList(t) <=> current # NoService /\ Listed(current, t)
    BY DEF InList, Listed, Member
  <1>3. current # NoService => current \in Services
    BY <1>1 DEF ServiceTypeOK
  <1>4. NoService \notin Services
    BY ServiceAssumption
  <1>5. \A s \in Services : Listed(s, t) => s = current
    BY <1>1 DEF ListsInv
  <1>6. \A s \in Services : s \in Completer(t) <=> Ends(s, t)
    <2>. SUFFICES ASSUME NEW s \in Services  PROVE s \in Completer(t) <=> Ends(s, t)
      OBVIOUS
    <2>1. thread[s].at \in Places
      BY <1>1 DEF ServiceTypeOK, Threads
    <2>2. ThreadInv(s, thread[s])
      BY <1>1 DEF ThreadsInv
    <2>3. t # "none"
      BY DEF Tasks
    <2>4. thread[s].task = t => thread[s].at \in {"unread", "remove"} \cup Endings
      BY <2>1, <2>2, <2>3 DEF ThreadInv, Places
    <2>. QED  BY <2>4 DEF Completer, Ends, Endings
  <1>7. ASSUME t # "connect"  PROVE References(t) > 0
    <2>1. Does(Handle(t), "rest")
      BY <1>1, <1>7 DEF HandlesInv, Begun
    <2>2. ~Is(Handle(t), Gone)
      BY <2>1, DoingFields DEF Is, Does
    <2>3. CASE t = "accept"
      <3>1. ~Is("listener", Gone)
        BY <2>2, <2>3 DEF Handle
      <3>. QED  BY <1>1, <2>3, <3>1 DEF References, RefsInv, One
    <2>4. CASE t # "accept"
      <3>1. ~Is("reader", Gone) \/ ~Is("writer", Gone)
        BY <1>7, <2>2, <2>4 DEF Handle, Tasks
      <3>. QED  BY <1>1, <2>4, <3>1 DEF References, RefsInv, One
    <2>. QED  BY <2>3, <2>4
  <1>8. PICK s \in Services : Listed(s, t) \/ Ends(s, t)
    BY <1>1 DEF EndingsInv
  <1>9. CASE Listed(s, t)
    <2>1. InList(t)
      BY <1>2, <1>4, <1>5, <1>9
    <2>2. ~At(current, "free") /\ ~At(current, "last")
      BY <1>1, <1>2, <2>1 DEF ListsInv, At
    <2>3. Completer(t) = {}
      <3>1. \A u \in Services : ~Ends(u, t)
        BY <1>1, <1>9 DEF EndingsInv
      <3>2. \A u \in Completer(t) : u \in Services
        BY DEF Completer
      <3>. QED  BY <1>6, <3>1, <3>2
    <2>. QED  BY <1>7, <2>1, <2>2, <2>3
  <1>10. CASE Ends(s, t)
    <2>1. \A u \in Services : ~Listed(u, t)
      BY <1>1, <1>10 DEF EndingsInv
    <2>2. ~InList(t)
      BY <1>2, <1>3, <2>1
    <2>3. \A u \in Services : Ends(u, t) => u = s
      BY <1>1, <1>10 DEF EndingsInv
    <2>4. Completer(t) = {s}
      <3>1. \A u \in Completer(t) : u \in Services
        BY DEF Completer
      <3>2. \A u : u \in Completer(t) <=> u = s
        BY <1>6, <1>10, <2>3, <3>1
      <3>. DEFINE C == Completer(t)
      <3>. HIDE DEF C
      <3>3. \A u : u \in C <=> u = s
        BY <3>2 DEF C
      <3>4. C = {s}
        BY <3>3
      <3>. QED  BY <3>4 DEF C
    <2>. QED  BY <1>7, <2>2, <2>4, FS_Singleton
  <1>. QED  BY <1>8, <1>9, <1>10

(* A number that stands for a socket of ours has one owner.                *)
LEMMA KeptDescriptors ==
    ASSUME NetInv
    PROVE  DescriptorsAreOwned
  <1>1. /\ ServiceTypeOK /\ ListsInv /\ EndingsInv /\ RefsInv /\ SocketsTypeOK
        /\ OwnListener /\ OwnConnection /\ OwnDial
    BY DEF NetInv
  <1>2. 0 \notin Fds
    BY FdsAssumption
  <1>. DEFINE Takes(hs, fd) == {h \in hs : Does(h, "close") /\ agent[h].fd = fd}
              Enders(t, fd) == {s \in Services : At(s, "close") /\ thread[s].task = t /\ thread[s].fd = fd}
  <1>3. "write" \in Tasks /\ "connect" \in Tasks
    BY DEF Tasks
  <1>4. \A t \in Tasks, s, u \in Services : Closer(s, t) /\ Closer(u, t) => s = u
    BY <1>1 DEF EndingsInv, Ends, Endings, Closer, At
  <1>5. ASSUME NEW t \in Tasks, NEW fd \in Fds
        PROVE  Finishers(t, fd) = One(Enders(t, fd) # {})
    <2>. DEFINE S == Enders(t, fd)
    <2>1. \A s, u \in S : s = u
      BY <1>4 DEF Closer
    <2>2. Finishers(t, fd) = Cardinality(S)
      BY DEF Finishers
    <2>. HIDE DEF S
    <2>3. Cardinality(S) = One(S # {})
      BY <2>1, AtMostOne
    <2>. QED  BY <2>2, <2>3 DEF S
  <1>6. \A t \in Tasks, fd \in Fds : Enders(t, fd) # {} <=> \E s \in Services : Closer(s, t) /\ thread[s].fd = fd
    BY DEF Closer
  <1>7. ASSUME NEW hs, hs = ListenerHandles \/ hs = ConnectionHandles, NEW fd \in Fds
        PROVE  /\ Takers(hs, fd) = One(Takes(hs, fd) # {})
               /\ Takes(hs, fd) # {} <=> \E h \in hs : Closing(h) /\ agent[h].fd = fd
    <2>. DEFINE S == Takes(hs, fd)
    <2>1. \A h, k \in hs : Closing(h) /\ Closing(k) => h = k
      BY <1>1, <1>7 DEF OwnListener, OwnConnection, ListenerHandles
    <2>2. \A s, u \in S : s = u
      BY <2>1 DEF Closing
    <2>3. Takers(hs, fd) = Cardinality(S)
      BY DEF Takers
    <2>4. S # {} <=> \E h \in hs : Closing(h) /\ agent[h].fd = fd
      BY DEF Closing
    <2>. HIDE DEF S
    <2>5. Cardinality(S) = One(S # {})
      BY <2>2, AtMostOne
    <2>6. Takers(hs, fd) = One(S # {})
      BY <2>3, <2>5
    <2>. QED  BY <2>4, <2>6 DEF S
  <1>. HIDE DEF Takes, Enders
  <1>8. ASSUME NEW fd \in Fds
        PROVE  One(holds[fd] = "listener") = One(lsock = fd) + Takers(ListenerHandles, fd)
    <2>. DEFINE c == Takes(ListenerHandles, fd) # {}
    <2>1. holds[fd] = "listener" <=> lsock = fd \/ c
      BY <1>1, <1>2, <1>7 DEF OwnListener
    <2>2. ~(lsock = fd /\ c)
      BY <1>1, <1>2, <1>7 DEF OwnListener
    <2>3. Takers(ListenerHandles, fd) = One(c)
      BY <1>7
    <2>. HIDE DEF c
    <2>. QED  BY <2>1, <2>2, <2>3 DEF One
  <1>9. ASSUME NEW fd \in Fds
        PROVE  One(holds[fd] = "conn") = One(csock = fd) + Takers(ConnectionHandles, fd) + Finishers("write", fd)
    <2>. DEFINE c == Takes(ConnectionHandles, fd) # {}
                d == Enders("write", fd) # {}
    <2>1. c <=> \E h \in ConnectionHandles : Closing(h) /\ agent[h].fd = fd
      BY <1>7
    <2>2. d <=> \E s \in Services : Closer(s, "write") /\ thread[s].fd = fd
      BY <1>3, <1>6
    <2>3. Takers(ConnectionHandles, fd) = One(c) /\ Finishers("write", fd) = One(d)
      BY <1>3, <1>5, <1>7
    <2>. HIDE DEF c, d
    <2>4. holds[fd] = "conn" <=> csock = fd \/ c \/ d
      BY <1>1, <1>2, <2>1, <2>2 DEF OwnConnection
    <2>5. ~(csock = fd /\ c) /\ ~(csock = fd /\ d) /\ ~(c /\ d)
      BY <1>1, <1>2, <2>1, <2>2 DEF OwnConnection
    <2>. QED  BY <2>3, <2>4, <2>5 DEF One
  <1>10. ASSUME NEW fd \in Fds
         PROVE  One(holds[fd] = "dial") =
                  One(op["connect"] = "pending" /\ InList("connect") /\ req["connect"].fd = fd) + Finishers("connect", fd)
    <2>. DEFINE b == op["connect"] = "pending" /\ InList("connect") /\ req["connect"].fd = fd
                d == Enders("connect", fd) # {}
    <2>1. b <=> Dials /\ req["connect"].fd = fd
      <3>1. Dials <=> op["connect"] = "pending" /\ InList("connect")
        <4>1. InList("connect") <=> current # NoService /\ Listed(current, "connect")
          BY DEF InList, Listed, Member
        <4>2. current # NoService => current \in Services
          BY <1>1 DEF ServiceTypeOK
        <4>3. \A s \in Services : Listed(s, "connect") => s = current /\ s # NoService /\ op["connect"] = "pending"
          BY <1>1, <1>3, ServiceAssumption DEF ListsInv
        <4>. QED  BY <4>1, <4>2, <4>3 DEF Dials
      <3>. QED  BY <3>1
    <2>2. d <=> \E s \in Services : Closer(s, "connect") /\ thread[s].fd = fd
      BY <1>3, <1>6
    <2>3. Finishers("connect", fd) = One(d)
      BY <1>3, <1>5
    <2>4. \A s \in Services : Closer(s, "connect") => ~Dials
      BY <1>1, <1>3 DEF EndingsInv, Ends, Endings, Closer, At, Dials
    <2>. HIDE DEF b, d
    <2>5. holds[fd] = "dial" <=> b \/ d
      BY <1>1, <1>2, <2>1, <2>2 DEF OwnDial
    <2>6. ~(b /\ d)
      BY <2>1, <2>2, <2>4
    <2>7. One(holds[fd] = "dial") = One(b) + One(d)
      BY <2>5, <2>6 DEF One
    <2>. QED  BY <2>3, <2>7 DEF b
  <1>. DEFINE Held(h) == IF ~Is(h, Gone) THEN {h} ELSE {}
  <1>11. ASSUME NEW S, NEW h, IsFiniteSet(S), h \notin S
         PROVE  IsFiniteSet(S \cup Held(h)) /\ Cardinality(S \cup Held(h)) = Cardinality(S) + One(~Is(h, Gone))
    <2>. DEFINE b == ~Is(h, Gone)
    <2>1. b \in BOOLEAN
      OBVIOUS
    <2>2. Held(h) = IF b THEN {h} ELSE {}
      OBVIOUS
    <2>. HIDE DEF b, Held
    <2>3. IsFiniteSet(S \cup Held(h)) /\ Cardinality(S \cup Held(h)) = Cardinality(S) + One(b)
      BY <1>11, <2>1, <2>2, AddOne
    <2>. QED  BY <2>3 DEF b
  <1>12. \A h, k : k \in Held(h) => k = h
    OBVIOUS
  <1>13. IsFiniteSet({}) /\ Cardinality({}) = 0
    BY FS_EmptySet
  <1>14. lrefs = Cardinality({h \in ListenerHandles : agent[h] # Gone})
    <2>. DEFINE A == {} \cup Held("listener")
                B == A \cup Held("stopper")
    <2>1. {h \in ListenerHandles : agent[h] # Gone} = B
      BY DEF ListenerHandles, Is
    <2>. HIDE DEF Held
    <2>2. IsFiniteSet(A) /\ Cardinality(A) = 0 + One(~Is("listener", Gone))
      BY <1>11, <1>13
    <2>3. "stopper" \notin A
      BY <1>12
    <2>. HIDE DEF A
    <2>4. Cardinality(B) = Cardinality(A) + One(~Is("stopper", Gone))
      BY <1>11, <2>2, <2>3
    <2>. HIDE DEF B
    <2>5. lrefs = Cardinality(B)
      BY <1>1, <2>2, <2>4 DEF RefsInv, One
    <2>. QED  BY <2>1, <2>5
  <1>15. crefs = Cardinality({h \in ConnectionHandles : agent[h] # Gone})
    <2>. DEFINE A == {} \cup Held("whole")
                B == A \cup Held("reader")
                C == B \cup Held("writer")
                D == C \cup Held("controller")
    <2>1. {h \in ConnectionHandles : agent[h] # Gone} = D
      BY DEF ConnectionHandles, Is
    <2>. HIDE DEF Held
    <2>2. IsFiniteSet(A) /\ Cardinality(A) = 0 + One(~Is("whole", Gone))
      BY <1>11, <1>13
    <2>3. "reader" \notin A /\ "writer" \notin B /\ "controller" \notin C
      BY <1>12
    <2>. HIDE DEF A
    <2>4. IsFiniteSet(B) /\ Cardinality(B) = Cardinality(A) + One(~Is("reader", Gone))
      BY <1>11, <2>2, <2>3
    <2>. HIDE DEF B
    <2>5. IsFiniteSet(C) /\ Cardinality(C) = Cardinality(B) + One(~Is("writer", Gone))
      BY <1>11, <2>3, <2>4
    <2>. HIDE DEF C
    <2>6. Cardinality(D) = Cardinality(C) + One(~Is("controller", Gone))
      BY <1>11, <2>3, <2>5
    <2>. HIDE DEF D
    <2>7. crefs = Cardinality(D)
      BY <1>1, <2>2, <2>4, <2>5, <2>6 DEF RefsInv, One
    <2>. QED  BY <2>1, <2>7
  <1>. QED  BY <1>8, <1>9, <1>10, <1>14, <1>15 DEF DescriptorsAreOwned

(* The network service keeps its requests, threads, handles and            *)
(* descriptors together: the inductive invariant holds in every state.     *)
THEOREM NetInvariant == Spec => []NetInv
  BY NetInit, NetStep, PTL DEF Spec

(* A request fdn_net_submit took over is never lost, completed twice or    *)
(* left to a service whose thread has ended: until its operation completes *)
(* it is in the list of the current service, or one thread has taken it    *)
(* out and is completing it, and the listener or connection its pointers   *)
(* lead to has references (fdn_net_submit, fdn_net_service_finish,         *)
(* fdn_net_service_stop_if_empty).                                         *)
THEOREM RequestsAreNotLost == Spec => []RequestsAreServed
  <1>1. NetInv => RequestsAreServed
    BY KeptRequests
  <1>. QED  BY <1>1, NetInvariant, PTL

(* A descriptor is closed once and not leaked: every number the kernel     *)
(* gave a listener, a connection or a connect under way is in its object   *)
(* or with the one owner or thread that took it to close it after the lock *)
(* (fdn_net_close_half, foundation_runtime_net_listener_close,             *)
(* fdn_net_service_finish), and the reference counts are the numbers of    *)
(* handles.                                                                *)
THEOREM DescriptorsAreClosedOnce == Spec => []DescriptorsAreOwned
  <1>1. NetInv => DescriptorsAreOwned
    BY KeptDescriptors
  <1>. QED  BY <1>1, NetInvariant, PTL

(* The service's thread, and a write that tries to send at once, reach     *)
(* another's socket only after foundation_runtime_net_controller_abort:    *)
(* although numbers are reused as soon as they are closed, a request whose *)
(* half is open is about the connection's own socket                       *)
(* (fdn_net_accept_ready, fdn_net_process_request).                        *)
THEOREM CallsStayOnTheirSockets == Spec => []ServiceKeepsToItsSockets
  <1>1. NetInv => ServiceKeepsToItsSockets
    BY DEF NetInv, WaitsInv, Aborted, ServiceKeepsToItsSockets
  <1>. QED  BY <1>1, NetInvariant, PTL
=============================================================================
