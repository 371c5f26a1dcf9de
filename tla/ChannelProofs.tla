--------------------------- MODULE ChannelProofs ---------------------------
(***************************************************************************)
(* Proofs about Channel, for any number of tasks, channels and executors,  *)
(* any capacities and any case lists.                                      *)
(***************************************************************************)
EXTENDS Channel, FiniteSetTheorems, SequenceTheorems, WellFoundedInduction, TLAPS

(***************************************************************************)
(* Queues.                                                                 *)
(***************************************************************************)

(* What remains of a queue when its first member is popped.                *)
LEMMA TailOf ==
    ASSUME NEW S, NEW q \in Seq(S), q # <<>>
    PROVE  /\ Tail(q) \in Seq(S) /\ Head(q) \in Range(q) /\ Range(Tail(q)) \subseteq Range(q)
           /\ Range(q) \subseteq Range(Tail(q)) \cup {Head(q)}
           /\ Injective(q) => Injective(Tail(q)) /\ Head(q) \notin Range(Tail(q))
<1>1. Tail(q) \in Seq(S) /\ Len(q) > 0 /\ DOMAIN Tail(q) = 1 .. Len(q) - 1 /\ DOMAIN q = 1 .. Len(q)
      /\ Head(q) = q[1] /\ Len(q) \in Nat
  OBVIOUS
<1>2. \A i \in DOMAIN Tail(q) : Tail(q)[i] = q[i + 1] /\ i + 1 \in DOMAIN q  BY <1>1
<1>3. \A i \in DOMAIN q : i = 1 \/ (i - 1 \in DOMAIN Tail(q) /\ Tail(q)[i - 1] = q[i])  BY <1>1
<1>4. Head(q) \in Range(q) /\ Range(Tail(q)) \subseteq Range(q)  BY <1>1, <1>2 DEF Range
<1>5. Range(q) \subseteq Range(Tail(q)) \cup {Head(q)}  BY <1>1, <1>3 DEF Range
<1>6. ASSUME Injective(q)  PROVE Injective(Tail(q)) /\ Head(q) \notin Range(Tail(q))
  BY <1>1, <1>2, <1>6 DEF Range, Injective
<1>. QED  BY <1>1, <1>4, <1>5, <1>6

(* What a queue is when somebody joins it.                                 *)
LEMMA AppendOf ==
    ASSUME NEW S, NEW q \in Seq(S), NEW x \in S
    PROVE  /\ Append(q, x) \in Seq(S) /\ Range(Append(q, x)) = Range(q) \cup {x}
           /\ Injective(q) /\ x \notin Range(q) => Injective(Append(q, x))
<1>1. /\ Append(q, x) \in Seq(S) /\ DOMAIN q = 1 .. Len(q) /\ Len(q) \in Nat
      /\ DOMAIN Append(q, x) = 1 .. Len(q) + 1 /\ Append(q, x)[Len(q) + 1] = x
  OBVIOUS
<1>2. \A i \in DOMAIN q : Append(q, x)[i] = q[i] /\ i \in DOMAIN Append(q, x)  BY <1>1
<1>3. \A i \in DOMAIN Append(q, x) : i \in DOMAIN q \/ i = Len(q) + 1  BY <1>1
<1>4. Range(Append(q, x)) = Range(q) \cup {x}
  <2>1. Len(q) + 1 \in DOMAIN Append(q, x)  BY <1>1
  <2>. QED  BY <1>1, <1>2, <1>3, <2>1 DEF Range
<1>5. ASSUME Injective(q), x \notin Range(q)  PROVE Injective(Append(q, x))
  BY <1>1, <1>2, <1>3, <1>5 DEF Range, Injective
<1>. QED  BY <1>1, <1>4, <1>5

(* What a queue is after its first k members.                              *)
LEMMA RestOf ==
    ASSUME NEW S, NEW q \in Seq(S), NEW k \in 1 .. Len(q)
    PROVE  LET b == SubSeq(q, k + 1, Len(q))
           IN  b \in Seq(S) /\ Len(b) = Len(q) - k /\ \A i \in 1 .. Len(q) - k : b[i] = q[i + k]
  BY SubSeqProperties

(* What a queue is when a member is unlinked.                              *)
LEMMA WithoutAt ==
    ASSUME NEW S, NEW q \in Seq(S), NEW x \in Range(q)
    PROVE  \E k \in 1 .. Len(q) :
              /\ q[k] = x /\ Without(q, x) \in Seq(S) /\ DOMAIN Without(q, x) = 1 .. Len(q) - 1
              /\ \A i \in DOMAIN Without(q, x) : Without(q, x)[i] = q[IF i < k THEN i ELSE i + 1]
<1>. DEFINE k == CHOOSE i \in DOMAIN q : q[i] = x
            r == Without(q, x)
<1>1. k \in DOMAIN q /\ q[k] = x  BY DEF Range
<1>2. r = SubSeq(q, 1, k - 1) \o SubSeq(q, k + 1, Len(q))  BY DEF Without, RemoveAt
<1>. HIDE DEF k
<1>3. /\ r \in Seq(S) /\ DOMAIN q = 1 .. Len(q) /\ Len(q) \in Nat /\ k \in 1 .. Len(q)
      /\ DOMAIN r = 1 .. Len(q) - 1
      /\ \A i \in DOMAIN r : r[i] = q[IF i < k THEN i ELSE i + 1]
  <2>. DEFINE a == SubSeq(q, 1, k - 1)
              b == SubSeq(q, k + 1, Len(q))
  <2>1. DOMAIN q = 1 .. Len(q) /\ Len(q) \in Nat /\ k \in 1 .. Len(q)  BY <1>1
  <2>2. a \in Seq(S) /\ Len(a) = k - 1 /\ \A i \in 1 .. k - 1 : a[i] = q[i]  BY <2>1
  <2>3. b \in Seq(S) /\ Len(b) = Len(q) - k /\ \A i \in 1 .. Len(q) - k : b[i] = q[i + k]
    BY <2>1, RestOf
  <2>4. r = a \o b  BY <1>2
  <2>. HIDE DEF a, b, r
  <2>5. /\ r \in Seq(S) /\ Len(r) = Len(q) - 1 /\ DOMAIN r = 1 .. Len(r)
        /\ \A i \in 1 .. Len(r) : r[i] = IF i <= Len(a) THEN a[i] ELSE b[i - Len(a)]
    <3>1. r \in Seq(S) /\ Len(r) = Len(a) + Len(b)
          /\ \A i \in 1 .. Len(r) : r[i] = IF i <= Len(a) THEN a[i] ELSE b[i - Len(a)]
      <4>. a \in Seq(S) /\ b \in Seq(S)  BY <2>2, <2>3
      <4>1. a \o b \in Seq(S)  OBVIOUS
      <4>2. Len(a \o b) = Len(a) + Len(b)  OBVIOUS
      <4>3. \A i \in 1 .. Len(a) + Len(b) : (a \o b)[i] = IF i <= Len(a) THEN a[i] ELSE b[i - Len(a)]
        BY ConcatProperties, Zenon
      <4>. QED  BY <2>4, <4>1, <4>2, <4>3, Zenon
    <3>2. Len(r) = Len(q) - 1 /\ DOMAIN r = 1 .. Len(r)  BY <2>1, <2>2, <2>3, <3>1
    <3>. QED  BY <3>1, <3>2
  <2>6. ASSUME NEW i \in DOMAIN r  PROVE r[i] = q[IF i < k THEN i ELSE i + 1]
    <3>1. CASE i < k  BY <2>1, <2>2, <2>5, <3>1
    <3>2. CASE i >= k
      <4>1. r[i] = b[i - (k - 1)] /\ i - (k - 1) \in 1 .. Len(q) - k  BY <2>1, <2>2, <2>5, <3>2
      <4>2. b[i - (k - 1)] = q[(i - (k - 1)) + k]  BY <2>3, <4>1
      <4>. QED  BY <2>1, <2>5, <3>2, <4>1, <4>2
    <3>. QED  BY <2>1, <2>5, <3>1, <3>2
  <2>. QED  BY <2>1, <2>5, <2>6
<1>. QED  BY <1>1, <1>3

LEMMA WithoutOf ==
    ASSUME NEW S, NEW q \in Seq(S), NEW x \in Range(q), Injective(q)
    PROVE  /\ Without(q, x) \in Seq(S) /\ Range(Without(q, x)) = Range(q) \ {x}
           /\ Injective(Without(q, x))
<1>. DEFINE r == Without(q, x)
<1>1. PICK k \in 1 .. Len(q) : /\ q[k] = x /\ r \in Seq(S) /\ DOMAIN r = 1 .. Len(q) - 1
                               /\ \A i \in DOMAIN r : r[i] = q[IF i < k THEN i ELSE i + 1]
  BY WithoutAt
<1>3. /\ r \in Seq(S) /\ DOMAIN q = 1 .. Len(q) /\ Len(q) \in Nat /\ k \in 1 .. Len(q)
      /\ DOMAIN r = 1 .. Len(q) - 1
  BY <1>1
<1>4. \A i \in DOMAIN r : r[i] = q[IF i < k THEN i ELSE i + 1]  BY <1>1
<1>. HIDE DEF r
<1>5. \A i \in DOMAIN r : /\ i < k => i \in DOMAIN q /\ r[i] = q[i]
                          /\ i >= k => i + 1 \in DOMAIN q /\ r[i] = q[i + 1]
  BY <1>3, <1>4
<1>6. \A i \in DOMAIN q : /\ i < k => i \in DOMAIN r /\ r[i] = q[i]
                          /\ i > k => i - 1 \in DOMAIN r /\ r[i - 1] = q[i]
  BY <1>3, <1>4
<1>7. \A i \in DOMAIN q : q[i] = x => i = k  BY <1>1 DEF Injective
<1>8. Range(r) \subseteq Range(q) \ {x}
  <2>1. ASSUME NEW i \in DOMAIN r  PROVE r[i] \in Range(q) \ {x}
    BY <1>3, <1>5, <1>7 DEF Range
  <2>. QED  BY <2>1 DEF Range
<1>9. Range(q) \ {x} \subseteq Range(r)
  <2>1. ASSUME NEW i \in DOMAIN q, q[i] # x  PROVE q[i] \in Range(r)
    BY <1>1, <1>3, <1>6, <2>1 DEF Range
  <2>. QED  BY <2>1 DEF Range
<1>10. Injective(r)
  <2>1. ASSUME NEW i \in DOMAIN r, NEW j \in DOMAIN r, r[i] = r[j]  PROVE i = j
    BY <1>3, <1>5, <2>1 DEF Injective
  <2>. QED  BY <2>1 DEF Injective
<1>. QED  BY <1>3, <1>8, <1>9, <1>10 DEF r

(* Every set of naturals has a least member.                               *)
LEMMA LeastOf ==
    ASSUME NEW S \in SUBSET Nat, S # {}
    PROVE  \E i \in S : \A j \in S : i <= j
<1>1. PICK i \in S : \A j \in S : ~(<<j, i>> \in OpToRel(<, Nat))
  BY NatLessThanWellFounded, WFMin
<1>2. \A j \in S : ~(j < i)  BY <1>1 DEF OpToRel
<1>. QED  BY <1>2

(***************************************************************************)
(* What an attempt answers, case by case.                                  *)
(***************************************************************************)

LEMMA FieldsOf ==
    ASSUME NEW c \in Channels
    PROVE  /\ Attempt(c).status = "pending" /\ Attempt(c).buffer = buffer[c] /\ Attempt(c).sendQ = sendQ[c]
           /\ Attempt(c).recvQ = recvQ[c] /\ Attempt(c).wakes = NoWakes /\ Attempt(c).claimed = {}
           /\ Attempt(c).into = {} /\ Attempt(c).arrived = <<>> /\ Attempt(c).passed = <<>>
  BY DEF Attempt

(* The four answers of an attempted send, besides staying pending.         *)
LEMMA SendClosed ==
    ASSUME NEW c \in Channels, NEW m, receivers[c] = 0
    PROVE  LET r == TrySend(c, m)
           IN  /\ r.status = "closed" /\ r.buffer = buffer[c] /\ r.sendQ = sendQ[c] /\ r.recvQ = recvQ[c]
               /\ r.wakes = NoWakes /\ r.claimed = {} /\ r.into = {} /\ r.arrived = <<>> /\ r.passed = <<>>
  BY DEF TrySend, Attempt

LEMMA SendToReceiver ==
    ASSUME NEW c \in Channels, NEW m, receivers[c] # 0, recvQ[c] # <<>>
    PROVE  LET r == TrySend(c, m)
           IN  /\ r.status = "ready" /\ r.buffer = buffer[c] /\ r.sendQ = sendQ[c] /\ r.recvQ = Tail(recvQ[c])
               /\ r.wakes = WakeEach({Head(recvQ[c])}, Wk("ready", 0)) /\ r.claimed = {}
               /\ r.into = {Head(recvQ[c])} /\ r.arrived = <<m>> /\ r.passed = <<m>>
  BY DEF TrySend, Attempt

LEMMA SendToSelect ==
    ASSUME NEW c \in Channels, NEW m, receivers[c] # 0, recvQ[c] = <<>>, Matching(c, "receive") # {}
    PROVE  LET r == TrySend(c, m)
               t == Match(c, "receive")
           IN  /\ r.status = "ready" /\ r.buffer = buffer[c] /\ r.sendQ = sendQ[c] /\ r.recvQ = recvQ[c]
               /\ r.wakes = WakeEach({t}, Wk("ready", FirstCase(t, c, "receive")))
               /\ r.claimed = {t} /\ r.into = {t} /\ r.arrived = <<m>> /\ r.passed = <<m>>
  BY DEF TrySend, Attempt

LEMMA SendToBuffer ==
    ASSUME NEW c \in Channels, NEW m, receivers[c] # 0, recvQ[c] = <<>>, Matching(c, "receive") = {},
           Len(buffer[c]) < Capacity[c]
    PROVE  LET r == TrySend(c, m)
           IN  /\ r.status = "ready" /\ r.buffer = Append(buffer[c], m) /\ r.sendQ = sendQ[c]
               /\ r.recvQ = recvQ[c] /\ r.wakes = Signals(c) /\ r.claimed = Unclaimed(c)
               /\ r.into = {} /\ r.arrived = <<m>> /\ r.passed = <<>>
  BY DEF TrySend, Attempt

LEMMA SendPending ==
    ASSUME NEW c \in Channels, NEW m, receivers[c] # 0, recvQ[c] = <<>>, Matching(c, "receive") = {},
           ~(Len(buffer[c]) < Capacity[c])
    PROVE  TrySend(c, m) = Attempt(c)
  BY DEF TrySend

(* The four answers of an attempted receive, besides staying pending.      *)
LEMMA ReceiveFromBuffer ==
    ASSUME NEW c \in Channels, buffer[c] # <<>>
    PROVE  LET r == TryReceive(c)
               s == Head(sendQ[c])
           IN  /\ r.status = "ready" /\ r.recvQ = recvQ[c] /\ r.claimed = Unclaimed(c)
               /\ r.buffer = IF Refills(c) THEN Append(Tail(buffer[c]), op[s].msgs[1]) ELSE Tail(buffer[c])
               /\ r.sendQ = IF Refills(c) THEN Tail(sendQ[c]) ELSE sendQ[c]
               /\ r.wakes = AndThen(Signals(c), WakeEach(IF Refills(c) THEN {s} ELSE {}, Wk("ready", 0)))
               /\ r.into = {} /\ r.arrived = <<>> /\ r.passed = <<Head(buffer[c])>>
  BY DEF TryReceive, Attempt

LEMMA ReceiveFromSender ==
    ASSUME NEW c \in Channels, buffer[c] = <<>>, sendQ[c] # <<>>
    PROVE  LET r == TryReceive(c)
               s == Head(sendQ[c])
           IN  /\ r.status = "ready" /\ r.buffer = buffer[c] /\ r.recvQ = recvQ[c] /\ r.sendQ = Tail(sendQ[c])
               /\ r.wakes = WakeEach({s}, Wk("ready", 0)) /\ r.claimed = {} /\ r.into = {}
               /\ r.arrived = <<>> /\ r.passed = <<op[s].msgs[1]>>
  BY DEF TryReceive, Attempt

LEMMA ReceiveFromSelect ==
    ASSUME NEW c \in Channels, buffer[c] = <<>>, sendQ[c] = <<>>, Matching(c, "send") # {}
    PROVE  LET r == TryReceive(c)
               t == Match(c, "send")
               i == FirstCase(t, c, "send")
           IN  /\ r.status = "ready" /\ r.buffer = buffer[c] /\ r.sendQ = sendQ[c] /\ r.recvQ = recvQ[c]
               /\ r.wakes = WakeEach({t}, Wk("ready", i)) /\ r.claimed = {t} /\ r.into = {}
               /\ r.arrived = <<op[t].msgs[i]>> /\ r.passed = <<op[t].msgs[i]>>
  BY DEF TryReceive, Attempt

LEMMA ReceiveClosed ==
    ASSUME NEW c \in Channels, buffer[c] = <<>>, sendQ[c] = <<>>, Matching(c, "send") = {}, senders[c] = 0
    PROVE  LET r == TryReceive(c)
           IN  /\ r.status = "closed" /\ r.buffer = buffer[c] /\ r.sendQ = sendQ[c] /\ r.recvQ = recvQ[c]
               /\ r.wakes = NoWakes /\ r.claimed = {} /\ r.into = {} /\ r.arrived = <<>> /\ r.passed = <<>>
  BY DEF TryReceive, Attempt

LEMMA ReceivePending ==
    ASSUME NEW c \in Channels, buffer[c] = <<>>, sendQ[c] = <<>>, Matching(c, "send") = {}, senders[c] # 0
    PROVE  TryReceive(c) = Attempt(c)
  BY DEF TryReceive

(* An attempt that stays pending changes nothing.                          *)
LEMMA SendIsPending ==
    ASSUME NEW c \in Channels, NEW m, TrySend(c, m).status = "pending"
    PROVE  /\ TrySend(c, m) = Attempt(c) /\ receivers[c] # 0 /\ recvQ[c] = <<>>
           /\ Matching(c, "receive") = {} /\ ~(Len(buffer[c]) < Capacity[c])
<1>1. receivers[c] # 0  BY SendClosed
<1>2. recvQ[c] = <<>>  BY <1>1, SendToReceiver
<1>3. Matching(c, "receive") = {}  BY <1>1, <1>2, SendToSelect
<1>4. ~(Len(buffer[c]) < Capacity[c])  BY <1>1, <1>2, <1>3, SendToBuffer
<1>. QED  BY <1>1, <1>2, <1>3, <1>4, SendPending

LEMMA ReceiveIsPending ==
    ASSUME NEW c \in Channels, TryReceive(c).status = "pending"
    PROVE  /\ TryReceive(c) = Attempt(c) /\ buffer[c] = <<>> /\ sendQ[c] = <<>>
           /\ Matching(c, "send") = {} /\ senders[c] # 0
<1>1. buffer[c] = <<>>  BY ReceiveFromBuffer
<1>2. sendQ[c] = <<>>  BY <1>1, ReceiveFromSender
<1>3. Matching(c, "send") = {}  BY <1>1, <1>2, ReceiveFromSelect
<1>4. senders[c] # 0  BY <1>1, <1>2, <1>3, ReceiveClosed
<1>. QED  BY <1>1, <1>2, <1>3, <1>4, ReceivePending

(***************************************************************************)
(* Waking.                                                                 *)
(***************************************************************************)

(* Each part of ClaimInv, for one task.                                    *)
TaskOK(t) ==
    /\ op[t].kind = "none" <=> stage[t] \in {"ready", "flush", "done"}
    /\ stage[t] \in {"unregister", "repoll"} => op[t].kind = "select"
    /\ op[t].kind \in {"send", "receive"} => SingleCase(t)
    /\ \A c \in Channels :
          /\ t \in Range(sendQ[c]) => Waiting(t) /\ op[t].kind = "send" /\ op[t].cases[1].chan = c
          /\ t \in Range(recvQ[c]) => Waiting(t) /\ op[t].kind = "receive" /\ op[t].cases[1].chan = c
          /\ t \in Range(selQ[c]) => /\ op[t].kind = "select"
                                     /\ stage[t] \in {"parked", "woken", "unregister"}
                                     /\ \E i \in DOMAIN op[t].cases : op[t].cases[i].chan = c
    /\ Waiting(t) => \A i \in DOMAIN op[t].cases :
          /\ op[t].kind = "send" => t \in Range(sendQ[op[t].cases[i].chan])
          /\ op[t].kind = "receive" => t \in Range(recvQ[op[t].cases[i].chan])
          /\ op[t].kind = "select" => t \in Range(selQ[op[t].cases[i].chan])
    /\ mailbox[t] # <<>> => Len(mailbox[t]) = 1 /\ stage[t] = "parked"
    /\ op[t].kind = "select" =>
          /\ stage[t] = "parked" => (signaled[t] <=> mailbox[t] # <<>>)
          /\ stage[t] \in {"woken", "unregister"} => signaled[t]
          /\ stage[t] = "repoll" => wake[t].status = "event"
    /\ slot[t] # NoMsg =>
          \/ stage[t] \in {"woken", "unregister"} /\ wake[t].status = "ready"
          \/ \E i \in DOMAIN mailbox[t] : mailbox[t][i].status = "ready"

LEMMA TaskByTask ==
    ClaimInv <=> ClaimType /\ QueuedOnce /\ NoDoubleWake /\ \A t \in Tasks : TaskOK(t)
<1>. SUFFICES ASSUME ClaimType
              PROVE  /\ OpsAreSuspended /\ QueuedAreParked /\ WaitersAreQueued /\ PostedOnce
                        /\ ClaimedOnce /\ DeliveredIsAnnounced
                     <=> \A t \in Tasks : TaskOK(t)
  BY DEF ClaimInv
<1>1. /\ \A c \in Channels : Range(sendQ[c]) \subseteq Tasks /\ Range(recvQ[c]) \subseteq Tasks
                             /\ Range(selQ[c]) \subseteq Tasks
      /\ \A t \in Tasks : op[t].kind \in {"none", "send", "receive", "select"}
  BY DEF ClaimType, Operations, Range
<1>2. ASSUME OpsAreSuspended, QueuedAreParked, WaitersAreQueued, PostedOnce, ClaimedOnce,
             DeliveredIsAnnounced, NEW t \in Tasks
      PROVE  TaskOK(t)
  <2>1. /\ op[t].kind = "none" <=> stage[t] \in {"ready", "flush", "done"}
        /\ stage[t] \in {"unregister", "repoll"} => op[t].kind = "select"
        /\ op[t].kind \in {"send", "receive"} => SingleCase(t)
    BY <1>2 DEF OpsAreSuspended
  <2>2. Waiting(t) => \A i \in DOMAIN op[t].cases :
          /\ op[t].kind = "send" => t \in Range(sendQ[op[t].cases[i].chan])
          /\ op[t].kind = "receive" => t \in Range(recvQ[op[t].cases[i].chan])
          /\ op[t].kind = "select" => t \in Range(selQ[op[t].cases[i].chan])
    BY <1>2 DEF WaitersAreQueued
  <2>. QED  BY <1>2, <2>1, <2>2 DEF TaskOK, QueuedAreParked, PostedOnce, ClaimedOnce, DeliveredIsAnnounced
<1>3. ASSUME \A t \in Tasks : TaskOK(t)
      PROVE  /\ OpsAreSuspended /\ QueuedAreParked /\ WaitersAreQueued /\ PostedOnce
             /\ ClaimedOnce /\ DeliveredIsAnnounced
  <2>1. OpsAreSuspended /\ PostedOnce /\ ClaimedOnce /\ DeliveredIsAnnounced
    BY <1>3 DEF TaskOK, OpsAreSuspended, PostedOnce, ClaimedOnce, DeliveredIsAnnounced
  <2>2. QueuedAreParked
    BY <1>1, <1>3 DEF TaskOK, QueuedAreParked
  <2>3. WaitersAreQueued
    <3>1. ASSUME NEW t \in Tasks, Waiting(t), NEW i \in DOMAIN op[t].cases
          PROVE  LET c == op[t].cases[i].chan
                 IN  t \in Range(CASE op[t].kind = "send" -> sendQ[c]
                                   [] op[t].kind = "receive" -> recvQ[c]
                                   [] OTHER -> selQ[c])
      <4>1. op[t].kind # "none" /\ TaskOK(t)  BY <1>3, <3>1 DEF TaskOK, Waiting
      <4>2. op[t].kind \in {"send", "receive", "select"}  BY <1>1, <4>1
      <4>3. CASE op[t].kind = "send"  BY <3>1, <4>1, <4>3 DEF TaskOK
      <4>4. CASE op[t].kind = "receive"  BY <3>1, <4>1, <4>4 DEF TaskOK
      <4>5. CASE op[t].kind = "select"  BY <3>1, <4>1, <4>5 DEF TaskOK
      <4>. QED  BY <4>2, <4>3, <4>4, <4>5
    <3>. QED  BY <3>1 DEF WaitersAreQueued
  <2>. QED  BY <2>1, <2>2, <2>3
<1>. QED  BY <1>2, <1>3

LEMMA TaskByTaskNext ==
    ASSUME ClaimType', QueuedOnce', NoDoubleWake', \A t \in Tasks : TaskOK(t)'
    PROVE  ClaimInv'
<1>1. (ClaimType /\ QueuedOnce /\ NoDoubleWake /\ \A t \in Tasks : TaskOK(t))'  OBVIOUS
<1>. QED  BY <1>1, TaskByTask, PTL

(* A set of wakes, at most one for each task, and only for those that wait *)
(* for one.                                                                *)
Sound(ws) == /\ ws \in [Tasks -> Seq(Waits)]
             /\ \A t \in Tasks : ws[t] # <<>> => Len(ws[t]) = 1 /\ Waiting(t)

(* What a step with the wakes ws does to a task other than the one that    *)
(* makes it.                                                               *)
Follows(u, ws) ==
    /\ op'[u] = op[u]
    /\ signaled'[u] <=> (signaled[u] \/ (ws[u] # <<>> /\ op[u].kind = "select"))
    /\ slot'[u] = slot[u] \/ (ws[u] # <<>> /\ ws[u][1].status = "ready")
    /\ \A c \in Channels : /\ u \in Range(sendQ'[c]) <=> u \in Range(sendQ[c]) /\ ws[u] = <<>>
                           /\ u \in Range(recvQ'[c]) <=> u \in Range(recvQ[c]) /\ ws[u] = <<>>
                           /\ u \in Range(selQ'[c]) <=> u \in Range(selQ[c])
    /\ ws[u] = <<>> => stage'[u] = stage[u] /\ wake'[u] = wake[u] /\ mailbox'[u] = mailbox[u]
    /\ ws[u] # <<>> =>
          \/ stage'[u] = "woken" /\ wake'[u] = ws[u][1] /\ mailbox'[u] = <<>>
          \/ stage'[u] = stage[u] /\ wake'[u] = wake[u] /\ mailbox'[u] = ws[u]

LEMMA OpTyped ==
    ASSUME ClaimType, NEW u \in Tasks
    PROVE  /\ op[u].cases \in Seq(Case) /\ op[u].msgs \in Seq(Msgs \cup {NoMsg}) /\ op[u].timed \in BOOLEAN
           /\ op[u].kind \in {"none", "send", "receive", "select"}
           /\ \A i \in DOMAIN op[u].cases : /\ op[u].cases[i].chan \in Channels
                                            /\ op[u].cases[i].kind \in {"send", "receive"}
<1>1. op[u] \in Operations  BY DEF ClaimType
<1>2. /\ op[u].cases \in Seq(Case) /\ op[u].msgs \in Seq(Msgs \cup {NoMsg}) /\ op[u].timed \in BOOLEAN
      /\ op[u].kind \in {"none", "send", "receive", "select"}
  BY <1>1 DEF Operations
<1>3. \A i \in DOMAIN op[u].cases : op[u].cases[i] \in Case  BY <1>2
<1>. QED  BY <1>2, <1>3 DEF Case

LEMMA FollowsKeeps ==
    ASSUME ClaimInv, NEW ws, Sound(ws), NEW u \in Tasks, Follows(u, ws)
    PROVE  TaskOK(u)'
<1>1. TaskOK(u)  BY TaskByTask
<1>2. op'[u] = op[u]  BY DEF Follows
<1>3. op[u].kind \in {"none", "send", "receive", "select"} /\ stage[u] \in Stages
      /\ signaled[u] \in BOOLEAN
  BY DEF ClaimInv, ClaimType, Operations
<1>4. CASE ws[u] = <<>>
  <2>1. /\ stage'[u] = stage[u] /\ wake'[u] = wake[u] /\ mailbox'[u] = mailbox[u] /\ slot'[u] = slot[u]
        /\ signaled'[u] <=> signaled[u]
        /\ \A c \in Channels : /\ u \in Range(sendQ'[c]) <=> u \in Range(sendQ[c])
                               /\ u \in Range(recvQ'[c]) <=> u \in Range(recvQ[c])
                               /\ u \in Range(selQ'[c]) <=> u \in Range(selQ[c])
    BY <1>4 DEF Follows
  <2>2. Waiting(u)' <=> Waiting(u)  BY <2>1 DEF Waiting
  <2>3. SingleCase(u)' <=> SingleCase(u)  BY <1>2 DEF SingleCase
  <2>4. \A i \in DOMAIN op[u].cases : op[u].cases[i].chan \in Channels
    BY OpTyped DEF ClaimInv
  <2>. QED  BY <1>1, <1>2, <2>1, <2>2, <2>3, <2>4 DEF TaskOK
<1>5. CASE ws[u] # <<>>
  <2>1. Waiting(u) /\ Len(ws[u]) = 1 /\ ws[u] \in Seq(Waits) /\ 1 \in DOMAIN ws[u]  BY <1>5 DEF Sound
  <2>2. stage[u] = "parked" /\ mailbox[u] = <<>>  BY <2>1 DEF Waiting
  <2>3. slot[u] = NoMsg  BY <1>1, <2>2 DEF TaskOK
  <2>4. slot'[u] # NoMsg => ws[u][1].status = "ready"  BY <2>3 DEF Follows
  <2>5. op[u].kind \in {"send", "receive", "select"}  BY <1>1, <1>3, <2>2 DEF TaskOK
  <2>6. op[u].kind = "select" => signaled'[u]  BY <1>5 DEF Follows
  <2>7. \A c \in Channels : u \notin Range(sendQ'[c]) /\ u \notin Range(recvQ'[c])
                            /\ (u \in Range(selQ'[c]) <=> u \in Range(selQ[c]))
    BY <1>5 DEF Follows
  <2>8. SingleCase(u)' <=> SingleCase(u)  BY <1>2 DEF SingleCase
  <2>9. CASE stage'[u] = "woken" /\ wake'[u] = ws[u][1] /\ mailbox'[u] = <<>>
    <3>1. ~Waiting(u)'  BY <2>9 DEF Waiting
    <3>. QED  BY <1>1, <1>2, <2>2, <2>4, <2>5, <2>6, <2>7, <2>8, <2>9, <3>1 DEF TaskOK
  <2>10. CASE stage'[u] = stage[u] /\ wake'[u] = wake[u] /\ mailbox'[u] = ws[u]
    <3>1. ~Waiting(u)'  BY <1>5, <2>10 DEF Waiting
    <3>. QED  BY <1>1, <1>2, <1>5, <2>1, <2>2, <2>4, <2>5, <2>6, <2>7, <2>8, <2>10, <3>1 DEF TaskOK
  <2>. QED  BY <1>5, <2>9, <2>10 DEF Follows
<1>. QED  BY <1>4, <1>5

(* Sound wakes reach each task once: at once, or through its mailbox.      *)
LEMMA Woken ==
    ASSUME ClaimInv, NEW ws, Sound(ws), NEW e, NEW base, NEW baseWake,
           WakeTasks(ws, e, base, baseWake)
    PROVE  /\ fault' = "none"
           /\ \A u \in Tasks : ws[u] = <<>> =>
                 stage'[u] = base[u] /\ wake'[u] = baseWake[u] /\ mailbox'[u] = mailbox[u]
           /\ \A u \in Tasks : ws[u] # <<>> =>
                 \/ stage'[u] = "woken" /\ wake'[u] = ws[u][1] /\ mailbox'[u] = <<>>
                 \/ stage'[u] = base[u] /\ wake'[u] = baseWake[u] /\ mailbox'[u] = ws[u]
           /\ mailbox' \in [Tasks -> Seq(Waits)]
           /\ base \in [Tasks -> Stages] => stage' \in [Tasks -> Stages]
           /\ baseWake \in [Tasks -> Waits] => wake' \in [Tasks -> Waits]
<1>. DEFINE mine == [t \in Tasks |-> IF Home[t] = e THEN ws[t] ELSE <<>>]
<1>1. mailbox \in [Tasks -> Seq(Waits)] /\ fault = "none"  BY DEF ClaimInv, ClaimType, NoDoubleWake
<1>2. /\ Enqueue(mine, base, baseWake)
      /\ mailbox' = [t \in Tasks |-> IF Home[t] = e THEN mailbox[t] ELSE mailbox[t] \o ws[t]]
  BY DEF WakeTasks
<1>3. \A u \in Tasks : /\ ws[u] \in Seq(Waits)
                       /\ ws[u] # <<>> => Len(ws[u]) = 1 /\ ws[u][1] \in Waits /\ stage[u] = "parked" /\ mailbox[u] = <<>>
  BY DEF Sound, Waiting
<1>4. \A u \in Tasks : mine[u] = (IF Home[u] = e THEN ws[u] ELSE <<>>)  OBVIOUS
<1>. HIDE DEF mine
<1>5. /\ stage' = [t \in Tasks |-> IF mine[t] # <<>> THEN "woken" ELSE base[t]]
      /\ wake' = [t \in Tasks |-> IF mine[t] # <<>> THEN mine[t][1] ELSE baseWake[t]]
      /\ fault' = IF \E t \in Tasks : mine[t] # <<>> /\ (stage[t] # "parked" \/ Len(mine[t]) > 1)
                  THEN "invalid task wake" ELSE fault
  BY <1>2 DEF Enqueue
<1>6. fault' = "none"
  <2>1. \A u \in Tasks : mine[u] # <<>> => stage[u] = "parked" /\ ~(Len(mine[u]) > 1)
    <3>. TAKE u \in Tasks
    <3>1. CASE Home[u] = e
      <4>1. mine[u] = ws[u]  BY <1>4, <3>1
      <4>2. ws[u] # <<>> => stage[u] = "parked" /\ Len(ws[u]) = 1  BY <1>3, Zenon
      <4>3. ASSUME Len(ws[u]) = 1  PROVE ~(Len(ws[u]) > 1)  BY <4>3
      <4>. QED  BY <4>1, <4>2, <4>3, Zenon
    <3>2. CASE Home[u] # e  BY <1>4, <3>2
    <3>. QED  BY <3>1, <3>2
  <2>. QED  BY <1>1, <1>5, <2>1
<1>7. \A u \in Tasks : mailbox'[u] \in Seq(Waits) /\ (ws[u] = <<>> => mailbox'[u] = mailbox[u])
                       /\ (ws[u] # <<>> /\ Home[u] = e => mailbox'[u] = <<>>)
                       /\ (ws[u] # <<>> /\ Home[u] # e => mailbox'[u] = ws[u])
  <2>. TAKE u \in Tasks
  <2>1. mailbox[u] \in Seq(Waits) /\ ws[u] \in Seq(Waits)
        /\ mailbox'[u] = IF Home[u] = e THEN mailbox[u] ELSE mailbox[u] \o ws[u]
    BY <1>1, <1>2, <1>3
  <2>2. CASE ws[u] = <<>>
    <3>1. mailbox[u] \o <<>> = mailbox[u]  BY <2>1
    <3>. QED  BY <2>1, <2>2, <3>1
  <2>3. CASE ws[u] # <<>>
    <3>1. mailbox[u] = <<>>  BY <1>3, <2>3
    <3>2. <<>> \o ws[u] = ws[u]  BY <2>1
    <3>. QED  BY <2>1, <2>3, <3>1, <3>2
  <2>. QED  BY <2>2, <2>3
<1>8. mailbox' \in [Tasks -> Seq(Waits)]  BY <1>2, <1>7
<1>9. /\ \A u \in Tasks : ws[u] = <<>> => stage'[u] = base[u] /\ wake'[u] = baseWake[u]
      /\ \A u \in Tasks : ws[u] # <<>> =>
            /\ Home[u] = e => stage'[u] = "woken" /\ wake'[u] = ws[u][1]
            /\ Home[u] # e => stage'[u] = base[u] /\ wake'[u] = baseWake[u]
  BY <1>4, <1>5
<1>10. base \in [Tasks -> Stages] => stage' \in [Tasks -> Stages]  BY <1>5 DEF Stages
<1>11. baseWake \in [Tasks -> Waits] => wake' \in [Tasks -> Waits]  BY <1>3, <1>4, <1>5
<1>. QED  BY <1>6, <1>7, <1>8, <1>9, <1>10, <1>11

LEMMA NoWakesIs == NoWakes \in [Tasks -> Seq(Waits)] /\ \A u \in Tasks : NoWakes[u] = <<>>
  BY DEF NoWakes

LEMMA WakeEachIs ==
    ASSUME NEW ts, NEW w \in Waits
    PROVE  /\ WakeEach(ts, w) \in [Tasks -> Seq(Waits)]
           /\ \A u \in Tasks : u \notin ts => WakeEach(ts, w)[u] = <<>>
           /\ \A u \in Tasks : u \in ts => WakeEach(ts, w)[u] # <<>> /\ Len(WakeEach(ts, w)[u]) = 1
                                           /\ WakeEach(ts, w)[u][1] = w
<1>1. <<w>> \in Seq(Waits) /\ <<w>> # <<>> /\ Len(<<w>>) = 1 /\ <<w>>[1] = w /\ <<>> \in Seq(Waits)  OBVIOUS
<1>2. \A u \in Tasks : WakeEach(ts, w)[u] = IF u \in ts THEN <<w>> ELSE <<>>  BY DEF WakeEach
<1>3. WakeEach(ts, w) \in [Tasks -> Seq(Waits)]  BY <1>1 DEF WakeEach
<1>. QED  BY <1>1, <1>2, <1>3, Zenon

LEMMA AndThenIs ==
    ASSUME NEW v \in [Tasks -> Seq(Waits)], NEW w \in [Tasks -> Seq(Waits)]
    PROVE  /\ AndThen(v, w) \in [Tasks -> Seq(Waits)]
           /\ \A u \in Tasks : w[u] = <<>> => AndThen(v, w)[u] = v[u]
           /\ \A u \in Tasks : v[u] = <<>> => AndThen(v, w)[u] = w[u]
<1>1. \A u \in Tasks : v[u] \in Seq(Waits) /\ w[u] \in Seq(Waits) /\ v[u] \o w[u] \in Seq(Waits)  OBVIOUS
<1>2. AndThen(v, w) \in [Tasks -> Seq(Waits)]  BY <1>1 DEF AndThen
<1>3. \A u \in Tasks : AndThen(v, w)[u] = v[u] \o w[u]  BY DEF AndThen
<1>4. \A u \in Tasks : v[u] \o <<>> = v[u] /\ <<>> \o w[u] = w[u]  BY <1>1
<1>. QED  BY <1>2, <1>3, <1>4, Zenon

LEMMA WkIs ==
    ASSUME NEW s \in Statuses, NEW i \in Nat
    PROVE  Wk(s, i) \in Waits /\ Wk(s, i).status = s /\ Wk(s, i).case = i
  BY DEF Wk, Waits

(* A select nobody has claimed waits.                                      *)
LEMMA UnclaimedWait ==
    ASSUME ClaimInv, NEW c \in Channels, NEW u \in Range(selQ[c]), ~signaled[u]
    PROVE  u \in Tasks /\ Waiting(u) /\ op[u].kind = "select"
<1>1. u \in Tasks  BY DEF ClaimInv, ClaimType, Range
<1>2. TaskOK(u)  BY <1>1, TaskByTask
<1>3. op[u].kind = "select" /\ stage[u] \in {"parked", "woken", "unregister"}  BY <1>2 DEF TaskOK
<1>4. stage[u] = "parked" /\ mailbox[u] = <<>>  BY <1>2, <1>3 DEF TaskOK
<1>. QED  BY <1>1, <1>3, <1>4 DEF Waiting

LEMMA MatchIs ==
    ASSUME ClaimInv, NEW c \in Channels, NEW kind, Matching(c, kind) # {}
    PROVE  LET u == Match(c, kind)
           IN  /\ u \in Range(selQ[c]) /\ ~signaled[u] /\ CasesOf(u, c, kind) # {}
               /\ FirstCase(u, c, kind) \in CasesOf(u, c, kind) /\ FirstCase(u, c, kind) \in Nat
<1>. DEFINE k == CHOOSE i \in Matching(c, kind) : \A j \in Matching(c, kind) : i <= j
            u == selQ[c][k]
<1>1. selQ[c] \in Seq(Tasks)  BY DEF ClaimInv, ClaimType
<1>2. Matching(c, kind) \subseteq Nat  BY <1>1 DEF Matching
<1>3. \E i \in Matching(c, kind) : \A j \in Matching(c, kind) : i <= j  BY <1>2, LeastOf
<1>4. k \in Matching(c, kind)  BY <1>3
<1>5. u = Match(c, kind)  BY DEF Match
<1>. HIDE DEF k
<1>6. u \in Range(selQ[c]) /\ ~signaled[u] /\ CasesOf(u, c, kind) # {}  BY <1>4 DEF Matching, Range
<1>7. u \in Tasks  BY <1>6, UnclaimedWait
<1>. HIDE DEF u
<1>8. CasesOf(u, c, kind) \subseteq Nat  BY <1>7, OpTyped DEF CasesOf, ClaimInv
<1>9. \E i \in CasesOf(u, c, kind) : \A j \in CasesOf(u, c, kind) : i <= j  BY <1>6, <1>8, LeastOf
<1>10. FirstCase(u, c, kind) \in CasesOf(u, c, kind)  BY <1>9 DEF FirstCase
<1>. QED  BY <1>5, <1>6, <1>8, <1>10

(* Who is in a queue.                                                      *)
LEMMA QueuedIs ==
    ASSUME ClaimInv, NEW c \in Channels
    PROVE  /\ sendQ[c] \in Seq(Tasks) /\ recvQ[c] \in Seq(Tasks) /\ selQ[c] \in Seq(Tasks)
           /\ Injective(sendQ[c]) /\ Injective(recvQ[c]) /\ Injective(selQ[c])
           /\ \A u \in Range(sendQ[c]) : u \in Tasks /\ Waiting(u) /\ op[u].kind = "send" /\ op[u].cases[1].chan = c
           /\ \A u \in Range(recvQ[c]) : u \in Tasks /\ Waiting(u) /\ op[u].kind = "receive" /\ op[u].cases[1].chan = c
           /\ \A u \in Range(selQ[c]) : u \in Tasks /\ op[u].kind = "select"
<1>1. sendQ[c] \in Seq(Tasks) /\ recvQ[c] \in Seq(Tasks) /\ selQ[c] \in Seq(Tasks)  BY DEF ClaimInv, ClaimType
<1>2. Range(sendQ[c]) \subseteq Tasks /\ Range(recvQ[c]) \subseteq Tasks /\ Range(selQ[c]) \subseteq Tasks
  BY <1>1 DEF Range
<1>. QED  BY <1>1, <1>2 DEF ClaimInv, QueuedAreParked, QueuedOnce

(* What an attempt on a channel may do: it wakes waiting tasks once, those *)
(* it takes off a queue of the channel and the selects it claims, and      *)
(* whoever it hands a message to is told "ready".                          *)
Claims(c, r) ==
    /\ Sound(r.wakes)
    /\ \A u \in Tasks : u \in r.claimed <=> r.wakes[u] # <<>> /\ op[u].kind = "select"
    /\ \A u \in Tasks : u \in r.into => r.wakes[u] # <<>> /\ r.wakes[u][1].status = "ready"
    /\ r.sendQ \in Seq(Tasks) /\ Injective(r.sendQ) /\ r.recvQ \in Seq(Tasks) /\ Injective(r.recvQ)
    /\ \A u \in Tasks : /\ u \in Range(r.sendQ) <=> u \in Range(sendQ[c]) /\ r.wakes[u] = <<>>
                        /\ u \in Range(r.recvQ) <=> u \in Range(recvQ[c]) /\ r.wakes[u] = <<>>
    /\ \A u \in Tasks, d \in Channels :
          d # c /\ (u \in Range(sendQ[d]) \/ u \in Range(recvQ[d])) => r.wakes[u] = <<>>

(* An attempt that wakes nobody.                                           *)
LEMMA ClaimsNobody ==
    ASSUME ClaimInv, NEW c \in Channels, NEW r, r.wakes = NoWakes, r.claimed = {}, r.into = {},
           r.sendQ = sendQ[c], r.recvQ = recvQ[c]
    PROVE  Claims(c, r)
<1>1. Sound(r.wakes)  BY NoWakesIs DEF Sound
<1>. QED  BY <1>1, NoWakesIs, QueuedIs DEF Claims

(* An attempt that takes the first task off the queue of receivers.        *)
LEMMA ClaimsReceiver ==
    ASSUME ClaimInv, NEW c \in Channels, NEW r, recvQ[c] # <<>>,
           r.wakes = WakeEach({Head(recvQ[c])}, Wk("ready", 0)), r.claimed = {}, r.into = {Head(recvQ[c])},
           r.sendQ = sendQ[c], r.recvQ = Tail(recvQ[c])
    PROVE  Claims(c, r)
<1>. DEFINE h == Head(recvQ[c])
            q == Tail(recvQ[c])
            w == Wk("ready", 0)
<1>1. /\ q \in Seq(Tasks) /\ h \in Range(recvQ[c]) /\ Range(q) \subseteq Range(recvQ[c])
      /\ Range(recvQ[c]) \subseteq Range(q) \cup {h} /\ Injective(q) /\ h \notin Range(q)
  BY QueuedIs, TailOf
<1>2. w \in Waits /\ w.status = "ready"  BY WkIs DEF Statuses
<1>3. h \in Tasks /\ Waiting(h) /\ op[h].kind = "receive" /\ op[h].cases[1].chan = c  BY <1>1, QueuedIs
<1>0. \A d \in Channels : /\ \A u \in Range(sendQ[d]) : op[u].kind = "send" /\ op[u].cases[1].chan = d
                          /\ \A u \in Range(recvQ[d]) : op[u].kind = "receive" /\ op[u].cases[1].chan = d
  BY QueuedIs
<1>. HIDE DEF h, q, w
<1>4. /\ r.wakes \in [Tasks -> Seq(Waits)]
      /\ \A u \in Tasks : u # h => r.wakes[u] = <<>>
      /\ r.wakes[h] # <<>> /\ Len(r.wakes[h]) = 1 /\ r.wakes[h][1].status = "ready"
  BY <1>2, <1>3, WakeEachIs DEF h, w
<1>5. Sound(r.wakes)  BY <1>3, <1>4 DEF Sound
<1>6. \A u \in Tasks : u \in r.claimed <=> r.wakes[u] # <<>> /\ op[u].kind = "select"  BY <1>3, <1>4
<1>7. \A u \in Tasks : u \in r.into => r.wakes[u] # <<>> /\ r.wakes[u][1].status = "ready"  BY <1>4 DEF h
<1>8. \A u \in Tasks : u \in Range(r.sendQ) <=> u \in Range(sendQ[c]) /\ r.wakes[u] = <<>>
  <2>1. h \notin Range(sendQ[c])  BY <1>0, <1>3
  <2>2. r.sendQ = sendQ[c]  OBVIOUS
  <2>. QED  BY <1>4, <2>1, <2>2, Zenon
<1>9. \A u \in Tasks : u \in Range(r.recvQ) <=> u \in Range(recvQ[c]) /\ r.wakes[u] = <<>>
  BY <1>1, <1>4 DEF q
<1>10. \A u \in Tasks, d \in Channels :
          d # c /\ (u \in Range(sendQ[d]) \/ u \in Range(recvQ[d])) => r.wakes[u] = <<>>
  <2>1. \A d \in Channels : d # c => h \notin Range(sendQ[d]) /\ h \notin Range(recvQ[d])  BY <1>0, <1>3
  <2>. QED  BY <1>4, <2>1, Zenon
<1>11. r.sendQ \in Seq(Tasks) /\ Injective(r.sendQ) /\ r.recvQ \in Seq(Tasks) /\ Injective(r.recvQ)
  BY <1>1, QueuedIs DEF q
<1>. QED  BY <1>5, <1>6, <1>7, <1>8, <1>9, <1>10, <1>11 DEF Claims

(* An attempt that takes the first task off the queue of senders and may   *)
(* claim selects: the handoff of a receive and the refill of the buffer.   *)
LEMMA ClaimsSender ==
    ASSUME ClaimInv, NEW c \in Channels, NEW r, sendQ[c] # <<>>,
           NEW X, X = {} \/ X = Unclaimed(c), r.claimed = X,
           r.wakes \in [Tasks -> Seq(Waits)],
           \A u \in Tasks \ {Head(sendQ[c])} : u \notin X => r.wakes[u] = <<>>,
           \A u \in Tasks : u \in X \cup {Head(sendQ[c])} => r.wakes[u] # <<>> /\ Len(r.wakes[u]) = 1,
           r.into = {}, r.sendQ = Tail(sendQ[c]), r.recvQ = recvQ[c]
    PROVE  Claims(c, r)
<1>. DEFINE h == Head(sendQ[c])
            q == Tail(sendQ[c])
<1>1. /\ q \in Seq(Tasks) /\ h \in Range(sendQ[c]) /\ Range(q) \subseteq Range(sendQ[c])
      /\ Range(sendQ[c]) \subseteq Range(q) \cup {h} /\ Injective(q) /\ h \notin Range(q)
  BY QueuedIs, TailOf
<1>3. h \in Tasks /\ Waiting(h) /\ op[h].kind = "send" /\ op[h].cases[1].chan = c  BY <1>1, QueuedIs
<1>2. \A u \in X : u \in Tasks /\ Waiting(u) /\ op[u].kind = "select"  BY UnclaimedWait DEF Unclaimed
<1>4. \A u \in Tasks : r.wakes[u] # <<>> <=> u \in X \cup {h}  OBVIOUS
<1>12. \A u \in Tasks : r.wakes[u] # <<>> => Len(r.wakes[u]) = 1  OBVIOUS
<1>0. \A d \in Channels : /\ \A u \in Range(sendQ[d]) : op[u].kind = "send" /\ op[u].cases[1].chan = d
                          /\ \A u \in Range(recvQ[d]) : op[u].kind = "receive" /\ op[u].cases[1].chan = d
  BY QueuedIs
<1>. HIDE DEF h, q
<1>5. Sound(r.wakes)  BY <1>2, <1>3, <1>4, <1>12 DEF Sound
<1>6. \A u \in Tasks : u \in r.claimed <=> r.wakes[u] # <<>> /\ op[u].kind = "select"  BY <1>2, <1>3, <1>4
<1>8. \A u \in Tasks : u \in Range(r.sendQ) <=> u \in Range(sendQ[c]) /\ r.wakes[u] = <<>>
  <2>1. Range(r.sendQ) = Range(q)  BY DEF q
  <2>2. \A u \in Range(sendQ[c]) : u \notin X  BY <1>0, <1>2
  <2>. QED  BY <1>1, <1>4, <2>1, <2>2
<1>9. \A u \in Tasks : u \in Range(r.recvQ) <=> u \in Range(recvQ[c]) /\ r.wakes[u] = <<>>
  BY <1>0, <1>2, <1>3, <1>4
<1>10. \A u \in Tasks, d \in Channels :
          d # c /\ (u \in Range(sendQ[d]) \/ u \in Range(recvQ[d])) => r.wakes[u] = <<>>
  BY <1>0, <1>2, <1>3, <1>4
<1>11. r.sendQ \in Seq(Tasks) /\ Injective(r.sendQ) /\ r.recvQ \in Seq(Tasks) /\ Injective(r.recvQ)
  BY <1>1, QueuedIs DEF q
<1>. QED  BY <1>5, <1>6, <1>8, <1>9, <1>10, <1>11 DEF Claims

(* An attempt that claims selects and takes nobody off a queue.            *)
LEMMA ClaimsSelects ==
    ASSUME ClaimInv, NEW c \in Channels, NEW r, NEW X, X \subseteq Unclaimed(c), r.claimed = X,
           NEW w \in Waits, r.wakes = WakeEach(X, w),
           r.into = {} \/ (r.into = X /\ w.status = "ready"),
           r.sendQ = sendQ[c], r.recvQ = recvQ[c]
    PROVE  Claims(c, r)
<1>2. \A u \in X : u \in Tasks /\ Waiting(u) /\ op[u].kind = "select"  BY UnclaimedWait DEF Unclaimed
<1>4. r.wakes \in [Tasks -> Seq(Waits)] /\ \A u \in Tasks : r.wakes[u] # <<>> <=> u \in X  BY WakeEachIs
<1>12. \A u \in Tasks : r.wakes[u] # <<>> => Len(r.wakes[u]) = 1 /\ r.wakes[u][1] = w  BY WakeEachIs
<1>0. \A d \in Channels : /\ \A u \in Range(sendQ[d]) : op[u].kind = "send"
                          /\ \A u \in Range(recvQ[d]) : op[u].kind = "receive"
  BY QueuedIs
<1>5. Sound(r.wakes)  BY <1>2, <1>4, <1>12 DEF Sound
<1>6. \A u \in Tasks : u \in r.claimed <=> r.wakes[u] # <<>> /\ op[u].kind = "select"
  <2>1. \A u \in Tasks : u \in X <=> r.wakes[u] # <<>>  BY <1>4
  <2>. QED  BY <1>2, <2>1
<1>7. \A u \in Tasks : u \in r.into => r.wakes[u] # <<>> /\ r.wakes[u][1].status = "ready"  BY <1>4, <1>12
<1>8. \A u \in Tasks : /\ u \in Range(r.sendQ) <=> u \in Range(sendQ[c]) /\ r.wakes[u] = <<>>
                       /\ u \in Range(r.recvQ) <=> u \in Range(recvQ[c]) /\ r.wakes[u] = <<>>
  BY <1>0, <1>2, <1>4
<1>10. \A u \in Tasks, d \in Channels :
          d # c /\ (u \in Range(sendQ[d]) \/ u \in Range(recvQ[d])) => r.wakes[u] = <<>>
  BY <1>0, <1>2, <1>4
<1>. QED  BY <1>5, <1>6, <1>7, <1>8, <1>10, QueuedIs DEF Claims

LEMMA TrySendClaims ==
    ASSUME ClaimInv, NEW c \in Channels, NEW m
    PROVE  Claims(c, TrySend(c, m))
<1>. DEFINE r == TrySend(c, m)
<1>1. CASE receivers[c] = 0
  <2>1. r.wakes = NoWakes /\ r.claimed = {} /\ r.into = {} /\ r.sendQ = sendQ[c] /\ r.recvQ = recvQ[c]
    BY <1>1, SendClosed
  <2>. QED  BY <2>1, ClaimsNobody
<1>2. CASE receivers[c] # 0 /\ recvQ[c] # <<>>
  <2>1. /\ r.wakes = WakeEach({Head(recvQ[c])}, Wk("ready", 0)) /\ r.claimed = {} /\ r.into = {Head(recvQ[c])}
        /\ r.sendQ = sendQ[c] /\ r.recvQ = Tail(recvQ[c])
    BY <1>2, SendToReceiver
  <2>. QED  BY <1>2, <2>1, ClaimsReceiver
<1>3. CASE receivers[c] # 0 /\ recvQ[c] = <<>> /\ Matching(c, "receive") # {}
  <2>. DEFINE u == Match(c, "receive")
              w == Wk("ready", FirstCase(u, c, "receive"))
  <2>1. /\ r.wakes = WakeEach({u}, w) /\ r.claimed = {u} /\ r.into = {u}
        /\ r.sendQ = sendQ[c] /\ r.recvQ = recvQ[c]
    BY <1>3, SendToSelect
  <2>2. {u} \subseteq Unclaimed(c) /\ FirstCase(u, c, "receive") \in Nat  BY <1>3, MatchIs DEF Unclaimed
  <2>3. w \in Waits /\ w.status = "ready"  BY <2>2, WkIs DEF Statuses
  <2>. HIDE DEF u, w, r
  <2>4. Claims(c, r)  BY <2>1, <2>2, <2>3, ClaimsSelects
  <2>. QED  BY <2>4 DEF r
<1>4. CASE receivers[c] # 0 /\ recvQ[c] = <<>> /\ Matching(c, "receive") = {} /\ Len(buffer[c]) < Capacity[c]
  <2>1. /\ r.wakes = WakeEach(Unclaimed(c), Wk("event", 0)) /\ r.claimed = Unclaimed(c) /\ r.into = {}
        /\ r.sendQ = sendQ[c] /\ r.recvQ = recvQ[c]
    BY <1>4, SendToBuffer DEF Signals
  <2>2. Wk("event", 0) \in Waits  BY WkIs DEF Statuses
  <2>. HIDE DEF r
  <2>3. Claims(c, r)  BY <2>1, <2>2, ClaimsSelects
  <2>. QED  BY <2>3 DEF r
<1>5. CASE receivers[c] # 0 /\ recvQ[c] = <<>> /\ Matching(c, "receive") = {} /\ ~(Len(buffer[c]) < Capacity[c])
  <2>1. r = Attempt(c)  BY <1>5, SendPending
  <2>. QED  BY <2>1, FieldsOf, ClaimsNobody
<1>. QED  BY <1>1, <1>2, <1>3, <1>4, <1>5

LEMMA TryReceiveClaims ==
    ASSUME ClaimInv, NEW c \in Channels
    PROVE  Claims(c, TryReceive(c))
<1>. DEFINE r == TryReceive(c)
            s == Head(sendQ[c])
<1>0. Wk("event", 0) \in Waits /\ Wk("ready", 0) \in Waits  BY WkIs DEF Statuses
<1>1. CASE buffer[c] # <<>> /\ ~Refills(c)
  <2>1. /\ r.wakes = AndThen(Signals(c), WakeEach({}, Wk("ready", 0))) /\ r.claimed = Unclaimed(c)
        /\ r.into = {} /\ r.sendQ = sendQ[c] /\ r.recvQ = recvQ[c]
    BY <1>1, ReceiveFromBuffer
  <2>2. r.wakes = WakeEach(Unclaimed(c), Wk("event", 0))
    <3>1. Signals(c) \in [Tasks -> Seq(Waits)] /\ WakeEach({}, Wk("ready", 0)) \in [Tasks -> Seq(Waits)]
          /\ \A u \in Tasks : WakeEach({}, Wk("ready", 0))[u] = <<>>
      BY <1>0, WakeEachIs DEF Signals
    <3>2. r.wakes \in [Tasks -> Seq(Waits)] /\ \A u \in Tasks : r.wakes[u] = Signals(c)[u]
      BY <2>1, <3>1, AndThenIs
    <3>. HIDE DEF r
    <3>3. r.wakes = Signals(c)  BY <3>1, <3>2
    <3>. QED  BY <3>3 DEF Signals
  <2>. HIDE DEF r
  <2>3. Claims(c, r)  BY <1>0, <2>1, <2>2, ClaimsSelects
  <2>. QED  BY <2>3 DEF r
<1>2. CASE buffer[c] # <<>> /\ Refills(c)
  <2>1. /\ r.wakes = AndThen(Signals(c), WakeEach({s}, Wk("ready", 0))) /\ r.claimed = Unclaimed(c)
        /\ r.into = {} /\ r.sendQ = Tail(sendQ[c]) /\ r.recvQ = recvQ[c]
    BY <1>2, ReceiveFromBuffer
  <2>2. sendQ[c] # <<>>  BY <1>2 DEF Refills
  <2>3. s \in Range(sendQ[c])  BY <2>2, QueuedIs, TailOf
  <2>4. s \notin Unclaimed(c)  BY <2>3, QueuedIs DEF Unclaimed
  <2>. HIDE DEF r, s
  <2>. DEFINE v == Signals(c)
              w == WakeEach({s}, Wk("ready", 0))
  <2>5. /\ v \in [Tasks -> Seq(Waits)] /\ w \in [Tasks -> Seq(Waits)]
        /\ \A u \in Tasks : u # s => w[u] = <<>>
        /\ \A u \in Tasks : u = s => w[u] # <<>> /\ Len(w[u]) = 1
        /\ \A u \in Tasks : u \notin Unclaimed(c) => v[u] = <<>>
        /\ \A u \in Tasks : u \in Unclaimed(c) => v[u] # <<>> /\ Len(v[u]) = 1
    BY <1>0, WakeEachIs DEF Signals
  <2>. HIDE DEF v, w
  <2>6. /\ r.wakes \in [Tasks -> Seq(Waits)]
        /\ \A u \in Tasks : w[u] = <<>> => r.wakes[u] = v[u]
        /\ \A u \in Tasks : v[u] = <<>> => r.wakes[u] = w[u]
    <3>1. r.wakes = AndThen(v, w)  BY <2>1 DEF v, w
    <3>. QED  BY <2>5, <3>1, AndThenIs
  <2>7. \A u \in Tasks \ {s} : u \notin Unclaimed(c) => r.wakes[u] = <<>>  BY <2>5, <2>6
  <2>8. \A u \in Tasks : u \in Unclaimed(c) \cup {s} => r.wakes[u] # <<>> /\ Len(r.wakes[u]) = 1
    <3>. SUFFICES ASSUME NEW u \in Tasks, u \in Unclaimed(c) \cup {s}  PROVE r.wakes[u] # <<>> /\ Len(r.wakes[u]) = 1
      OBVIOUS
    <3>1. CASE u = s
      <4>1. v[u] = <<>>  BY <2>4, <2>5, <3>1
      <4>2. r.wakes[u] = w[u]  BY <2>6, <4>1
      <4>. QED  BY <2>5, <3>1, <4>2
    <3>2. CASE u # s
      <4>1. w[u] = <<>> /\ u \in Unclaimed(c)  BY <2>5, <3>2
      <4>2. r.wakes[u] = v[u]  BY <2>6, <4>1
      <4>. QED  BY <2>5, <4>1, <4>2
    <3>. QED  BY <3>1, <3>2
  <2>9. Claims(c, r)
    <3>. DEFINE X == Unclaimed(c)
    <3>1. r.claimed = X /\ X = Unclaimed(c)  BY <2>1
    <3>2. \A u \in Tasks \ {Head(sendQ[c])} : u \notin X => r.wakes[u] = <<>>  BY <2>7 DEF s
    <3>3. \A u \in Tasks : u \in X \cup {Head(sendQ[c])} => r.wakes[u] # <<>> /\ Len(r.wakes[u]) = 1
      BY <2>8 DEF s
    <3>. HIDE DEF X
    <3>4. r.into = {} /\ r.sendQ = Tail(sendQ[c]) /\ r.recvQ = recvQ[c]  BY <2>1
    <3>5. r.wakes \in [Tasks -> Seq(Waits)]  BY <2>6
    <3>. QED  BY <2>2, <3>1, <3>2, <3>3, <3>4, <3>5, ClaimsSender
  <2>. QED  BY <2>9 DEF r
<1>3. CASE buffer[c] = <<>> /\ sendQ[c] # <<>>
  <2>1. /\ r.wakes = WakeEach({s}, Wk("ready", 0)) /\ r.claimed = {}
        /\ r.into = {} /\ r.sendQ = Tail(sendQ[c]) /\ r.recvQ = recvQ[c]
    BY <1>3, ReceiveFromSender
  <2>2. /\ r.wakes \in [Tasks -> Seq(Waits)]
        /\ \A u \in Tasks \ {s} : u \notin {} => r.wakes[u] = <<>>
        /\ \A u \in Tasks : u \in {} \cup {s} => r.wakes[u] # <<>> /\ Len(r.wakes[u]) = 1
    BY <1>0, <2>1, WakeEachIs
  <2>. HIDE DEF r
  <2>3. Claims(c, r)
    <3>. DEFINE X == {}
    <3>1. r.claimed = X /\ X = {}  BY <2>1
    <3>2. \A u \in Tasks \ {Head(sendQ[c])} : u \notin X => r.wakes[u] = <<>>  BY <2>2
    <3>3. \A u \in Tasks : u \in X \cup {Head(sendQ[c])} => r.wakes[u] # <<>> /\ Len(r.wakes[u]) = 1
      BY <2>2
    <3>. HIDE DEF X
    <3>. QED  BY <1>3, <2>1, <2>2, <3>1, <3>2, <3>3, ClaimsSender
  <2>. QED  BY <2>3 DEF r
<1>4. CASE buffer[c] = <<>> /\ sendQ[c] = <<>> /\ Matching(c, "send") # {}
  <2>. DEFINE u == Match(c, "send")
              w == Wk("ready", FirstCase(u, c, "send"))
  <2>1. /\ r.wakes = WakeEach({u}, w) /\ r.claimed = {u} /\ r.into = {}
        /\ r.sendQ = sendQ[c] /\ r.recvQ = recvQ[c]
    BY <1>4, ReceiveFromSelect
  <2>2. {u} \subseteq Unclaimed(c) /\ FirstCase(u, c, "send") \in Nat  BY <1>4, MatchIs DEF Unclaimed
  <2>3. w \in Waits  BY <2>2, WkIs DEF Statuses
  <2>. HIDE DEF u, w, r
  <2>4. Claims(c, r)  BY <2>1, <2>2, <2>3, ClaimsSelects
  <2>. QED  BY <2>4 DEF r
<1>5. CASE buffer[c] = <<>> /\ sendQ[c] = <<>> /\ Matching(c, "send") = {} /\ senders[c] = 0
  <2>1. r.wakes = NoWakes /\ r.claimed = {} /\ r.into = {} /\ r.sendQ = sendQ[c] /\ r.recvQ = recvQ[c]
    BY <1>5, ReceiveClosed
  <2>. QED  BY <2>1, ClaimsNobody
<1>6. CASE buffer[c] = <<>> /\ sendQ[c] = <<>> /\ Matching(c, "send") = {} /\ senders[c] # 0
  <2>1. r = Attempt(c)  BY <1>6, ReceivePending
  <2>. QED  BY <2>1, FieldsOf, ClaimsNobody
<1>. QED  BY <1>1, <1>2, <1>3, <1>4, <1>5, <1>6

(***************************************************************************)
(* The steps that answer an operation at once, or park it.                 *)
(***************************************************************************)

(* The same for a task t that joins a queue itself.                        *)
ClaimsBut(t, c, r) ==
    /\ Sound(r.wakes)
    /\ \A u \in Tasks : u \in r.claimed <=> r.wakes[u] # <<>> /\ op[u].kind = "select"
    /\ \A u \in Tasks : u \in r.into => r.wakes[u] # <<>> /\ r.wakes[u][1].status = "ready"
    /\ r.sendQ \in Seq(Tasks) /\ Injective(r.sendQ) /\ r.recvQ \in Seq(Tasks) /\ Injective(r.recvQ)
    /\ \A u \in Tasks \ {t} :
          /\ u \in Range(r.sendQ) <=> u \in Range(sendQ[c]) /\ r.wakes[u] = <<>>
          /\ u \in Range(r.recvQ) <=> u \in Range(recvQ[c]) /\ r.wakes[u] = <<>>
    /\ \A u \in Tasks, d \in Channels :
          d # c /\ (u \in Range(sendQ[d]) \/ u \in Range(recvQ[d])) => r.wakes[u] = <<>>

(* What committing an attempt does to every task but the one that makes    *)
(* it, and to the types.                                                   *)
LEMMA CommitOthers ==
    ASSUME ClaimInv, NEW t \in Tasks, NEW c \in Channels, NEW r, ClaimsBut(t, c, r),
           NEW base \in [Tasks -> Stages], NEW baseWake \in [Tasks -> Waits],
           Commit(t, c, r, base, baseWake),
           \A u \in Tasks \ {t} : base[u] = stage[u] /\ baseWake[u] = wake[u] /\ op'[u] = op[u],
           op' \in [Tasks -> Operations], ~Waiting(t), started' \in [Tasks -> 0 .. MaxOps],
           selQ' = selQ
    PROVE  /\ ClaimType' /\ QueuedOnce' /\ NoDoubleWake'
           /\ \A u \in Tasks \ {t} : TaskOK(u)'
           /\ \A d \in Channels : /\ sendQ'[d] = IF d = c THEN r.sendQ ELSE sendQ[d]
                                  /\ recvQ'[d] = IF d = c THEN r.recvQ ELSE recvQ[d]
           /\ stage'[t] = base[t] /\ wake'[t] = baseWake[t] /\ mailbox'[t] = mailbox[t]
           /\ slot'[t] = slot[t] /\ (signaled'[t] <=> signaled[t])
<1>. DEFINE ws == r.wakes
<1>1. /\ Sound(ws)
      /\ \A u \in Tasks : u \in r.claimed <=> ws[u] # <<>> /\ op[u].kind = "select"
      /\ \A u \in Tasks : u \in r.into => ws[u] # <<>> /\ ws[u][1].status = "ready"
      /\ r.sendQ \in Seq(Tasks) /\ Injective(r.sendQ) /\ r.recvQ \in Seq(Tasks) /\ Injective(r.recvQ)
      /\ \A u \in Tasks \ {t} :
                          /\ u \in Range(r.sendQ) <=> u \in Range(sendQ[c]) /\ ws[u] = <<>>
                          /\ u \in Range(r.recvQ) <=> u \in Range(recvQ[c]) /\ ws[u] = <<>>
      /\ \A u \in Tasks, d \in Channels :
            d # c /\ (u \in Range(sendQ[d]) \/ u \in Range(recvQ[d])) => ws[u] = <<>>
  BY DEF ClaimsBut
<1>2. /\ sendQ' = [sendQ EXCEPT ![c] = r.sendQ] /\ recvQ' = [recvQ EXCEPT ![c] = r.recvQ]
      /\ signaled' = [u \in Tasks |-> signaled[u] \/ u \in r.claimed]
      /\ slot' = [u \in Tasks |-> IF u \in r.into THEN r.arrived[1] ELSE slot[u]]
      /\ WakeTasks(ws, Home[t], base, baseWake)
  BY DEF Commit
<1>. HIDE DEF ws
<1>3. /\ fault' = "none"
      /\ \A u \in Tasks : ws[u] = <<>> =>
            stage'[u] = base[u] /\ wake'[u] = baseWake[u] /\ mailbox'[u] = mailbox[u]
      /\ \A u \in Tasks : ws[u] # <<>> =>
            \/ stage'[u] = "woken" /\ wake'[u] = ws[u][1] /\ mailbox'[u] = <<>>
            \/ stage'[u] = base[u] /\ wake'[u] = baseWake[u] /\ mailbox'[u] = ws[u]
      /\ mailbox' \in [Tasks -> Seq(Waits)] /\ stage' \in [Tasks -> Stages] /\ wake' \in [Tasks -> Waits]
  BY <1>1, <1>2, Woken
<1>4. ClaimType  BY DEF ClaimInv
<1>5. /\ sendQ' \in [Channels -> Seq(Tasks)] /\ recvQ' \in [Channels -> Seq(Tasks)]
      /\ \A d \in Channels : /\ sendQ'[d] = IF d = c THEN r.sendQ ELSE sendQ[d]
                             /\ recvQ'[d] = IF d = c THEN r.recvQ ELSE recvQ[d]
  BY <1>1, <1>2, <1>4 DEF ClaimType
<1>6. ClaimType'
  <2>1. signaled' \in [Tasks -> BOOLEAN] /\ DOMAIN slot' = Tasks  BY <1>2, <1>4 DEF ClaimType
  <2>2. selQ' \in [Channels -> Seq(Tasks)]  BY <1>4 DEF ClaimType
  <2>. QED  BY <1>3, <1>5, <2>1, <2>2 DEF ClaimType
<1>7. QueuedOnce'
  <2>1. Injective(r.sendQ) /\ Injective(r.recvQ)  BY <1>1
  <2>2. \A d \in Channels : Injective(sendQ[d]) /\ Injective(recvQ[d]) /\ Injective(selQ[d])  BY QueuedIs
  <2>3. \A d \in Channels : Injective(sendQ'[d]) /\ Injective(recvQ'[d]) /\ Injective(selQ'[d])
    BY <1>5, <2>1, <2>2
  <2>. QED  BY <2>3 DEF QueuedOnce
<1>8. \A u \in Tasks \ {t}, d \in Channels :
         /\ u \in Range(sendQ'[d]) <=> u \in Range(sendQ[d]) /\ ws[u] = <<>>
         /\ u \in Range(recvQ'[d]) <=> u \in Range(recvQ[d]) /\ ws[u] = <<>>
  <2>. TAKE u \in Tasks \ {t}, d \in Channels
  <2>1. CASE d = c  BY <1>1, <1>5, <2>1
  <2>2. CASE d # c
    <3>1. sendQ'[d] = sendQ[d] /\ recvQ'[d] = recvQ[d]  BY <1>5, <2>2
    <3>. QED  BY <1>1, <2>2, <3>1
  <2>. QED  BY <2>1, <2>2
<1>9. ASSUME NEW u \in Tasks \ {t}  PROVE TaskOK(u)'
  <2>1. op'[u] = op[u] /\ base[u] = stage[u] /\ baseWake[u] = wake[u]  OBVIOUS
  <2>2. signaled'[u] <=> (signaled[u] \/ (ws[u] # <<>> /\ op[u].kind = "select"))
    BY <1>1, <1>2
  <2>3. slot'[u] = slot[u] \/ (ws[u] # <<>> /\ ws[u][1].status = "ready")
    BY <1>1, <1>2
  <2>4. ws[u] = <<>> => stage'[u] = stage[u] /\ wake'[u] = wake[u] /\ mailbox'[u] = mailbox[u]
    BY <1>3, <2>1
  <2>5. ws[u] # <<>> =>
          \/ stage'[u] = "woken" /\ wake'[u] = ws[u][1] /\ mailbox'[u] = <<>>
          \/ stage'[u] = stage[u] /\ wake'[u] = wake[u] /\ mailbox'[u] = ws[u]
    BY <1>3, <2>1
  <2>6. Follows(u, ws)  BY <1>8, <2>1, <2>2, <2>3, <2>4, <2>5 DEF Follows
  <2>. QED  BY <1>1, <2>6, FollowsKeeps
<1>10. ws[t] = <<>>  BY <1>1 DEF Sound
<1>11. t \notin r.into /\ t \notin r.claimed  BY <1>1, <1>10
<1>13. /\ stage'[t] = base[t] /\ wake'[t] = baseWake[t] /\ mailbox'[t] = mailbox[t]
       /\ slot'[t] = slot[t] /\ (signaled'[t] <=> signaled[t])
  BY <1>2, <1>3, <1>10, <1>11
<1>. QED  BY <1>3, <1>5, <1>6, <1>7, <1>9, <1>13 DEF NoDoubleWake

(* An operation that is answered at once.                                  *)
LEMMA CommitKeeps ==
    ASSUME ClaimInv, NEW t \in Tasks, NEW c \in Channels, NEW r, Claims(c, r),
           stage[t] \in {"ready", "repoll"},
           NEW base \in [Tasks -> Stages], NEW baseWake \in [Tasks -> Waits],
           Commit(t, c, r, base, baseWake), base[t] = "ready",
           \A u \in Tasks \ {t} : base[u] = stage[u] /\ baseWake[u] = wake[u] /\ op'[u] = op[u],
           op' \in [Tasks -> Operations], op'[t].kind = "none", started' \in [Tasks -> 0 .. MaxOps],
           selQ' = selQ
    PROVE  ClaimInv'
<1>1. TaskOK(t)  BY TaskByTask
<1>2. ~Waiting(t)  BY DEF Waiting
<1>3. /\ ClaimType' /\ QueuedOnce' /\ NoDoubleWake'
      /\ \A u \in Tasks \ {t} : TaskOK(u)'
      /\ \A d \in Channels : /\ sendQ'[d] = IF d = c THEN r.sendQ ELSE sendQ[d]
                             /\ recvQ'[d] = IF d = c THEN r.recvQ ELSE recvQ[d]
      /\ stage'[t] = base[t] /\ mailbox'[t] = mailbox[t] /\ slot'[t] = slot[t]
  <2>1. ClaimsBut(t, c, r)  BY DEF Claims, ClaimsBut
  <2>. QED  BY <1>2, <2>1, CommitOthers
<1>9. \A d \in Channels : t \notin Range(sendQ'[d]) /\ t \notin Range(recvQ'[d])
  <2>. TAKE d \in Channels
  <2>1. \A x \in Channels : t \notin Range(sendQ[x]) /\ t \notin Range(recvQ[x])  BY <1>2, QueuedIs
  <2>2. t \notin Range(r.sendQ) /\ t \notin Range(r.recvQ)  BY <2>1 DEF Claims
  <2>. QED  BY <1>3, <2>1, <2>2
<1>4. mailbox[t] = <<>> /\ slot[t] = NoMsg
  <2>1. mailbox[t] = <<>>  BY <1>1 DEF TaskOK
  <2>2. slot[t] = NoMsg  BY <1>1, <2>1 DEF TaskOK
  <2>. QED  BY <2>1, <2>2
<1>5. \A d \in Channels : t \notin Range(selQ'[d])  BY <1>1 DEF TaskOK
<1>6. ~Waiting(t)'  BY <1>3 DEF Waiting
<1>7. TaskOK(t)'  BY <1>3, <1>4, <1>9, <1>5, <1>6 DEF TaskOK
<1>8. \A u \in Tasks : TaskOK(u)'  BY <1>3, <1>7
<1>. QED  BY <1>3, <1>8, TaskByTaskNext

(* A send or a receive that parks: it joins its queue and signals the      *)
(* selects.                                                                *)
LEMMA ParkKeeps ==
    ASSUME ClaimInv, NEW t \in Tasks, NEW c \in Channels, NEW r, stage[t] = "ready",
           r.wakes = Signals(c), r.claimed = Unclaimed(c), r.into = {},
           NEW kind \in {"send", "receive"},
           r.sendQ = IF kind = "send" THEN Append(sendQ[c], t) ELSE sendQ[c],
           r.recvQ = IF kind = "receive" THEN Append(recvQ[c], t) ELSE recvQ[c],
           Commit(t, c, r, [stage EXCEPT ![t] = "parked"], wake),
           NEW o \in Operations, o.kind = kind, o.cases = <<[kind |-> kind, chan |-> c]>>,
           op' = [op EXCEPT ![t] = o], started' \in [Tasks -> 0 .. MaxOps], selQ' = selQ
    PROVE  ClaimInv'
<1>1. TaskOK(t)  BY TaskByTask
<1>2. ~Waiting(t) /\ mailbox[t] = <<>>  BY <1>1 DEF Waiting, TaskOK
<1>3. slot[t] = NoMsg  BY <1>1, <1>2 DEF TaskOK
<1>4. /\ \A d \in Channels : t \notin Range(sendQ[d]) /\ t \notin Range(recvQ[d]) /\ t \notin Range(selQ[d])
  BY <1>1, <1>2 DEF TaskOK
<1>5. ClaimType  BY DEF ClaimInv
<1>. DEFINE base == [stage EXCEPT ![t] = "parked"]
            s == [sendQ |-> sendQ[c], recvQ |-> recvQ[c], wakes |-> r.wakes, claimed |-> r.claimed, into |-> r.into]
<1>6. base \in [Tasks -> Stages] /\ base[t] = "parked" /\ \A u \in Tasks \ {t} : base[u] = stage[u]
  BY <1>5 DEF ClaimType, Stages
<1>7. op' \in [Tasks -> Operations] /\ op'[t] = o /\ \A u \in Tasks \ {t} : op'[u] = op[u]
  BY <1>5 DEF ClaimType
<1>8. Claims(c, s)
  <2>1. Wk("event", 0) \in Waits  BY WkIs DEF Statuses
  <2>2. /\ s.wakes = WakeEach(Unclaimed(c), Wk("event", 0)) /\ s.claimed = Unclaimed(c) /\ s.into = {}
        /\ s.sendQ = sendQ[c] /\ s.recvQ = recvQ[c]
    BY DEF Signals
  <2>. HIDE DEF s
  <2>. QED  BY <2>1, <2>2, ClaimsSelects
<1>9. /\ r.sendQ \in Seq(Tasks) /\ Injective(r.sendQ) /\ r.recvQ \in Seq(Tasks) /\ Injective(r.recvQ)
      /\ \A u \in Tasks \ {t} : (u \in Range(r.sendQ) <=> u \in Range(sendQ[c]))
                                /\ (u \in Range(r.recvQ) <=> u \in Range(recvQ[c]))
      /\ t \in Range(r.sendQ) <=> kind = "send"
      /\ t \in Range(r.recvQ) <=> kind = "receive"
  BY <1>4, QueuedIs, AppendOf
<1>10. ClaimsBut(t, c, r)
  <2>1. /\ Sound(r.wakes)
        /\ \A u \in Tasks : u \in r.claimed <=> r.wakes[u] # <<>> /\ op[u].kind = "select"
        /\ \A u \in Tasks : u \in r.into => r.wakes[u] # <<>> /\ r.wakes[u][1].status = "ready"
        /\ \A u \in Tasks : /\ u \in Range(sendQ[c]) <=> u \in Range(sendQ[c]) /\ r.wakes[u] = <<>>
                            /\ u \in Range(recvQ[c]) <=> u \in Range(recvQ[c]) /\ r.wakes[u] = <<>>
        /\ \A u \in Tasks, d \in Channels :
              d # c /\ (u \in Range(sendQ[d]) \/ u \in Range(recvQ[d])) => r.wakes[u] = <<>>
    BY <1>8 DEF Claims
  <2>. QED  BY <1>9, <2>1 DEF ClaimsBut
<1>. HIDE DEF base, s
<1>11. Commit(t, c, r, base, wake) /\ wake \in [Tasks -> Waits]  BY <1>5 DEF base, ClaimType
<1>12. /\ ClaimType' /\ QueuedOnce' /\ NoDoubleWake'
       /\ \A u \in Tasks \ {t} : TaskOK(u)'
       /\ \A d \in Channels : /\ sendQ'[d] = IF d = c THEN r.sendQ ELSE sendQ[d]
                              /\ recvQ'[d] = IF d = c THEN r.recvQ ELSE recvQ[d]
       /\ stage'[t] = base[t] /\ mailbox'[t] = mailbox[t] /\ slot'[t] = slot[t]
  <2>1. \A u \in Tasks \ {t} : base[u] = stage[u] /\ wake[u] = wake[u] /\ op'[u] = op[u]  BY <1>6, <1>7
  <2>2. base \in [Tasks -> Stages] /\ op' \in [Tasks -> Operations] /\ ~Waiting(t)  BY <1>2, <1>6, <1>7
  <2>. QED  BY <1>10, <1>11, <2>1, <2>2, CommitOthers
<1>13. \A d \in Channels : /\ t \in Range(sendQ'[d]) <=> d = c /\ kind = "send"
                           /\ t \in Range(recvQ'[d]) <=> d = c /\ kind = "receive"
                           /\ t \notin Range(selQ'[d])
  BY <1>4, <1>9, <1>12
<1>14. Waiting(t)'  BY <1>2, <1>6, <1>12 DEF Waiting
<1>15. TaskOK(t)'
  <2>1. /\ op'[t].kind = kind /\ op'[t].cases = <<[kind |-> kind, chan |-> c]>>
        /\ DOMAIN op'[t].cases = {1} /\ op'[t].cases[1].chan = c
    BY <1>7
  <2>2. SingleCase(t)'  BY <2>1 DEF SingleCase
  <2>3. stage'[t] = "parked" /\ mailbox'[t] = <<>> /\ slot'[t] = NoMsg  BY <1>2, <1>3, <1>6, <1>12
  <2>4. kind = "send" \/ kind = "receive"  OBVIOUS
  <2>. QED  BY <1>13, <1>14, <2>1, <2>2, <2>3, <2>4 DEF TaskOK
<1>16. \A u \in Tasks : TaskOK(u)'  BY <1>12, <1>15
<1>. QED  BY <1>12, <1>16, TaskByTaskNext

LEMMA CountTyped ==
    ASSUME ClaimType, NEW t \in Tasks, started[t] < MaxOps, Count(t)
    PROVE  started' \in [Tasks -> 0 .. MaxOps] /\ started[t] + 1 \in 1 .. MaxOps
  BY ConstantsAssumption DEF ClaimType, Count

(* Steps that leave the queues, the operations and the wakes alone.        *)
LEMMA SameKeeps ==
    ASSUME ClaimInv, UNCHANGED <<sendQ, recvQ, selQ, op, signaled, wake, mailbox, slot, stage, fault>>,
           started' \in [Tasks -> 0 .. MaxOps]
    PROVE  ClaimInv'
<1>1. ClaimType'  BY DEF ClaimInv, ClaimType
<1>. QED  BY <1>1 DEF ClaimInv, OpsAreSuspended, QueuedAreParked, QueuedOnce, WaitersAreQueued,
        PostedOnce, ClaimedOnce, NoDoubleWake, DeliveredIsAnnounced, Waiting, SingleCase

LEMMA SendKeeps ==
    ASSUME ClaimInv, NEW t \in Tasks, NEW c \in Channels, Send(t, c)
    PROVE  ClaimInv'
<1>. DEFINE m == <<t, started[t] + 1, 1>>
            o == [kind |-> "send", cases |-> <<[kind |-> "send", chan |-> c]>>, msgs |-> <<m>>, timed |-> FALSE]
            r == TrySend(c, m)
<1>1. ClaimType /\ stage[t] = "ready"  BY DEF ClaimInv, Send, CanStart
<1>2. started' \in [Tasks -> 0 .. MaxOps] /\ started[t] + 1 \in 1 .. MaxOps
  BY <1>1, CountTyped DEF Send, CanStart
<1>3. m \in Msgs  BY <1>2 DEF Msgs
<1>4. o \in Operations /\ o.kind = "send" /\ o.cases = <<[kind |-> "send", chan |-> c]>>
  <2>1. [kind |-> "send", chan |-> c] \in Case  BY DEF Case
  <2>2. <<[kind |-> "send", chan |-> c]>> \in Seq(Case) /\ <<m>> \in Seq(Msgs \cup {NoMsg})  BY <1>3, <2>1
  <2>. HIDE DEF m
  <2>. QED  BY <2>2 DEF Operations
<1>5. TaskOK(t)  BY TaskByTask
<1>6. op[t].kind = "none"  BY <1>1, <1>5 DEF TaskOK
<1>7. \/ UNCHANGED <<chanVars, signaled, slot, stage, wake, op, mailbox, fault>>
      \/ Commit(t, c, r, stage, wake) /\ selQ' = selQ /\ op' = op
      \/ /\ r.status = "pending" /\ op' = [op EXCEPT ![t] = o] /\ selQ' = selQ
         /\ Commit(t, c, [r EXCEPT !.sendQ = Append(@, t), !.wakes = Signals(c),
                                   !.claimed = Unclaimed(c), !.arrived = <<m>>],
                   [stage EXCEPT ![t] = "parked"], wake)
  BY DEF Send
<1>. HIDE DEF m, o, r
<1>8. CASE UNCHANGED <<chanVars, signaled, slot, stage, wake, op, mailbox, fault>>
  <2>1. UNCHANGED <<sendQ, recvQ, selQ, op, signaled, wake, mailbox, slot, stage, fault>>  BY <1>8 DEF chanVars
  <2>. QED  BY <1>2, <2>1, SameKeeps
<1>9. CASE Commit(t, c, r, stage, wake) /\ selQ' = selQ /\ op' = op
  <2>1. Claims(c, r)  BY TrySendClaims DEF r
  <2>2. stage \in [Tasks -> Stages] /\ wake \in [Tasks -> Waits] /\ op' \in [Tasks -> Operations]
    BY <1>1, <1>9 DEF ClaimType
  <2>3. \A u \in Tasks \ {t} : stage[u] = stage[u] /\ wake[u] = wake[u] /\ op'[u] = op[u]  BY <1>9
  <2>. QED  BY <1>1, <1>2, <1>6, <1>9, <2>1, <2>2, <2>3, CommitKeeps
<1>10. CASE /\ r.status = "pending" /\ op' = [op EXCEPT ![t] = o] /\ selQ' = selQ
            /\ Commit(t, c, [r EXCEPT !.sendQ = Append(@, t), !.wakes = Signals(c),
                                      !.claimed = Unclaimed(c), !.arrived = <<m>>],
                      [stage EXCEPT ![t] = "parked"], wake)
  <2>. DEFINE s == [r EXCEPT !.sendQ = Append(@, t), !.wakes = Signals(c),
                             !.claimed = Unclaimed(c), !.arrived = <<m>>]
  <2>1. r = Attempt(c)  BY <1>10, SendIsPending DEF r
  <2>2. /\ s.wakes = Signals(c) /\ s.claimed = Unclaimed(c) /\ s.into = {}
        /\ s.sendQ = Append(sendQ[c], t) /\ s.recvQ = recvQ[c]
    BY <2>1 DEF Attempt
  <2>3. Commit(t, c, s, [stage EXCEPT ![t] = "parked"], wake)  BY <1>10
  <2>. HIDE DEF s
  <2>. QED  BY <1>1, <1>2, <1>4, <1>10, <2>2, <2>3, ParkKeeps
<1>. QED  BY <1>7, <1>8, <1>9, <1>10

LEMMA ReceiveKeeps ==
    ASSUME ClaimInv, NEW t \in Tasks, NEW c \in Channels, Receive(t, c)
    PROVE  ClaimInv'
<1>. DEFINE o == [kind |-> "receive", msgs |-> <<NoMsg>>, timed |-> FALSE,
                  cases |-> <<[kind |-> "receive", chan |-> c]>>]
            r == TryReceive(c)
<1>1. ClaimType /\ stage[t] = "ready"  BY DEF ClaimInv, Receive, CanStart
<1>2. started' \in [Tasks -> 0 .. MaxOps]  BY <1>1, CountTyped DEF Receive, CanStart
<1>4. o \in Operations /\ o.kind = "receive" /\ o.cases = <<[kind |-> "receive", chan |-> c]>>
  <2>1. [kind |-> "receive", chan |-> c] \in Case  BY DEF Case
  <2>2. <<[kind |-> "receive", chan |-> c]>> \in Seq(Case) /\ <<NoMsg>> \in Seq(Msgs \cup {NoMsg})  BY <2>1
  <2>. QED  BY <2>2 DEF Operations
<1>5. TaskOK(t)  BY TaskByTask
<1>6. op[t].kind = "none"  BY <1>1, <1>5 DEF TaskOK
<1>7. \/ UNCHANGED <<chanVars, signaled, slot, stage, wake, op, mailbox, fault>>
      \/ Commit(t, c, r, stage, wake) /\ selQ' = selQ /\ op' = op
      \/ /\ r.status = "pending" /\ op' = [op EXCEPT ![t] = o] /\ selQ' = selQ
         /\ Commit(t, c, [r EXCEPT !.recvQ = Append(@, t), !.wakes = Signals(c), !.claimed = Unclaimed(c)],
                   [stage EXCEPT ![t] = "parked"], wake)
  BY DEF Receive
<1>. HIDE DEF o, r
<1>8. CASE UNCHANGED <<chanVars, signaled, slot, stage, wake, op, mailbox, fault>>
  <2>1. UNCHANGED <<sendQ, recvQ, selQ, op, signaled, wake, mailbox, slot, stage, fault>>  BY <1>8 DEF chanVars
  <2>. QED  BY <1>2, <2>1, SameKeeps
<1>9. CASE Commit(t, c, r, stage, wake) /\ selQ' = selQ /\ op' = op
  <2>1. Claims(c, r)  BY TryReceiveClaims DEF r
  <2>2. stage \in [Tasks -> Stages] /\ wake \in [Tasks -> Waits] /\ op' \in [Tasks -> Operations]
    BY <1>1, <1>9 DEF ClaimType
  <2>3. \A u \in Tasks \ {t} : stage[u] = stage[u] /\ wake[u] = wake[u] /\ op'[u] = op[u]  BY <1>9
  <2>. QED  BY <1>1, <1>2, <1>6, <1>9, <2>1, <2>2, <2>3, CommitKeeps
<1>10. CASE /\ r.status = "pending" /\ op' = [op EXCEPT ![t] = o] /\ selQ' = selQ
            /\ Commit(t, c, [r EXCEPT !.recvQ = Append(@, t), !.wakes = Signals(c), !.claimed = Unclaimed(c)],
                      [stage EXCEPT ![t] = "parked"], wake)
  <2>. DEFINE s == [r EXCEPT !.recvQ = Append(@, t), !.wakes = Signals(c), !.claimed = Unclaimed(c)]
  <2>1. r = Attempt(c)  BY <1>10, ReceiveIsPending DEF r
  <2>2. /\ s.wakes = Signals(c) /\ s.claimed = Unclaimed(c) /\ s.into = {}
        /\ s.sendQ = sendQ[c] /\ s.recvQ = Append(recvQ[c], t)
    BY <2>1 DEF Attempt
  <2>3. Commit(t, c, s, [stage EXCEPT ![t] = "parked"], wake)  BY <1>10
  <2>. HIDE DEF s
  <2>. QED  BY <1>1, <1>2, <1>4, <1>10, <2>2, <2>3, ParkKeeps
<1>. QED  BY <1>7, <1>8, <1>9, <1>10

(* A task no step is about.                                                *)
LEMMA Untouched ==
    ASSUME ClaimInv, NEW u \in Tasks, op'[u] = op[u], signaled'[u] <=> signaled[u], slot'[u] = slot[u],
           stage'[u] = stage[u], wake'[u] = wake[u], mailbox'[u] = mailbox[u],
           \A c \in Channels : /\ u \in Range(sendQ'[c]) <=> u \in Range(sendQ[c])
                               /\ u \in Range(recvQ'[c]) <=> u \in Range(recvQ[c])
                               /\ u \in Range(selQ'[c]) <=> u \in Range(selQ[c])
    PROVE  TaskOK(u)'
<1>1. Sound(NoWakes)  BY NoWakesIs DEF Sound
<1>2. NoWakes[u] = <<>>  BY NoWakesIs
<1>3. Follows(u, NoWakes)  BY <1>2 DEF Follows
<1>. QED  BY <1>1, <1>3, FollowsKeeps

LEMMA Nothing == NoWake \in Waits /\ NoOp \in Operations /\ NoOp.kind = "none" /\ DOMAIN NoOp.cases = {}
<1>1. <<>> \in Seq(Case) /\ <<>> \in Seq(Msgs \cup {NoMsg}) /\ DOMAIN <<>> = {}  OBVIOUS
<1>. QED  BY <1>1 DEF NoWake, Waits, Statuses, NoOp, Operations

LEMMA AttemptCaseClaims ==
    ASSUME ClaimInv, NEW o \in Operations, NEW i \in DOMAIN o.cases
    PROVE  o.cases[i].chan \in Channels /\ Claims(o.cases[i].chan, AttemptCase(o, i))
<1>1. o.cases \in Seq(Case)  BY DEF Operations
<1>2. o.cases[i] \in Case  BY <1>1
<1>3. o.cases[i].chan \in Channels  BY <1>2 DEF Case
<1>. QED  BY <1>3, TrySendClaims, TryReceiveClaims DEF AttemptCase

LEMMA PollKeeps ==
    ASSUME ClaimInv, NEW t \in Tasks, stage[t] \in {"ready", "repoll"},
           NEW o \in Operations, o.kind = "select", NEW late, PollCases(t, o, late),
           started' \in [Tasks -> 0 .. MaxOps]
    PROVE  ClaimInv'
<1>1. TaskOK(t) /\ ClaimType  BY TaskByTask
<1>2. mailbox[t] = <<>>  BY <1>1 DEF TaskOK
<1>3. slot[t] = NoMsg  BY <1>1, <1>2 DEF TaskOK
<1>4. ~Waiting(t)  BY DEF Waiting
<1>5. \A d \in Channels : t \notin Range(sendQ[d]) /\ t \notin Range(recvQ[d]) /\ t \notin Range(selQ[d])
  BY <1>1, <1>4 DEF TaskOK
<1>6. ASSUME ~cancelled[t] /\ Eligible(o) # {},
             LET i == CHOOSE i \in Eligible(o) : \A j \in Eligible(o) : i <= j
                 r == AttemptCase(o, i)
             IN  /\ Commit(t, o.cases[i].chan, r, [stage EXCEPT ![t] = "ready"], [wake EXCEPT ![t] = NoWake])
                 /\ Finish(t, o, r.status, i),
             selQ' = selQ
      PROVE  ClaimInv'
  <2>. DEFINE i == CHOOSE i \in Eligible(o) : \A j \in Eligible(o) : i <= j
              r == AttemptCase(o, i)
              base == [stage EXCEPT ![t] = "ready"]
              baseWake == [wake EXCEPT ![t] = NoWake]
  <2>1. Commit(t, o.cases[i].chan, r, base, baseWake) /\ op' = [op EXCEPT ![t] = NoOp]  BY <1>6 DEF Finish
  <2>2. Eligible(o) \subseteq Nat
    <3>1. o.cases \in Seq(Case)  BY DEF Operations
    <3>. QED  BY <3>1 DEF Eligible
  <2>3. \E k \in Eligible(o) : \A j \in Eligible(o) : k <= j  BY <1>6, <2>2, LeastOf
  <2>4. i \in Eligible(o)  BY <2>3
  <2>5. i \in DOMAIN o.cases  BY <2>4 DEF Eligible
  <2>. HIDE DEF i
  <2>6. o.cases[i].chan \in Channels /\ Claims(o.cases[i].chan, r)  BY <2>5, AttemptCaseClaims
  <2>7. /\ base \in [Tasks -> Stages] /\ base[t] = "ready" /\ baseWake \in [Tasks -> Waits]
        /\ \A u \in Tasks \ {t} : base[u] = stage[u] /\ baseWake[u] = wake[u]
    BY <1>1, Nothing DEF ClaimType, Stages
  <2>8. /\ op' \in [Tasks -> Operations] /\ op'[t].kind = "none"
        /\ \A u \in Tasks \ {t} : op'[u] = op[u]
    BY <1>1, <2>1, Nothing DEF ClaimType
  <2>. HIDE DEF base, baseWake, r
  <2>9. \A u \in Tasks \ {t} : base[u] = stage[u] /\ baseWake[u] = wake[u] /\ op'[u] = op[u]  BY <2>7, <2>8
  <2>. DEFINE d == o.cases[i].chan
  <2>10. d \in Channels /\ Claims(d, r) /\ Commit(t, d, r, base, baseWake)  BY <2>1, <2>6
  <2>. HIDE DEF d
  <2>. QED  BY <1>6, <2>7, <2>8, <2>9, <2>10, CommitKeeps
<1>7. ASSUME selQ' = [c \in Channels |-> IF \E i \in DOMAIN o.cases : o.cases[i].chan = c
                                         THEN Append(selQ[c], t) ELSE selQ[c]],
             signaled' = [signaled EXCEPT ![t] = FALSE], stage' = [stage EXCEPT ![t] = "parked"],
             wake' = [wake EXCEPT ![t] = NoWake], op' = [op EXCEPT ![t] = o],
             UNCHANGED <<sendQ, recvQ, slot, mailbox, fault>>
      PROVE  ClaimInv'
  <2>1. \A c \in Channels : /\ selQ'[c] \in Seq(Tasks) /\ Injective(selQ'[c])
                            /\ \A u \in Tasks \ {t} : u \in Range(selQ'[c]) <=> u \in Range(selQ[c])
                            /\ t \in Range(selQ'[c]) <=> \E i \in DOMAIN o.cases : o.cases[i].chan = c
    <3>. TAKE c \in Channels
    <3>1. selQ[c] \in Seq(Tasks) /\ Injective(selQ[c]) /\ t \notin Range(selQ[c])  BY <1>5, QueuedIs
    <3>2. /\ Append(selQ[c], t) \in Seq(Tasks) /\ Range(Append(selQ[c], t)) = Range(selQ[c]) \cup {t}
          /\ Injective(Append(selQ[c], t))
      BY <3>1, AppendOf
    <3>3. selQ'[c] = IF \E i \in DOMAIN o.cases : o.cases[i].chan = c THEN Append(selQ[c], t) ELSE selQ[c]
      BY <1>7
    <3>. QED  BY <3>1, <3>2, <3>3, Zenon
  <2>2. ClaimType'
    <3>1. selQ' \in [Channels -> Seq(Tasks)]
      <4>1. DOMAIN selQ' = Channels /\ selQ' = [c \in Channels |-> selQ'[c]]  BY <1>7
      <4>. QED  BY <2>1, <4>1, Zenon
    <3>2. signaled' \in [Tasks -> BOOLEAN]  BY <1>1, <1>7 DEF ClaimType
    <3>3. stage' \in [Tasks -> Stages] /\ wake' \in [Tasks -> Waits] /\ op' \in [Tasks -> Operations]
      BY <1>1, <1>7, Nothing DEF ClaimType, Stages
    <3>. QED  BY <1>1, <1>7, <3>1, <3>2, <3>3 DEF ClaimType
  <2>3. QueuedOnce'  BY <1>7, <2>1, QueuedIs DEF QueuedOnce
  <2>4. NoDoubleWake'  BY <1>7 DEF ClaimInv, NoDoubleWake
  <2>5. ASSUME NEW u \in Tasks \ {t}  PROVE TaskOK(u)'
    <3>1. /\ op'[u] = op[u] /\ (signaled'[u] <=> signaled[u]) /\ slot'[u] = slot[u]
          /\ stage'[u] = stage[u] /\ wake'[u] = wake[u] /\ mailbox'[u] = mailbox[u]
      BY <1>1, <1>7 DEF ClaimType
    <3>2. \A c \in Channels : /\ u \in Range(sendQ'[c]) <=> u \in Range(sendQ[c])
                              /\ u \in Range(recvQ'[c]) <=> u \in Range(recvQ[c])
                              /\ u \in Range(selQ'[c]) <=> u \in Range(selQ[c])
      BY <1>7, <2>1
    <3>. QED  BY <3>1, <3>2, Untouched
  <2>6. TaskOK(t)'
    <3>1. op'[t] = o /\ ~signaled'[t] /\ slot'[t] = NoMsg /\ stage'[t] = "parked" /\ mailbox'[t] = <<>>
      BY <1>1, <1>2, <1>3, <1>7 DEF ClaimType
    <3>2. \A c \in Channels : /\ t \notin Range(sendQ'[c]) /\ t \notin Range(recvQ'[c])
                              /\ t \in Range(selQ'[c]) <=> \E i \in DOMAIN o.cases : o.cases[i].chan = c
      BY <1>5, <1>7, <2>1
    <3>3. \A i \in DOMAIN o.cases : o.cases[i].chan \in Channels
      <4>1. o.cases \in Seq(Case)  BY DEF Operations
      <4>2. \A i \in DOMAIN o.cases : o.cases[i] \in Case  BY <4>1
      <4>. QED  BY <4>2 DEF Case
    <3>4. \A i \in DOMAIN o.cases : t \in Range(selQ'[o.cases[i].chan])  BY <3>2, <3>3
    <3>. QED  BY <3>1, <3>2, <3>4 DEF TaskOK
  <2>7. \A u \in Tasks : TaskOK(u)'  BY <2>5, <2>6
  <2>. QED  BY <2>2, <2>3, <2>4, <2>7, TaskByTaskNext
<1>8. ASSUME op' = [op EXCEPT ![t] = NoOp], stage' = [stage EXCEPT ![t] = "ready"],
             wake' = [wake EXCEPT ![t] = NoWake],
             UNCHANGED <<sendQ, recvQ, selQ, signaled, slot, mailbox, fault>>
      PROVE  ClaimInv'
  <2>2. ClaimType'
    BY <1>1, <1>8, Nothing DEF ClaimType, Stages
  <2>3. QueuedOnce' /\ NoDoubleWake'  BY <1>8 DEF ClaimInv, QueuedOnce, NoDoubleWake
  <2>5. ASSUME NEW u \in Tasks \ {t}  PROVE TaskOK(u)'
    <3>1. /\ op'[u] = op[u] /\ (signaled'[u] <=> signaled[u]) /\ slot'[u] = slot[u]
          /\ stage'[u] = stage[u] /\ wake'[u] = wake[u] /\ mailbox'[u] = mailbox[u]
      BY <1>1, <1>8 DEF ClaimType
    <3>. QED  BY <1>8, <3>1, Untouched
  <2>6. TaskOK(t)'
    <3>1. op'[t].kind = "none" /\ slot'[t] = NoMsg /\ stage'[t] = "ready" /\ mailbox'[t] = <<>>
      BY <1>1, <1>2, <1>3, <1>8, Nothing DEF ClaimType
    <3>2. ~Waiting(t)'  BY <3>1 DEF Waiting
    <3>. QED  BY <1>5, <1>8, <3>1, <3>2 DEF TaskOK
  <2>7. \A u \in Tasks : TaskOK(u)'  BY <2>5, <2>6
  <2>. QED  BY <2>2, <2>3, <2>7, TaskByTaskNext
<1>. QED  BY <1>6, <1>7, <1>8 DEF PollCases, Finish

(* The operation a select starts.                                          *)
SelectOp(t, s, timed) ==
    [kind |-> "select", cases |-> s, timed |-> timed,
     msgs |-> [i \in DOMAIN s |-> IF s[i].kind = "send" THEN <<t, started[t] + 1, i>> ELSE NoMsg]]

LEMMA SelectOpTyped ==
    ASSUME NEW t \in Tasks, NEW s \in Selects, NEW timed \in BOOLEAN, started[t] + 1 \in 1 .. MaxOps
    PROVE  SelectOp(t, s, timed) \in Operations
<1>. DEFINE g == [i \in DOMAIN s |-> IF s[i].kind = "send" THEN <<t, started[t] + 1, i>> ELSE NoMsg]
<1>1. s \in Seq(Case)  BY ConstantsAssumption
<1>2. DOMAIN s = 1 .. Len(s) /\ Len(s) \in Nat  BY <1>1
<1>3. \A i \in DOMAIN s : <<t, started[t] + 1, i>> \in Msgs  BY <1>2 DEF Msgs
<1>4. g \in [1 .. Len(s) -> Msgs \cup {NoMsg}]  BY <1>2, <1>3
<1>5. g \in Seq(Msgs \cup {NoMsg})  BY <1>2, <1>4
<1>. HIDE DEF g
<1>6. [kind |-> "select", cases |-> s, timed |-> timed, msgs |-> g] \in Operations  BY <1>1, <1>5 DEF Operations
<1>. QED  BY <1>6 DEF SelectOp, g

LEMMA SelectKeeps ==
    ASSUME ClaimInv, NEW t \in Tasks, NEW s \in Selects, NEW timed \in BOOLEAN, NEW late \in BOOLEAN,
           Select(t, s, timed, late)
    PROVE  ClaimInv'
<1>1. ClaimType /\ stage[t] = "ready"  BY DEF ClaimInv, Select, CanStart
<1>2. started' \in [Tasks -> 0 .. MaxOps] /\ started[t] + 1 \in 1 .. MaxOps
  BY <1>1, CountTyped DEF Select, CanStart
<1>3. SelectOp(t, s, timed) \in Operations  BY <1>2, SelectOpTyped
<1>4. SelectOp(t, s, timed).kind = "select"  BY DEF SelectOp
<1>5. PollCases(t, SelectOp(t, s, timed), late)  BY DEF Select, SelectOp
<1>. QED  BY <1>1, <1>2, <1>3, <1>4, <1>5, PollKeeps

LEMMA RepollKeeps ==
    ASSUME ClaimInv, NEW t \in Tasks, Repoll(t)
    PROVE  ClaimInv'
<1>1. ClaimType /\ TaskOK(t)  BY TaskByTask
<1>2. stage[t] = "repoll" /\ op[t].kind = "select" /\ op[t] \in Operations
  BY <1>1 DEF Repoll, TaskOK, ClaimType
<1>3. started' \in [Tasks -> 0 .. MaxOps]  BY <1>1 DEF Repoll, ClaimType
<1>4. PollCases(t, op[t], expired[t])  BY DEF Repoll
<1>. QED  BY <1>2, <1>3, <1>4, PollKeeps

(***************************************************************************)
(* The other steps.                                                        *)
(***************************************************************************)

LEMMA TakeWakeKeeps ==
    ASSUME ClaimInv, NEW t \in Tasks, TakeWake(t)
    PROVE  ClaimInv'
<1>1. ClaimType /\ TaskOK(t)  BY TaskByTask
<1>2. /\ stage[t] = "woken" /\ op[t].kind \in {"send", "receive"}
      /\ op' = [op EXCEPT ![t] = NoOp] /\ stage' = [stage EXCEPT ![t] = "ready"]
      /\ wake' = [wake EXCEPT ![t] = NoWake]
      /\ slot' = [slot EXCEPT ![t] = IF wake[t].status = "ready" THEN NoMsg ELSE @]
      /\ UNCHANGED <<sendQ, recvQ, selQ, signaled, mailbox, started, fault>>
  BY DEF TakeWake, Finish, chanVars
<1>3. ClaimType'  BY <1>1, <1>2, Nothing DEF ClaimType, Stages
<1>4. QueuedOnce' /\ NoDoubleWake'  BY <1>2 DEF ClaimInv, QueuedOnce, NoDoubleWake
<1>5. ASSUME NEW u \in Tasks \ {t}  PROVE TaskOK(u)'
  <2>1. /\ op'[u] = op[u] /\ (signaled'[u] <=> signaled[u]) /\ slot'[u] = slot[u]
        /\ stage'[u] = stage[u] /\ wake'[u] = wake[u] /\ mailbox'[u] = mailbox[u]
    BY <1>1, <1>2 DEF ClaimType
  <2>. QED  BY <1>2, <2>1, Untouched
<1>6. TaskOK(t)'
  <2>1. ~Waiting(t)  BY <1>2 DEF Waiting
  <2>2. mailbox[t] = <<>>  BY <1>1, <1>2 DEF TaskOK
  <2>3. slot[t] # NoMsg => wake[t].status = "ready"  BY <1>1, <2>2 DEF TaskOK
  <2>4. \A d \in Channels : t \notin Range(sendQ[d]) /\ t \notin Range(recvQ[d]) /\ t \notin Range(selQ[d])
    BY <1>1, <1>2, <2>1 DEF TaskOK
  <2>5. op'[t].kind = "none" /\ slot'[t] = NoMsg /\ stage'[t] = "ready" /\ mailbox'[t] = <<>>
    BY <1>1, <1>2, <2>2, <2>3, Nothing DEF ClaimType
  <2>6. ~Waiting(t)'  BY <2>5 DEF Waiting
  <2>. QED  BY <1>2, <2>4, <2>5, <2>6 DEF TaskOK
<1>7. \A u \in Tasks : TaskOK(u)'  BY <1>5, <1>6
<1>. QED  BY <1>3, <1>4, <1>7, TaskByTaskNext

LEMMA UnregisterKeeps ==
    ASSUME ClaimInv, NEW t \in Tasks, Unregister(t)
    PROVE  ClaimInv'
<1>1. ClaimType /\ TaskOK(t)  BY TaskByTask
<1>. DEFINE i == CHOOSE i \in Registered(t) : \A j \in Registered(t) : i <= j
            c == op[t].cases[i].chan
            last == \A j \in Registered(t) : op[t].cases[j].chan = c
<1>2. /\ op[t].kind = "select" /\ Registered(t) # {} /\ stage[t] \in {"woken", "unregister"}
      /\ UNCHANGED <<sendQ, recvQ, signaled, mailbox, started, fault>>
      /\ selQ' = [selQ EXCEPT ![c] = Without(@, t)]
      /\ \/ /\ ~last /\ stage' = [stage EXCEPT ![t] = "unregister"]
            /\ UNCHANGED <<op, wake, slot>>
         \/ /\ last /\ wake[t].status = "event" /\ stage' = [stage EXCEPT ![t] = "repoll"]
            /\ UNCHANGED <<op, wake, slot>>
         \/ /\ last /\ op' = [op EXCEPT ![t] = NoOp] /\ stage' = [stage EXCEPT ![t] = "ready"]
            /\ wake' = [wake EXCEPT ![t] = NoWake]
            /\ slot' = [slot EXCEPT ![t] = IF wake[t].status = "ready" THEN NoMsg ELSE @]
  BY DEF Unregister, Finish
<1>3. Registered(t) \subseteq Nat  BY <1>1, OpTyped DEF Registered
<1>4. \E k \in Registered(t) : \A j \in Registered(t) : k <= j  BY <1>2, <1>3, LeastOf
<1>5. i \in Registered(t)  BY <1>4
<1>. HIDE DEF i
<1>6. i \in DOMAIN op[t].cases /\ t \in Range(selQ[c])  BY <1>5 DEF Registered
<1>7. c \in Channels  BY <1>1, <1>6, OpTyped
<1>8. /\ Without(selQ[c], t) \in Seq(Tasks) /\ Range(Without(selQ[c], t)) = Range(selQ[c]) \ {t}
      /\ Injective(Without(selQ[c], t))
  BY <1>6, <1>7, QueuedIs, WithoutOf
<1>. HIDE DEF c
<1>9. /\ selQ' \in [Channels -> Seq(Tasks)] /\ selQ'[c] = Without(selQ[c], t)
      /\ \A d \in Channels : d # c => selQ'[d] = selQ[d]
  BY <1>1, <1>2, <1>7, <1>8 DEF ClaimType
<1>10. /\ stage' \in [Tasks -> Stages] /\ op' \in [Tasks -> Operations] /\ wake' \in [Tasks -> Waits]
       /\ DOMAIN slot' = Tasks
       /\ \A u \in Tasks \ {t} : /\ op'[u] = op[u] /\ slot'[u] = slot[u]
                                 /\ stage'[u] = stage[u] /\ wake'[u] = wake[u]
  <2>1. \E x \in Stages : stage' = [stage EXCEPT ![t] = x]  BY <1>2 DEF Stages
  <2>2. op' = op \/ op' = [op EXCEPT ![t] = NoOp]  BY <1>2
  <2>3. wake' = wake \/ wake' = [wake EXCEPT ![t] = NoWake]  BY <1>2
  <2>4. slot' = slot \/ \E x : slot' = [slot EXCEPT ![t] = x]  BY <1>2
  <2>5. stage' \in [Tasks -> Stages] /\ \A u \in Tasks \ {t} : stage'[u] = stage[u]  BY <1>1, <2>1 DEF ClaimType
  <2>6. op' \in [Tasks -> Operations] /\ \A u \in Tasks \ {t} : op'[u] = op[u]
    BY <1>1, <2>2, Nothing DEF ClaimType
  <2>7. wake' \in [Tasks -> Waits] /\ \A u \in Tasks \ {t} : wake'[u] = wake[u]
    BY <1>1, <2>3, Nothing DEF ClaimType
  <2>8. DOMAIN slot' = Tasks /\ \A u \in Tasks \ {t} : slot'[u] = slot[u]  BY <1>1, <2>4 DEF ClaimType
  <2>. QED  BY <2>5, <2>6, <2>7, <2>8
<1>11. ClaimType'  BY <1>1, <1>2, <1>9, <1>10 DEF ClaimType
<1>12. QueuedOnce'
  <2>1. \A d \in Channels : Injective(selQ'[d])
    <3>. TAKE d \in Channels
    <3>1. CASE d = c  BY <1>8, <1>9, <3>1
    <3>2. CASE d # c  BY <1>9, <3>2, QueuedIs
    <3>. QED  BY <3>1, <3>2
  <2>. QED  BY <1>2, <2>1, QueuedIs DEF QueuedOnce
<1>13. NoDoubleWake'  BY <1>2 DEF ClaimInv, NoDoubleWake
<1>14. \A u \in Tasks, d \in Channels : u \in Range(selQ'[d]) <=> u \in Range(selQ[d]) /\ ~(u = t /\ d = c)
  <2>. TAKE u \in Tasks, d \in Channels
  <2>1. CASE d = c  BY <1>8, <1>9, <2>1
  <2>2. CASE d # c  BY <1>9, <2>2
  <2>. QED  BY <2>1, <2>2
<1>15. ASSUME NEW u \in Tasks \ {t}  PROVE TaskOK(u)'
  <2>1. /\ op'[u] = op[u] /\ (signaled'[u] <=> signaled[u]) /\ slot'[u] = slot[u]
        /\ stage'[u] = stage[u] /\ wake'[u] = wake[u] /\ mailbox'[u] = mailbox[u]
    BY <1>2, <1>10
  <2>. QED  BY <1>2, <1>14, <2>1, Untouched
<1>16. TaskOK(t)'
  <2>1. ~Waiting(t) /\ mailbox[t] = <<>> /\ signaled[t]  BY <1>1, <1>2 DEF Waiting, TaskOK
  <2>2. slot[t] # NoMsg => wake[t].status = "ready"  BY <1>1, <2>1 DEF TaskOK
  <2>3. \A d \in Channels : /\ t \notin Range(sendQ'[d]) /\ t \notin Range(recvQ'[d])
                            /\ t \in Range(selQ'[d]) => t \in Range(selQ[d]) /\ d # c
    BY <1>1, <1>2, <1>14, <2>1 DEF TaskOK
  <2>4. \A d \in Channels : t \in Range(selQ[d]) => \E k \in DOMAIN op[t].cases : op[t].cases[k].chan = d
    BY <1>1 DEF TaskOK
  <2>5. last => \A d \in Channels : t \notin Range(selQ'[d])
    BY <2>3, <2>4 DEF Registered
  <2>. HIDE DEF last
  <2>6. CASE ~last /\ stage' = [stage EXCEPT ![t] = "unregister"] /\ UNCHANGED <<op, wake, slot>>
    <3>1. stage'[t] = "unregister" /\ mailbox'[t] = <<>> /\ signaled'[t]  BY <1>1, <1>2, <2>1, <2>6 DEF ClaimType
    <3>2. ~Waiting(t)'  BY <3>1 DEF Waiting
    <3>. QED  BY <1>2, <2>2, <2>3, <2>4, <2>6, <3>1, <3>2 DEF TaskOK
  <2>7. CASE last /\ wake[t].status = "event" /\ stage' = [stage EXCEPT ![t] = "repoll"] /\ UNCHANGED <<op, wake, slot>>
    <3>1. stage'[t] = "repoll" /\ mailbox'[t] = <<>> /\ signaled'[t]  BY <1>1, <1>2, <2>1, <2>7 DEF ClaimType
    <3>2. ~Waiting(t)'  BY <3>1 DEF Waiting
    <3>. QED  BY <1>2, <2>2, <2>3, <2>5, <2>7, <3>1, <3>2 DEF TaskOK
  <2>8. CASE /\ last /\ op' = [op EXCEPT ![t] = NoOp] /\ stage' = [stage EXCEPT ![t] = "ready"]
             /\ slot' = [slot EXCEPT ![t] = IF wake[t].status = "ready" THEN NoMsg ELSE @]
    <3>1. stage'[t] = "ready" /\ mailbox'[t] = <<>> /\ op'[t].kind = "none" /\ slot'[t] = NoMsg
      BY <1>1, <1>2, <2>1, <2>2, <2>8, Nothing DEF ClaimType
    <3>2. ~Waiting(t)'  BY <3>1 DEF Waiting
    <3>. QED  BY <2>3, <2>5, <2>8, <3>1, <3>2 DEF TaskOK
  <2>. QED  BY <1>2, <2>6, <2>7, <2>8 DEF last
<1>17. \A u \in Tasks : TaskOK(u)'  BY <1>15, <1>16
<1>. QED  BY <1>11, <1>12, <1>13, <1>17, TaskByTaskNext

LEMMA DrainKeeps ==
    ASSUME ClaimInv, NEW e \in Executors, Drain(e)
    PROVE  ClaimInv'
<1>. DEFINE ws == [t \in Tasks |-> IF Home[t] = e THEN mailbox[t] ELSE <<>>]
<1>1. ClaimType /\ fault = "none"  BY DEF ClaimInv, NoDoubleWake
<1>2. /\ Enqueue(ws, stage, wake)
      /\ mailbox' = [t \in Tasks |-> IF Home[t] = e THEN <<>> ELSE mailbox[t]]
      /\ UNCHANGED <<sendQ, recvQ, selQ, op, signaled, slot, started>>
  BY DEF Drain, chanVars
<1>3. \A u \in Tasks : /\ mailbox[u] \in Seq(Waits)
                       /\ mailbox[u] # <<>> => stage[u] = "parked" /\ Len(mailbox[u]) = 1 /\ mailbox[u][1] \in Waits
  BY <1>1, TaskByTask DEF TaskOK, ClaimType
<1>4. \A u \in Tasks : ws[u] = IF Home[u] = e THEN mailbox[u] ELSE <<>>  OBVIOUS
<1>. HIDE DEF ws
<1>5. /\ stage' = [t \in Tasks |-> IF ws[t] # <<>> THEN "woken" ELSE stage[t]]
      /\ wake' = [t \in Tasks |-> IF ws[t] # <<>> THEN ws[t][1] ELSE wake[t]]
      /\ fault' = IF \E t \in Tasks : ws[t] # <<>> /\ (stage[t] # "parked" \/ Len(ws[t]) > 1)
                  THEN "invalid task wake" ELSE fault
  BY <1>2 DEF Enqueue
<1>6. NoDoubleWake'
  <2>1. ASSUME NEW u \in Tasks, ws[u] # <<>>  PROVE stage[u] = "parked" /\ ~(Len(ws[u]) > 1)
    <3>1. ws[u] = mailbox[u]  BY <1>4, <2>1
    <3>2. stage[u] = "parked" /\ Len(mailbox[u]) = 1  BY <1>3, <2>1, <3>1, Zenon
    <3>3. Len(ws[u]) = 1  BY <3>1, <3>2, Zenon
    <3>. QED  BY <3>2, <3>3
  <2>. QED  BY <1>1, <1>5, <2>1 DEF NoDoubleWake
<1>7. ClaimType'
  <2>1. stage' \in [Tasks -> Stages]  BY <1>1, <1>5 DEF ClaimType, Stages
  <2>2. wake' \in [Tasks -> Waits]
    <3>1. \A u \in Tasks : ws[u] # <<>> => ws[u][1] \in Waits  BY <1>3, <1>4
    <3>. QED  BY <1>1, <1>5, <3>1 DEF ClaimType
  <2>3. mailbox' \in [Tasks -> Seq(Waits)]  BY <1>1, <1>2 DEF ClaimType
  <2>. QED  BY <1>1, <1>2, <2>1, <2>2, <2>3 DEF ClaimType
<1>8. QueuedOnce'  BY <1>2 DEF ClaimInv, QueuedOnce
<1>9. ASSUME NEW u \in Tasks  PROVE TaskOK(u)'
  <2>1. CASE ws[u] = <<>>
    <3>1. mailbox'[u] = mailbox[u]  BY <1>2, <1>4, <2>1
    <3>2. stage'[u] = stage[u] /\ wake'[u] = wake[u]  BY <1>5, <2>1
    <3>. QED  BY <1>2, <3>1, <3>2, Untouched
  <2>2. CASE ws[u] # <<>>
    <3>1. ws[u] = mailbox[u] /\ mailbox[u] # <<>> /\ mailbox'[u] = <<>>  BY <1>2, <1>4, <2>2
    <3>2. stage[u] = "parked" /\ Len(mailbox[u]) = 1 /\ mailbox[u] \in Seq(Waits)  BY <1>3, <3>1
    <3>3. stage'[u] = "woken" /\ wake'[u] = mailbox[u][1]  BY <1>5, <2>2, <3>1
    <3>4. TaskOK(u)  BY TaskByTask
    <3>5. slot[u] # NoMsg => wake'[u].status = "ready"
      <4>1. slot[u] # NoMsg => \E i \in DOMAIN mailbox[u] : mailbox[u][i].status = "ready"
        BY <3>2, <3>4 DEF TaskOK
      <4>2. DOMAIN mailbox[u] = {1}  BY <3>2
      <4>. QED  BY <3>3, <4>1, <4>2
    <3>6. ~Waiting(u) /\ ~Waiting(u)'  BY <3>1, <3>3 DEF Waiting
    <3>7. op[u].kind \in {"send", "receive", "select"} /\ (op[u].kind = "select" => signaled[u])
      BY <1>1, <3>1, <3>2, <3>4, OpTyped DEF TaskOK
    <3>8. \A c \in Channels : u \notin Range(sendQ[c]) /\ u \notin Range(recvQ[c])  BY <3>4, <3>6 DEF TaskOK
    <3>9. SingleCase(u)' <=> SingleCase(u)  BY <1>2 DEF SingleCase
    <3>. QED  BY <1>2, <3>1, <3>2, <3>3, <3>4, <3>5, <3>6, <3>7, <3>8, <3>9 DEF TaskOK
  <2>. QED  BY <2>1, <2>2
<1>. QED  BY <1>6, <1>7, <1>8, <1>9, TaskByTaskNext

(* A step that wakes some tasks and does nothing else to tasks, but for    *)
(* those of A, which start to flush.                                       *)
WakesOnly(ws, e, base, A) ==
    /\ Sound(ws) /\ base \in [Tasks -> Stages] /\ WakeTasks(ws, e, base, wake)
    /\ A \in SUBSET Tasks /\ \A u \in A : ws[u] = <<>> /\ stage[u] = "ready" /\ base[u] = "flush"
    /\ \A u \in Tasks \ A : base[u] = stage[u]
    /\ op' = op /\ slot' = slot /\ started' = started /\ selQ' = selQ
    /\ signaled' \in [Tasks -> BOOLEAN]
    /\ \A u \in Tasks : signaled'[u] <=> (signaled[u] \/ (ws[u] # <<>> /\ op[u].kind = "select"))
    /\ sendQ' \in [Channels -> Seq(Tasks)] /\ recvQ' \in [Channels -> Seq(Tasks)]
    /\ \A c \in Channels : Injective(sendQ'[c]) /\ Injective(recvQ'[c])
    /\ \A u \in Tasks, c \in Channels :
          /\ u \in Range(sendQ'[c]) <=> u \in Range(sendQ[c]) /\ ws[u] = <<>>
          /\ u \in Range(recvQ'[c]) <=> u \in Range(recvQ[c]) /\ ws[u] = <<>>

LEMMA WakeKeeps ==
    ASSUME ClaimInv, NEW ws, NEW e, NEW base, NEW A, WakesOnly(ws, e, base, A)
    PROVE  ClaimInv'
<1>0. /\ Sound(ws) /\ base \in [Tasks -> Stages] /\ WakeTasks(ws, e, base, wake)
      /\ A \in SUBSET Tasks /\ \A u \in A : ws[u] = <<>> /\ stage[u] = "ready" /\ base[u] = "flush"
      /\ \A u \in Tasks \ A : base[u] = stage[u]
      /\ op' = op /\ slot' = slot /\ started' = started /\ selQ' = selQ
      /\ signaled' \in [Tasks -> BOOLEAN]
      /\ \A u \in Tasks : signaled'[u] <=> (signaled[u] \/ (ws[u] # <<>> /\ op[u].kind = "select"))
      /\ sendQ' \in [Channels -> Seq(Tasks)] /\ recvQ' \in [Channels -> Seq(Tasks)]
      /\ \A c \in Channels : Injective(sendQ'[c]) /\ Injective(recvQ'[c])
      /\ \A u \in Tasks, c \in Channels :
            /\ u \in Range(sendQ'[c]) <=> u \in Range(sendQ[c]) /\ ws[u] = <<>>
            /\ u \in Range(recvQ'[c]) <=> u \in Range(recvQ[c]) /\ ws[u] = <<>>
  BY DEF WakesOnly
<1>1. ClaimType  BY DEF ClaimInv
<1>2. /\ fault' = "none"
      /\ \A u \in Tasks : ws[u] = <<>> =>
            stage'[u] = base[u] /\ wake'[u] = wake[u] /\ mailbox'[u] = mailbox[u]
      /\ \A u \in Tasks : ws[u] # <<>> =>
            \/ stage'[u] = "woken" /\ wake'[u] = ws[u][1] /\ mailbox'[u] = <<>>
            \/ stage'[u] = base[u] /\ wake'[u] = wake[u] /\ mailbox'[u] = ws[u]
      /\ mailbox' \in [Tasks -> Seq(Waits)] /\ stage' \in [Tasks -> Stages] /\ wake' \in [Tasks -> Waits]
  <2>1. wake \in [Tasks -> Waits]  BY <1>1 DEF ClaimType
  <2>. QED  BY <1>0, <2>1, Woken
<1>3. ClaimType'  BY <1>0, <1>1, <1>2 DEF ClaimType
<1>4. QueuedOnce'  BY <1>0, QueuedIs DEF QueuedOnce
<1>5. NoDoubleWake'  BY <1>2 DEF NoDoubleWake
<1>6. ASSUME NEW u \in Tasks \ A  PROVE TaskOK(u)'
  <2>1. op'[u] = op[u] /\ slot'[u] = slot[u] /\ selQ' = selQ /\ base[u] = stage[u]  BY <1>0
  <2>2. Follows(u, ws)  BY <1>0, <1>2, <2>1 DEF Follows
  <2>. QED  BY <1>0, <2>2, FollowsKeeps
<1>7. ASSUME NEW u \in A  PROVE TaskOK(u)'
  <2>1. TaskOK(u) /\ u \in Tasks  BY <1>0, TaskByTask
  <2>2. ws[u] = <<>> /\ stage[u] = "ready" /\ base[u] = "flush"  BY <1>0
  <2>3. /\ stage'[u] = "flush" /\ mailbox'[u] = mailbox[u] /\ op'[u] = op[u] /\ slot'[u] = slot[u]
        /\ \A c \in Channels : /\ u \in Range(sendQ'[c]) <=> u \in Range(sendQ[c])
                               /\ u \in Range(recvQ'[c]) <=> u \in Range(recvQ[c])
                               /\ u \in Range(selQ'[c]) <=> u \in Range(selQ[c])
    BY <1>0, <1>2, <2>1, <2>2
  <2>4. ~Waiting(u) /\ ~Waiting(u)'  BY <2>2, <2>3 DEF Waiting
  <2>5. mailbox[u] = <<>> /\ op[u].kind = "none"  BY <2>1, <2>2 DEF TaskOK
  <2>6. slot[u] = NoMsg  BY <2>1, <2>2, <2>5 DEF TaskOK
  <2>7. \A c \in Channels : u \notin Range(sendQ[c]) /\ u \notin Range(recvQ[c]) /\ u \notin Range(selQ[c])
    BY <2>1, <2>2, <2>4 DEF TaskOK
  <2>. QED  BY <2>3, <2>4, <2>5, <2>6, <2>7 DEF TaskOK
<1>8. \A u \in Tasks : TaskOK(u)'  BY <1>6, <1>7
<1>. QED  BY <1>3, <1>4, <1>5, <1>8, TaskByTaskNext

(* Closing wakes whoever waits in the queue and every select nobody has    *)
(* claimed, each once.                                                     *)
LEMMA CloseIs ==
    ASSUME ClaimInv, NEW c \in Channels, NEW q, q = sendQ[c] \/ q = recvQ[c]
    PROVE  LET ws == AndThen(ClosedWakes(q), Signals(c))
           IN  /\ Sound(ws)
               /\ \A u \in Tasks : ws[u] # <<>> <=> u \in Range(q) \cup Unclaimed(c)
<1>. DEFINE v == ClosedWakes(q)
            w == Signals(c)
            ws == AndThen(v, w)
<1>1. /\ v \in [Tasks -> Seq(Waits)]
      /\ \A u \in Tasks : u \notin Range(q) => v[u] = <<>>
      /\ \A u \in Tasks : u \in Range(q) => v[u] # <<>> /\ Len(v[u]) = 1
  <2>1. Wk("closed", 0) \in Waits  BY WkIs DEF Statuses
  <2>. QED  BY <2>1, WakeEachIs DEF ClosedWakes
<1>2. /\ w \in [Tasks -> Seq(Waits)]
      /\ \A u \in Tasks : u \notin Unclaimed(c) => w[u] = <<>>
      /\ \A u \in Tasks : u \in Unclaimed(c) => w[u] # <<>> /\ Len(w[u]) = 1
  <2>1. Wk("event", 0) \in Waits  BY WkIs DEF Statuses
  <2>. QED  BY <2>1, WakeEachIs DEF Signals
<1>3. \A u \in Range(q) : Waiting(u) /\ op[u].kind # "select"  BY QueuedIs
<1>4. \A u \in Unclaimed(c) : Waiting(u) /\ op[u].kind = "select"  BY UnclaimedWait DEF Unclaimed
<1>. HIDE DEF v, w
<1>5. /\ ws \in [Tasks -> Seq(Waits)]
      /\ \A u \in Tasks : w[u] = <<>> => ws[u] = v[u]
      /\ \A u \in Tasks : v[u] = <<>> => ws[u] = w[u]
  BY <1>1, <1>2, AndThenIs
<1>. HIDE DEF ws
<1>6. ASSUME NEW u \in Tasks
      PROVE  /\ ws[u] # <<>> <=> u \in Range(q) \cup Unclaimed(c)
             /\ ws[u] # <<>> => Len(ws[u]) = 1 /\ Waiting(u)
  <2>1. CASE u \in Range(q)
    <3>1. u \notin Unclaimed(c) /\ Waiting(u)  BY <1>3, <1>4, <2>1
    <3>2. ws[u] = v[u]  BY <1>2, <1>5, <3>1
    <3>3. v[u] # <<>> /\ Len(v[u]) = 1  BY <1>1, <2>1
    <3>. QED  BY <2>1, <3>1, <3>2, <3>3, Zenon
  <2>2. CASE u \notin Range(q)
    <3>1. ws[u] = w[u]  BY <1>1, <1>5, <2>2
    <3>2. CASE u \in Unclaimed(c)
      <4>1. w[u] # <<>> /\ Len(w[u]) = 1 /\ Waiting(u)  BY <1>2, <1>4, <3>2
      <4>. QED  BY <3>1, <3>2, <4>1, Zenon
    <3>3. CASE u \notin Unclaimed(c)
      <4>1. w[u] = <<>>  BY <1>2, <3>3
      <4>. QED  BY <2>2, <3>1, <3>3, <4>1, Zenon
    <3>. QED  BY <3>2, <3>3
  <2>. QED  BY <2>1, <2>2
<1>7. Sound(ws)  BY <1>5, <1>6, Zenon DEF Sound
<1>. QED  BY <1>6, <1>7 DEF ws, v, w

(* The wakes of a drop, the last one or not.                               *)
LEMMA DropIs ==
    ASSUME ClaimInv, NEW c \in Channels, NEW q, q = sendQ[c] \/ q = recvQ[c], NEW last \in BOOLEAN,
           NEW ws, ws = IF last THEN AndThen(ClosedWakes(q), Signals(c)) ELSE NoWakes,
           signaled' = [u \in Tasks |-> signaled[u] \/ (last /\ u \in Range(selQ[c]))]
    PROVE  /\ Sound(ws)
           /\ \A u \in Tasks : ws[u] # <<>> <=> last /\ u \in Range(q) \cup Unclaimed(c)
           /\ signaled' \in [Tasks -> BOOLEAN]
           /\ \A u \in Tasks : signaled'[u] <=> (signaled[u] \/ (ws[u] # <<>> /\ op[u].kind = "select"))
<1>1. Sound(ws) /\ \A u \in Tasks : ws[u] # <<>> <=> last /\ u \in Range(q) \cup Unclaimed(c)
  <2>1. CASE last  BY <2>1, CloseIs
  <2>2. CASE ~last
    <3>1. Sound(NoWakes)  BY NoWakesIs DEF Sound
    <3>. QED  BY <2>2, <3>1, NoWakesIs
  <2>. QED  BY <2>1, <2>2
<1>2. signaled \in [Tasks -> BOOLEAN]  BY DEF ClaimInv, ClaimType
<1>3. \A u \in Range(q) : op[u].kind # "select"  BY QueuedIs
<1>4. \A u \in Range(selQ[c]) : op[u].kind = "select"  BY QueuedIs
<1>5. \A u \in Tasks : u \in Unclaimed(c) <=> u \in Range(selQ[c]) /\ ~signaled[u]  BY DEF Unclaimed
<1>6. ASSUME NEW u \in Tasks
      PROVE  signaled'[u] <=> (signaled[u] \/ (ws[u] # <<>> /\ op[u].kind = "select"))
  BY <1>1, <1>2, <1>3, <1>4, <1>5
<1>. QED  BY <1>1, <1>2, <1>6

LEMMA DropSenderKeeps ==
    ASSUME ClaimInv, NEW t \in Tasks, NEW c \in Channels, DropSender(t, c)
    PROVE  ClaimInv'
<1>. DEFINE last == senders[c] = 1
            ws == IF last THEN AndThen(ClosedWakes(recvQ[c]), Signals(c)) ELSE NoWakes
<1>1. /\ recvQ' = IF last THEN [recvQ EXCEPT ![c] = <<>>] ELSE recvQ
      /\ signaled' = [u \in Tasks |-> signaled[u] \/ (last /\ u \in Range(selQ[c]))]
      /\ WakeTasks(ws, Home[t], stage, wake)
      /\ UNCHANGED <<sendQ, selQ, op, slot, started>>
  BY DEF DropSender
<1>2. last \in BOOLEAN  OBVIOUS
<1>. HIDE DEF last
<1>3. /\ Sound(ws)
      /\ \A u \in Tasks : ws[u] # <<>> <=> last /\ u \in Range(recvQ[c]) \cup Unclaimed(c)
      /\ signaled' \in [Tasks -> BOOLEAN]
      /\ \A u \in Tasks : signaled'[u] <=> (signaled[u] \/ (ws[u] # <<>> /\ op[u].kind = "select"))
  BY <1>1, <1>2, DropIs
<1>. HIDE DEF ws
<1>4. ClaimType  BY DEF ClaimInv
<1>5. \A d \in Channels : recvQ'[d] = IF last /\ d = c THEN <<>> ELSE recvQ[d]
  BY <1>1, <1>4 DEF ClaimType
<1>6. recvQ' \in [Channels -> Seq(Tasks)]
  <2>1. <<>> \in Seq(Tasks)  OBVIOUS
  <2>. QED  BY <1>1, <1>4, <2>1 DEF ClaimType
<1>7. Range(<<>>) = {} /\ Injective(<<>>)  BY DEF Range, Injective
<1>8. sendQ' \in [Channels -> Seq(Tasks)] /\ \A d \in Channels : Injective(sendQ'[d]) /\ Injective(recvQ'[d])
  BY <1>1, <1>4, <1>5, <1>7, QueuedIs DEF ClaimType
<1>9. \A u \in Unclaimed(c) : op[u].kind = "select"  BY QueuedIs DEF Unclaimed
<1>10. \A u \in Tasks, d \in Channels :
          /\ u \in Range(sendQ'[d]) <=> u \in Range(sendQ[d]) /\ ws[u] = <<>>
          /\ u \in Range(recvQ'[d]) <=> u \in Range(recvQ[d]) /\ ws[u] = <<>>
  <2>. TAKE u \in Tasks, d \in Channels
  <2>1. u \in Range(sendQ[d]) => ws[u] = <<>>  BY <1>3, <1>9, QueuedIs
  <2>2. u \in Range(recvQ[d]) /\ d # c => ws[u] = <<>>  BY <1>3, <1>9, QueuedIs
  <2>3. u \in Range(recvQ[c]) => (ws[u] # <<>> <=> last)  BY <1>3
  <2>. QED  BY <1>1, <1>5, <1>7, <2>1, <2>2, <2>3
<1>11. stage \in [Tasks -> Stages]  BY <1>4 DEF ClaimType
<1>12. \A u \in {} : ws[u] = <<>> /\ stage[u] = "ready" /\ stage[u] = "flush"  OBVIOUS
<1>13. \A u \in Tasks \ {} : stage[u] = stage[u]  OBVIOUS
<1>14. op' = op /\ slot' = slot /\ started' = started /\ selQ' = selQ  BY <1>1
<1>15. {} \in SUBSET Tasks  OBVIOUS
<1>16. WakesOnly(ws, Home[t], stage, {})
  BY <1>1, <1>3, <1>6, <1>8, <1>10, <1>11, <1>12, <1>13, <1>14, <1>15, Zenon DEF WakesOnly
<1>. QED  BY <1>16, WakeKeeps

LEMMA DropReceiverKeeps ==
    ASSUME ClaimInv, NEW t \in Tasks, NEW c \in Channels, DropReceiver(t, c)
    PROVE  ClaimInv'
<1>. DEFINE last == receivers[c] = 1
            hold == last /\ buffer[c] # <<>>
            ws == IF last THEN AndThen(ClosedWakes(sendQ[c]), Signals(c)) ELSE NoWakes
            base == IF hold THEN [stage EXCEPT ![t] = "flush"] ELSE stage
            A == IF hold THEN {t} ELSE {}
<1>1. /\ stage[t] = "ready"
      /\ sendQ' = IF last THEN [sendQ EXCEPT ![c] = <<>>] ELSE sendQ
      /\ signaled' = [u \in Tasks |-> signaled[u] \/ (last /\ u \in Range(selQ[c]))]
      /\ WakeTasks(ws, Home[t], base, wake)
      /\ UNCHANGED <<recvQ, selQ, op, slot, started>>
  BY DEF DropReceiver, CanDrop
<1>2. last \in BOOLEAN  OBVIOUS
<1>. HIDE DEF last
<1>3. /\ Sound(ws)
      /\ \A u \in Tasks : ws[u] # <<>> <=> last /\ u \in Range(sendQ[c]) \cup Unclaimed(c)
      /\ signaled' \in [Tasks -> BOOLEAN]
      /\ \A u \in Tasks : signaled'[u] <=> (signaled[u] \/ (ws[u] # <<>> /\ op[u].kind = "select"))
  BY <1>1, <1>2, DropIs
<1>. HIDE DEF ws
<1>4. ClaimType  BY DEF ClaimInv
<1>5. \A d \in Channels : sendQ'[d] = IF last /\ d = c THEN <<>> ELSE sendQ[d]
  BY <1>1, <1>4 DEF ClaimType
<1>6. sendQ' \in [Channels -> Seq(Tasks)]
  <2>1. <<>> \in Seq(Tasks)  OBVIOUS
  <2>. QED  BY <1>1, <1>4, <2>1 DEF ClaimType
<1>7. Range(<<>>) = {} /\ Injective(<<>>)  BY DEF Range, Injective
<1>8. recvQ' \in [Channels -> Seq(Tasks)] /\ \A d \in Channels : Injective(sendQ'[d]) /\ Injective(recvQ'[d])
  BY <1>1, <1>4, <1>5, <1>7, QueuedIs DEF ClaimType
<1>9. \A u \in Unclaimed(c) : op[u].kind = "select"  BY QueuedIs DEF Unclaimed
<1>10. \A u \in Tasks, d \in Channels :
          /\ u \in Range(sendQ'[d]) <=> u \in Range(sendQ[d]) /\ ws[u] = <<>>
          /\ u \in Range(recvQ'[d]) <=> u \in Range(recvQ[d]) /\ ws[u] = <<>>
  <2>. TAKE u \in Tasks, d \in Channels
  <2>1. u \in Range(recvQ[d]) => ws[u] = <<>>  BY <1>3, <1>9, QueuedIs
  <2>2. u \in Range(sendQ[d]) /\ d # c => ws[u] = <<>>  BY <1>3, <1>9, QueuedIs
  <2>3. u \in Range(sendQ[c]) => (ws[u] # <<>> <=> last)  BY <1>3
  <2>. QED  BY <1>1, <1>5, <1>7, <2>1, <2>2, <2>3
<1>11. base \in [Tasks -> Stages] /\ A \in SUBSET Tasks  BY <1>4 DEF ClaimType, Stages
<1>12. ws[t] = <<>>  BY <1>1, <1>3 DEF Sound, Waiting
<1>13. /\ \A u \in A : ws[u] = <<>> /\ stage[u] = "ready" /\ base[u] = "flush"
       /\ \A u \in Tasks \ A : base[u] = stage[u]
  BY <1>1, <1>4, <1>12 DEF ClaimType
<1>14. op' = op /\ slot' = slot /\ started' = started /\ selQ' = selQ  BY <1>1
<1>. HIDE DEF base, A
<1>15. WakesOnly(ws, Home[t], base, A)
  BY <1>1, <1>3, <1>6, <1>8, <1>10, <1>11, <1>13, <1>14, Zenon DEF WakesOnly
<1>. QED  BY <1>15, WakeKeeps

LEMMA WakeExpiredKeeps ==
    ASSUME ClaimInv, NEW e \in Executors, WakeExpired(e)
    PROVE  ClaimInv'
<1>. DEFINE ws == WakeEach(Late(e), Wk("timeout", 0))
<1>1. /\ signaled' = [t \in Tasks |-> signaled[t] \/ t \in Late(e)]
      /\ WakeTasks(ws, e, stage, wake)
      /\ UNCHANGED <<sendQ, recvQ, selQ, op, slot, started>>
  BY DEF WakeExpired, chanVars
<1>2. ClaimType  BY DEF ClaimInv
<1>3. \A u \in Late(e) : u \in Tasks /\ Waiting(u) /\ op[u].kind = "select"
  <2>. TAKE u \in Late(e)
  <2>1. u \in Tasks /\ stage[u] = "parked" /\ op[u].kind = "select" /\ ~signaled[u]  BY DEF Late
  <2>2. TaskOK(u)  BY <2>1, TaskByTask
  <2>. QED  BY <2>1, <2>2 DEF TaskOK, Waiting
<1>4. /\ ws \in [Tasks -> Seq(Waits)]
      /\ \A u \in Tasks : u \notin Late(e) => ws[u] = <<>>
      /\ \A u \in Tasks : u \in Late(e) => ws[u] # <<>> /\ Len(ws[u]) = 1
  <2>1. Wk("timeout", 0) \in Waits  BY WkIs DEF Statuses
  <2>. QED  BY <2>1, WakeEachIs
<1>. HIDE DEF ws
<1>5. Sound(ws)  BY <1>3, <1>4 DEF Sound
<1>6. signaled' \in [Tasks -> BOOLEAN]  BY <1>1, <1>2 DEF ClaimType
<1>7. \A u \in Tasks : signaled'[u] <=> (signaled[u] \/ (ws[u] # <<>> /\ op[u].kind = "select"))
  BY <1>1, <1>3, <1>4
<1>8. /\ sendQ' \in [Channels -> Seq(Tasks)] /\ recvQ' \in [Channels -> Seq(Tasks)]
      /\ stage \in [Tasks -> Stages]
  BY <1>1, <1>2 DEF ClaimType
<1>9. \A d \in Channels : Injective(sendQ'[d]) /\ Injective(recvQ'[d])  BY <1>1, QueuedIs
<1>10. \A u \in Tasks, d \in Channels :
          /\ u \in Range(sendQ'[d]) <=> u \in Range(sendQ[d]) /\ ws[u] = <<>>
          /\ u \in Range(recvQ'[d]) <=> u \in Range(recvQ[d]) /\ ws[u] = <<>>
  BY <1>1, <1>3, <1>4, QueuedIs
<1>11. op' = op /\ slot' = slot /\ started' = started /\ selQ' = selQ  BY <1>1
<1>12. {} \in SUBSET Tasks /\ \A u \in {} : ws[u] = <<>> /\ stage[u] = "ready" /\ stage[u] = "flush"  OBVIOUS
<1>13. \A u \in Tasks \ {} : stage[u] = stage[u]  OBVIOUS
<1>14. WakesOnly(ws, e, stage, {})
  BY <1>1, <1>5, <1>6, <1>7, <1>8, <1>9, <1>10, <1>11, <1>12, <1>13, Zenon DEF WakesOnly
<1>. QED  BY <1>14, WakeKeeps

(* A cancelled task is woken by whoever takes it off its queue or claims   *)
(* its select, and only if it still waits.                                 *)
LEMMA CancelKeeps ==
    ASSUME ClaimInv, NEW t \in Tasks, Cancel(t)
    PROVE  ClaimInv'
<1>. DEFINE c == op[t].cases[1].chan
            removed == /\ stage[t] = "parked" /\ op[t].kind \in {"send", "receive"}
                       /\ t \in Range(sendQ[c]) \cup Range(recvQ[c])
            claimed == Claimable(t)
            ws == WakeEach(IF removed \/ claimed THEN {t} ELSE {}, Wk("cancelled", 0))
<1>1. /\ sendQ' = IF removed /\ t \in Range(sendQ[c]) THEN [sendQ EXCEPT ![c] = Without(@, t)] ELSE sendQ
      /\ recvQ' = IF removed /\ t \in Range(recvQ[c]) THEN [recvQ EXCEPT ![c] = Without(@, t)] ELSE recvQ
      /\ signaled' = [signaled EXCEPT ![t] = @ \/ claimed]
      /\ WakeTasks(ws, Home[t], stage, wake)
      /\ UNCHANGED <<selQ, op, slot, started>>
  BY DEF Cancel
<1>2. ClaimType /\ TaskOK(t)  BY TaskByTask
<1>3. removed => /\ op[t].kind \in {"send", "receive"} /\ c \in Channels
                 /\ t \in Range(sendQ[c]) \cup Range(recvQ[c])
  <2>1. SUFFICES ASSUME removed  PROVE c \in Channels
    OBVIOUS
  <2>2. op[t].cases = <<[kind |-> op[t].kind, chan |-> c]>>  BY <1>2, <2>1 DEF TaskOK, SingleCase
  <2>3. 1 \in DOMAIN op[t].cases  BY <2>2
  <2>. QED  BY <1>2, <2>3, OpTyped
<1>4. claimed => stage[t] = "parked" /\ op[t].kind = "select" /\ ~signaled[t]  BY DEF Claimable
<1>5. removed \/ claimed => Waiting(t)
  <2>1. removed => Waiting(t)  BY <1>3, QueuedIs
  <2>2. claimed => Waiting(t)  BY <1>2, <1>4 DEF TaskOK, Waiting
  <2>. QED  BY <2>1, <2>2
<1>6. /\ ws \in [Tasks -> Seq(Waits)]
      /\ \A u \in Tasks : ws[u] # <<>> => Len(ws[u]) = 1
      /\ \A u \in Tasks : ws[u] # <<>> <=> u = t /\ (removed \/ claimed)
  <2>1. Wk("cancelled", 0) \in Waits  BY WkIs DEF Statuses
  <2>. DEFINE ts == IF removed \/ claimed THEN {t} ELSE {}
  <2>2. \A u \in Tasks : u \in ts <=> u = t /\ (removed \/ claimed)  OBVIOUS
  <2>3. ws = WakeEach(ts, Wk("cancelled", 0))  OBVIOUS
  <2>. HIDE DEF ts, ws, removed, claimed
  <2>4. /\ ws \in [Tasks -> Seq(Waits)]
        /\ \A u \in Tasks : u \notin ts => ws[u] = <<>>
        /\ \A u \in Tasks : u \in ts => ws[u] # <<>> /\ Len(ws[u]) = 1
    BY <2>1, <2>3, WakeEachIs
  <2>. QED  BY <2>2, <2>4, Zenon
<1>7. removed => ~claimed  BY <1>4
<1>8. \A d \in Channels : /\ t \in Range(sendQ[d]) => d = c /\ removed
                          /\ t \in Range(recvQ[d]) => d = c /\ removed
  <2>. TAKE d \in Channels
  <2>1. t \in Range(sendQ[d]) => Waiting(t) /\ op[t].kind = "send" /\ d = c  BY <1>2 DEF TaskOK
  <2>2. t \in Range(recvQ[d]) => Waiting(t) /\ op[t].kind = "receive" /\ d = c  BY <1>2 DEF TaskOK
  <2>. QED  BY <2>1, <2>2 DEF Waiting
<1>9. c \in Channels => /\ sendQ[c] \in Seq(Tasks) /\ recvQ[c] \in Seq(Tasks) /\ Injective(sendQ[c]) /\ Injective(recvQ[c])
                        /\ t \in Range(sendQ[c]) => /\ Without(sendQ[c], t) \in Seq(Tasks) /\ Injective(Without(sendQ[c], t))
                                                    /\ Range(Without(sendQ[c], t)) = Range(sendQ[c]) \ {t}
                        /\ t \in Range(recvQ[c]) => /\ Without(recvQ[c], t) \in Seq(Tasks) /\ Injective(Without(recvQ[c], t))
                                                    /\ Range(Without(recvQ[c], t)) = Range(recvQ[c]) \ {t}
  BY QueuedIs, WithoutOf
<1>. HIDE DEF ws, removed, claimed, c
<1>10. Sound(ws)  BY <1>5, <1>6 DEF Sound
<1>11. /\ sendQ' \in [Channels -> Seq(Tasks)]
       /\ \A d \in Channels : sendQ'[d] = IF d = c /\ removed /\ t \in Range(sendQ[c]) THEN Without(sendQ[c], t) ELSE sendQ[d]
  <2>1. sendQ \in [Channels -> Seq(Tasks)]  BY <1>2 DEF ClaimType
  <2>2. CASE removed /\ t \in Range(sendQ[c])
    <3>1. c \in Channels /\ Without(sendQ[c], t) \in Seq(Tasks)  BY <1>3, <1>9, <2>2
    <3>2. sendQ' = [sendQ EXCEPT ![c] = Without(sendQ[c], t)]  BY <1>1, <2>2
    <3>. QED  BY <2>1, <2>2, <3>1, <3>2
  <2>3. CASE ~(removed /\ t \in Range(sendQ[c]))
    <3>1. sendQ' = sendQ  BY <1>1, <2>3
    <3>. QED  BY <2>1, <2>3, <3>1
  <2>. QED  BY <2>2, <2>3
<1>12. /\ recvQ' \in [Channels -> Seq(Tasks)]
       /\ \A d \in Channels : recvQ'[d] = IF d = c /\ removed /\ t \in Range(recvQ[c]) THEN Without(recvQ[c], t) ELSE recvQ[d]
  <2>1. recvQ \in [Channels -> Seq(Tasks)]  BY <1>2 DEF ClaimType
  <2>2. CASE removed /\ t \in Range(recvQ[c])
    <3>1. c \in Channels /\ Without(recvQ[c], t) \in Seq(Tasks)  BY <1>3, <1>9, <2>2
    <3>2. recvQ' = [recvQ EXCEPT ![c] = Without(recvQ[c], t)]  BY <1>1, <2>2
    <3>. QED  BY <2>1, <2>2, <3>1, <3>2
  <2>3. CASE ~(removed /\ t \in Range(recvQ[c]))
    <3>1. recvQ' = recvQ  BY <1>1, <2>3
    <3>. QED  BY <2>1, <2>3, <3>1
  <2>. QED  BY <2>2, <2>3
<1>13. \A d \in Channels : Injective(sendQ'[d]) /\ Injective(recvQ'[d])
  <2>. TAKE d \in Channels
  <2>1. Injective(sendQ[d]) /\ Injective(recvQ[d])  BY QueuedIs
  <2>2. Injective(sendQ'[d])  BY <1>9, <1>11, <2>1
  <2>3. Injective(recvQ'[d])  BY <1>9, <1>12, <2>1
  <2>. QED  BY <2>2, <2>3
<1>14. \A u \in Tasks, d \in Channels :
          /\ u \in Range(sendQ'[d]) <=> u \in Range(sendQ[d]) /\ ws[u] = <<>>
          /\ u \in Range(recvQ'[d]) <=> u \in Range(recvQ[d]) /\ ws[u] = <<>>
  <2>. TAKE u \in Tasks, d \in Channels
  <2>1. u \in Range(sendQ'[d]) <=> u \in Range(sendQ[d]) /\ ~(u = t /\ removed)
    BY <1>8, <1>9, <1>11
  <2>2. u \in Range(recvQ'[d]) <=> u \in Range(recvQ[d]) /\ ~(u = t /\ removed)
    BY <1>8, <1>9, <1>12
  <2>3. t \in Range(sendQ[d]) \/ t \in Range(recvQ[d]) => ~claimed  BY <1>7, <1>8
  <2>. QED  BY <1>6, <2>1, <2>2, <2>3
<1>15. /\ signaled' \in [Tasks -> BOOLEAN]
       /\ \A u \in Tasks : signaled'[u] <=> (signaled[u] \/ (ws[u] # <<>> /\ op[u].kind = "select"))
  <2>1. removed => op[t].kind # "select"  BY <1>3
  <2>2. claimed \in BOOLEAN  BY DEF claimed, Claimable
  <2>3. signaled \in [Tasks -> BOOLEAN]  BY <1>2 DEF ClaimType
  <2>. QED  BY <1>1, <1>4, <1>6, <2>1, <2>2, <2>3
<1>16. op' = op /\ slot' = slot /\ started' = started /\ selQ' = selQ /\ stage \in [Tasks -> Stages]
  BY <1>1, <1>2 DEF ClaimType
<1>17. {} \in SUBSET Tasks /\ \A u \in {} : ws[u] = <<>> /\ stage[u] = "ready" /\ stage[u] = "flush"  OBVIOUS
<1>18. \A u \in Tasks \ {} : stage[u] = stage[u]  OBVIOUS
<1>19. WakesOnly(ws, Home[t], stage, {})
  BY <1>1, <1>10, <1>11, <1>12, <1>13, <1>14, <1>15, <1>16, <1>17, <1>18, Zenon DEF WakesOnly
<1>. QED  BY <1>19, WakeKeeps

(* A task without an operation goes on to another stage without one.       *)
LEMMA MoveKeeps ==
    ASSUME ClaimInv, NEW t \in Tasks, stage[t] \in {"ready", "flush"}, NEW s \in {"ready", "done"},
           stage' = [stage EXCEPT ![t] = s],
           UNCHANGED <<sendQ, recvQ, selQ, op, signaled, wake, mailbox, slot, started, fault>>
    PROVE  ClaimInv'
<1>1. ClaimType /\ TaskOK(t)  BY TaskByTask
<1>2. ClaimType'  BY <1>1 DEF ClaimType, Stages
<1>3. QueuedOnce' /\ NoDoubleWake'  BY DEF ClaimInv, QueuedOnce, NoDoubleWake
<1>4. ASSUME NEW u \in Tasks \ {t}  PROVE TaskOK(u)'
  <2>1. stage'[u] = stage[u]  BY <1>1 DEF ClaimType
  <2>. QED  BY <2>1, Untouched
<1>5. TaskOK(t)'
  <2>1. stage'[t] = s  BY <1>1 DEF ClaimType
  <2>2. ~Waiting(t) /\ ~Waiting(t)'  BY <2>1 DEF Waiting
  <2>3. op[t].kind = "none" /\ mailbox[t] = <<>>  BY <1>1 DEF TaskOK
  <2>4. slot[t] = NoMsg  BY <1>1, <2>3 DEF TaskOK
  <2>5. \A d \in Channels : t \notin Range(sendQ[d]) /\ t \notin Range(recvQ[d]) /\ t \notin Range(selQ[d])
    BY <1>1, <2>2, <2>3 DEF TaskOK
  <2>. QED  BY <2>1, <2>2, <2>3, <2>4, <2>5 DEF TaskOK
<1>6. \A u \in Tasks : TaskOK(u)'  BY <1>4, <1>5
<1>. QED  BY <1>2, <1>3, <1>6, TaskByTaskNext

LEMMA InitClaims == Init => ClaimInv
<1>. SUFFICES ASSUME Init  PROVE ClaimInv
  OBVIOUS
<1>1. <<>> \in Seq(Tasks) /\ Range(<<>>) = {} /\ Injective(<<>>)  BY DEF Range, Injective
<1>2. ClaimType
  <2>1. NoWakes \in [Tasks -> Seq(Waits)]  BY NoWakesIs
  <2>2. 0 \in 0 .. MaxOps  BY ConstantsAssumption
  <2>. QED  BY <1>1, <2>1, <2>2, Nothing DEF Init, ClaimType, Stages
<1>3. QueuedOnce /\ NoDoubleWake  BY <1>1 DEF Init, QueuedOnce, NoDoubleWake
<1>4. ASSUME NEW t \in Tasks  PROVE TaskOK(t)
  <2>1. stage[t] = "ready" /\ op[t] = NoOp /\ mailbox[t] = <<>> /\ slot[t] = NoMsg  BY NoWakesIs DEF Init
  <2>2. \A d \in Channels : t \notin Range(sendQ[d]) /\ t \notin Range(recvQ[d]) /\ t \notin Range(selQ[d])
    BY <1>1 DEF Init
  <2>3. ~Waiting(t)  BY <2>1 DEF Waiting
  <2>. QED  BY <2>1, <2>2, <2>3, Nothing DEF TaskOK
<1>. QED  BY <1>2, <1>3, <1>4, TaskByTask

LEMMA NextClaims == ClaimInv /\ [Next]_vars => ClaimInv'
<1>. SUFFICES ASSUME ClaimInv, [Next]_vars  PROVE ClaimInv'
  OBVIOUS
<1>0. ClaimType /\ started \in [Tasks -> 0 .. MaxOps]  BY DEF ClaimInv, ClaimType
<1>1. ASSUME NEW t \in Tasks, Start(t)  PROVE ClaimInv'
  <2>1. ASSUME NEW c \in Channels, Send(t, c) \/ Receive(t, c)  PROVE ClaimInv'
    BY <2>1, SendKeeps, ReceiveKeeps
  <2>2. ASSUME NEW s \in Selects, NEW timed \in BOOLEAN, NEW late \in BOOLEAN, Select(t, s, timed, late)
        PROVE  ClaimInv'
    BY <2>2, SelectKeeps
  <2>3. ASSUME NEW c \in Channels, NEW u \in Tasks, CloneSender(t, c, u) \/ CloneReceiver(t, c, u)
        PROVE  ClaimInv'
    <3>1. started[t] < MaxOps /\ Count(t)
          /\ UNCHANGED <<sendQ, recvQ, selQ, op, signaled, wake, mailbox, slot, stage, fault>>
      BY <2>3 DEF CloneSender, CloneReceiver, CanStart
    <3>. QED  BY <1>0, <3>1, CountTyped, SameKeeps
  <2>. QED  BY <1>1, <2>1, <2>2, <2>3 DEF Start
<1>2. ASSUME NEW t \in Tasks, Continue(t)  PROVE ClaimInv'
  <2>1. CASE FlushDone(t)
    <3>1. /\ stage[t] = "flush" /\ stage' = [stage EXCEPT ![t] = "ready"]
          /\ UNCHANGED <<sendQ, recvQ, selQ, op, signaled, wake, mailbox, slot, started, fault>>
      BY <2>1 DEF FlushDone
    <3>. QED  BY <3>1, MoveKeeps
  <2>. QED  BY <1>2, <2>1, TakeWakeKeeps, UnregisterKeeps, RepollKeeps DEF Continue
<1>3. ASSUME NEW t \in Tasks, Leave(t)  PROVE ClaimInv'
  <2>1. ASSUME Return(t)  PROVE ClaimInv'
    <3>1. /\ stage[t] = "ready" /\ stage' = [stage EXCEPT ![t] = "done"]
          /\ UNCHANGED <<sendQ, recvQ, selQ, op, signaled, wake, mailbox, slot, started, fault>>
      BY <2>1 DEF Return, CanDrop, chanVars
    <3>. QED  BY <3>1, MoveKeeps
  <2>. QED  BY <1>3, <2>1, DropSenderKeeps, DropReceiverKeeps DEF Leave
<1>4. ASSUME NEW t \in Tasks, Expire(t)  PROVE ClaimInv'
  <2>1. UNCHANGED <<sendQ, recvQ, selQ, op, signaled, wake, mailbox, slot, stage, fault, started>>
    BY <1>4 DEF Expire, chanVars
  <2>. QED  BY <1>0, <2>1, SameKeeps
<1>5. ASSUME NEW t \in Tasks, Cancel(t)  PROVE ClaimInv'  BY <1>5, CancelKeeps
<1>6. ASSUME NEW e \in Executors, Idle(e)  PROVE ClaimInv'  BY <1>6, DrainKeeps, WakeExpiredKeeps DEF Idle
<1>7. CASE UNCHANGED vars
  <2>1. UNCHANGED <<sendQ, recvQ, selQ, op, signaled, wake, mailbox, slot, stage, fault, started>>
    BY <1>7 DEF vars, chanVars, taskVars
  <2>. QED  BY <1>0, <2>1, SameKeeps
<1>. QED  BY <1>1, <1>2, <1>3, <1>4, <1>5, <1>6, <1>7 DEF Next

(* Claims are made once: the queues, the select claims and the wakes under *)
(* way stay consistent in every reachable state.                           *)
THEOREM ClaimInvariant == Spec => []ClaimInv
<1>. QED  BY InitClaims, NextClaims, PTL DEF Spec

(* A parked task is woken exactly once, whoever gets to it first: the      *)
(* panic "invalid task wake" of fdn_task_wake_local is unreachable.        *)
THEOREM TasksAreWokenOnce == Spec => []NoDoubleWake
<1>1. ClaimInv => NoDoubleWake  BY DEF ClaimInv
<1>. QED  BY <1>1, ClaimInvariant, PTL

(* A message copied into a parked receiver's frame is always announced to  *)
(* it with "ready", never with a close, a cancellation or a timeout.       *)
THEOREM DeliveriesAreAnnounced == Spec => []DeliveredIsAnnounced
<1>1. ClaimInv => DeliveredIsAnnounced  BY DEF ClaimInv
<1>. QED  BY <1>1, ClaimInvariant, PTL

(***************************************************************************)
(* Handles and the life of a channel.                                      *)
(***************************************************************************)

LEMMA CountsOf ==
    ASSUME NEW n, NEW S, Counts(n, S)
    PROVE  /\ n \in Nat /\ (n = 0 <=> S = {})
           /\ \A x : x \notin S => Counts(n + 1, S \cup {x})
           /\ \A x \in S : n - 1 \in Nat /\ Counts(n - 1, S \ {x})
<1>1. IsFiniteSet(S) /\ n = Cardinality(S)  BY DEF Counts
<1>2. n \in Nat  BY <1>1, FS_CardinalityType
<1>3. n = 0 <=> S = {}  BY <1>1, FS_EmptySet
<1>4. ASSUME NEW x, x \notin S  PROVE Counts(n + 1, S \cup {x})
  BY <1>1, <1>4, FS_AddElement DEF Counts
<1>5. ASSUME NEW x \in S  PROVE n - 1 \in Nat /\ Counts(n - 1, S \ {x})
  <2>1. n # 0  BY <1>3
  <2>2. IsFiniteSet(S \ {x}) /\ Cardinality(S \ {x}) = n - 1  BY <1>1, FS_RemoveElement
  <2>. QED  BY <1>2, <2>1, <2>2 DEF Counts
<1>. QED  BY <1>2, <1>3, <1>4, <1>5

(* What one handle more, or one less, in the frame of u does to the        *)
(* handles of each channel.                                                *)
LEMMA HandlesOf ==
    ASSUME NEW ends \in [Tasks -> [Channels -> Nat]], NEW c \in Channels
    PROVE  /\ \A u \in Tasks : ends[u][c] > 0 => <<u, ends[u][c]>> \in Handles(ends, c)
           /\ Handles(ends, c) = {} <=> \A u \in Tasks : ends[u][c] = 0
<1>1. \A u \in Tasks : ends[u][c] \in Nat  OBVIOUS
<1>2. \A u \in Tasks, k \in Nat : <<u, k>> \in Handles(ends, c) <=> k \in 1 .. ends[u][c]
  BY DEF Handles
<1>3. \A h \in Handles(ends, c) : h[1] \in Tasks /\ h[2] \in 1 .. ends[h[1]][c]  BY DEF Handles
<1>4. \A u \in Tasks : ends[u][c] > 0 => <<u, ends[u][c]>> \in Handles(ends, c)  BY <1>1, <1>2
<1>5. ASSUME Handles(ends, c) = {}, NEW u \in Tasks  PROVE ends[u][c] = 0
  <2>1. ~(ends[u][c] > 0)  BY <1>4, <1>5, Zenon
  <2>2. ends[u][c] \in Nat  BY <1>1
  <2>. QED  BY <2>1, <2>2
<1>6. ASSUME \A u \in Tasks : ends[u][c] = 0  PROVE Handles(ends, c) = {}
  <2>1. ASSUME NEW h \in Handles(ends, c)  PROVE FALSE
    <3>1. h[1] \in Tasks /\ h[2] \in 1 .. ends[h[1]][c]  BY <1>3
    <3>2. ends[h[1]][c] = 0  BY <1>6, <3>1
    <3>. QED  BY <3>1, <3>2
  <2>. QED  BY <2>1
<1>. QED  BY <1>4, <1>5, <1>6

LEMMA HandlesMore ==
    ASSUME NEW ends \in [Tasks -> [Channels -> Nat]], NEW u \in Tasks, NEW c \in Channels
    PROVE  LET more == Bump(ends, u, c, 1)
               h == <<u, ends[u][c] + 1>>
           IN  /\ more \in [Tasks -> [Channels -> Nat]]
               /\ h \notin Handles(ends, c) /\ Handles(more, c) = Handles(ends, c) \cup {h}
               /\ \A d \in Channels : d # c => Handles(more, d) = Handles(ends, d)
               /\ \A v \in Tasks, d \in Channels : more[v][d] >= ends[v][d]
<1>. DEFINE more == Bump(ends, u, c, 1)
            h == <<u, ends[u][c] + 1>>
<1>1. more \in [Tasks -> [Channels -> Nat]]  BY DEF Bump
<1>2. \A v \in Tasks, d \in Channels : more[v][d] = IF v = u /\ d = c THEN ends[v][d] + 1 ELSE ends[v][d]
  BY DEF Bump
<1>3. \A v \in Tasks, d \in Channels : more[v][d] \in Nat /\ ends[v][d] \in Nat  BY <1>1
<1>. HIDE DEF more
<1>4. \A d \in Channels : d # c => Handles(more, d) = Handles(ends, d)  BY <1>2 DEF Handles
<1>5. h \in Tasks \X Nat /\ h[1] = u /\ h[2] = ends[u][c] + 1  BY <1>3
<1>6. h \notin Handles(ends, c)  BY <1>3, <1>5 DEF Handles
<1>7. ASSUME NEW g \in Tasks \X Nat
      PROVE  g \in Handles(more, c) <=> g \in Handles(ends, c) \/ g = h
  <2>1. PICK v \in Tasks, k \in Nat : g = <<v, k>>  OBVIOUS
  <2>2. g \in Handles(more, c) <=> k \in 1 .. more[v][c]  BY <2>1 DEF Handles
  <2>3. g \in Handles(ends, c) <=> k \in 1 .. ends[v][c]  BY <2>1 DEF Handles
  <2>4. g = h <=> v = u /\ k = ends[u][c] + 1  BY <2>1
  <2>5. ends[v][c] \in Nat /\ ends[u][c] \in Nat /\ more[v][c] = IF v = u THEN ends[v][c] + 1 ELSE ends[v][c]
    BY <1>2, <1>3
  <2>. HIDE DEF h
  <2>6. k \in 1 .. more[v][c] <=> k \in 1 .. ends[v][c] \/ (v = u /\ k = ends[u][c] + 1)
    <3>1. CASE v = u
      <4>1. more[v][c] = ends[u][c] + 1 /\ ends[v][c] = ends[u][c]  BY <2>5, <3>1
      <4>. QED  BY <2>5, <3>1, <4>1
    <3>2. CASE v # u
      <4>1. more[v][c] = ends[v][c]  BY <2>5, <3>2
      <4>. QED  BY <3>2, <4>1
    <3>. QED  BY <3>1, <3>2
  <2>. QED  BY <2>2, <2>3, <2>4, <2>6
<1>8. Handles(more, c) \subseteq Tasks \X Nat /\ Handles(ends, c) \subseteq Tasks \X Nat  BY DEF Handles
<1>. HIDE DEF h
<1>9. Handles(more, c) = Handles(ends, c) \cup {h}  BY <1>5, <1>7, <1>8
<1>10. \A v \in Tasks, d \in Channels : more[v][d] >= ends[v][d]  BY <1>2, <1>3
<1>. QED  BY <1>1, <1>4, <1>6, <1>9, <1>10 DEF more, h

LEMMA HandlesLess ==
    ASSUME NEW ends \in [Tasks -> [Channels -> Nat]], NEW u \in Tasks, NEW c \in Channels, ends[u][c] > 0
    PROVE  LET less == Bump(ends, u, c, -1)
               h == <<u, ends[u][c]>>
           IN  /\ less \in [Tasks -> [Channels -> Nat]]
               /\ h \in Handles(ends, c) /\ Handles(less, c) = Handles(ends, c) \ {h}
               /\ \A d \in Channels : d # c => Handles(less, d) = Handles(ends, d)
               /\ \A v \in Tasks, d \in Channels : v # u => less[v][d] = ends[v][d]
<1>. DEFINE less == Bump(ends, u, c, -1)
            h == <<u, ends[u][c]>>
<1>2. \A v \in Tasks, d \in Channels : less[v][d] = IF v = u /\ d = c THEN ends[v][d] - 1 ELSE ends[v][d]
  BY DEF Bump
<1>3. \A v \in Tasks, d \in Channels : ends[v][d] \in Nat  OBVIOUS
<1>0. ends[u][c] - 1 \in Nat  BY <1>3
<1>1. less \in [Tasks -> [Channels -> Nat]]  BY <1>0 DEF Bump
<1>. HIDE DEF less
<1>4. \A d \in Channels : d # c => Handles(less, d) = Handles(ends, d)  BY <1>2 DEF Handles
<1>5. h \in Tasks \X Nat /\ h[1] = u /\ h[2] = ends[u][c]  BY <1>3
<1>6. h \in Handles(ends, c)  BY HandlesOf
<1>7. ASSUME NEW g \in Tasks \X Nat
      PROVE  g \in Handles(less, c) <=> g \in Handles(ends, c) /\ g # h
  <2>1. PICK v \in Tasks, k \in Nat : g = <<v, k>>  OBVIOUS
  <2>2. g \in Handles(less, c) <=> k \in 1 .. less[v][c]  BY <2>1 DEF Handles
  <2>3. g \in Handles(ends, c) <=> k \in 1 .. ends[v][c]  BY <2>1 DEF Handles
  <2>4. g = h <=> v = u /\ k = ends[u][c]  BY <2>1
  <2>5. ends[v][c] \in Nat /\ ends[u][c] \in Nat /\ less[v][c] = IF v = u THEN ends[v][c] - 1 ELSE ends[v][c]
    BY <1>2, <1>3
  <2>. HIDE DEF h
  <2>6. k \in 1 .. less[v][c] <=> k \in 1 .. ends[v][c] /\ ~(v = u /\ k = ends[u][c])
    <3>1. CASE v = u
      <4>1. less[v][c] = ends[u][c] - 1 /\ ends[v][c] = ends[u][c]  BY <2>5, <3>1
      <4>. QED  BY <2>5, <3>1, <4>1
    <3>2. CASE v # u
      <4>1. less[v][c] = ends[v][c]  BY <2>5, <3>2
      <4>. QED  BY <3>2, <4>1
    <3>. QED  BY <3>1, <3>2
  <2>. QED  BY <2>2, <2>3, <2>4, <2>6
<1>8. Handles(less, c) \subseteq Tasks \X Nat /\ Handles(ends, c) \subseteq Tasks \X Nat  BY DEF Handles
<1>. HIDE DEF h
<1>9. Handles(less, c) = Handles(ends, c) \ {h}  BY <1>5, <1>7, <1>8
<1>10. \A v \in Tasks, d \in Channels : v # u => less[v][d] = ends[v][d]  BY <1>2
<1>. QED  BY <1>1, <1>4, <1>6, <1>9, <1>10 DEF less, h

(* A step that gives no handle away and takes none: it buffers only for a  *)
(* reader, a flush goes on, and a task that suspends owns what it waits on.*)
KeepsHandles ==
    /\ UNCHANGED <<senders, receivers, holds, live, sendEnds, recvEnds, flushing>>
    /\ DOMAIN buffer' = Channels /\ \A c \in Channels : buffer'[c] # <<>> => receivers[c] # 0
    /\ \A t \in Tasks : stage[t] = "flush" => stage'[t] = "flush"
    /\ \A t \in Tasks : \/ op'[t] = op[t] \/ op'[t] = NoOp
                        \/ op'[t].kind # "none" /\ OwnsCases(t, op'[t].cases)

LEMMA HandlesKept ==
    ASSUME HandleInv, KeepsHandles
    PROVE  HandleInv'
<1>1. /\ UNCHANGED <<senders, receivers, holds, live, sendEnds, recvEnds, flushing>>
      /\ DOMAIN buffer' = Channels /\ \A c \in Channels : buffer'[c] # <<>> => receivers[c] # 0
      /\ \A t \in Tasks : stage[t] = "flush" => stage'[t] = "flush"
      /\ \A t \in Tasks : \/ op'[t] = op[t] \/ op'[t] = NoOp
                          \/ op'[t].kind # "none" /\ OwnsCases(t, op'[t].cases)
  BY DEF KeepsHandles
<1>2. HandleType'  BY <1>1 DEF HandleInv, HandleType
<1>3. HandlesAreCounted'  BY <1>1 DEF HandleInv, HandlesAreCounted, Handles, Flushers
<1>4. FlushersFlush'  BY <1>1 DEF HandleInv, FlushersFlush
<1>5. LiveWhileUsed'  BY <1>1 DEF HandleInv, LiveWhileUsed
<1>6. BufferHasReader'  BY <1>1 DEF BufferHasReader
<1>7. OpsKeepHandles'
  <2>1. \A t \in Tasks : OwnsCases(t, op[t].cases) /\ (op[t].kind = "none" => op[t].cases = <<>>)
    BY DEF HandleInv, OpsKeepHandles
  <2>2. \A t \in Tasks : OwnsCases(t, NoOp.cases) /\ NoOp.cases = <<>>
    BY DEF NoOp, OwnsCases
  <2>3. \A t \in Tasks : OwnsCases(t, op'[t].cases) /\ (op'[t].kind = "none" => op'[t].cases = <<>>)
    BY <1>1, <2>1, <2>2
  <2>4. \A t \in Tasks : OwnsCases(t, op[t].cases)'
    BY <1>1, <2>3 DEF OwnsCases, Owns
  <2>. QED  BY <2>3, <2>4 DEF OpsKeepHandles
<1>. QED  BY <1>2, <1>3, <1>4, <1>5, <1>6, <1>7 DEF HandleInv

(* Only a parked task is woken, or the runtime would have panicked.        *)
LEMMA OnlyParked ==
    ASSUME NEW ws, NEW base, NEW baseWake, Enqueue(ws, base, baseWake), NoDoubleWake', NEW u \in Tasks,
           stage[u] # "parked"
    PROVE  stage'[u] = base[u]
<1>1. /\ stage' = [t \in Tasks |-> IF ws[t] # <<>> THEN "woken" ELSE base[t]]
      /\ fault' = IF \E t \in Tasks : ws[t] # <<>> /\ (stage[t] # "parked" \/ Len(ws[t]) > 1)
                  THEN "invalid task wake" ELSE fault
  BY DEF Enqueue
<1>2. ws[u] = <<>>  BY <1>1 DEF NoDoubleWake
<1>. QED  BY <1>1, <1>2

LEMMA WokenParked ==
    ASSUME NEW ws, NEW e, NEW base, NEW baseWake, WakeTasks(ws, e, base, baseWake), NoDoubleWake',
           NEW u \in Tasks, stage[u] # "parked"
    PROVE  stage'[u] = base[u]
<1>. DEFINE mine == [t \in Tasks |-> IF Home[t] = e THEN ws[t] ELSE <<>>]
<1>1. Enqueue(mine, base, baseWake)  BY DEF WakeTasks
<1>. HIDE DEF mine
<1>. QED  BY <1>1, OnlyParked

(* An attempt buffers only what a receiver can still read.                 *)
LEMMA AttemptBuffers ==
    ASSUME BufferHasReader, NEW c \in Channels
    PROVE  /\ \A m : TrySend(c, m).buffer # <<>> => receivers[c] # 0
           /\ TryReceive(c).buffer # <<>> => receivers[c] # 0
<1>1. buffer[c] # <<>> => receivers[c] # 0  BY DEF BufferHasReader
<1>2. ASSUME NEW m, receivers[c] = 0  PROVE TrySend(c, m).buffer = <<>>  BY <1>1, <1>2, SendClosed
<1>3. ASSUME receivers[c] = 0  PROVE TryReceive(c).buffer = <<>>
  <2>1. buffer[c] = <<>>  BY <1>1, <1>3
  <2>2. CASE sendQ[c] # <<>>  BY <2>1, <2>2, ReceiveFromSender
  <2>3. CASE sendQ[c] = <<>> /\ Matching(c, "send") # {}  BY <2>1, <2>3, ReceiveFromSelect
  <2>4. CASE sendQ[c] = <<>> /\ Matching(c, "send") = {} /\ senders[c] = 0  BY <2>1, <2>4, ReceiveClosed
  <2>5. CASE sendQ[c] = <<>> /\ Matching(c, "send") = {} /\ senders[c] # 0
    <3>1. TryReceive(c) = Attempt(c)  BY <2>1, <2>5, ReceivePending
    <3>. QED  BY <2>1, <3>1, FieldsOf
  <2>. QED  BY <2>2, <2>3, <2>4, <2>5
<1>. QED  BY <1>2, <1>3

(* Committing an attempt, answered or parked.                              *)
Commits(t, c, r, base, baseWake) ==
    /\ stage[t] \in {"ready", "repoll"} /\ Commit(t, c, r, base, baseWake)
    /\ \A u \in Tasks \ {t} : base[u] = stage[u]
    /\ r.buffer # <<>> => receivers[c] # 0

LEMMA CommitHandles ==
    ASSUME HandleInv, NoDoubleWake', NEW t \in Tasks, NEW c \in Channels, NEW r, NEW base, NEW baseWake,
           Commits(t, c, r, base, baseWake)
    PROVE  /\ DOMAIN buffer' = Channels /\ \A d \in Channels : buffer'[d] # <<>> => receivers[d] # 0
           /\ \A u \in Tasks : stage[u] = "flush" => stage'[u] = "flush"
<1>1. buffer' = [buffer EXCEPT ![c] = r.buffer] /\ WakeTasks(r.wakes, Home[t], base, baseWake)
  BY DEF Commits, Commit
<1>2. DOMAIN buffer = Channels /\ \A d \in Channels : buffer[d] # <<>> => receivers[d] # 0
  BY DEF HandleInv, HandleType, BufferHasReader
<1>3. \A d \in Channels : buffer'[d] = IF d = c THEN r.buffer ELSE buffer[d]  BY <1>1, <1>2
<1>4. DOMAIN buffer' = Channels  BY <1>1, <1>2
<1>5. ASSUME NEW u \in Tasks, stage[u] = "flush"  PROVE stage'[u] = "flush"
  <2>1. stage[u] # "parked" /\ u # t /\ base[u] = "flush"  BY <1>5 DEF Commits
  <2>. QED  BY <1>1, <2>1, WokenParked
<1>6. r.buffer # <<>> => receivers[c] # 0  BY DEF Commits
<1>. QED  BY <1>2, <1>3, <1>4, <1>5, <1>6

LEMMA SendHandles ==
    ASSUME ClaimInv, ClaimInv', HandleInv, NEW t \in Tasks, NEW c \in Channels, Send(t, c)
    PROVE  HandleInv'
<1>. DEFINE m == <<t, started[t] + 1, 1>>
            o == [kind |-> "send", cases |-> <<[kind |-> "send", chan |-> c]>>, msgs |-> <<m>>, timed |-> FALSE]
            r == TrySend(c, m)
            s == [r EXCEPT !.sendQ = Append(@, t), !.wakes = Signals(c), !.claimed = Unclaimed(c), !.arrived = <<m>>]
<1>1. NoDoubleWake' /\ stage[t] = "ready" /\ Owns(sendEnds, t, c)  BY DEF ClaimInv, Send, CanStart
<1>2. UNCHANGED <<senders, receivers, holds, live, sendEnds, recvEnds, flushing>>
  BY DEF Send, chanVars
<1>3. \/ UNCHANGED <<buffer, stage, op>>
      \/ Commit(t, c, r, stage, wake) /\ op' = op
      \/ /\ r.status = "pending" /\ op' = [op EXCEPT ![t] = o]
         /\ Commit(t, c, s, [stage EXCEPT ![t] = "parked"], wake)
  BY DEF Send, chanVars
<1>4. r.buffer # <<>> => receivers[c] # 0  BY AttemptBuffers DEF HandleInv
<1>5. r.status = "pending" /\ s.buffer # <<>> => receivers[c] # 0
  <2>1. r.status = "pending" => r = Attempt(c)  BY SendIsPending
  <2>2. r = Attempt(c) => s.buffer = buffer[c]  BY DEF Attempt
  <2>. HIDE DEF r, s
  <2>. QED  BY <2>1, <2>2 DEF HandleInv, BufferHasReader
<1>6. o.kind # "none" /\ OwnsCases(t, o.cases)  BY <1>1 DEF OwnsCases, Owns
<1>. HIDE DEF m, o, r, s
<1>7. op \in [Tasks -> Operations] /\ stage \in [Tasks -> Stages]  BY DEF ClaimInv, ClaimType
<1>8. /\ DOMAIN buffer' = Channels /\ \A d \in Channels : buffer'[d] # <<>> => receivers[d] # 0
      /\ \A u \in Tasks : stage[u] = "flush" => stage'[u] = "flush"
  <2>1. CASE UNCHANGED <<buffer, stage, op>>  BY <2>1 DEF HandleInv, HandleType, BufferHasReader
  <2>2. CASE Commit(t, c, r, stage, wake)
    <3>1. Commits(t, c, r, stage, wake)  BY <1>1, <1>4, <2>2 DEF Commits
    <3>. QED  BY <1>1, <3>1, CommitHandles
  <2>3. CASE r.status = "pending" /\ Commit(t, c, s, [stage EXCEPT ![t] = "parked"], wake)
    <3>. DEFINE base == [stage EXCEPT ![t] = "parked"]
    <3>1. Commit(t, c, s, base, wake) /\ \A u \in Tasks \ {t} : base[u] = stage[u]  BY <1>7, <2>3
    <3>. HIDE DEF base
    <3>2. Commits(t, c, s, base, wake)  BY <1>1, <1>5, <2>3, <3>1 DEF Commits
    <3>. QED  BY <1>1, <3>2, CommitHandles
  <2>. QED  BY <1>3, <2>1, <2>2, <2>3
<1>9. \A u \in Tasks : op'[u] = op[u] \/ (op'[u].kind # "none" /\ OwnsCases(u, op'[u].cases))
  BY <1>3, <1>6, <1>7
<1>10. KeepsHandles  BY <1>2, <1>8, <1>9 DEF KeepsHandles
<1>. QED  BY <1>10, HandlesKept

LEMMA ReceiveHandles ==
    ASSUME ClaimInv, ClaimInv', HandleInv, NEW t \in Tasks, NEW c \in Channels, Receive(t, c)
    PROVE  HandleInv'
<1>. DEFINE o == [kind |-> "receive", msgs |-> <<NoMsg>>, timed |-> FALSE,
                  cases |-> <<[kind |-> "receive", chan |-> c]>>]
            r == TryReceive(c)
            s == [r EXCEPT !.recvQ = Append(@, t), !.wakes = Signals(c), !.claimed = Unclaimed(c)]
<1>1. NoDoubleWake' /\ stage[t] = "ready" /\ Owns(recvEnds, t, c)  BY DEF ClaimInv, Receive, CanStart
<1>2. UNCHANGED <<senders, receivers, holds, live, sendEnds, recvEnds, flushing>>
  BY DEF Receive, chanVars
<1>3. \/ UNCHANGED <<buffer, stage, op>>
      \/ Commit(t, c, r, stage, wake) /\ op' = op
      \/ /\ r.status = "pending" /\ op' = [op EXCEPT ![t] = o]
         /\ Commit(t, c, s, [stage EXCEPT ![t] = "parked"], wake)
  BY DEF Receive, chanVars
<1>4. r.buffer # <<>> => receivers[c] # 0  BY AttemptBuffers DEF HandleInv
<1>5. r.status = "pending" /\ s.buffer # <<>> => receivers[c] # 0
  <2>1. r.status = "pending" => r = Attempt(c)  BY ReceiveIsPending
  <2>2. r = Attempt(c) => s.buffer = buffer[c]  BY DEF Attempt
  <2>. HIDE DEF r, s
  <2>. QED  BY <2>1, <2>2 DEF HandleInv, BufferHasReader
<1>6. o.kind # "none" /\ OwnsCases(t, o.cases)  BY <1>1 DEF OwnsCases, Owns
<1>. HIDE DEF o, r, s
<1>7. op \in [Tasks -> Operations] /\ stage \in [Tasks -> Stages]  BY DEF ClaimInv, ClaimType
<1>8. /\ DOMAIN buffer' = Channels /\ \A d \in Channels : buffer'[d] # <<>> => receivers[d] # 0
      /\ \A u \in Tasks : stage[u] = "flush" => stage'[u] = "flush"
  <2>1. CASE UNCHANGED <<buffer, stage, op>>  BY <2>1 DEF HandleInv, HandleType, BufferHasReader
  <2>2. CASE Commit(t, c, r, stage, wake)
    <3>1. Commits(t, c, r, stage, wake)  BY <1>1, <1>4, <2>2 DEF Commits
    <3>. QED  BY <1>1, <3>1, CommitHandles
  <2>3. CASE r.status = "pending" /\ Commit(t, c, s, [stage EXCEPT ![t] = "parked"], wake)
    <3>. DEFINE base == [stage EXCEPT ![t] = "parked"]
    <3>1. Commit(t, c, s, base, wake) /\ \A u \in Tasks \ {t} : base[u] = stage[u]  BY <1>7, <2>3
    <3>. HIDE DEF base
    <3>2. Commits(t, c, s, base, wake)  BY <1>1, <1>5, <2>3, <3>1 DEF Commits
    <3>. QED  BY <1>1, <3>2, CommitHandles
  <2>. QED  BY <1>3, <2>1, <2>2, <2>3
<1>9. \A u \in Tasks : op'[u] = op[u] \/ (op'[u].kind # "none" /\ OwnsCases(u, op'[u].cases))
  BY <1>3, <1>6, <1>7
<1>10. KeepsHandles  BY <1>2, <1>8, <1>9 DEF KeepsHandles
<1>. QED  BY <1>10, HandlesKept

LEMMA PollHandles ==
    ASSUME ClaimInv, ClaimInv', HandleInv, NEW t \in Tasks, stage[t] \in {"ready", "repoll"},
           NEW o \in Operations, o.kind = "select", NEW late, PollCases(t, o, late), OwnsCases(t, o.cases),
           UNCHANGED <<senders, receivers, holds, live, sendEnds, recvEnds, flushing>>
    PROVE  HandleInv'
<1>1. NoDoubleWake'  BY DEF ClaimInv
<1>2. op \in [Tasks -> Operations] /\ stage \in [Tasks -> Stages]  BY DEF ClaimInv, ClaimType
<1>3. \A u \in Tasks : op'[u] = op[u] \/ op'[u] = NoOp \/ (op'[u].kind # "none" /\ OwnsCases(u, op'[u].cases))
  <2>1. op' = [op EXCEPT ![t] = NoOp] \/ op' = [op EXCEPT ![t] = o]  BY DEF PollCases, Finish
  <2>. QED  BY <1>2, <2>1
<1>. DEFINE Kept == /\ DOMAIN buffer' = Channels /\ \A d \in Channels : buffer'[d] # <<>> => receivers[d] # 0
                    /\ \A u \in Tasks : stage[u] = "flush" => stage'[u] = "flush"
<1>4. ASSUME Eligible(o) # {},
             LET i == CHOOSE i \in Eligible(o) : \A j \in Eligible(o) : i <= j
                 r == AttemptCase(o, i)
             IN  Commit(t, o.cases[i].chan, r, [stage EXCEPT ![t] = "ready"], [wake EXCEPT ![t] = NoWake])
      PROVE  Kept
  <2>. DEFINE i == CHOOSE i \in Eligible(o) : \A j \in Eligible(o) : i <= j
              r == AttemptCase(o, i)
              d == o.cases[i].chan
              base == [stage EXCEPT ![t] = "ready"]
              baseWake == [wake EXCEPT ![t] = NoWake]
  <2>1. Commit(t, d, r, base, baseWake)  BY <1>4
  <2>2. Eligible(o) \subseteq Nat
    <3>1. o.cases \in Seq(Case)  BY DEF Operations
    <3>. QED  BY <3>1 DEF Eligible
  <2>3. \E k \in Eligible(o) : \A j \in Eligible(o) : k <= j  BY <1>4, <2>2, LeastOf
  <2>4. i \in Eligible(o)  BY <2>3
  <2>5. i \in DOMAIN o.cases  BY <2>4 DEF Eligible
  <2>. HIDE DEF i
  <2>6. d \in Channels  BY <2>5, AttemptCaseClaims
  <2>7. r.buffer # <<>> => receivers[d] # 0  BY <2>6, AttemptBuffers DEF AttemptCase, HandleInv
  <2>8. \A u \in Tasks \ {t} : base[u] = stage[u]  BY <1>2
  <2>. HIDE DEF r, d, base, baseWake
  <2>9. Commits(t, d, r, base, baseWake)  BY <2>1, <2>7, <2>8 DEF Commits
  <2>. QED  BY <1>1, <2>6, <2>9, CommitHandles
<1>5. ASSUME UNCHANGED buffer, stage' = [stage EXCEPT ![t] = "parked"] \/ stage' = [stage EXCEPT ![t] = "ready"]
      PROVE  Kept
  BY <1>2, <1>5 DEF HandleInv, HandleType, BufferHasReader
<1>6. Kept  BY <1>4, <1>5 DEF PollCases
<1>7. KeepsHandles  BY <1>3, <1>6 DEF KeepsHandles
<1>. QED  BY <1>7, HandlesKept

LEMMA SelectHandles ==
    ASSUME ClaimInv, ClaimInv', HandleInv, NEW t \in Tasks, NEW s \in Selects, NEW timed \in BOOLEAN,
           NEW late \in BOOLEAN, Select(t, s, timed, late)
    PROVE  HandleInv'
<1>1. ClaimType /\ stage[t] = "ready"  BY DEF ClaimInv, Select, CanStart
<1>2. started[t] + 1 \in 1 .. MaxOps  BY <1>1, CountTyped DEF Select, CanStart
<1>3. SelectOp(t, s, timed) \in Operations  BY <1>2, SelectOpTyped
<1>4. SelectOp(t, s, timed).kind = "select" /\ SelectOp(t, s, timed).cases = s  BY DEF SelectOp
<1>5. PollCases(t, SelectOp(t, s, timed), late)  BY DEF Select, SelectOp
<1>6. OwnsCases(t, s)  BY DEF Select, OwnsCases
<1>7. UNCHANGED <<senders, receivers, holds, live, sendEnds, recvEnds, flushing>>  BY DEF Select
<1>. QED  BY <1>1, <1>3, <1>4, <1>5, <1>6, <1>7, PollHandles

LEMMA RepollHandles ==
    ASSUME ClaimInv, ClaimInv', HandleInv, NEW t \in Tasks, Repoll(t)
    PROVE  HandleInv'
<1>1. ClaimType /\ TaskOK(t)  BY TaskByTask
<1>2. stage[t] = "repoll" /\ op[t].kind = "select" /\ op[t] \in Operations
  BY <1>1 DEF Repoll, TaskOK, ClaimType
<1>3. OwnsCases(t, op[t].cases)  BY DEF HandleInv, OpsKeepHandles
<1>4. PollCases(t, op[t], expired[t])  BY DEF Repoll
<1>5. UNCHANGED <<senders, receivers, holds, live, sendEnds, recvEnds, flushing>>  BY DEF Repoll
<1>. QED  BY <1>2, <1>3, <1>4, <1>5, PollHandles

(* Steps that touch neither handles nor buffers.                           *)
LEMMA AsideHandles ==
    ASSUME HandleInv, UNCHANGED <<buffer, senders, receivers, holds, live, sendEnds, recvEnds, flushing>>,
           \A u \in Tasks : stage[u] = "flush" => stage'[u] = "flush",
           \A u \in Tasks : op'[u] = op[u] \/ op'[u] = NoOp
    PROVE  HandleInv'
<1>1. KeepsHandles  BY DEF KeepsHandles, HandleInv, HandleType, BufferHasReader
<1>. QED  BY <1>1, HandlesKept

(* One handle more: a clone.                                               *)
LEMMA OneMore ==
    ASSUME NEW n \in [Channels -> Nat], NEW ends \in [Tasks -> [Channels -> Nat]],
           \A d \in Channels : Counts(n[d], Handles(ends, d)), NEW u \in Tasks, NEW c \in Channels
    PROVE  LET k == [n EXCEPT ![c] = @ + 1]
               more == Bump(ends, u, c, 1)
           IN  /\ k \in [Channels -> Nat] /\ more \in [Tasks -> [Channels -> Nat]]
               /\ \A d \in Channels : Counts(k[d], Handles(more, d))
               /\ \A v \in Tasks, d \in Channels : ends[v][d] > 0 => more[v][d] > 0
               /\ \A d \in Channels : k[d] = IF d = c THEN n[c] + 1 ELSE n[d]
<1>. DEFINE k == [n EXCEPT ![c] = @ + 1]
            more == Bump(ends, u, c, 1)
            h == <<u, ends[u][c] + 1>>
<1>1. k \in [Channels -> Nat] /\ \A d \in Channels : k[d] = IF d = c THEN n[c] + 1 ELSE n[d]  OBVIOUS
<1>2. /\ more \in [Tasks -> [Channels -> Nat]]
      /\ h \notin Handles(ends, c) /\ Handles(more, c) = Handles(ends, c) \cup {h}
      /\ \A d \in Channels : d # c => Handles(more, d) = Handles(ends, d)
      /\ \A v \in Tasks, d \in Channels : more[v][d] >= ends[v][d]
  BY HandlesMore
<1>. HIDE DEF k, more, h
<1>3. Counts(n[c] + 1, Handles(ends, c) \cup {h})
  <2>1. Counts(n[c], Handles(ends, c))  OBVIOUS
  <2>. QED  BY <1>2, <2>1, CountsOf
<1>4. \A d \in Channels : Counts(k[d], Handles(more, d))
  <2>. TAKE d \in Channels
  <2>1. CASE d = c
    <3>1. k[d] = n[c] + 1 /\ Handles(more, d) = Handles(ends, c) \cup {h}  BY <1>1, <1>2, <2>1
    <3>. QED  BY <1>3, <3>1
  <2>2. CASE d # c
    <3>1. k[d] = n[d] /\ Handles(more, d) = Handles(ends, d)  BY <1>1, <1>2, <2>2
    <3>2. Counts(n[d], Handles(ends, d))  OBVIOUS
    <3>. QED  BY <3>1, <3>2
  <2>. QED  BY <2>1, <2>2
<1>5. \A v \in Tasks, d \in Channels : ends[v][d] > 0 => more[v][d] > 0
  <2>1. \A v \in Tasks, d \in Channels : ends[v][d] \in Nat /\ more[v][d] \in Nat  BY <1>2
  <2>. QED  BY <1>2, <2>1
<1>. QED  BY <1>1, <1>2, <1>4, <1>5 DEF k, more

(* One handle less: a drop.                                                *)
LEMMA OneLess ==
    ASSUME NEW n \in [Channels -> Nat], NEW ends \in [Tasks -> [Channels -> Nat]],
           \A d \in Channels : Counts(n[d], Handles(ends, d)), NEW u \in Tasks, NEW c \in Channels,
           ends[u][c] > 0
    PROVE  LET k == [n EXCEPT ![c] = @ - 1]
               less == Bump(ends, u, c, -1)
           IN  /\ k \in [Channels -> Nat] /\ less \in [Tasks -> [Channels -> Nat]] /\ n[c] # 0
               /\ \A d \in Channels : Counts(k[d], Handles(less, d))
               /\ \A v \in Tasks, d \in Channels : v # u => less[v][d] = ends[v][d]
               /\ \A d \in Channels : k[d] = IF d = c THEN n[c] - 1 ELSE n[d]
<1>. DEFINE k == [n EXCEPT ![c] = @ - 1]
            less == Bump(ends, u, c, -1)
            h == <<u, ends[u][c]>>
<1>2. /\ less \in [Tasks -> [Channels -> Nat]]
      /\ h \in Handles(ends, c) /\ Handles(less, c) = Handles(ends, c) \ {h}
      /\ \A d \in Channels : d # c => Handles(less, d) = Handles(ends, d)
      /\ \A v \in Tasks, d \in Channels : v # u => less[v][d] = ends[v][d]
  BY HandlesLess
<1>. HIDE DEF less, h
<1>3. n[c] - 1 \in Nat /\ Counts(n[c] - 1, Handles(ends, c) \ {h})
  <2>1. Counts(n[c], Handles(ends, c))  OBVIOUS
  <2>. QED  BY <1>2, <2>1, CountsOf
<1>1. /\ k \in [Channels -> Nat] /\ \A d \in Channels : k[d] = IF d = c THEN n[c] - 1 ELSE n[d]
      /\ n[c] # 0
  BY <1>3
<1>. HIDE DEF k
<1>4. \A d \in Channels : Counts(k[d], Handles(less, d))
  <2>. TAKE d \in Channels
  <2>1. CASE d = c
    <3>1. k[d] = n[c] - 1 /\ Handles(less, d) = Handles(ends, c) \ {h}  BY <1>1, <1>2, <2>1
    <3>. QED  BY <1>3, <3>1
  <2>2. CASE d # c
    <3>1. k[d] = n[d] /\ Handles(less, d) = Handles(ends, d)  BY <1>1, <1>2, <2>2
    <3>2. Counts(n[d], Handles(ends, d))  OBVIOUS
    <3>. QED  BY <3>1, <3>2
  <2>. QED  BY <2>1, <2>2
<1>. QED  BY <1>1, <1>2, <1>4 DEF k, less

(* A channel somebody holds a handle of is alive.                          *)
LEMMA OwnedIsLive ==
    ASSUME HandleInv, NEW t \in Tasks, NEW c \in Channels,
           Owns(sendEnds, t, c) \/ Owns(recvEnds, t, c) \/ c \in flushing[t]
    PROVE  /\ live[c] /\ (Owns(sendEnds, t, c) => senders[c] # 0)
           /\ (Owns(recvEnds, t, c) => receivers[c] # 0) /\ (c \in flushing[t] => holds[c] # 0)
<1>1. /\ sendEnds \in [Tasks -> [Channels -> Nat]] /\ recvEnds \in [Tasks -> [Channels -> Nat]]
      /\ live \in [Channels -> BOOLEAN]
  BY DEF HandleInv, HandleType
<1>2. /\ Counts(senders[c], Handles(sendEnds, c)) /\ Counts(receivers[c], Handles(recvEnds, c))
      /\ Counts(holds[c], Flushers(c))
  BY DEF HandleInv, HandlesAreCounted
<1>3. Owns(sendEnds, t, c) => senders[c] # 0
  <2>1. Owns(sendEnds, t, c) => Handles(sendEnds, c) # {}  BY <1>1, HandlesOf DEF Owns
  <2>. QED  BY <1>2, <2>1, CountsOf
<1>4. Owns(recvEnds, t, c) => receivers[c] # 0
  <2>1. Owns(recvEnds, t, c) => Handles(recvEnds, c) # {}  BY <1>1, HandlesOf DEF Owns
  <2>. QED  BY <1>2, <2>1, CountsOf
<1>5. c \in flushing[t] => holds[c] # 0
  <2>1. c \in flushing[t] => Flushers(c) # {}  BY DEF Flushers
  <2>. QED  BY <1>2, <2>1, CountsOf
<1>6. live[c]  BY <1>3, <1>4, <1>5 DEF HandleInv, LiveWhileUsed
<1>. QED  BY <1>3, <1>4, <1>5, <1>6

LEMMA HandleParts ==
    ASSUME HandleInv
    PROVE  /\ senders \in [Channels -> Nat] /\ receivers \in [Channels -> Nat]
           /\ holds \in [Channels -> Nat] /\ live \in [Channels -> BOOLEAN]
           /\ sendEnds \in [Tasks -> [Channels -> Nat]] /\ recvEnds \in [Tasks -> [Channels -> Nat]]
           /\ flushing \in [Tasks -> SUBSET Channels] /\ DOMAIN buffer = Channels
           /\ \A d \in Channels : /\ Counts(senders[d], Handles(sendEnds, d))
                                  /\ Counts(receivers[d], Handles(recvEnds, d))
                                  /\ Counts(holds[d], Flushers(d))
           /\ \A d \in Channels : live[d] <=> ~(senders[d] = 0 /\ receivers[d] = 0 /\ holds[d] = 0)
           /\ \A d \in Channels : buffer[d] # <<>> => receivers[d] # 0
  BY DEF HandleInv, HandleType, HandlesAreCounted, LiveWhileUsed, BufferHasReader

(* Suspended operations keep their handles when no other task's are taken. *)
LEMMA OpsKept ==
    ASSUME ClaimInv, HandleInv, op' = op,
           \A v \in Tasks : op[v].kind # "none" => \A d \in Channels :
              (Owns(sendEnds, v, d) => Owns(sendEnds', v, d)) /\ (Owns(recvEnds, v, d) => Owns(recvEnds', v, d))
    PROVE  OpsKeepHandles'
<1>. SUFFICES ASSUME NEW v \in Tasks
              PROVE  /\ op[v].kind = "none" => op[v].cases = <<>>
                     /\ \A i \in DOMAIN op[v].cases :
                           Owns(IF op[v].cases[i].kind = "send" THEN sendEnds' ELSE recvEnds', v, op[v].cases[i].chan)
  BY DEF OpsKeepHandles, OwnsCases
<1>1. op[v].kind = "none" => op[v].cases = <<>>  BY DEF HandleInv, OpsKeepHandles
<1>2. ASSUME NEW i \in DOMAIN op[v].cases
      PROVE  Owns(IF op[v].cases[i].kind = "send" THEN sendEnds' ELSE recvEnds', v, op[v].cases[i].chan)
  <2>1. op[v].kind # "none" /\ op[v].cases[i].chan \in Channels  BY <1>1, OpTyped DEF ClaimInv
  <2>2. Owns(IF op[v].cases[i].kind = "send" THEN sendEnds ELSE recvEnds, v, op[v].cases[i].chan)
    BY DEF HandleInv, OpsKeepHandles, OwnsCases
  <2>3. /\ Owns(sendEnds, v, op[v].cases[i].chan) => Owns(sendEnds', v, op[v].cases[i].chan)
        /\ Owns(recvEnds, v, op[v].cases[i].chan) => Owns(recvEnds', v, op[v].cases[i].chan)
    BY <2>1
  <2>. QED  BY <2>2, <2>3
<1>. QED  BY <1>1, <1>2

LEMMA CloneSenderHandles ==
    ASSUME ClaimInv, HandleInv, NEW t \in Tasks, NEW c \in Channels, NEW u \in Tasks, CloneSender(t, c, u)
    PROVE  HandleInv'
<1>1. /\ Owns(sendEnds, t, c)
      /\ senders' = [senders EXCEPT ![c] = @ + 1] /\ sendEnds' = Bump(sendEnds, u, c, 1)
      /\ UNCHANGED <<buffer, receivers, holds, live, recvEnds, stage, op, flushing>>
  BY DEF CloneSender
<1>2. /\ senders' \in [Channels -> Nat] /\ sendEnds' \in [Tasks -> [Channels -> Nat]]
      /\ \A d \in Channels : Counts(senders'[d], Handles(sendEnds', d))
      /\ \A v \in Tasks, d \in Channels : sendEnds[v][d] > 0 => sendEnds'[v][d] > 0
      /\ \A d \in Channels : senders'[d] = IF d = c THEN senders[c] + 1 ELSE senders[d]
  <2>1. /\ senders \in [Channels -> Nat] /\ sendEnds \in [Tasks -> [Channels -> Nat]]
        /\ \A d \in Channels : Counts(senders[d], Handles(sendEnds, d))
    BY HandleParts
  <2>. QED  BY <1>1, <2>1, OneMore
<1>3. live[c] /\ senders[c] \in Nat  BY <1>1, HandleParts, OwnedIsLive
<1>4. HandleType'  BY <1>1, <1>2, HandleParts DEF HandleType
<1>5. HandlesAreCounted'
  <2>1. \A d \in Channels : Counts(senders'[d], Handles(sendEnds', d))  BY <1>1, <1>2, HandleParts
  <2>2. \A d \in Channels : Counts(receivers'[d], Handles(recvEnds', d))  BY <1>1, <1>2, HandleParts
  <2>3. \A d \in Channels : Flushers(d)' = Flushers(d)  BY <1>1 DEF Flushers
  <2>4. \A d \in Channels : Counts(holds'[d], Flushers(d)')  BY <1>1, <2>3, HandleParts
  <2>. QED  BY <2>1, <2>2, <2>4 DEF HandlesAreCounted, Handles
<1>6. FlushersFlush'  BY <1>1 DEF HandleInv, FlushersFlush
<1>7. LiveWhileUsed'
  <2>. SUFFICES ASSUME NEW d \in Channels
                PROVE  live[d] <=> ~(senders'[d] = 0 /\ receivers[d] = 0 /\ holds[d] = 0)
    BY <1>1 DEF LiveWhileUsed
  <2>1. CASE d = c
    <3>1. senders'[d] = senders[c] + 1 /\ live[d]  BY <1>2, <1>3, <2>1
    <3>. QED  BY <1>3, <3>1
  <2>2. CASE d # c
    <3>1. senders'[d] = senders[d]  BY <1>2, <2>2
    <3>. QED  BY <3>1, HandleParts
  <2>. QED  BY <2>1, <2>2
<1>8. OpsKeepHandles'  BY <1>1, <1>2, OpsKept DEF Owns
<1>9. BufferHasReader'  BY <1>1 DEF HandleInv, BufferHasReader
<1>. QED  BY <1>4, <1>5, <1>6, <1>7, <1>8, <1>9 DEF HandleInv

LEMMA CloneReceiverHandles ==
    ASSUME ClaimInv, HandleInv, NEW t \in Tasks, NEW c \in Channels, NEW u \in Tasks, CloneReceiver(t, c, u)
    PROVE  HandleInv'
<1>1. /\ Owns(recvEnds, t, c)
      /\ receivers' = [receivers EXCEPT ![c] = @ + 1] /\ recvEnds' = Bump(recvEnds, u, c, 1)
      /\ UNCHANGED <<buffer, senders, holds, live, sendEnds, stage, op, flushing>>
  BY DEF CloneReceiver
<1>2. /\ receivers' \in [Channels -> Nat] /\ recvEnds' \in [Tasks -> [Channels -> Nat]]
      /\ \A d \in Channels : Counts(receivers'[d], Handles(recvEnds', d))
      /\ \A v \in Tasks, d \in Channels : recvEnds[v][d] > 0 => recvEnds'[v][d] > 0
      /\ \A d \in Channels : receivers'[d] = IF d = c THEN receivers[c] + 1 ELSE receivers[d]
  <2>1. /\ receivers \in [Channels -> Nat] /\ recvEnds \in [Tasks -> [Channels -> Nat]]
        /\ \A d \in Channels : Counts(receivers[d], Handles(recvEnds, d))
    BY HandleParts
  <2>. QED  BY <1>1, <2>1, OneMore
<1>3. live[c] /\ receivers[c] \in Nat  BY <1>1, HandleParts, OwnedIsLive
<1>4. HandleType'  BY <1>1, <1>2, HandleParts DEF HandleType
<1>5. HandlesAreCounted'
  <2>1. \A d \in Channels : Counts(senders'[d], Handles(sendEnds', d))  BY <1>1, <1>2, HandleParts
  <2>2. \A d \in Channels : Counts(receivers'[d], Handles(recvEnds', d))  BY <1>1, <1>2, HandleParts
  <2>3. \A d \in Channels : Flushers(d)' = Flushers(d)  BY <1>1 DEF Flushers
  <2>4. \A d \in Channels : Counts(holds'[d], Flushers(d)')  BY <1>1, <2>3, HandleParts
  <2>. QED  BY <2>1, <2>2, <2>4 DEF HandlesAreCounted, Handles
<1>6. FlushersFlush'  BY <1>1 DEF HandleInv, FlushersFlush
<1>7. \A d \in Channels : IF d = c THEN receivers'[d] # 0 /\ live[d] ELSE receivers'[d] = receivers[d]
  <2>1. receivers[c] + 1 # 0  BY <1>3
  <2>. QED  BY <1>2, <1>3, <2>1
<1>8. LiveWhileUsed'  BY <1>1, <1>7, HandleParts DEF LiveWhileUsed
<1>9. OpsKeepHandles'  BY <1>1, <1>2, OpsKept DEF Owns
<1>10. BufferHasReader'  BY <1>1, <1>7, HandleParts DEF BufferHasReader
<1>. QED  BY <1>4, <1>5, <1>6, <1>8, <1>9, <1>10 DEF HandleInv

(* What the last unlock of a drop leaves behind.                           *)
LEMMA DestroyIs ==
    ASSUME HandleInv, NEW c \in Channels, live[c], DestroyIfUnused(c),
           \A d \in Channels : d # c => senders'[d] = senders[d] /\ receivers'[d] = receivers[d] /\ holds'[d] = holds[d]
    PROVE  live' \in [Channels -> BOOLEAN] /\ LiveWhileUsed'
<1>1. live \in [Channels -> BOOLEAN]
      /\ \A d \in Channels : live[d] <=> ~(senders[d] = 0 /\ receivers[d] = 0 /\ holds[d] = 0)
  BY HandleParts
<1>2. live' = [live EXCEPT ![c] = @ /\ ~(senders'[c] = 0 /\ receivers'[c] = 0 /\ holds'[c] = 0)]
  BY DEF DestroyIfUnused
<1>3. live' \in [Channels -> BOOLEAN]  BY <1>1, <1>2
<1>4. \A d \in Channels : live'[d] <=> ~(senders'[d] = 0 /\ receivers'[d] = 0 /\ holds'[d] = 0)
  BY <1>1, <1>2
<1>. QED  BY <1>3, <1>4 DEF LiveWhileUsed

LEMMA DropSenderHandles ==
    ASSUME ClaimInv, ClaimInv', HandleInv, NEW t \in Tasks, NEW c \in Channels, DropSender(t, c)
    PROVE  HandleInv'
<1>1. /\ stage[t] = "ready" /\ Owns(sendEnds, t, c)
      /\ senders' = [senders EXCEPT ![c] = @ - 1] /\ sendEnds' = Bump(sendEnds, t, c, -1)
      /\ UNCHANGED <<buffer, receivers, holds, recvEnds, op, flushing>> /\ DestroyIfUnused(c)
      /\ \E ws : WakeTasks(ws, Home[t], stage, wake)
  BY DEF DropSender, CanDrop
<1>2. /\ senders' \in [Channels -> Nat] /\ sendEnds' \in [Tasks -> [Channels -> Nat]]
      /\ \A d \in Channels : Counts(senders'[d], Handles(sendEnds', d))
      /\ \A v \in Tasks, d \in Channels : v # t => sendEnds'[v][d] = sendEnds[v][d]
      /\ \A d \in Channels : senders'[d] = IF d = c THEN senders[c] - 1 ELSE senders[d]
  <2>1. /\ senders \in [Channels -> Nat] /\ sendEnds \in [Tasks -> [Channels -> Nat]]
        /\ \A d \in Channels : Counts(senders[d], Handles(sendEnds, d)) 
        /\ sendEnds[t][c] > 0
    BY <1>1, HandleParts DEF Owns
  <2>. QED  BY <1>1, <2>1, OneLess
<1>3. live[c]  BY <1>1, OwnedIsLive
<1>4. live' \in [Channels -> BOOLEAN] /\ LiveWhileUsed'
  <2>1. \A d \in Channels : d # c => senders'[d] = senders[d] /\ receivers'[d] = receivers[d] /\ holds'[d] = holds[d]
    BY <1>1, <1>2
  <2>. QED  BY <1>1, <1>3, <2>1, DestroyIs
<1>5. HandleType'  BY <1>1, <1>2, <1>4, HandleParts DEF HandleType
<1>6. HandlesAreCounted'
  <2>1. \A d \in Channels : Flushers(d)' = Flushers(d)  BY <1>1 DEF Flushers
  <2>2. \A d \in Channels : Counts(receivers'[d], Handles(recvEnds', d)) /\ Counts(holds'[d], Flushers(d)')
    BY <1>1, <2>1, HandleParts
  <2>. QED  BY <1>2, <2>2 DEF HandlesAreCounted
<1>7. \A u \in Tasks : stage[u] = "flush" => stage'[u] = "flush"
  <2>1. PICK ws : WakeTasks(ws, Home[t], stage, wake)  BY <1>1
  <2>2. NoDoubleWake'  BY DEF ClaimInv
  <2>. QED  BY <2>1, <2>2, WokenParked
<1>8. FlushersFlush'  BY <1>1, <1>7 DEF HandleInv, FlushersFlush
<1>9. OpsKeepHandles'
  <2>1. op[t].kind = "none"  BY <1>1, TaskByTask DEF TaskOK
  <2>. QED  BY <1>1, <1>2, <2>1, OpsKept DEF Owns
<1>10. BufferHasReader'  BY <1>1, HandleParts DEF BufferHasReader
<1>. QED  BY <1>4, <1>5, <1>6, <1>8, <1>9, <1>10 DEF HandleInv

LEMMA DropReceiverHandles ==
    ASSUME ClaimInv, ClaimInv', HandleInv, NEW t \in Tasks, NEW c \in Channels, DropReceiver(t, c)
    PROVE  HandleInv'
<1>. DEFINE last == receivers[c] = 1
            hold == last /\ buffer[c] # <<>>
            base == IF hold THEN [stage EXCEPT ![t] = "flush"] ELSE stage
<1>1. /\ stage[t] = "ready" /\ Owns(recvEnds, t, c)
      /\ receivers' = [receivers EXCEPT ![c] = @ - 1] /\ recvEnds' = Bump(recvEnds, t, c, -1)
      /\ buffer' = (IF last THEN [buffer EXCEPT ![c] = <<>>] ELSE buffer)
      /\ holds' = (IF hold THEN [holds EXCEPT ![c] = @ + 1] ELSE holds)
      /\ flushing' = (IF hold THEN [flushing EXCEPT ![t] = {c}] ELSE flushing)
      /\ UNCHANGED <<senders, sendEnds, op>> /\ DestroyIfUnused(c)
      /\ \E ws : WakeTasks(ws, Home[t], base, wake)
  BY DEF DropReceiver, CanDrop
<1>2. /\ receivers' \in [Channels -> Nat] /\ recvEnds' \in [Tasks -> [Channels -> Nat]]
      /\ \A d \in Channels : Counts(receivers'[d], Handles(recvEnds', d))
      /\ \A v \in Tasks, d \in Channels : v # t => recvEnds'[v][d] = recvEnds[v][d]
      /\ \A d \in Channels : receivers'[d] = IF d = c THEN receivers[c] - 1 ELSE receivers[d]
      /\ receivers[c] # 0
  <2>1. /\ receivers \in [Channels -> Nat] /\ recvEnds \in [Tasks -> [Channels -> Nat]]
        /\ \A d \in Channels : Counts(receivers[d], Handles(recvEnds, d)) 
        /\ recvEnds[t][c] > 0
    BY <1>1, HandleParts DEF Owns
  <2>2. receivers' = [receivers EXCEPT ![c] = @ - 1] /\ recvEnds' = Bump(recvEnds, t, c, -1)  BY <1>1
  <2>. HIDE DEF last, hold, base
  <2>. QED  BY <2>1, <2>2, OneLess
<1>3. live[c] /\ receivers[c] \in Nat  BY <1>1, HandleParts, OwnedIsLive
<1>4. flushing[t] = {}  BY <1>1 DEF HandleInv, FlushersFlush
<1>5. stage \in [Tasks -> Stages]  BY DEF ClaimInv, ClaimType
<1>6. \A u \in Tasks : (stage[u] = "flush" => stage'[u] = "flush") /\ (u = t /\ hold => stage'[u] = "flush")
  <2>1. PICK ws : WakeTasks(ws, Home[t], base, wake)  BY <1>1
  <2>2. NoDoubleWake'  BY DEF ClaimInv
  <2>3. \A u \in Tasks : stage[u] # "parked" => stage'[u] = base[u]
    <3>. HIDE DEF base
    <3>. QED  BY <2>1, <2>2, WokenParked
  <2>4. base[t] = (IF hold THEN "flush" ELSE "ready") /\ \A u \in Tasks : u # t => base[u] = stage[u]
    BY <1>1, <1>5
  <2>. QED  BY <1>1, <2>3, <2>4
<1>7. /\ holds' \in [Channels -> Nat] /\ flushing' \in [Tasks -> SUBSET Channels]
      /\ \A d \in Channels : holds'[d] = IF hold /\ d = c THEN holds[c] + 1 ELSE holds[d]
      /\ \A u \in Tasks : flushing'[u] = IF hold /\ u = t THEN {c} ELSE flushing[u]
  BY <1>1, HandleParts
<1>8. DOMAIN buffer' = Channels /\ \A d \in Channels : buffer'[d] = IF last /\ d = c THEN <<>> ELSE buffer[d]
  BY <1>1, HandleParts
<1>. HIDE DEF base, hold
<1>9. \A d \in Channels : Counts(holds'[d], Flushers(d)')
  <2>. TAKE d \in Channels
  <2>0. Counts(holds[d], Flushers(d))  BY HandleParts
  <2>1. CASE hold /\ d = c
    <3>1. Flushers(d)' = Flushers(c) \cup {t} /\ t \notin Flushers(c)  BY <1>4, <1>7, <2>1 DEF Flushers
    <3>2. holds'[d] = holds[c] + 1  BY <1>7, <2>1
    <3>. QED  BY <2>0, <2>1, <3>1, <3>2, CountsOf
  <2>2. CASE ~(hold /\ d = c)
    <3>1. Flushers(d)' = Flushers(d)  BY <1>4, <1>7, <2>2 DEF Flushers
    <3>2. holds'[d] = holds[d]  BY <1>7, <2>2
    <3>. QED  BY <2>0, <3>1, <3>2
  <2>. QED  BY <2>1, <2>2
<1>10. live' \in [Channels -> BOOLEAN] /\ LiveWhileUsed'
  <2>1. \A d \in Channels : d # c => senders'[d] = senders[d] /\ receivers'[d] = receivers[d] /\ holds'[d] = holds[d]
    BY <1>1, <1>2, <1>7
  <2>. QED  BY <1>1, <1>3, <2>1, DestroyIs
<1>11. HandleType'  BY <1>1, <1>2, <1>7, <1>8, <1>10, HandleParts DEF HandleType
<1>12. HandlesAreCounted'
  <2>1. \A d \in Channels : Counts(senders'[d], Handles(sendEnds', d))  BY <1>1, HandleParts
  <2>. QED  BY <1>2, <1>9, <2>1 DEF HandlesAreCounted
<1>13. FlushersFlush'
  <2>1. \A u \in Tasks : /\ flushing[u] # {} => stage[u] = "flush"
                         /\ \A x, y \in flushing[u] : x = y
    BY DEF HandleInv, FlushersFlush
  <2>. QED  BY <1>6, <1>7, <2>1 DEF FlushersFlush
<1>14. OpsKeepHandles'
  <2>1. op[t].kind = "none"  BY <1>1, TaskByTask DEF TaskOK
  <2>. QED  BY <1>1, <1>2, <2>1, OpsKept DEF Owns
<1>15. BufferHasReader'
  <2>1. \A d \in Channels : buffer'[d] # <<>> => receivers'[d] # 0
    <3>. TAKE d \in Channels
    <3>1. CASE d = c
      <4>1. receivers'[d] = receivers[c] - 1  BY <1>2, <3>1
      <4>2. receivers[c] # 1 => receivers'[d] # 0  BY <1>2, <1>3, <4>1
      <4>3. receivers[c] = 1 => buffer'[d] = <<>>  BY <1>8, <3>1
      <4>. QED  BY <4>2, <4>3
    <3>2. CASE d # c
      <4>1. receivers'[d] = receivers[d] /\ buffer'[d] = buffer[d]  BY <1>2, <1>8, <3>2
      <4>. QED  BY <4>1, HandleParts
    <3>. QED  BY <3>1, <3>2
  <2>. QED  BY <2>1 DEF BufferHasReader
<1>. QED  BY <1>10, <1>11, <1>12, <1>13, <1>14, <1>15 DEF HandleInv

LEMMA FlushDoneHandles ==
    ASSUME ClaimInv, HandleInv, NEW t \in Tasks, FlushDone(t)
    PROVE  HandleInv'
<1>1. PICK c \in flushing[t] : holds' = [holds EXCEPT ![c] = @ - 1] /\ DestroyIfUnused(c)
  BY DEF FlushDone
<1>2. /\ stage[t] = "flush" /\ stage' = [stage EXCEPT ![t] = "ready"]
      /\ flushing' = [flushing EXCEPT ![t] = {}]
      /\ UNCHANGED <<buffer, senders, receivers, sendEnds, recvEnds, op>>
  BY DEF FlushDone
<1>3. c \in Channels /\ flushing \in [Tasks -> SUBSET Channels]  BY HandleParts
<1>4. live[c]  BY <1>3, OwnedIsLive
<1>5. \A u \in Tasks : /\ flushing[u] # {} => stage[u] = "flush"
                       /\ \A x, y \in flushing[u] : x = y
  BY DEF HandleInv, FlushersFlush
<1>6. /\ flushing' \in [Tasks -> SUBSET Channels]
      /\ \A u \in Tasks : flushing'[u] = IF u = t THEN {} ELSE flushing[u]
  BY <1>2, <1>3
<1>7. \A d \in Channels : Flushers(d)' = IF d = c THEN Flushers(c) \ {t} ELSE Flushers(d)
  <2>1. \A d \in Channels : d # c => d \notin flushing[t]  BY <1>5
  <2>. QED  BY <1>6, <2>1 DEF Flushers
<1>8. holds[c] - 1 \in Nat /\ Counts(holds[c] - 1, Flushers(c) \ {t})
  <2>1. Counts(holds[c], Flushers(c)) /\ t \in Flushers(c)  BY <1>3, HandleParts DEF Flushers
  <2>. QED  BY <2>1, CountsOf
<1>9. holds' \in [Channels -> Nat] /\ \A d \in Channels : holds'[d] = IF d = c THEN holds[c] - 1 ELSE holds[d]
  BY <1>1, <1>3, <1>8, HandleParts
<1>10. live' \in [Channels -> BOOLEAN] /\ LiveWhileUsed'
  <2>1. \A d \in Channels : d # c => senders'[d] = senders[d] /\ receivers'[d] = receivers[d] /\ holds'[d] = holds[d]
    BY <1>2, <1>9
  <2>. QED  BY <1>1, <1>3, <1>4, <2>1, DestroyIs
<1>11. HandleType'  BY <1>2, <1>6, <1>9, <1>10, HandleParts DEF HandleType
<1>12. HandlesAreCounted'
  <2>1. \A d \in Channels : /\ Counts(senders'[d], Handles(sendEnds', d))
                            /\ Counts(receivers'[d], Handles(recvEnds', d))
    BY <1>2, HandleParts
  <2>2. \A d \in Channels : Counts(holds'[d], Flushers(d)')
    <3>. TAKE d \in Channels
    <3>1. CASE d = c
      <4>1. holds'[d] = holds[c] - 1 /\ Flushers(d)' = Flushers(c) \ {t}  BY <1>7, <1>9, <3>1
      <4>. QED  BY <1>8, <4>1
    <3>2. CASE d # c
      <4>1. holds'[d] = holds[d] /\ Flushers(d)' = Flushers(d)  BY <1>7, <1>9, <3>2
      <4>2. Counts(holds[d], Flushers(d))  BY HandleParts
      <4>. QED  BY <4>1, <4>2
    <3>. QED  BY <3>1, <3>2
  <2>. QED  BY <2>1, <2>2 DEF HandlesAreCounted
<1>13. FlushersFlush'
  <2>1. \A u \in Tasks : u # t => stage'[u] = stage[u]
    <3>1. stage \in [Tasks -> Stages]  BY DEF ClaimInv, ClaimType
    <3>. QED  BY <1>2, <3>1
  <2>. QED  BY <1>5, <1>6, <2>1 DEF FlushersFlush
<1>14. OpsKeepHandles'  BY <1>2, OpsKept
<1>15. BufferHasReader'  BY <1>2, HandleParts DEF BufferHasReader
<1>. QED  BY <1>10, <1>11, <1>12, <1>13, <1>14, <1>15 DEF HandleInv

LEMMA InitHandles == Init => HandleInv
<1>. SUFFICES ASSUME Init  PROVE HandleInv
  OBVIOUS
<1>1. /\ FirstSender \in [Channels -> Tasks] /\ FirstReceiver \in [Channels -> Tasks]
  BY ConstantsAssumption
<1>2. HandleType  BY DEF Init, HandleType
<1>3. ASSUME NEW c \in Channels, NEW ends \in [Tasks -> [Channels -> Nat]], NEW t \in Tasks,
             \A u \in Tasks : ends[u][c] = IF t = u THEN 1 ELSE 0
      PROVE  Counts(1, Handles(ends, c))
  <2>1. ASSUME NEW u \in Tasks, NEW k \in Nat
        PROVE  <<u, k>> \in Handles(ends, c) <=> u = t /\ k = 1
    <3>1. <<u, k>> \in Handles(ends, c) <=> k \in 1 .. ends[u][c]  BY DEF Handles
    <3>2. CASE u = t
      <4>1. ends[u][c] = 1  BY <1>3, <3>2
      <4>. QED  BY <3>1, <3>2, <4>1
    <3>3. CASE u # t
      <4>1. ends[u][c] = 0  BY <1>3, <3>3
      <4>. QED  BY <3>1, <3>3, <4>1
    <3>. QED  BY <3>2, <3>3
  <2>2. Handles(ends, c) \subseteq Tasks \X Nat  BY DEF Handles
  <2>3. Handles(ends, c) = {<<t, 1>>}  BY <2>1, <2>2
  <2>. QED  BY <2>3, FS_Singleton DEF Counts
<1>4. HandlesAreCounted
  <2>. SUFFICES ASSUME NEW c \in Channels
                PROVE  /\ Counts(1, Handles(sendEnds, c)) /\ Counts(1, Handles(recvEnds, c))
                       /\ Counts(0, Flushers(c))
    BY DEF Init, HandlesAreCounted
  <2>1. /\ FirstSender[c] \in Tasks /\ FirstReceiver[c] \in Tasks
        /\ sendEnds \in [Tasks -> [Channels -> Nat]] /\ recvEnds \in [Tasks -> [Channels -> Nat]]
        /\ \A u \in Tasks : sendEnds[u][c] = IF FirstSender[c] = u THEN 1 ELSE 0
        /\ \A u \in Tasks : recvEnds[u][c] = IF FirstReceiver[c] = u THEN 1 ELSE 0
    BY <1>1, <1>2 DEF Init, HandleType
  <2>2. Counts(1, Handles(sendEnds, c))  BY <1>3, <2>1
  <2>3. Counts(1, Handles(recvEnds, c))  BY <1>3, <2>1
  <2>4. Flushers(c) = {}  BY DEF Init, Flushers
  <2>5. Counts(0, {})  BY FS_EmptySet DEF Counts
  <2>. QED  BY <2>2, <2>3, <2>4, <2>5
<1>5. FlushersFlush  BY DEF Init, FlushersFlush
<1>6. LiveWhileUsed  BY DEF Init, LiveWhileUsed
<1>7. OpsKeepHandles  BY DEF Init, OpsKeepHandles, OwnsCases, NoOp
<1>8. BufferHasReader  BY DEF Init, BufferHasReader
<1>. QED  BY <1>2, <1>4, <1>5, <1>6, <1>7, <1>8 DEF HandleInv

LEMMA NextHandles == ClaimInv /\ ClaimInv' /\ HandleInv /\ [Next]_vars => HandleInv'
<1>. SUFFICES ASSUME ClaimInv, ClaimInv', HandleInv, [Next]_vars  PROVE HandleInv'
  OBVIOUS
<1>0. /\ op \in [Tasks -> Operations] /\ stage \in [Tasks -> Stages] /\ NoDoubleWake'
  BY DEF ClaimInv, ClaimType
<1>. DEFINE Aside == UNCHANGED <<buffer, senders, receivers, holds, live, sendEnds, recvEnds, flushing>>
<1>1. ASSUME NEW t \in Tasks, Start(t)  PROVE HandleInv'
  BY <1>1, SendHandles, ReceiveHandles, SelectHandles, CloneSenderHandles, CloneReceiverHandles DEF Start
<1>2. ASSUME NEW t \in Tasks, TakeWake(t) \/ Unregister(t)  PROVE HandleInv'
  <2>1. Aside /\ stage[t] # "flush"  BY <1>2 DEF TakeWake, Unregister, chanVars
  <2>2. op' = op \/ op' = [op EXCEPT ![t] = NoOp]  BY <1>2 DEF TakeWake, Unregister, Finish
  <2>3. \E s : stage' = [stage EXCEPT ![t] = s]  BY <1>2 DEF TakeWake, Unregister
  <2>4. /\ \A u \in Tasks : stage[u] = "flush" => stage'[u] = "flush"
        /\ \A u \in Tasks : op'[u] = op[u] \/ op'[u] = NoOp
    BY <1>0, <2>1, <2>2, <2>3
  <2>. QED  BY <2>1, <2>4, AsideHandles
<1>3. ASSUME NEW t \in Tasks, Continue(t)  PROVE HandleInv'
  BY <1>2, <1>3, RepollHandles, FlushDoneHandles DEF Continue
<1>4. ASSUME NEW t \in Tasks, Return(t)  PROVE HandleInv'
  <2>1. Aside /\ stage[t] = "ready" /\ stage' = [stage EXCEPT ![t] = "done"] /\ op' = op
    BY <1>4 DEF Return, CanDrop, chanVars
  <2>2. \A u \in Tasks : stage[u] = "flush" => stage'[u] = "flush"  BY <1>0, <2>1
  <2>. QED  BY <2>1, <2>2, AsideHandles
<1>5. ASSUME NEW t \in Tasks, Leave(t)  PROVE HandleInv'
  BY <1>4, <1>5, DropSenderHandles, DropReceiverHandles DEF Leave
<1>6. ASSUME NEW t \in Tasks, Cancel(t)  PROVE HandleInv'
  <2>1. Aside /\ op' = op /\ \E ws : WakeTasks(ws, Home[t], stage, wake)  BY <1>6 DEF Cancel
  <2>2. PICK ws : WakeTasks(ws, Home[t], stage, wake)  BY <2>1
  <2>3. \A u \in Tasks : stage[u] = "flush" => stage'[u] = "flush"  BY <1>0, <2>2, WokenParked
  <2>. QED  BY <2>1, <2>3, AsideHandles
<1>7. ASSUME NEW e \in Executors, Idle(e)  PROVE HandleInv'
  <2>1. CASE Drain(e)
    <3>1. Aside /\ op' = op /\ \E ws : Enqueue(ws, stage, wake)  BY <2>1 DEF Drain, chanVars
    <3>2. PICK ws : Enqueue(ws, stage, wake)  BY <3>1
    <3>3. \A u \in Tasks : stage[u] = "flush" => stage'[u] = "flush"  BY <1>0, <3>2, OnlyParked
    <3>. QED  BY <3>1, <3>3, AsideHandles
  <2>2. CASE WakeExpired(e)
    <3>1. Aside /\ op' = op /\ \E ws : WakeTasks(ws, e, stage, wake)  BY <2>2 DEF WakeExpired, chanVars
    <3>2. PICK ws : WakeTasks(ws, e, stage, wake)  BY <3>1
    <3>3. \A u \in Tasks : stage[u] = "flush" => stage'[u] = "flush"  BY <1>0, <3>2, WokenParked
    <3>. QED  BY <3>1, <3>3, AsideHandles
  <2>. QED  BY <1>7, <2>1, <2>2 DEF Idle
<1>8. ASSUME NEW t \in Tasks, Expire(t)  PROVE HandleInv'
  <2>1. Aside /\ UNCHANGED <<stage, op>>  BY <1>8 DEF Expire, chanVars
  <2>. QED  BY <2>1, AsideHandles
<1>9. CASE UNCHANGED vars
  <2>1. Aside /\ UNCHANGED <<stage, op>>  BY <1>9 DEF vars, chanVars, taskVars
  <2>. QED  BY <2>1, AsideHandles
<1>. QED  BY <1>1, <1>3, <1>5, <1>6, <1>7, <1>8, <1>9 DEF Next

(* The counts of a channel are those of its handles and flushes, and it    *)
(* lives while one of them is not zero.                                    *)
THEOREM HandleInvariant == Spec => [](ClaimInv /\ HandleInv)
<1>1. Init => ClaimInv /\ HandleInv  BY InitClaims, InitHandles
<1>2. (ClaimInv /\ HandleInv) /\ [Next]_vars => (ClaimInv /\ HandleInv)'  BY NextClaims, NextHandles
<1>. QED  BY <1>1, <1>2, PTL DEF Spec

(* Whoever is in a queue of a channel, or registered there, holds a handle *)
(* of it.                                                                  *)
LEMMA QueuedOwns ==
    ASSUME ClaimInv, HandleInv, NEW c \in Channels,
           NEW u \in Range(sendQ[c]) \cup Range(recvQ[c]) \cup Range(selQ[c])
    PROVE  u \in Tasks /\ (Owns(sendEnds, u, c) \/ Owns(recvEnds, u, c))
<1>1. u \in Tasks  BY QueuedIs
<1>2. TaskOK(u) /\ OwnsCases(u, op[u].cases)  BY <1>1, TaskByTask DEF HandleInv, OpsKeepHandles
<1>3. \E i \in DOMAIN op[u].cases : op[u].cases[i].chan = c
  <2>1. CASE u \in Range(selQ[c])  BY <1>2, <2>1 DEF TaskOK
  <2>2. CASE u \in Range(sendQ[c]) \cup Range(recvQ[c])
    <3>1. op[u].kind \in {"send", "receive"} /\ op[u].cases[1].chan = c  BY <1>2, <2>2 DEF TaskOK
    <3>2. SingleCase(u)  BY <1>2, <3>1 DEF TaskOK
    <3>3. 1 \in DOMAIN op[u].cases
      <4>1. op[u].cases = <<[kind |-> op[u].kind, chan |-> op[u].cases[1].chan]>>  BY <3>2 DEF SingleCase
      <4>2. \A x : 1 \in DOMAIN <<x>>  OBVIOUS
      <4>. QED  BY <4>1, <4>2, Zenon
    <3>. QED  BY <3>1, <3>3
  <2>. QED  BY <2>1, <2>2
<1>. QED  BY <1>1, <1>2, <1>3 DEF OwnsCases

(* A channel is destroyed exactly when no frame holds a handle of it and   *)
(* nobody is dropping its messages, and it then owns no state: the panic   *)
(* "unused channel still owns state" is unreachable.                       *)
THEOREM ChannelsOutliveTheirUsers == Spec => []DestroyedIsUnreachable
<1>1. ASSUME ClaimInv, HandleInv  PROVE DestroyedIsUnreachable
  <2>. SUFFICES ASSUME NEW c \in Channels
                PROVE  /\ ~live[c] <=> \A t \in Tasks : /\ sendEnds[t][c] = 0 /\ recvEnds[t][c] = 0
                                                        /\ c \notin flushing[t]
                       /\ ~live[c] => \A q \in {buffer, sendQ, recvQ, selQ} : q[c] = <<>>
    BY DEF DestroyedIsUnreachable
  <2>1. /\ senders[c] = 0 <=> \A t \in Tasks : sendEnds[t][c] = 0
        /\ receivers[c] = 0 <=> \A t \in Tasks : recvEnds[t][c] = 0
        /\ holds[c] = 0 <=> \A t \in Tasks : c \notin flushing[t]
    <3>1. /\ sendEnds \in [Tasks -> [Channels -> Nat]] /\ recvEnds \in [Tasks -> [Channels -> Nat]]
          /\ Counts(senders[c], Handles(sendEnds, c)) /\ Counts(receivers[c], Handles(recvEnds, c))
          /\ Counts(holds[c], Flushers(c))
      BY <1>1, HandleParts
    <3>2. senders[c] = 0 <=> \A t \in Tasks : sendEnds[t][c] = 0
      <4>1. Handles(sendEnds, c) = {} <=> \A t \in Tasks : sendEnds[t][c] = 0  BY <3>1, HandlesOf
      <4>. QED  BY <3>1, <4>1, CountsOf
    <3>3. receivers[c] = 0 <=> \A t \in Tasks : recvEnds[t][c] = 0
      <4>1. Handles(recvEnds, c) = {} <=> \A t \in Tasks : recvEnds[t][c] = 0  BY <3>1, HandlesOf
      <4>. QED  BY <3>1, <4>1, CountsOf
    <3>4. holds[c] = 0 <=> \A t \in Tasks : c \notin flushing[t]
      <4>1. Flushers(c) = {} <=> \A t \in Tasks : c \notin flushing[t]  BY DEF Flushers
      <4>. QED  BY <3>1, <4>1, CountsOf
    <3>. QED  BY <3>2, <3>3, <3>4
  <2>2. live[c] <=> ~(senders[c] = 0 /\ receivers[c] = 0 /\ holds[c] = 0)  BY <1>1, HandleParts
  <2>3. ~live[c] => buffer[c] = <<>>  BY <1>1, <2>2, HandleParts
  <2>4. ASSUME ~live[c]  PROVE sendQ[c] = <<>> /\ recvQ[c] = <<>> /\ selQ[c] = <<>>
    <3>1. Range(sendQ[c]) \cup Range(recvQ[c]) \cup Range(selQ[c]) = {}
      BY <1>1, <2>4, QueuedOwns, OwnedIsLive
    <3>2. ASSUME NEW q \in Seq(Tasks), Range(q) = {}  PROVE q = <<>>
      <4>1. q # <<>> => Head(q) \in Range(q)  BY TailOf
      <4>. QED  BY <3>2, <4>1
    <3>3. sendQ[c] \in Seq(Tasks) /\ recvQ[c] \in Seq(Tasks) /\ selQ[c] \in Seq(Tasks)  BY <1>1, QueuedIs
    <3>. QED  BY <3>1, <3>2, <3>3
  <2>5. (~live[c]) <=> \A t \in Tasks : /\ sendEnds[t][c] = 0 /\ recvEnds[t][c] = 0
                                        /\ c \notin flushing[t]
    BY <2>1, <2>2
  <2>6. ~live[c] => \A q \in {buffer, sendQ, recvQ, selQ} : q[c] = <<>>  BY <2>3, <2>4
  <2>. QED  BY <2>5, <2>6
<1>. QED  BY <1>1, HandleInvariant, PTL

(***************************************************************************)
(* Nobody waits for what is there.                                         *)
(***************************************************************************)

(* Who waits after a step that wakes.                                      *)
LEMMA WaitingAfter ==
    ASSUME NEW ws \in [Tasks -> Seq(Waits)], NEW e, NEW base, NEW baseWake, WakeTasks(ws, e, base, baseWake),
           mailbox \in [Tasks -> Seq(Waits)], NEW u \in Tasks
    PROVE  stage'[u] = "parked" /\ mailbox'[u] = <<>> <=> base[u] = "parked" /\ mailbox[u] = <<>> /\ ws[u] = <<>>
<1>. DEFINE mine == [t \in Tasks |-> IF Home[t] = e THEN ws[t] ELSE <<>>]
<1>1. /\ Enqueue(mine, base, baseWake)
      /\ mailbox' = [t \in Tasks |-> IF Home[t] = e THEN mailbox[t] ELSE mailbox[t] \o ws[t]]
  BY DEF WakeTasks
<1>2. mine[u] = IF Home[u] = e THEN ws[u] ELSE <<>>  OBVIOUS
<1>. HIDE DEF mine
<1>3. stage'[u] = IF mine[u] # <<>> THEN "woken" ELSE base[u]  BY <1>1 DEF Enqueue
<1>4. mailbox'[u] = IF Home[u] = e THEN mailbox[u] ELSE mailbox[u] \o ws[u]  BY <1>1
<1>5. mailbox[u] \in Seq(Waits) /\ ws[u] \in Seq(Waits)  OBVIOUS
<1>6. mailbox[u] \o ws[u] = <<>> <=> mailbox[u] = <<>> /\ ws[u] = <<>>  BY <1>5
<1>. QED  BY <1>2, <1>3, <1>4, <1>6

(* Who waits for a channel is in one of its queues.                        *)
LEMMA WaiterIs ==
    ASSUME ClaimInv, NEW u \in Tasks, NEW c \in Channels, NEW kind \in {"send", "receive"}, WaitsTo(u, kind, c)
    PROVE  \/ op[u].kind = "send" /\ kind = "send" /\ u \in Range(sendQ[c])
           \/ op[u].kind = "receive" /\ kind = "receive" /\ u \in Range(recvQ[c])
           \/ op[u].kind = "select" /\ u \in Unclaimed(c)
<1>1. Waiting(u) /\ CasesOf(u, c, kind) # {}  BY DEF WaitsTo
<1>2. PICK i \in DOMAIN op[u].cases : op[u].cases[i] = [kind |-> kind, chan |-> c]  BY <1>1 DEF CasesOf
<1>3. op[u].cases[i].chan = c /\ op[u].cases[i].kind = kind  BY <1>2
<1>4. TaskOK(u)  BY TaskByTask
<1>5. op[u].kind \in {"send", "receive", "select"}
  <2>1. stage[u] = "parked"  BY <1>1 DEF Waiting
  <2>2. op[u].kind # "none"  BY <1>4, <2>1 DEF TaskOK
  <2>. QED  BY <2>2, OpTyped DEF ClaimInv
<1>6. CASE op[u].kind = "select"
  <2>1. u \in Range(selQ[c])  BY <1>1, <1>3, <1>4, <1>6 DEF TaskOK
  <2>2. ~signaled[u]  BY <1>1, <1>4, <1>6 DEF TaskOK, Waiting
  <2>. QED  BY <1>6, <2>1, <2>2 DEF Unclaimed
<1>7. CASE op[u].kind \in {"send", "receive"}
  <2>1. SingleCase(u)  BY <1>4, <1>7 DEF TaskOK
  <2>2. op[u].cases = <<[kind |-> op[u].kind, chan |-> op[u].cases[1].chan]>>  BY <2>1 DEF SingleCase
  <2>3. i = 1 /\ op[u].cases[1].kind = op[u].kind
    <3>. DEFINE x == [kind |-> op[u].kind, chan |-> op[u].cases[1].chan]
    <3>1. x.kind = op[u].kind  OBVIOUS
    <3>2. op[u].cases = <<x>>  BY <2>2
    <3>. HIDE DEF x
    <3>3. DOMAIN <<x>> = {1} /\ <<x>>[1] = x  OBVIOUS
    <3>4. i \in {1}  BY <1>2, <3>2, <3>3
    <3>5. op[u].cases[1] = x  BY <3>2, <3>3
    <3>. QED  BY <3>1, <3>4, <3>5
  <2>4. kind = op[u].kind  BY <1>3, <2>3
  <2>5. /\ op[u].kind = "send" => u \in Range(sendQ[c])
        /\ op[u].kind = "receive" => u \in Range(recvQ[c])
    BY <1>1, <1>3, <1>4 DEF TaskOK
  <2>. QED  BY <1>7, <2>4, <2>5
<1>. QED  BY <1>5, <1>6, <1>7

(* Conversely, whoever is in a queue waits for the channel.                *)
LEMMA QueuedWaits ==
    ASSUME ClaimInv, NEW c \in Channels
    PROVE  /\ \A u \in Range(sendQ[c]) : u \in Tasks /\ WaitsTo(u, "send", c)
           /\ \A u \in Range(recvQ[c]) : u \in Tasks /\ WaitsTo(u, "receive", c)
<1>1. ASSUME NEW u \in Tasks, NEW kind \in {"send", "receive"}, Waiting(u), op[u].kind = kind, op[u].cases[1].chan = c
      PROVE  WaitsTo(u, kind, c)
  <2>1. SingleCase(u)  BY <1>1, TaskByTask DEF TaskOK
  <2>2. op[u].cases = <<[kind |-> kind, chan |-> c]>>  BY <1>1, <2>1 DEF SingleCase
  <2>3. 1 \in DOMAIN op[u].cases /\ op[u].cases[1] = [kind |-> kind, chan |-> c]
    <3>. DEFINE x == [kind |-> kind, chan |-> c]
    <3>1. op[u].cases = <<x>>  BY <2>2
    <3>. HIDE DEF x
    <3>2. 1 \in DOMAIN <<x>> /\ <<x>>[1] = x  OBVIOUS
    <3>3. 1 \in DOMAIN op[u].cases /\ op[u].cases[1] = x  BY <3>1, <3>2
    <3>. QED  BY <3>3 DEF x
  <2>. QED  BY <1>1, <2>3 DEF WaitsTo, CasesOf
<1>2. /\ \A u \in Range(sendQ[c]) : u \in Tasks /\ Waiting(u) /\ op[u].kind = "send" /\ op[u].cases[1].chan = c
      /\ \A u \in Range(recvQ[c]) : u \in Tasks /\ Waiting(u) /\ op[u].kind = "receive" /\ op[u].cases[1].chan = c
  BY QueuedIs
<1>. QED  BY <1>1, <1>2

(* An attempt that leaves on channel c only waiters who are still blocked. *)
StaysBlocked(c, r) ==
    /\ r.buffer \in Seq(Msgs) /\ Len(r.buffer) <= Capacity[c]
    /\ \A u \in Tasks : WaitsTo(u, "send", c) /\ r.wakes[u] = <<>> =>
          receivers[c] # 0 /\ r.recvQ = <<>> /\ Len(r.buffer) = Capacity[c]
    /\ \A u \in Tasks : WaitsTo(u, "receive", c) /\ r.wakes[u] = <<>> =>
          senders[c] # 0 /\ r.sendQ = <<>> /\ r.buffer = <<>>

(* What is known of a channel before the attempt.                          *)
LEMMA BlockedParts ==
    ASSUME BlockInv, NEW c \in Channels
    PROVE  /\ buffer[c] \in Seq(Msgs) /\ Len(buffer[c]) <= Capacity[c] /\ Capacity[c] \in Nat
           /\ \A u \in Tasks : WaitsTo(u, "send", c) =>
                 receivers[c] # 0 /\ recvQ[c] = <<>> /\ Len(buffer[c]) = Capacity[c]
           /\ \A u \in Tasks : WaitsTo(u, "receive", c) =>
                 senders[c] # 0 /\ sendQ[c] = <<>> /\ buffer[c] = <<>>
           /\ \A t, u \in Tasks : WaitsTo(t, "send", c) /\ WaitsTo(u, "receive", c) => t = u
  BY ConstantsAssumption DEF BlockInv, BufferFits, Blocked, NoRoom, NothingThere

LEMMA StaysAsItIs ==
    ASSUME BlockInv, NEW c \in Channels, NEW r, r.buffer = buffer[c], r.sendQ = sendQ[c], r.recvQ = recvQ[c]
    PROVE  StaysBlocked(c, r)
  BY BlockedParts DEF StaysBlocked

LEMMA SignalsWake ==
    ASSUME NEW c \in Channels, NEW u \in Tasks, u \in Unclaimed(c)
    PROVE  Signals(c)[u] # <<>>
<1>1. Wk("event", 0) \in Waits  BY WkIs DEF Statuses
<1>. QED  BY <1>1, WakeEachIs DEF Signals

LEMMA TrySendBlocks ==
    ASSUME ClaimInv, BlockInv, NEW c \in Channels, NEW m \in Msgs
    PROVE  StaysBlocked(c, TrySend(c, m))
<1>. DEFINE r == TrySend(c, m)
<1>1. CASE receivers[c] = 0  BY <1>1, SendClosed, StaysAsItIs
<1>2. CASE receivers[c] # 0 /\ recvQ[c] # <<>>
  <2>1. r.buffer = buffer[c] /\ r.sendQ = sendQ[c]  BY <1>2, SendToReceiver
  <2>2. \A u \in Tasks : ~WaitsTo(u, "send", c)  BY <1>2, BlockedParts
  <2>. HIDE DEF r
  <2>3. StaysBlocked(c, r)  BY <2>1, <2>2, BlockedParts DEF StaysBlocked
  <2>. QED  BY <2>3 DEF r
<1>3. CASE receivers[c] # 0 /\ recvQ[c] = <<>> /\ Matching(c, "receive") # {}
  <2>1. r.buffer = buffer[c] /\ r.sendQ = sendQ[c] /\ r.recvQ = recvQ[c]  BY <1>3, SendToSelect
  <2>. HIDE DEF r
  <2>2. StaysBlocked(c, r)  BY <2>1, StaysAsItIs
  <2>. QED  BY <2>2 DEF r
<1>4. CASE receivers[c] # 0 /\ recvQ[c] = <<>> /\ Matching(c, "receive") = {} /\ Len(buffer[c]) < Capacity[c]
  <2>1. r.buffer = Append(buffer[c], m) /\ r.sendQ = sendQ[c] /\ r.recvQ = recvQ[c] /\ r.wakes = Signals(c)
    BY <1>4, SendToBuffer
  <2>. HIDE DEF r
  <2>2. \A u \in Tasks : ~WaitsTo(u, "send", c)  BY <1>4, BlockedParts
  <2>3. ASSUME NEW u \in Tasks, WaitsTo(u, "receive", c), r.wakes[u] = <<>>  PROVE FALSE
    <3>1. u \notin Range(recvQ[c])  BY <1>4 DEF Range
    <3>2. u \in Unclaimed(c)  BY <2>3, <3>1, WaiterIs
    <3>. QED  BY <2>1, <2>3, <3>2, SignalsWake
  <2>4. r.buffer \in Seq(Msgs) /\ Len(r.buffer) <= Capacity[c]
    <3>1. buffer[c] \in Seq(Msgs) /\ Len(buffer[c]) \in Nat /\ Capacity[c] \in Nat  BY BlockedParts
    <3>. QED  BY <1>4, <2>1, <3>1
  <2>5. StaysBlocked(c, r)  BY <2>2, <2>3, <2>4 DEF StaysBlocked
  <2>. QED  BY <2>5 DEF r
<1>5. CASE receivers[c] # 0 /\ recvQ[c] = <<>> /\ Matching(c, "receive") = {} /\ ~(Len(buffer[c]) < Capacity[c])
  <2>1. r = Attempt(c)  BY <1>5, SendPending
  <2>2. StaysBlocked(c, Attempt(c))  BY FieldsOf, StaysAsItIs
  <2>. QED  BY <2>1, <2>2
<1>. QED  BY <1>1, <1>2, <1>3, <1>4, <1>5

(* The message of a parked sender.                                         *)
LEMMA ParkedMsg ==
    ASSUME ClaimInv, BlockInv, NEW c \in Channels, NEW u \in Range(sendQ[c])
    PROVE  u \in Tasks /\ op[u].msgs[1] \in Msgs /\ DOMAIN op[u].msgs = {1}
<1>1. u \in Tasks /\ op[u].kind = "send"  BY QueuedIs
<1>2. SingleCase(u)  BY <1>1, TaskByTask DEF TaskOK
<1>3. MsgsFit(op[u])  BY <1>1 DEF BlockInv, OpsFit
<1>. DEFINE x == [kind |-> op[u].kind, chan |-> op[u].cases[1].chan]
<1>4. op[u].cases = <<x>> /\ x.kind = "send"  BY <1>1, <1>2 DEF SingleCase
<1>. HIDE DEF x
<1>5. DOMAIN <<x>> = {1} /\ <<x>>[1] = x  OBVIOUS
<1>6. DOMAIN op[u].cases = {1} /\ op[u].cases[1].kind = "send"  BY <1>4, <1>5
<1>. QED  BY <1>1, <1>3, <1>6 DEF MsgsFit

LEMMA TryReceiveBlocks ==
    ASSUME ClaimInv, HandleInv, BlockInv, NEW c \in Channels
    PROVE  StaysBlocked(c, TryReceive(c))
<1>. DEFINE r == TryReceive(c)
<1>0. buffer[c] \in Seq(Msgs) /\ Len(buffer[c]) \in Nat /\ Capacity[c] \in Nat /\ Len(buffer[c]) <= Capacity[c]
  BY BlockedParts
<1>1. CASE buffer[c] # <<>>
  <2>. DEFINE s == Head(sendQ[c])
              w == WakeEach(IF Refills(c) THEN {s} ELSE {}, Wk("ready", 0))
  <2>1. /\ r.recvQ = recvQ[c]
        /\ r.buffer = IF Refills(c) THEN Append(Tail(buffer[c]), op[s].msgs[1]) ELSE Tail(buffer[c])
        /\ r.wakes = AndThen(Signals(c), w)
    BY <1>1, ReceiveFromBuffer
  <2>. HIDE DEF r
  <2>2. \A u \in Tasks : ~WaitsTo(u, "receive", c)  BY <1>1, BlockedParts
  <2>3. receivers[c] # 0 /\ Len(buffer[c]) - 1 < Capacity[c]
    <3>1. receivers[c] # 0  BY <1>1 DEF HandleInv, BufferHasReader
    <3>. QED  BY <1>0, <3>1
  <2>4. Refills(c) <=> sendQ[c] # <<>>  BY <2>3 DEF Refills
  <2>5. Tail(buffer[c]) \in Seq(Msgs) /\ Len(Tail(buffer[c])) = Len(buffer[c]) - 1 /\ Len(buffer[c]) >= 1
    BY <1>0, <1>1
  <2>6. CASE sendQ[c] = <<>>
    <3>1. ASSUME NEW u \in Tasks, WaitsTo(u, "send", c), r.wakes[u] = <<>>  PROVE FALSE
      <4>1. u \notin Range(sendQ[c])  BY <2>6 DEF Range
      <4>2. u \in Unclaimed(c)  BY <3>1, <4>1, WaiterIs
      <4>3. Signals(c)[u] # <<>>  BY <4>2, SignalsWake
      <4>4. Signals(c) \in [Tasks -> Seq(Waits)] /\ w \in [Tasks -> Seq(Waits)] /\ w[u] = <<>>
        <5>1. Wk("event", 0) \in Waits /\ Wk("ready", 0) \in Waits  BY WkIs DEF Statuses
        <5>2. w = WakeEach({}, Wk("ready", 0))  BY <2>4, <2>6
        <5>. QED  BY <5>1, <5>2, WakeEachIs DEF Signals
      <4>. HIDE DEF w
      <4>5. r.wakes[u] = Signals(c)[u]  BY <2>1, <4>4, AndThenIs
      <4>. QED  BY <3>1, <4>3, <4>5
    <3>2. r.buffer \in Seq(Msgs) /\ Len(r.buffer) <= Capacity[c]  BY <1>0, <2>1, <2>4, <2>5, <2>6
    <3>. QED  BY <2>2, <3>1, <3>2 DEF StaysBlocked, r
  <2>7. CASE sendQ[c] # <<>>
    <3>1. s \in Range(sendQ[c])  BY <2>7, QueuedIs, TailOf
    <3>2. s \in Tasks /\ WaitsTo(s, "send", c) /\ op[s].msgs[1] \in Msgs  BY <3>1, QueuedWaits, ParkedMsg
    <3>3. receivers[c] # 0 /\ recvQ[c] = <<>> /\ Len(buffer[c]) = Capacity[c]  BY <3>2, BlockedParts
    <3>4. r.buffer = Append(Tail(buffer[c]), op[s].msgs[1])  BY <2>1, <2>4, <2>7
    <3>. HIDE DEF s, w
    <3>5. r.buffer \in Seq(Msgs) /\ Len(r.buffer) = Len(buffer[c])  BY <1>0, <2>5, <3>2, <3>4
    <3>. QED  BY <1>0, <2>1, <2>2, <3>3, <3>5 DEF StaysBlocked, r
  <2>. QED  BY <2>6, <2>7
<1>2. CASE buffer[c] = <<>> /\ sendQ[c] # <<>>
  <2>1. r.buffer = buffer[c] /\ r.recvQ = recvQ[c]  BY <1>2, ReceiveFromSender
  <2>2. \A u \in Tasks : ~WaitsTo(u, "receive", c)  BY <1>2, BlockedParts
  <2>. HIDE DEF r
  <2>3. StaysBlocked(c, r)  BY <2>1, <2>2, BlockedParts DEF StaysBlocked
  <2>. QED  BY <2>3 DEF r
<1>3. CASE buffer[c] = <<>> /\ sendQ[c] = <<>> /\ Matching(c, "send") # {}
  <2>1. r.buffer = buffer[c] /\ r.sendQ = sendQ[c] /\ r.recvQ = recvQ[c]  BY <1>3, ReceiveFromSelect
  <2>. HIDE DEF r
  <2>2. StaysBlocked(c, r)  BY <2>1, StaysAsItIs
  <2>. QED  BY <2>2 DEF r
<1>4. CASE buffer[c] = <<>> /\ sendQ[c] = <<>> /\ Matching(c, "send") = {} /\ senders[c] = 0
  <2>1. r.buffer = buffer[c] /\ r.sendQ = sendQ[c] /\ r.recvQ = recvQ[c]  BY <1>4, ReceiveClosed
  <2>. HIDE DEF r
  <2>2. StaysBlocked(c, r)  BY <2>1, StaysAsItIs
  <2>. QED  BY <2>2 DEF r
<1>5. CASE buffer[c] = <<>> /\ sendQ[c] = <<>> /\ Matching(c, "send") = {} /\ senders[c] # 0
  <2>1. r = Attempt(c)  BY <1>5, ReceivePending
  <2>2. StaysBlocked(c, Attempt(c))  BY FieldsOf, StaysAsItIs
  <2>. QED  BY <2>1, <2>2
<1>. QED  BY <1>1, <1>2, <1>3, <1>4, <1>5

(* Who waits for a channel after the step of another task.                 *)
LEMMA WaitsAfter ==
    ASSUME NEW ws \in [Tasks -> Seq(Waits)], NEW e, NEW base, NEW baseWake, WakeTasks(ws, e, base, baseWake),
           mailbox \in [Tasks -> Seq(Waits)], NEW u \in Tasks, base[u] = stage[u], op'[u] = op[u],
           NEW d, NEW kind
    PROVE  WaitsTo(u, kind, d)' <=> WaitsTo(u, kind, d) /\ ws[u] = <<>>
<1>1. stage'[u] = "parked" /\ mailbox'[u] = <<>> <=> base[u] = "parked" /\ mailbox[u] = <<>> /\ ws[u] = <<>>
  BY WaitingAfter
<1>2. Waiting(u)' <=> Waiting(u) /\ ws[u] = <<>>  BY <1>1 DEF Waiting
<1>3. CasesOf(u, d, kind)' = CasesOf(u, d, kind)  BY DEF CasesOf
<1>. QED  BY <1>2, <1>3 DEF WaitsTo

LEMMA BusyNext ==
    ASSUME NEW u, stage'[u] # "parked", NEW d, NEW kind
    PROVE  ~WaitsTo(u, kind, d)'
  BY DEF WaitsTo, Waiting

(* A step after which a channel has no new waiter.                         *)
LEMMA NoNewWaiters ==
    ASSUME BlockInv, NEW c \in Channels,
           \A u \in Tasks : /\ WaitsTo(u, "send", c)' => WaitsTo(u, "send", c) /\ NoRoom(c)'
                            /\ WaitsTo(u, "receive", c)' => WaitsTo(u, "receive", c) /\ NothingThere(c)'
    PROVE  Blocked(c)'
<1>1. \A t, u \in Tasks : WaitsTo(t, "send", c) /\ WaitsTo(u, "receive", c) => t = u  BY BlockedParts
<1>. QED  BY <1>1 DEF Blocked

(* One that leaves the channel alone as well.                              *)
LEMMA SameChannel ==
    ASSUME BlockInv, NEW c \in Channels, buffer'[c] = buffer[c], sendQ'[c] = sendQ[c], recvQ'[c] = recvQ[c],
           senders'[c] = senders[c], receivers'[c] = receivers[c],
           \A u \in Tasks : /\ WaitsTo(u, "send", c)' => WaitsTo(u, "send", c)
                            /\ WaitsTo(u, "receive", c)' => WaitsTo(u, "receive", c)
    PROVE  Blocked(c)'
<1>1. \A u \in Tasks : WaitsTo(u, "send", c) => NoRoom(c)  BY DEF BlockInv, Blocked
<1>2. \A u \in Tasks : WaitsTo(u, "receive", c) => NothingThere(c)  BY DEF BlockInv, Blocked
<1>3. NoRoom(c)' <=> NoRoom(c)  BY DEF NoRoom
<1>4. NothingThere(c)' <=> NothingThere(c)  BY DEF NothingThere
<1>5. \A u \in Tasks : /\ WaitsTo(u, "send", c)' => WaitsTo(u, "send", c) /\ NoRoom(c)'
                       /\ WaitsTo(u, "receive", c)' => WaitsTo(u, "receive", c) /\ NothingThere(c)'
  BY <1>1, <1>2, <1>3, <1>4
<1>. QED  BY <1>5, NoNewWaiters

LEMMA NoOpFits == MsgsFit(NoOp)
<1>1. NoOp.msgs = <<>> /\ NoOp.cases = <<>>  BY DEF NoOp
<1>. HIDE DEF NoOp
<1>2. DOMAIN <<>> = {}  OBVIOUS
<1>. QED  BY <1>1, <1>2 DEF MsgsFit

LEMMA OpsStayFit ==
    ASSUME OpsFit, \A u \in Tasks : op'[u] = op[u] \/ MsgsFit(op'[u])
    PROVE  OpsFit'
  BY DEF OpsFit, MsgsFit

(* A step that makes a new buffer of one channel.                          *)
LEMMA BufferStaysFit ==
    ASSUME BufferFits, NEW c \in Channels, NEW q \in Seq(Msgs), Len(q) <= Capacity[c],
           buffer' = [buffer EXCEPT ![c] = q]
    PROVE  BufferFits' /\ buffer'[c] = q /\ \A d \in Channels : d # c => buffer'[d] = buffer[d]
<1>1. buffer \in [Channels -> Seq(Msgs)] /\ \A d \in Channels : Len(buffer[d]) <= Capacity[d]  BY DEF BufferFits
<1>2. buffer' \in [Channels -> Seq(Msgs)] /\ buffer'[c] = q /\ \A d \in Channels : d # c => buffer'[d] = buffer[d]
  BY <1>1
<1>3. \A d \in Channels : Len(buffer'[d]) <= Capacity[d]  BY <1>1, <1>2
<1>. QED  BY <1>2, <1>3 DEF BufferFits

(* A task commits an attempt and goes on.                                  *)
CommitsBlocked(t, c, r, base, baseWake) ==
    /\ Commit(t, c, r, base, baseWake) /\ Claims(c, r) /\ StaysBlocked(c, r)
    /\ stage[t] # "parked" /\ base[t] # "parked"
    /\ \A u \in Tasks \ {t} : base[u] = stage[u]

LEMMA CommitWaiters ==
    ASSUME ClaimInv, NEW t \in Tasks, NEW c \in Channels, NEW r, NEW base, NEW baseWake,
           CommitsBlocked(t, c, r, base, baseWake), \A u \in Tasks \ {t} : op'[u] = op[u],
           NEW u \in Tasks, NEW d, NEW kind, WaitsTo(u, kind, d)'
    PROVE  u # t /\ WaitsTo(u, kind, d) /\ r.wakes[u] = <<>>
<1>. DEFINE ws == r.wakes
            e == Home[t]
<1>1. WakeTasks(ws, e, base, baseWake) /\ ws \in [Tasks -> Seq(Waits)]
  BY DEF CommitsBlocked, Commit, Claims, Sound
<1>. HIDE DEF ws, e
<1>2. mailbox \in [Tasks -> Seq(Waits)]  BY DEF ClaimInv, ClaimType
<1>3. u # t
  <2>1. stage'[u] = "parked" /\ mailbox'[u] = <<>>  BY DEF WaitsTo, Waiting
  <2>2. stage'[u] = "parked" /\ mailbox'[u] = <<>> <=> base[u] = "parked" /\ mailbox[u] = <<>> /\ ws[u] = <<>>
    BY <1>1, <1>2, WaitingAfter
  <2>3. base[u] = "parked"  BY <2>1, <2>2
  <2>. QED  BY <2>3 DEF CommitsBlocked
<1>4. base[u] = stage[u] /\ op'[u] = op[u]  BY <1>3 DEF CommitsBlocked
<1>5. WaitsTo(u, kind, d)' <=> WaitsTo(u, kind, d) /\ ws[u] = <<>>  BY <1>1, <1>2, <1>4, WaitsAfter
<1>. QED  BY <1>3, <1>5 DEF ws

LEMMA CommitBlocks ==
    ASSUME ClaimInv, BlockInv, NEW t \in Tasks, NEW c \in Channels, NEW r, NEW base, NEW baseWake,
           CommitsBlocked(t, c, r, base, baseWake), \A u \in Tasks \ {t} : op'[u] = op[u],
           MsgsFit(op'[t]), senders' = senders, receivers' = receivers
    PROVE  BlockInv'
<1>1. /\ buffer' = [buffer EXCEPT ![c] = r.buffer] /\ sendQ' = [sendQ EXCEPT ![c] = r.sendQ]
      /\ recvQ' = [recvQ EXCEPT ![c] = r.recvQ]
  BY DEF CommitsBlocked, Commit
<1>2. sendQ \in [Channels -> Seq(Tasks)] /\ recvQ \in [Channels -> Seq(Tasks)]  BY DEF ClaimInv, ClaimType
<1>3. StaysBlocked(c, r)  BY DEF CommitsBlocked
<1>4. r.buffer \in Seq(Msgs) /\ Len(r.buffer) <= Capacity[c]  BY <1>3 DEF StaysBlocked
<1>5. BufferFits' /\ buffer'[c] = r.buffer /\ \A d \in Channels : d # c => buffer'[d] = buffer[d]
  BY <1>1, <1>4, BufferStaysFit DEF BlockInv
<1>6. /\ sendQ'[c] = r.sendQ /\ \A d \in Channels : d # c => sendQ'[d] = sendQ[d]
      /\ recvQ'[c] = r.recvQ /\ \A d \in Channels : d # c => recvQ'[d] = recvQ[d]
  BY <1>1, <1>2
<1>7. \A u \in Tasks, d \in Channels, kind \in {"send", "receive"} :
         WaitsTo(u, kind, d)' => WaitsTo(u, kind, d) /\ r.wakes[u] = <<>>
  BY CommitWaiters
<1>8. Blocked(c)'
  <2>1. ASSUME NEW u \in Tasks, WaitsTo(u, "send", c)'  PROVE NoRoom(c)'
    <3>1. WaitsTo(u, "send", c) /\ r.wakes[u] = <<>>  BY <1>7, <2>1
    <3>2. receivers[c] # 0 /\ r.recvQ = <<>> /\ Len(r.buffer) = Capacity[c]  BY <1>3, <3>1 DEF StaysBlocked
    <3>. QED  BY <1>5, <1>6, <3>2 DEF NoRoom
  <2>2. ASSUME NEW u \in Tasks, WaitsTo(u, "receive", c)'  PROVE NothingThere(c)'
    <3>1. WaitsTo(u, "receive", c) /\ r.wakes[u] = <<>>  BY <1>7, <2>2
    <3>2. senders[c] # 0 /\ r.sendQ = <<>> /\ r.buffer = <<>>  BY <1>3, <3>1 DEF StaysBlocked
    <3>. QED  BY <1>5, <1>6, <3>2 DEF NothingThere
  <2>3. \A u \in Tasks : /\ WaitsTo(u, "send", c)' => WaitsTo(u, "send", c) /\ NoRoom(c)'
                         /\ WaitsTo(u, "receive", c)' => WaitsTo(u, "receive", c) /\ NothingThere(c)'
    BY <1>7, <2>1, <2>2
  <2>. QED  BY <2>3, NoNewWaiters
<1>9. ASSUME NEW d \in Channels, d # c  PROVE Blocked(d)'
  <2>1. buffer'[d] = buffer[d] /\ sendQ'[d] = sendQ[d] /\ recvQ'[d] = recvQ[d]  BY <1>5, <1>6, <1>9
  <2>2. \A u \in Tasks : /\ WaitsTo(u, "send", d)' => WaitsTo(u, "send", d)
                         /\ WaitsTo(u, "receive", d)' => WaitsTo(u, "receive", d)
    BY <1>7
  <2>. QED  BY <2>1, <2>2, SameChannel
<1>10. OpsFit'  BY OpsStayFit DEF BlockInv
<1>. QED  BY <1>5, <1>8, <1>9, <1>10 DEF BlockInv

(* A task parks in a send or a receive on c and wakes the selects there.   *)
Parks(t, c, r, o, kind) ==
    /\ Commit(t, c, r, [stage EXCEPT ![t] = "parked"], wake) /\ r.wakes = Signals(c) /\ r.buffer = buffer[c]
    /\ r.sendQ = IF kind = "send" THEN Append(sendQ[c], t) ELSE sendQ[c]
    /\ r.recvQ = IF kind = "receive" THEN Append(recvQ[c], t) ELSE recvQ[c]
    /\ o.cases = <<[kind |-> kind, chan |-> c]>> /\ MsgsFit(o) /\ op' = [op EXCEPT ![t] = o]
    /\ senders' = senders /\ receivers' = receivers

LEMMA ParkWaiters ==
    ASSUME ClaimInv, NEW t \in Tasks, NEW c \in Channels, NEW r, NEW o, NEW kind \in {"send", "receive"},
           Parks(t, c, r, o, kind), NEW u \in Tasks, NEW d \in Channels, NEW k, WaitsTo(u, k, d)'
    PROVE  \/ u = t /\ k = kind /\ d = c
           \/ u # t /\ WaitsTo(u, k, d) /\ u \notin Unclaimed(c)
<1>. DEFINE ws == Signals(c)
            e == Home[t]
            base == [stage EXCEPT ![t] = "parked"]
<1>1. WakeTasks(ws, e, base, wake)  BY DEF Parks, Commit
<1>2. ws \in [Tasks -> Seq(Waits)]
  <2>1. Wk("event", 0) \in Waits  BY WkIs DEF Statuses
  <2>. QED  BY <2>1, WakeEachIs DEF Signals
<1>3. mailbox \in [Tasks -> Seq(Waits)] /\ stage \in [Tasks -> Stages] /\ op \in [Tasks -> Operations]
  BY DEF ClaimInv, ClaimType
<1>4. op' = [op EXCEPT ![t] = o] /\ o.cases = <<[kind |-> kind, chan |-> c]>>  BY DEF Parks
<1>5. CASE u = t
  <2>1. op'[t] = o  BY <1>3, <1>4
  <2>2. PICK i \in DOMAIN o.cases : o.cases[i] = [kind |-> k, chan |-> d]
    BY <1>5, <2>1 DEF WaitsTo, CasesOf
  <2>. DEFINE x == [kind |-> kind, chan |-> c]
  <2>3. o.cases = <<x>> /\ x.kind = kind /\ x.chan = c  BY <1>4
  <2>. HIDE DEF x
  <2>4. DOMAIN <<x>> = {1} /\ <<x>>[1] = x  OBVIOUS
  <2>5. x = [kind |-> k, chan |-> d]  BY <2>2, <2>3, <2>4
  <2>6. x.kind = k /\ x.chan = d  BY <2>5
  <2>. QED  BY <1>5, <2>3, <2>6
<1>6. CASE u # t
  <2>1. base[u] = stage[u] /\ op'[u] = op[u]  BY <1>3, <1>4, <1>6
  <2>. HIDE DEF ws, e, base
  <2>2. WaitsTo(u, k, d)' <=> WaitsTo(u, k, d) /\ ws[u] = <<>>  BY <1>1, <1>2, <1>3, <2>1, WaitsAfter
  <2>3. WaitsTo(u, k, d) /\ ws[u] = <<>>  BY <2>2
  <2>4. u \notin Unclaimed(c)  BY <2>3, SignalsWake DEF ws
  <2>. QED  BY <1>6, <2>3, <2>4
<1>. QED  BY <1>5, <1>6

LEMMA ParkBlocks ==
    ASSUME ClaimInv, BlockInv, NEW t \in Tasks, NEW c \in Channels, NEW r, NEW o, NEW kind \in {"send", "receive"},
           Parks(t, c, r, o, kind), kind = "send" => NoRoom(c), kind = "receive" => NothingThere(c)
    PROVE  BlockInv'
<1>1. /\ buffer' = [buffer EXCEPT ![c] = r.buffer] /\ sendQ' = [sendQ EXCEPT ![c] = r.sendQ]
      /\ recvQ' = [recvQ EXCEPT ![c] = r.recvQ] /\ r.buffer = buffer[c]
      /\ r.sendQ = IF kind = "send" THEN Append(sendQ[c], t) ELSE sendQ[c]
      /\ r.recvQ = IF kind = "receive" THEN Append(recvQ[c], t) ELSE recvQ[c]
      /\ senders' = senders /\ receivers' = receivers /\ MsgsFit(o) /\ op' = [op EXCEPT ![t] = o]
  BY DEF Parks, Commit
<1>2. /\ sendQ \in [Channels -> Seq(Tasks)] /\ recvQ \in [Channels -> Seq(Tasks)]
      /\ op \in [Tasks -> Operations] /\ buffer \in [Channels -> Seq(Msgs)]
  BY DEF ClaimInv, ClaimType, BlockInv, BufferFits
<1>3. buffer' = buffer  BY <1>1, <1>2
<1>4. /\ kind = "send" => recvQ' = recvQ
      /\ kind = "receive" => sendQ' = sendQ
      /\ \A d \in Channels : d # c => sendQ'[d] = sendQ[d] /\ recvQ'[d] = recvQ[d]
  BY <1>1, <1>2
<1>5. \A u \in Tasks : op'[u] = op[u] \/ MsgsFit(op'[u])  BY <1>1, <1>2
<1>6. BufferFits' /\ OpsFit'  BY <1>3, <1>5, OpsStayFit DEF BlockInv, BufferFits
<1>7. \A u \in Tasks, d \in Channels, k \in {"send", "receive"} :
         WaitsTo(u, k, d)' => \/ u = t /\ k = kind /\ d = c
                              \/ u # t /\ WaitsTo(u, k, d) /\ u \notin Unclaimed(c)
  BY ParkWaiters
<1>8. ASSUME NEW d \in Channels, d # c  PROVE Blocked(d)'
  <2>1. sendQ'[d] = sendQ[d] /\ recvQ'[d] = recvQ[d] /\ buffer'[d] = buffer[d]  BY <1>3, <1>4, <1>8
  <2>2. senders'[d] = senders[d] /\ receivers'[d] = receivers[d]  BY <1>1
  <2>3. \A u \in Tasks : /\ WaitsTo(u, "send", d)' => WaitsTo(u, "send", d)
                         /\ WaitsTo(u, "receive", d)' => WaitsTo(u, "receive", d)
    BY <1>7, <1>8
  <2>. QED  BY <2>1, <2>2, <2>3, SameChannel
<1>9. Blocked(c)'
  <2>1. CASE kind = "send"
    <3>1. NoRoom(c)  BY <2>1
    <3>2. NoRoom(c)'  BY <1>1, <1>3, <1>4, <2>1, <3>1 DEF NoRoom
    <3>3. ASSUME NEW u \in Tasks, WaitsTo(u, "receive", c)'  PROVE FALSE
      <4>1. WaitsTo(u, "receive", c) /\ u \notin Unclaimed(c)  BY <1>7, <2>1, <3>3
      <4>2. u \in Range(recvQ[c])  BY <4>1, WaiterIs
      <4>3. recvQ[c] = <<>>  BY <3>1 DEF NoRoom
      <4>. QED  BY <4>2, <4>3 DEF Range
    <3>. QED  BY <3>2, <3>3 DEF Blocked
  <2>2. CASE kind = "receive"
    <3>1. NothingThere(c)  BY <2>2
    <3>2. NothingThere(c)'  BY <1>1, <1>3, <1>4, <2>2, <3>1 DEF NothingThere
    <3>3. ASSUME NEW u \in Tasks, WaitsTo(u, "send", c)'  PROVE FALSE
      <4>1. WaitsTo(u, "send", c) /\ u \notin Unclaimed(c)  BY <1>7, <2>2, <3>3
      <4>2. u \in Range(sendQ[c])  BY <4>1, WaiterIs
      <4>3. sendQ[c] = <<>>  BY <3>1 DEF NothingThere
      <4>. QED  BY <4>2, <4>3 DEF Range
    <3>. QED  BY <3>2, <3>3 DEF Blocked
  <2>. QED  BY <2>1, <2>2
<1>. QED  BY <1>6, <1>8, <1>9 DEF BlockInv

(* Nothing of this changes.                                                *)
LEMMA AsideBlocks ==
    ASSUME BlockInv, UNCHANGED <<buffer, sendQ, recvQ, senders, receivers>>,
           \A u \in Tasks : op'[u] = op[u] \/ MsgsFit(op'[u]),
           \A u \in Tasks, d \in Channels, k \in {"send", "receive"} : WaitsTo(u, k, d)' => WaitsTo(u, k, d)
    PROVE  BlockInv'
<1>1. BufferFits' /\ OpsFit'  BY OpsStayFit DEF BlockInv, BufferFits
<1>2. ASSUME NEW d \in Channels  PROVE Blocked(d)'
  <2>1. \A u \in Tasks : /\ WaitsTo(u, "send", d)' => WaitsTo(u, "send", d)
                         /\ WaitsTo(u, "receive", d)' => WaitsTo(u, "receive", d)
    OBVIOUS
  <2>. QED  BY <2>1, SameChannel
<1>. QED  BY <1>1, <1>2 DEF BlockInv

(* An operation of one case has one message.                               *)
LEMMA SingleFits ==
    ASSUME NEW o, NEW x, NEW m, o.cases = <<x>>, o.msgs = <<m>>, x.kind = "send" => m \in Msgs
    PROVE  MsgsFit(o)
<1>1. DOMAIN <<x>> = {1} /\ <<x>>[1] = x /\ DOMAIN <<m>> = {1} /\ <<m>>[1] = m  OBVIOUS
<1>. QED  BY <1>1 DEF MsgsFit

LEMMA SameWaiters ==
    ASSUME UNCHANGED <<stage, op, mailbox>>, NEW u, NEW d, NEW k
    PROVE  WaitsTo(u, k, d)' => WaitsTo(u, k, d)
  BY DEF WaitsTo, Waiting, CasesOf

LEMMA SendBlocks ==
    ASSUME ClaimInv, BlockInv, NEW t \in Tasks, NEW c \in Channels, Send(t, c)
    PROVE  BlockInv'
<1>. DEFINE m == <<t, started[t] + 1, 1>>
            x == [kind |-> "send", chan |-> c]
            o == [kind |-> "send", cases |-> <<x>>, msgs |-> <<m>>, timed |-> FALSE]
            r == TrySend(c, m)
            s == [r EXCEPT !.sendQ = Append(@, t), !.wakes = Signals(c), !.claimed = Unclaimed(c), !.arrived = <<m>>]
<1>1. ClaimType /\ stage[t] = "ready"  BY DEF ClaimInv, Send, CanStart
<1>2. started[t] + 1 \in 1 .. MaxOps  BY <1>1, CountTyped DEF Send, CanStart
<1>3. m \in Msgs  BY <1>2 DEF Msgs
<1>4. \/ UNCHANGED <<buffer, sendQ, recvQ, senders, receivers, stage, op, mailbox>>
      \/ Commit(t, c, r, stage, wake) /\ op' = op /\ senders' = senders /\ receivers' = receivers
      \/ /\ r.status = "pending" /\ op' = [op EXCEPT ![t] = o] /\ senders' = senders /\ receivers' = receivers
         /\ Commit(t, c, s, [stage EXCEPT ![t] = "parked"], wake)
  BY DEF Send, chanVars
<1>5. Claims(c, r)  BY TrySendClaims
<1>6. StaysBlocked(c, r)  BY <1>3, TrySendBlocks
<1>7. r.status = "pending" => r = Attempt(c) /\ receivers[c] # 0 /\ recvQ[c] = <<>> /\ ~(Len(buffer[c]) < Capacity[c])
  BY SendIsPending
<1>8. r = Attempt(c) => /\ s.wakes = Signals(c) /\ s.buffer = buffer[c]
                        /\ s.sendQ = Append(sendQ[c], t) /\ s.recvQ = recvQ[c]
  BY DEF Attempt
<1>9. o.cases = <<x>> /\ o.msgs = <<m>>  OBVIOUS
<1>. HIDE DEF m, r, s, o
<1>10. MsgsFit(o)
  <2>. HIDE DEF x
  <2>. QED  BY <1>3, <1>9, SingleFits
<1>11. CASE UNCHANGED <<buffer, sendQ, recvQ, senders, receivers, stage, op, mailbox>>
  <2>1. \A u \in Tasks, d \in Channels, k \in {"send", "receive"} : WaitsTo(u, k, d)' => WaitsTo(u, k, d)
    BY <1>11, SameWaiters
  <2>. QED  BY <1>11, <2>1, AsideBlocks
<1>12. CASE Commit(t, c, r, stage, wake) /\ op' = op /\ senders' = senders /\ receivers' = receivers
  <2>1. CommitsBlocked(t, c, r, stage, wake)  BY <1>1, <1>5, <1>6, <1>12 DEF CommitsBlocked
  <2>2. MsgsFit(op'[t])  BY <1>12 DEF BlockInv, OpsFit
  <2>. QED  BY <1>12, <2>1, <2>2, CommitBlocks
<1>13. CASE /\ r.status = "pending" /\ op' = [op EXCEPT ![t] = o] /\ senders' = senders /\ receivers' = receivers
            /\ Commit(t, c, s, [stage EXCEPT ![t] = "parked"], wake)
  <2>1. Parks(t, c, s, o, "send")  BY <1>7, <1>8, <1>9, <1>10, <1>13 DEF Parks
  <2>2. NoRoom(c)
    <3>1. /\ Len(buffer[c]) \in Nat /\ Capacity[c] \in Nat /\ Len(buffer[c]) <= Capacity[c]
      BY BlockedParts
    <3>. QED  BY <1>7, <1>13, <3>1 DEF NoRoom
  <2>. QED  BY <2>1, <2>2, ParkBlocks
<1>. QED  BY <1>4, <1>11, <1>12, <1>13

LEMMA ReceiveBlocks ==
    ASSUME ClaimInv, HandleInv, BlockInv, NEW t \in Tasks, NEW c \in Channels, Receive(t, c)
    PROVE  BlockInv'
<1>. DEFINE x == [kind |-> "receive", chan |-> c]
            o == [kind |-> "receive", msgs |-> <<NoMsg>>, timed |-> FALSE, cases |-> <<x>>]
            r == TryReceive(c)
            s == [r EXCEPT !.recvQ = Append(@, t), !.wakes = Signals(c), !.claimed = Unclaimed(c)]
<1>1. stage[t] = "ready"  BY DEF Receive, CanStart
<1>4. \/ UNCHANGED <<buffer, sendQ, recvQ, senders, receivers, stage, op, mailbox>>
      \/ Commit(t, c, r, stage, wake) /\ op' = op /\ senders' = senders /\ receivers' = receivers
      \/ /\ r.status = "pending" /\ op' = [op EXCEPT ![t] = o] /\ senders' = senders /\ receivers' = receivers
         /\ Commit(t, c, s, [stage EXCEPT ![t] = "parked"], wake)
  BY DEF Receive, chanVars
<1>5. Claims(c, r)  BY TryReceiveClaims
<1>6. StaysBlocked(c, r)  BY TryReceiveBlocks
<1>7. r.status = "pending" => r = Attempt(c) /\ senders[c] # 0 /\ sendQ[c] = <<>> /\ buffer[c] = <<>>
  BY ReceiveIsPending
<1>8. r = Attempt(c) => /\ s.wakes = Signals(c) /\ s.buffer = buffer[c]
                        /\ s.sendQ = sendQ[c] /\ s.recvQ = Append(recvQ[c], t)
  BY DEF Attempt
<1>9. o.cases = <<x>> /\ o.msgs = <<NoMsg>> /\ x.kind # "send"  OBVIOUS
<1>. HIDE DEF r, s, o
<1>10. MsgsFit(o)
  <2>. HIDE DEF x
  <2>. QED  BY <1>9, SingleFits
<1>11. CASE UNCHANGED <<buffer, sendQ, recvQ, senders, receivers, stage, op, mailbox>>
  <2>1. \A u \in Tasks, d \in Channels, k \in {"send", "receive"} : WaitsTo(u, k, d)' => WaitsTo(u, k, d)
    BY <1>11, SameWaiters
  <2>. QED  BY <1>11, <2>1, AsideBlocks
<1>12. CASE Commit(t, c, r, stage, wake) /\ op' = op /\ senders' = senders /\ receivers' = receivers
  <2>1. CommitsBlocked(t, c, r, stage, wake)  BY <1>1, <1>5, <1>6, <1>12 DEF CommitsBlocked
  <2>2. MsgsFit(op'[t])  BY <1>12 DEF BlockInv, OpsFit
  <2>. QED  BY <1>12, <2>1, <2>2, CommitBlocks
<1>13. CASE /\ r.status = "pending" /\ op' = [op EXCEPT ![t] = o] /\ senders' = senders /\ receivers' = receivers
            /\ Commit(t, c, s, [stage EXCEPT ![t] = "parked"], wake)
  <2>1. Parks(t, c, s, o, "receive")  BY <1>7, <1>8, <1>9, <1>10, <1>13 DEF Parks
  <2>2. NothingThere(c)  BY <1>7, <1>13 DEF NothingThere
  <2>. QED  BY <2>1, <2>2, ParkBlocks
<1>. QED  BY <1>4, <1>11, <1>12, <1>13

(* A select registers with all its channels when every case is pending.    *)
LEMMA PollBlocks ==
    ASSUME ClaimInv, HandleInv, BlockInv, NEW t \in Tasks, stage[t] \in {"ready", "repoll"},
           NEW o \in Operations, MsgsFit(o), NEW late, PollCases(t, o, late), senders' = senders, receivers' = receivers
    PROVE  BlockInv'
<1>1. /\ op \in [Tasks -> Operations] /\ stage \in [Tasks -> Stages]
  BY DEF ClaimInv, ClaimType
<1>2. o.cases \in Seq(Case)  BY DEF Operations
<1>3. \A i \in DOMAIN o.cases : o.cases[i].chan \in Channels /\ o.cases[i].kind \in {"send", "receive"}
  <2>1. \A i \in DOMAIN o.cases : o.cases[i] \in Case  BY <1>2
  <2>. QED  BY <2>1 DEF Case
<1>4. ASSUME NEW d \in Channels, NEW k \in {"send", "receive"}, NEW u \in Tasks \ {t},
             stage' = [stage EXCEPT ![t] = "parked"] \/ stage' = [stage EXCEPT ![t] = "ready"],
             op' = [op EXCEPT ![t] = o] \/ op' = [op EXCEPT ![t] = NoOp], mailbox' = mailbox, WaitsTo(u, k, d)'
      PROVE  WaitsTo(u, k, d)
  <2>1. op'[u] = op[u] /\ stage'[u] = stage[u]  BY <1>1, <1>4
  <2>. QED  BY <1>4, <2>1 DEF WaitsTo, Waiting, CasesOf
<1>5. ASSUME Eligible(o) # {}, op' = [op EXCEPT ![t] = NoOp],
             LET i == CHOOSE i \in Eligible(o) : \A j \in Eligible(o) : i <= j
                 r == AttemptCase(o, i)
             IN  Commit(t, o.cases[i].chan, r, [stage EXCEPT ![t] = "ready"], [wake EXCEPT ![t] = NoWake])
      PROVE  BlockInv'
  <2>. DEFINE i == CHOOSE i \in Eligible(o) : \A j \in Eligible(o) : i <= j
              r == AttemptCase(o, i)
              d == o.cases[i].chan
              base == [stage EXCEPT ![t] = "ready"]
              baseWake == [wake EXCEPT ![t] = NoWake]
  <2>1. Commit(t, d, r, base, baseWake)  BY <1>5
  <2>2. Eligible(o) \subseteq Nat  BY <1>2 DEF Eligible
  <2>3. \E k \in Eligible(o) : \A j \in Eligible(o) : k <= j  BY <1>5, <2>2, LeastOf
  <2>4. i \in Eligible(o)  BY <2>3
  <2>5. i \in DOMAIN o.cases  BY <2>4 DEF Eligible
  <2>. HIDE DEF i
  <2>6. d \in Channels /\ Claims(d, r)  BY <2>5, AttemptCaseClaims
  <2>7. StaysBlocked(d, r)
    <3>1. o.cases[i].kind = "send" => o.msgs[i] \in Msgs  BY <2>5 DEF MsgsFit
    <3>. QED  BY <2>6, <3>1, TrySendBlocks, TryReceiveBlocks DEF AttemptCase
  <2>8. base[t] = "ready" /\ \A u \in Tasks \ {t} : base[u] = stage[u]  BY <1>1
  <2>. HIDE DEF r, d, base, baseWake
  <2>9. CommitsBlocked(t, d, r, base, baseWake)  BY <2>1, <2>6, <2>7, <2>8 DEF CommitsBlocked
  <2>10. op'[t] = NoOp /\ \A u \in Tasks \ {t} : op'[u] = op[u]  BY <1>1, <1>5
  <2>11. MsgsFit(op'[t])  BY <2>10, NoOpFits
  <2>. QED  BY <2>6, <2>9, <2>10, <2>11, CommitBlocks
<1>6. ASSUME Eligible(o) = {}, stage' = [stage EXCEPT ![t] = "parked"], op' = [op EXCEPT ![t] = o],
             UNCHANGED <<buffer, sendQ, recvQ, mailbox>>
      PROVE  BlockInv'
  <2>1. op'[t] = o  BY <1>1, <1>6
  <2>2. \A u \in Tasks : op'[u] = op[u] \/ MsgsFit(op'[u])  BY <1>1, <1>6
  <2>3. BufferFits' /\ OpsFit'  BY <1>6, <2>2, OpsStayFit DEF BlockInv, BufferFits
  <2>4. ASSUME NEW c \in Channels  PROVE Blocked(c)'
    <3>1. ASSUME NEW k \in {"send", "receive"}, WaitsTo(t, k, c)'
          PROVE  \E i \in DOMAIN o.cases : /\ o.cases[i].kind = k /\ o.cases[i].chan = c
                                           /\ AttemptCase(o, i).status = "pending"
      <4>1. PICK i \in DOMAIN o.cases : o.cases[i] = [kind |-> k, chan |-> c]
        BY <2>1, <3>1 DEF WaitsTo, CasesOf
      <4>2. AttemptCase(o, i).status = "pending"  BY <1>6 DEF Eligible
      <4>. QED  BY <4>1, <4>2
    <3>2. WaitsTo(t, "send", c)' => NoRoom(c) /\ Matching(c, "receive") = {}
      <4>. SUFFICES ASSUME WaitsTo(t, "send", c)'  PROVE NoRoom(c) /\ Matching(c, "receive") = {}
        OBVIOUS
      <4>1. PICK i \in DOMAIN o.cases : /\ o.cases[i].kind = "send" /\ o.cases[i].chan = c
                                        /\ AttemptCase(o, i).status = "pending"
        BY <3>1
      <4>2. TrySend(c, o.msgs[i]).status = "pending"  BY <4>1 DEF AttemptCase
      <4>3. receivers[c] # 0 /\ recvQ[c] = <<>> /\ Matching(c, "receive") = {} /\ ~(Len(buffer[c]) < Capacity[c])
        BY <4>2, SendIsPending
      <4>4. Len(buffer[c]) \in Nat /\ Capacity[c] \in Nat /\ Len(buffer[c]) <= Capacity[c]  BY BlockedParts
      <4>. QED  BY <4>3, <4>4 DEF NoRoom
    <3>3. WaitsTo(t, "receive", c)' => NothingThere(c) /\ Matching(c, "send") = {}
      <4>. SUFFICES ASSUME WaitsTo(t, "receive", c)'  PROVE NothingThere(c) /\ Matching(c, "send") = {}
        OBVIOUS
      <4>1. PICK i \in DOMAIN o.cases : /\ o.cases[i].kind = "receive" /\ o.cases[i].chan = c
                                        /\ AttemptCase(o, i).status = "pending"
        BY <3>1
      <4>2. TryReceive(c).status = "pending"  BY <4>1 DEF AttemptCase
      <4>3. senders[c] # 0 /\ sendQ[c] = <<>> /\ buffer[c] = <<>> /\ Matching(c, "send") = {}
        BY <4>2, ReceiveIsPending
      <4>. QED  BY <4>3 DEF NothingThere
    <3>4. \A u \in Tasks \ {t}, k \in {"send", "receive"} : WaitsTo(u, k, c)' => WaitsTo(u, k, c)
      BY <1>4, <1>6
    <3>5. (NoRoom(c)' <=> NoRoom(c)) /\ (NothingThere(c)' <=> NothingThere(c))
      BY <1>6 DEF NoRoom, NothingThere
    <3>6. ASSUME NEW u \in Tasks, NEW k \in {"send", "receive"}, WaitsTo(u, k, c), Matching(c, k) = {}
          PROVE  u \in Range(sendQ[c]) \cup Range(recvQ[c])
      <4>1. u \notin Unclaimed(c)
        <5>1. SUFFICES ASSUME u \in Unclaimed(c)  PROVE FALSE  OBVIOUS
        <5>2. u \in Range(selQ[c]) /\ ~signaled[u]  BY <5>1 DEF Unclaimed
        <5>3. PICK i \in DOMAIN selQ[c] : selQ[c][i] = u  BY <5>2 DEF Range
        <5>4. CasesOf(u, c, k) # {}  BY <3>6 DEF WaitsTo
        <5>5. i \in Matching(c, k)  BY <5>2, <5>3, <5>4 DEF Matching
        <5>. QED  BY <3>6, <5>5
      <4>. QED  BY <3>6, <4>1, WaiterIs
    <3>7. ASSUME NEW u \in Tasks, u # t, WaitsTo(t, "send", c)', WaitsTo(u, "receive", c)'  PROVE FALSE
      <4>1. WaitsTo(u, "receive", c)  BY <3>4, <3>7
      <4>2. NoRoom(c) /\ Matching(c, "receive") = {}  BY <3>2, <3>7
      <4>3. NothingThere(c)  BY <4>1 DEF BlockInv, Blocked
      <4>4. u \in Range(sendQ[c]) \cup Range(recvQ[c])  BY <3>6, <4>1, <4>2
      <4>5. sendQ[c] = <<>> /\ recvQ[c] = <<>>  BY <4>2, <4>3 DEF NoRoom, NothingThere
      <4>. QED  BY <4>4, <4>5 DEF Range
    <3>8. ASSUME NEW u \in Tasks, u # t, WaitsTo(t, "receive", c)', WaitsTo(u, "send", c)'  PROVE FALSE
      <4>1. WaitsTo(u, "send", c)  BY <3>4, <3>8
      <4>2. NothingThere(c) /\ Matching(c, "send") = {}  BY <3>3, <3>8
      <4>3. NoRoom(c)  BY <4>1 DEF BlockInv, Blocked
      <4>4. u \in Range(sendQ[c]) \cup Range(recvQ[c])  BY <3>6, <4>1, <4>2
      <4>5. sendQ[c] = <<>> /\ recvQ[c] = <<>>  BY <4>2, <4>3 DEF NoRoom, NothingThere
      <4>. QED  BY <4>4, <4>5 DEF Range
    <3>9. /\ \A u \in Tasks : WaitsTo(u, "send", c) => NoRoom(c)
          /\ \A u \in Tasks : WaitsTo(u, "receive", c) => NothingThere(c)
          /\ \A u, v \in Tasks : WaitsTo(u, "send", c) /\ WaitsTo(v, "receive", c) => u = v
      BY DEF BlockInv, Blocked
    <3>10. \A u \in Tasks : WaitsTo(u, "send", c)' => NoRoom(c)'  BY <3>2, <3>4, <3>5, <3>9
    <3>11. \A u \in Tasks : WaitsTo(u, "receive", c)' => NothingThere(c)'  BY <3>3, <3>4, <3>5, <3>9
    <3>12. \A u, v \in Tasks : WaitsTo(u, "send", c)' /\ WaitsTo(v, "receive", c)' => u = v
      BY <3>4, <3>7, <3>8, <3>9
    <3>. QED  BY <3>10, <3>11, <3>12 DEF Blocked
  <2>. QED  BY <2>3, <2>4 DEF BlockInv
<1>7. ASSUME stage' = [stage EXCEPT ![t] = "ready"], op' = [op EXCEPT ![t] = NoOp],
             UNCHANGED <<buffer, sendQ, recvQ, mailbox>>
      PROVE  BlockInv'
  <2>1. \A u \in Tasks : op'[u] = op[u] \/ MsgsFit(op'[u])  BY <1>1, <1>7, NoOpFits
  <2>2. stage'[t] # "parked"  BY <1>1, <1>7
  <2>3. \A u \in Tasks, d \in Channels, k \in {"send", "receive"} : WaitsTo(u, k, d)' => WaitsTo(u, k, d)
    BY <1>4, <1>7, <2>2, BusyNext
  <2>. QED  BY <1>7, <2>1, <2>3, AsideBlocks
<1>. QED  BY <1>5, <1>6, <1>7 DEF PollCases, Finish

LEMMA SelectBlocks ==
    ASSUME ClaimInv, HandleInv, BlockInv, NEW t \in Tasks, NEW s \in Selects, NEW timed \in BOOLEAN,
           NEW late \in BOOLEAN, Select(t, s, timed, late)
    PROVE  BlockInv'
<1>1. ClaimType /\ stage[t] = "ready"  BY DEF ClaimInv, Select, CanStart
<1>2. started[t] + 1 \in 1 .. MaxOps  BY <1>1, CountTyped DEF Select, CanStart
<1>3. SelectOp(t, s, timed) \in Operations  BY <1>2, SelectOpTyped
<1>4. MsgsFit(SelectOp(t, s, timed))
  <2>. DEFINE g == [i \in DOMAIN s |-> IF s[i].kind = "send" THEN <<t, started[t] + 1, i>> ELSE NoMsg]
              o == SelectOp(t, s, timed)
  <2>1. o.cases = s /\ o.msgs = g  BY DEF SelectOp
  <2>2. s \in Seq(Case)  BY ConstantsAssumption
  <2>3. DOMAIN s = 1 .. Len(s) /\ Len(s) \in Nat  BY <2>2
  <2>4. \A i \in DOMAIN s : <<t, started[t] + 1, i>> \in Msgs  BY <1>2, <2>3 DEF Msgs
  <2>5. DOMAIN g = DOMAIN s /\ \A i \in DOMAIN s : s[i].kind = "send" => g[i] \in Msgs  BY <2>4
  <2>. HIDE DEF o, g
  <2>6. MsgsFit(o)  BY <2>1, <2>5 DEF MsgsFit
  <2>. QED  BY <2>6 DEF o
<1>5. PollCases(t, SelectOp(t, s, timed), late)  BY DEF Select, SelectOp
<1>6. senders' = senders /\ receivers' = receivers  BY DEF Select
<1>. QED  BY <1>1, <1>3, <1>4, <1>5, <1>6, PollBlocks

LEMMA RepollBlocks ==
    ASSUME ClaimInv, HandleInv, BlockInv, NEW t \in Tasks, Repoll(t)
    PROVE  BlockInv'
<1>1. stage[t] = "repoll" /\ op[t] \in Operations  BY DEF Repoll, ClaimInv, ClaimType
<1>2. MsgsFit(op[t])  BY DEF BlockInv, OpsFit
<1>3. PollCases(t, op[t], expired[t]) /\ senders' = senders /\ receivers' = receivers  BY DEF Repoll
<1>. QED  BY <1>1, <1>2, <1>3, PollBlocks

(* A task that leaves its wait, or was not in one.                         *)
LEMMA MoveBlocks ==
    ASSUME ClaimInv, BlockInv, NEW t \in Tasks, NEW s, s # "parked", stage' = [stage EXCEPT ![t] = s],
           op' = op \/ op' = [op EXCEPT ![t] = NoOp], UNCHANGED <<buffer, sendQ, recvQ, senders, receivers, mailbox>>
    PROVE  BlockInv'
<1>1. op \in [Tasks -> Operations] /\ stage \in [Tasks -> Stages]  BY DEF ClaimInv, ClaimType
<1>2. \A u \in Tasks : op'[u] = op[u] \/ MsgsFit(op'[u])  BY <1>1, NoOpFits
<1>3. ASSUME NEW u \in Tasks, NEW d \in Channels, NEW k \in {"send", "receive"}, WaitsTo(u, k, d)'
      PROVE  WaitsTo(u, k, d)
  <2>1. stage'[t] # "parked"  BY <1>1
  <2>2. u # t  BY <1>3, <2>1 DEF WaitsTo, Waiting
  <2>3. op'[u] = op[u] /\ stage'[u] = stage[u]  BY <1>1, <2>2
  <2>. QED  BY <1>3, <2>3 DEF WaitsTo, Waiting, CasesOf
<1>. QED  BY <1>2, <1>3, AsideBlocks

LEMMA DrainBlocks ==
    ASSUME ClaimInv, BlockInv, NEW e \in Executors, Drain(e)
    PROVE  BlockInv'
<1>. DEFINE mine == [t \in Tasks |-> IF Home[t] = e THEN mailbox[t] ELSE <<>>]
<1>1. Enqueue(mine, stage, wake) /\ mailbox' = [t \in Tasks |-> IF Home[t] = e THEN <<>> ELSE mailbox[t]]
  BY DEF Drain
<1>2. UNCHANGED <<buffer, sendQ, recvQ, senders, receivers, op>>  BY DEF Drain, chanVars
<1>3. ASSUME NEW u \in Tasks, NEW d \in Channels, NEW k \in {"send", "receive"}, WaitsTo(u, k, d)'
      PROVE  WaitsTo(u, k, d)
  <2>1. mine[u] = IF Home[u] = e THEN mailbox[u] ELSE <<>>  OBVIOUS
  <2>. HIDE DEF mine
  <2>2. stage'[u] = IF mine[u] # <<>> THEN "woken" ELSE stage[u]  BY <1>1 DEF Enqueue
  <2>3. mailbox'[u] = IF Home[u] = e THEN <<>> ELSE mailbox[u]  BY <1>1
  <2>4. stage'[u] = "parked" /\ mailbox'[u] = <<>>  BY <1>3 DEF WaitsTo, Waiting
  <2>5. stage[u] = "parked" /\ mailbox[u] = <<>>  BY <2>1, <2>2, <2>3, <2>4
  <2>. QED  BY <1>2, <1>3, <2>5 DEF WaitsTo, Waiting, CasesOf
<1>. QED  BY <1>2, <1>3, AsideBlocks

(* A step that wakes, and may empty queues and move the counts.            *)
Wakes(ws, e, base) ==
    /\ ws \in [Tasks -> Seq(Waits)] /\ WakeTasks(ws, e, base, wake) /\ op' = op
    /\ \A u \in Tasks : base[u] = stage[u] \/ base[u] # "parked"

LEMMA WakesWaiters ==
    ASSUME ClaimInv, NEW ws, NEW e, NEW base, Wakes(ws, e, base), NEW u \in Tasks, NEW d, NEW k, WaitsTo(u, k, d)'
    PROVE  WaitsTo(u, k, d) /\ ws[u] = <<>>
<1>1. ws \in [Tasks -> Seq(Waits)] /\ WakeTasks(ws, e, base, wake) /\ op'[u] = op[u]  BY DEF Wakes
<1>2. mailbox \in [Tasks -> Seq(Waits)]  BY DEF ClaimInv, ClaimType
<1>3. stage'[u] = "parked" /\ mailbox'[u] = <<>> <=> base[u] = "parked" /\ mailbox[u] = <<>> /\ ws[u] = <<>>
  BY <1>1, <1>2, WaitingAfter
<1>4. base[u] = stage[u]  BY <1>3 DEF WaitsTo, Waiting, Wakes
<1>5. WaitsTo(u, k, d)' <=> WaitsTo(u, k, d) /\ ws[u] = <<>>  BY <1>1, <1>2, <1>4, WaitsAfter
<1>. QED  BY <1>5

LEMMA WakesBlocks ==
    ASSUME ClaimInv, BlockInv, NEW ws, NEW e, NEW base, Wakes(ws, e, base), BufferFits',
           \A d \in Channels : \A u \in Tasks :
              /\ WaitsTo(u, "send", d) /\ ws[u] = <<>> => NoRoom(d)'
              /\ WaitsTo(u, "receive", d) /\ ws[u] = <<>> => NothingThere(d)'
    PROVE  BlockInv'
<1>1. OpsFit'  BY DEF BlockInv, OpsFit, Wakes, MsgsFit
<1>2. \A u \in Tasks, d \in Channels, k \in {"send", "receive"} : WaitsTo(u, k, d)' => WaitsTo(u, k, d) /\ ws[u] = <<>>
  BY WakesWaiters
<1>3. ASSUME NEW d \in Channels  PROVE Blocked(d)'
  <2>1. \A u \in Tasks : /\ WaitsTo(u, "send", d)' => WaitsTo(u, "send", d) /\ NoRoom(d)'
                         /\ WaitsTo(u, "receive", d)' => WaitsTo(u, "receive", d) /\ NothingThere(d)'
    BY <1>2
  <2>. QED  BY <2>1, NoNewWaiters
<1>. QED  BY <1>1, <1>3 DEF BlockInv

LEMMA WakeExpiredBlocks ==
    ASSUME ClaimInv, BlockInv, NEW e \in Executors, WakeExpired(e)
    PROVE  BlockInv'
<1>. DEFINE ws == WakeEach(Late(e), Wk("timeout", 0))
<1>1. ws \in [Tasks -> Seq(Waits)]
  <2>1. Wk("timeout", 0) \in Waits  BY WkIs DEF Statuses
  <2>. QED  BY <2>1, WakeEachIs
<1>2. WakeTasks(ws, e, stage, wake) /\ UNCHANGED <<buffer, sendQ, recvQ, senders, receivers, op>>
  BY DEF WakeExpired, chanVars
<1>. HIDE DEF ws
<1>3. Wakes(ws, e, stage)  BY <1>1, <1>2 DEF Wakes
<1>4. BufferFits'  BY <1>2 DEF BlockInv, BufferFits
<1>5. \A d \in Channels : \A u \in Tasks :
              /\ WaitsTo(u, "send", d) /\ ws[u] = <<>> => NoRoom(d)'
              /\ WaitsTo(u, "receive", d) /\ ws[u] = <<>> => NothingThere(d)'
  BY <1>2 DEF BlockInv, Blocked, NoRoom, NothingThere
<1>. QED  BY <1>3, <1>4, <1>5, WakesBlocks

LEMMA CancelBlocks ==
    ASSUME ClaimInv, BlockInv, NEW t \in Tasks, Cancel(t)
    PROVE  BlockInv'
<1>. DEFINE c == op[t].cases[1].chan
            removed == /\ stage[t] = "parked" /\ op[t].kind \in {"send", "receive"}
                       /\ t \in Range(sendQ[c]) \cup Range(recvQ[c])
            claimed == Claimable(t)
            ws == WakeEach(IF removed \/ claimed THEN {t} ELSE {}, Wk("cancelled", 0))
            e == Home[t]
<1>1. /\ sendQ' = IF removed /\ t \in Range(sendQ[c]) THEN [sendQ EXCEPT ![c] = Without(@, t)] ELSE sendQ
      /\ recvQ' = IF removed /\ t \in Range(recvQ[c]) THEN [recvQ EXCEPT ![c] = Without(@, t)] ELSE recvQ
      /\ WakeTasks(ws, e, stage, wake)
      /\ UNCHANGED <<buffer, senders, receivers, op>>
  BY DEF Cancel
<1>2. ws \in [Tasks -> Seq(Waits)]
  <2>1. Wk("cancelled", 0) \in Waits  BY WkIs DEF Statuses
  <2>. QED  BY <2>1, WakeEachIs
<1>. HIDE DEF ws, e, removed, c
<1>3. sendQ \in [Channels -> Seq(Tasks)] /\ recvQ \in [Channels -> Seq(Tasks)]  BY DEF ClaimInv, ClaimType
<1>4. Range(<<>>) = {}  BY DEF Range
<1>5. \A d \in Channels : /\ sendQ[d] = <<>> => sendQ'[d] = <<>>
                          /\ recvQ[d] = <<>> => recvQ'[d] = <<>>
  <2>. TAKE d \in Channels
  <2>1. CASE d # c  BY <1>1, <1>3, <2>1
  <2>2. CASE d = c  BY <1>1, <1>4, <2>2
  <2>. QED  BY <2>1, <2>2
<1>6. Wakes(ws, e, stage)  BY <1>1, <1>2 DEF Wakes
<1>7. BufferFits'  BY <1>1 DEF BlockInv, BufferFits
<1>8. \A d \in Channels : \A u \in Tasks :
              /\ WaitsTo(u, "send", d) /\ ws[u] = <<>> => NoRoom(d)'
              /\ WaitsTo(u, "receive", d) /\ ws[u] = <<>> => NothingThere(d)'
  BY <1>1, <1>5 DEF BlockInv, Blocked, NoRoom, NothingThere
<1>. QED  BY <1>6, <1>7, <1>8, WakesBlocks

(* The last sender wakes whoever waits to receive.                         *)
LEMMA DropSenderBlocks ==
    ASSUME ClaimInv, HandleInv, BlockInv, NEW t \in Tasks, NEW c \in Channels, DropSender(t, c)
    PROVE  BlockInv'
<1>. DEFINE last == senders[c] = 1
            ws == IF last THEN AndThen(ClosedWakes(recvQ[c]), Signals(c)) ELSE NoWakes
            e == Home[t]
<1>1. /\ recvQ' = IF last THEN [recvQ EXCEPT ![c] = <<>>] ELSE recvQ
      /\ senders' = [senders EXCEPT ![c] = @ - 1]
      /\ signaled' = [u \in Tasks |-> signaled[u] \/ (last /\ u \in Range(selQ[c]))]
      /\ WakeTasks(ws, e, stage, wake)
      /\ UNCHANGED <<buffer, sendQ, receivers, op>>
  BY DEF DropSender
<1>2. last \in BOOLEAN  OBVIOUS
<1>3. /\ senders \in [Channels -> Nat] /\ recvQ \in [Channels -> Seq(Tasks)]
  BY HandleParts DEF ClaimInv, ClaimType
<1>4. senders[c] # 0  BY OwnedIsLive DEF DropSender
<1>5. /\ \A d \in Channels : d # c => senders'[d] = senders[d]
      /\ ~last => senders'[c] # 0
  BY <1>1, <1>3, <1>4
<1>. HIDE DEF last, e
<1>6. /\ Sound(ws) /\ \A u \in Tasks : ws[u] # <<>> <=> last /\ u \in Range(recvQ[c]) \cup Unclaimed(c)
  BY <1>1, <1>2, DropIs
<1>. HIDE DEF ws
<1>7. \A d \in Channels : recvQ[d] = <<>> => recvQ'[d] = <<>>  BY <1>1, <1>3
<1>8. Wakes(ws, e, stage)  BY <1>1, <1>6 DEF Wakes, Sound
<1>9. BufferFits'  BY <1>1 DEF BlockInv, BufferFits
<1>10. ASSUME NEW d \in Channels, NEW u \in Tasks
       PROVE  /\ WaitsTo(u, "send", d) /\ ws[u] = <<>> => NoRoom(d)'
              /\ WaitsTo(u, "receive", d) /\ ws[u] = <<>> => NothingThere(d)'
  <2>1. WaitsTo(u, "send", d) => NoRoom(d)'  BY <1>1, <1>7 DEF BlockInv, Blocked, NoRoom
  <2>2. ASSUME WaitsTo(u, "receive", d), ws[u] = <<>>  PROVE NothingThere(d)'
    <3>1. NothingThere(d)  BY <2>2 DEF BlockInv, Blocked
    <3>2. d # c \/ ~last
      <4>1. d = c => u \in Range(recvQ[c]) \cup Unclaimed(c)  BY <2>2, WaiterIs
      <4>. QED  BY <1>6, <2>2, <4>1
    <3>3. senders'[d] # 0  BY <1>5, <3>1, <3>2 DEF NothingThere
    <3>. QED  BY <1>1, <3>1, <3>3 DEF NothingThere
  <2>. QED  BY <2>1, <2>2
<1>. QED  BY <1>8, <1>9, <1>10, WakesBlocks

(* The last receiver wakes whoever waits to send.                          *)
LEMMA DropReceiverBlocks ==
    ASSUME ClaimInv, HandleInv, BlockInv, NEW t \in Tasks, NEW c \in Channels, DropReceiver(t, c)
    PROVE  BlockInv'
<1>. DEFINE last == receivers[c] = 1
            hold == last /\ buffer[c] # <<>>
            ws == IF last THEN AndThen(ClosedWakes(sendQ[c]), Signals(c)) ELSE NoWakes
            base == IF hold THEN [stage EXCEPT ![t] = "flush"] ELSE stage
            e == Home[t]
<1>1. /\ sendQ' = IF last THEN [sendQ EXCEPT ![c] = <<>>] ELSE sendQ
      /\ buffer' = IF last THEN [buffer EXCEPT ![c] = <<>>] ELSE buffer
      /\ receivers' = [receivers EXCEPT ![c] = @ - 1]
      /\ signaled' = [u \in Tasks |-> signaled[u] \/ (last /\ u \in Range(selQ[c]))]
      /\ WakeTasks(ws, e, base, wake)
      /\ UNCHANGED <<recvQ, senders, op>>
  BY DEF DropReceiver
<1>2. last \in BOOLEAN  OBVIOUS
<1>3. /\ receivers \in [Channels -> Nat] /\ sendQ \in [Channels -> Seq(Tasks)] /\ stage \in [Tasks -> Stages]
      /\ buffer \in [Channels -> Seq(Msgs)]
  BY HandleParts DEF ClaimInv, ClaimType, BlockInv, BufferFits
<1>4. receivers[c] # 0  BY OwnedIsLive DEF DropReceiver
<1>5. /\ \A d \in Channels : d # c => receivers'[d] = receivers[d]
      /\ ~last => receivers'[c] # 0
  BY <1>1, <1>3, <1>4
<1>6. \A u \in Tasks : base[u] = stage[u] \/ base[u] # "parked"  BY <1>3
<1>. HIDE DEF last, e, base
<1>7. /\ Sound(ws) /\ \A u \in Tasks : ws[u] # <<>> <=> last /\ u \in Range(sendQ[c]) \cup Unclaimed(c)
  BY <1>1, <1>2, DropIs
<1>. HIDE DEF ws
<1>8. /\ \A d \in Channels : sendQ[d] = <<>> => sendQ'[d] = <<>>
      /\ \A d \in Channels : buffer[d] = <<>> => buffer'[d] = <<>>
      /\ \A d \in Channels : d # c \/ ~last => buffer'[d] = buffer[d]
  BY <1>1, <1>3
<1>9. Wakes(ws, e, base)  BY <1>1, <1>6, <1>7 DEF Wakes, Sound
<1>10. BufferFits'
  <2>1. CASE ~last  BY <1>1, <2>1 DEF BlockInv, BufferFits
  <2>2. CASE last
    <3>1. <<>> \in Seq(Msgs) /\ Len(<<>>) <= Capacity[c]  BY ConstantsAssumption
    <3>2. buffer' = [buffer EXCEPT ![c] = <<>>]  BY <1>1, <2>2
    <3>. QED  BY <3>1, <3>2, BufferStaysFit DEF BlockInv
  <2>. QED  BY <2>1, <2>2
<1>11. ASSUME NEW d \in Channels, NEW u \in Tasks
       PROVE  /\ WaitsTo(u, "send", d) /\ ws[u] = <<>> => NoRoom(d)'
              /\ WaitsTo(u, "receive", d) /\ ws[u] = <<>> => NothingThere(d)'
  <2>1. WaitsTo(u, "receive", d) => NothingThere(d)'  BY <1>1, <1>8 DEF BlockInv, Blocked, NothingThere
  <2>2. ASSUME WaitsTo(u, "send", d), ws[u] = <<>>  PROVE NoRoom(d)'
    <3>1. NoRoom(d)  BY <2>2 DEF BlockInv, Blocked
    <3>2. d # c \/ ~last
      <4>1. d = c => u \in Range(sendQ[c]) \cup Unclaimed(c)  BY <2>2, WaiterIs
      <4>. QED  BY <1>7, <2>2, <4>1
    <3>3. receivers'[d] # 0 /\ buffer'[d] = buffer[d]  BY <1>5, <1>8, <3>1, <3>2 DEF NoRoom
    <3>. QED  BY <1>1, <3>1, <3>3 DEF NoRoom
  <2>. QED  BY <2>1, <2>2
<1>. QED  BY <1>9, <1>10, <1>11, WakesBlocks

(* A clone adds to a count.                                                *)
LEMMA CloneBlocks ==
    ASSUME HandleInv, BlockInv, NEW t \in Tasks, NEW c \in Channels, NEW v \in Tasks,
           CloneSender(t, c, v) \/ CloneReceiver(t, c, v)
    PROVE  BlockInv'
<1>1. senders \in [Channels -> Nat] /\ receivers \in [Channels -> Nat]  BY HandleParts
<1>2. \A d \in Channels : (senders[d] # 0 => senders'[d] # 0) /\ (receivers[d] # 0 => receivers'[d] # 0)
  <2>1. CASE CloneSender(t, c, v)
    <3>1. senders' = [senders EXCEPT ![c] = @ + 1] /\ receivers' = receivers  BY <2>1 DEF CloneSender
    <3>. QED  BY <1>1, <3>1
  <2>2. CASE CloneReceiver(t, c, v)
    <3>1. receivers' = [receivers EXCEPT ![c] = @ + 1] /\ senders' = senders  BY <2>2 DEF CloneReceiver
    <3>. QED  BY <1>1, <3>1
  <2>. QED  BY <2>1, <2>2
<1>3. UNCHANGED <<buffer, sendQ, recvQ, stage, op, mailbox>>  BY DEF CloneSender, CloneReceiver
<1>4. BufferFits' /\ OpsFit'  BY <1>3, OpsStayFit DEF BlockInv, BufferFits
<1>5. \A u \in Tasks, d \in Channels, k \in {"send", "receive"} : WaitsTo(u, k, d)' => WaitsTo(u, k, d)
  BY <1>3, SameWaiters
<1>6. \A d \in Channels : (NoRoom(d) => NoRoom(d)') /\ (NothingThere(d) => NothingThere(d)')
  BY <1>2, <1>3 DEF NoRoom, NothingThere
<1>7. ASSUME NEW d \in Channels  PROVE Blocked(d)'
  <2>1. /\ \A u \in Tasks : WaitsTo(u, "send", d) => NoRoom(d)
        /\ \A u \in Tasks : WaitsTo(u, "receive", d) => NothingThere(d)
    BY DEF BlockInv, Blocked
  <2>2. \A u \in Tasks : /\ WaitsTo(u, "send", d)' => WaitsTo(u, "send", d) /\ NoRoom(d)'
                         /\ WaitsTo(u, "receive", d)' => WaitsTo(u, "receive", d) /\ NothingThere(d)'
    BY <1>5, <1>6, <2>1
  <2>. QED  BY <2>2, NoNewWaiters
<1>. QED  BY <1>4, <1>7 DEF BlockInv

LEMMA InitBlocks == Init => BlockInv
<1>. SUFFICES ASSUME Init  PROVE BlockInv
  OBVIOUS
<1>1. buffer = [c \in Channels |-> <<>>] /\ stage = [t \in Tasks |-> "ready"] /\ op = [t \in Tasks |-> NoOp]
  BY DEF Init
<1>2. \A c \in Channels : <<>> \in Seq(Msgs) /\ Len(<<>>) <= Capacity[c]  BY ConstantsAssumption
<1>3. BufferFits  BY <1>1, <1>2 DEF BufferFits
<1>4. OpsFit  BY <1>1, NoOpFits DEF OpsFit
<1>5. \A t \in Tasks : \A k, c : ~WaitsTo(t, k, c)  BY <1>1 DEF WaitsTo, Waiting
<1>6. \A c \in Channels : Blocked(c)  BY <1>5 DEF Blocked
<1>. QED  BY <1>3, <1>4, <1>6 DEF BlockInv

LEMMA NextBlocks == ClaimInv /\ HandleInv /\ BlockInv /\ [Next]_vars => BlockInv'
<1>. SUFFICES ASSUME ClaimInv, HandleInv, BlockInv, [Next]_vars  PROVE BlockInv'
  OBVIOUS
<1>0. ASSUME UNCHANGED <<buffer, sendQ, recvQ, senders, receivers, stage, op, mailbox>>  PROVE BlockInv'
  <2>1. \A u \in Tasks, d \in Channels, k \in {"send", "receive"} : WaitsTo(u, k, d)' => WaitsTo(u, k, d)
    BY <1>0, SameWaiters
  <2>. QED  BY <1>0, <2>1, AsideBlocks
<1>1. ASSUME NEW t \in Tasks, Start(t)  PROVE BlockInv'
  BY <1>1, SendBlocks, ReceiveBlocks, SelectBlocks, CloneBlocks DEF Start
<1>2. ASSUME NEW t \in Tasks, Continue(t)  PROVE BlockInv'
  <2>1. CASE FlushDone(t)
    <3>1. /\ stage' = [stage EXCEPT ![t] = "ready"] /\ op' = op
          /\ UNCHANGED <<buffer, sendQ, recvQ, senders, receivers, mailbox>>
      BY <2>1 DEF FlushDone
    <3>. QED  BY <3>1, MoveBlocks
  <2>2. CASE TakeWake(t)
    <3>1. /\ stage' = [stage EXCEPT ![t] = "ready"] /\ op' = [op EXCEPT ![t] = NoOp]
          /\ UNCHANGED <<buffer, sendQ, recvQ, senders, receivers, mailbox>>
      BY <2>2 DEF TakeWake, Finish, chanVars
    <3>. QED  BY <3>1, MoveBlocks
  <2>3. CASE Unregister(t)
    <3>1. PICK s \in {"unregister", "repoll", "ready"} : stage' = [stage EXCEPT ![t] = s]
      BY <2>3 DEF Unregister
    <3>2. op' = op \/ op' = [op EXCEPT ![t] = NoOp]  BY <2>3 DEF Unregister, Finish
    <3>3. UNCHANGED <<buffer, sendQ, recvQ, senders, receivers, mailbox>>  BY <2>3 DEF Unregister
    <3>. QED  BY <3>1, <3>2, <3>3, MoveBlocks
  <2>. QED  BY <1>2, <2>1, <2>2, <2>3, RepollBlocks DEF Continue
<1>3. ASSUME NEW t \in Tasks, Leave(t)  PROVE BlockInv'
  <2>1. ASSUME Return(t)  PROVE BlockInv'
    <3>1. /\ stage' = [stage EXCEPT ![t] = "done"] /\ op' = op
          /\ UNCHANGED <<buffer, sendQ, recvQ, senders, receivers, mailbox>>
      BY <2>1 DEF Return, chanVars
    <3>. QED  BY <3>1, MoveBlocks
  <2>. QED  BY <1>3, <2>1, DropSenderBlocks, DropReceiverBlocks DEF Leave
<1>4. ASSUME NEW t \in Tasks, Expire(t)  PROVE BlockInv'
  <2>1. UNCHANGED <<buffer, sendQ, recvQ, senders, receivers, stage, op, mailbox>>  BY <1>4 DEF Expire, chanVars
  <2>. QED  BY <1>0, <2>1
<1>5. ASSUME NEW t \in Tasks, Cancel(t)  PROVE BlockInv'  BY <1>5, CancelBlocks
<1>6. ASSUME NEW e \in Executors, Idle(e)  PROVE BlockInv'  BY <1>6, DrainBlocks, WakeExpiredBlocks DEF Idle
<1>7. CASE UNCHANGED vars
  <2>1. UNCHANGED <<buffer, sendQ, recvQ, senders, receivers, stage, op, mailbox>>
    BY <1>7 DEF vars, chanVars, taskVars
  <2>. QED  BY <1>0, <2>1
<1>. QED  BY <1>1, <1>2, <1>3, <1>4, <1>5, <1>6, <1>7 DEF Next

(* While anybody waits on a channel, what it waits for is not there.       *)
THEOREM BlockInvariant == Spec => [](ClaimInv /\ HandleInv /\ BlockInv)
<1>1. Init => ClaimInv /\ HandleInv /\ BlockInv  BY InitClaims, InitHandles, InitBlocks
<1>2. ClaimInv /\ HandleInv /\ BlockInv /\ [Next]_vars => (ClaimInv /\ HandleInv /\ BlockInv)'
  BY NextClaims, NextHandles, NextBlocks
<1>. QED  BY <1>1, <1>2, PTL DEF Spec

(* No wake-up is lost: whatever the executors interleave, a task that is   *)
(* parked in fdn_channel_poll_send, _receive or _select with no wake on    *)
(* its way could make no progress if it tried again.                       *)
THEOREM NoWakeupIsLost == Spec => []WaitingIsBlocked
<1>1. ClaimInv /\ HandleInv /\ BlockInv => WaitingIsBlocked
  <2>. SUFFICES ASSUME ClaimInv, HandleInv, BlockInv, NEW t \in Tasks, Waiting(t), NEW i \in DOMAIN op[t].cases
                PROVE  LET c == op[t].cases[i].chan
                           others == {u \in Range(selQ[c]) \ {t} : ~signaled[u]}
                       IN  IF op[t].cases[i].kind = "send"
                           THEN /\ receivers[c] > 0 /\ recvQ[c] = <<>>
                                /\ Len(buffer[c]) = Capacity[c]
                                /\ \A u \in others : CasesOf(u, c, "receive") = {}
                           ELSE /\ senders[c] > 0 /\ sendQ[c] = <<>> /\ buffer[c] = <<>>
                                /\ \A u \in others : CasesOf(u, c, "send") = {}
    BY DEF WaitingIsBlocked
  <2>. DEFINE c == op[t].cases[i].chan
              kind == op[t].cases[i].kind
              others == {u \in Range(selQ[c]) \ {t} : ~signaled[u]}
  <2>1. c \in Channels /\ kind \in {"send", "receive"} /\ op[t].cases[i] = [kind |-> kind, chan |-> c]
    <3>1. op[t].cases \in Seq(Case)  BY OpTyped DEF ClaimInv
    <3>2. op[t].cases[i] \in Case  BY <3>1
    <3>. QED  BY <3>2 DEF Case
  <2>2. WaitsTo(t, kind, c)  BY <2>1 DEF WaitsTo, CasesOf
  <2>. HIDE DEF c, kind
  <2>3. ASSUME NEW u \in others, NEW k \in {"send", "receive"}, k # kind  PROVE CasesOf(u, c, k) = {}
    <3>1. u \in Tasks /\ Waiting(u) /\ u # t  BY <2>1, UnclaimedWait
    <3>2. SUFFICES ASSUME CasesOf(u, c, k) # {}  PROVE FALSE  OBVIOUS
    <3>3. WaitsTo(u, k, c)  BY <3>1, <3>2 DEF WaitsTo
    <3>. QED  BY <2>1, <2>2, <2>3, <3>1, <3>3, BlockedParts
  <2>4. /\ kind = "send" => NoRoom(c)
        /\ kind = "receive" => NothingThere(c)
    BY <2>1, <2>2 DEF BlockInv, Blocked
  <2>5. senders[c] \in Nat /\ receivers[c] \in Nat  BY <2>1, HandleParts
  <2>6. kind = "send" => /\ receivers[c] > 0 /\ recvQ[c] = <<>> /\ Len(buffer[c]) = Capacity[c]
                         /\ \A u \in others : CasesOf(u, c, "receive") = {}
    BY <2>3, <2>4, <2>5 DEF NoRoom
  <2>7. kind = "receive" => /\ senders[c] > 0 /\ sendQ[c] = <<>> /\ buffer[c] = <<>>
                            /\ \A u \in others : CasesOf(u, c, "send") = {}
    BY <2>3, <2>4, <2>5 DEF NothingThere
  <2>. HIDE DEF others
  <2>. QED  BY <2>1, <2>6, <2>7 DEF others, c, kind
<1>. QED  BY <1>1, BlockInvariant, PTL

(***************************************************************************)
(* What flows through a channel: every channel is one FIFO transport, and  *)
(* a send is told the truth about its message.  FlowInv rests on the       *)
(* invariants above.                                                       *)
(***************************************************************************)

(* The history of a channel to which a new message is offered.             *)
Fresh(h, a) == a = <<>> \/ \E m \in Msgs : a = <<m>> /\ ~Offered(h, m)

Offering(h, c, a, g) ==
    /\ h \in [Channels -> Seq(Msgs)] /\ Once(h) /\ Fresh(h, a) /\ g = [h EXCEPT ![c] = @ \o a]

LEMMA OfferOne ==
    ASSUME NEW h, NEW c \in Channels, NEW a, NEW g, Offering(h, c, a, g)
    PROVE  /\ g \in [Channels -> Seq(Msgs)] /\ Once(g) /\ g[c] = h[c] \o a
           /\ \A d \in Channels : d # c => g[d] = h[d]
           /\ \A x : Offered(g, x) <=> Offered(h, x) \/ x \in Range(a)
<1>. h \in [Channels -> Seq(Msgs)] /\ Once(h) /\ Fresh(h, a) /\ g = [h EXCEPT ![c] = @ \o a]
  BY DEF Offering
<1>1. CASE a = <<>>
  <2>1. h[c] \o a = h[c]  BY <1>1
  <2>2. g = h  BY <2>1
  <2>3. \A x : x \notin Range(a)  BY <1>1 DEF Range
  <2>. QED  BY <2>1, <2>2, <2>3
<1>2. CASE a # <<>>
  <2>1. PICK m \in Msgs : a = <<m>> /\ ~Offered(h, m)  BY <1>2 DEF Fresh
  <2>2. h[c] \o a = Append(h[c], m)  BY <2>1, AppendIsConcat
  <2>3. g[c] = Append(h[c], m) /\ \A d \in Channels : d # c => g[d] = h[d]  BY <2>2
  <2>4. m \notin Range(h[c])  BY <2>1 DEF Offered
  <2>5. /\ Append(h[c], m) \in Seq(Msgs) /\ Range(Append(h[c], m)) = Range(h[c]) \cup {m}
        /\ Injective(Append(h[c], m))
    BY <2>4, AppendOf DEF Once
  <2>6. g \in [Channels -> Seq(Msgs)]  BY <2>2, <2>5
  <2>7. Range(g[c]) = Range(h[c]) \cup {m} /\ Injective(g[c])  BY <2>3, <2>5
  <2>8. \A d \in Channels : Injective(g[d])  BY <2>3, <2>7 DEF Once
  <2>9. \A d \in Channels : m \notin Range(h[d])  BY <2>1 DEF Offered
  <2>10. \A d \in Channels : Range(g[d]) = IF d = c THEN Range(h[c]) \cup {m} ELSE Range(h[d])  BY <2>3, <2>7
  <2>11. Once(g)
    <3>1. \A d, e \in Channels : d # e => Range(h[d]) \cap Range(h[e]) = {}  BY DEF Once
    <3>2. ASSUME NEW d \in Channels, NEW e \in Channels, d # e  PROVE Range(g[d]) \cap Range(g[e]) = {}
      BY <2>9, <2>10, <3>1, <3>2
    <3>. QED  BY <2>8, <3>2 DEF Once
  <2>12. Range(a) = {m}  BY <2>1 DEF Range
  <2>13. \A x : Offered(g, x) <=> Offered(h, x) \/ x \in Range(a)  BY <2>10, <2>12 DEF Offered
  <2>. QED  BY <2>2, <2>3, <2>6, <2>11, <2>13
<1>. QED  BY <1>1, <1>2

(* The history of a channel from which a message is withdrawn.             *)
Withdrawing(h, c, m, g) ==
    /\ h \in [Channels -> Seq(Msgs)] /\ Once(h) /\ m \in Range(h[c]) /\ g = [h EXCEPT ![c] = Without(@, m)]

LEMMA WithdrawOne ==
    ASSUME NEW h, NEW c \in Channels, NEW m, NEW g, Withdrawing(h, c, m, g)
    PROVE  /\ g \in [Channels -> Seq(Msgs)] /\ Once(g) /\ g[c] = Without(h[c], m)
           /\ \A d \in Channels : d # c => g[d] = h[d]
           /\ \A x : Offered(g, x) <=> Offered(h, x) /\ x # m
<1>. /\ h \in [Channels -> Seq(Msgs)] /\ Once(h) /\ m \in Range(h[c])
     /\ g = [h EXCEPT ![c] = Without(@, m)]
  BY DEF Withdrawing
<1>1. Injective(h[c]) /\ h[c] \in Seq(Msgs)  BY DEF Once
<1>2. /\ Without(h[c], m) \in Seq(Msgs) /\ Range(Without(h[c], m)) = Range(h[c]) \ {m}
      /\ Injective(Without(h[c], m))
  BY <1>1, WithoutOf
<1>3. g[c] = Without(h[c], m) /\ \A d \in Channels : d # c => g[d] = h[d]  OBVIOUS
<1>4. g \in [Channels -> Seq(Msgs)]  BY <1>2
<1>5. \A d, e \in Channels : d # e => Range(h[d]) \cap Range(h[e]) = {}  BY DEF Once
<1>6. \A d \in Channels : Injective(g[d]) /\ Range(g[d]) = IF d = c THEN Range(h[c]) \ {m} ELSE Range(h[d])
  BY <1>2, <1>3 DEF Once
<1>7. Once(g)
  <2>1. ASSUME NEW d \in Channels, NEW e \in Channels, d # e  PROVE Range(g[d]) \cap Range(g[e]) = {}
    BY <1>5, <1>6, <2>1
  <2>. QED  BY <1>6, <2>1 DEF Once
<1>8. \A d \in Channels : d # c => m \notin Range(h[d])  BY <1>5
<1>9. \A x : Offered(g, x) <=> Offered(h, x) /\ x # m  BY <1>6, <1>8 DEF Offered
<1>. QED  BY <1>3, <1>4, <1>7, <1>9

(* Withdrawing the messages at the end of a history leaves the others.     *)
LEMMA WithdrawnIs ==
    ASSUME NEW S, NEW p \in Seq(S), NEW r \in Seq(S), Injective(p \o r)
    PROVE  Withdrawn(p \o r, Range(r)) = p
<1>. DEFINE q == p \o r
            n == Len(p)
            kept == {i \in DOMAIN q : q[i] \notin Range(r)}
<1>1. /\ q \in Seq(S) /\ Len(q) = n + Len(r) /\ DOMAIN q = 1 .. n + Len(r) /\ n \in Nat /\ Len(r) \in Nat
      /\ DOMAIN r = 1 .. Len(r) /\ DOMAIN p = 1 .. n
  <2>1. q \in Seq(S) /\ Len(q) = n + Len(r)  OBVIOUS
  <2>. QED  BY <2>1, LenProperties
<1>2. \A i \in 1 .. n + Len(r) : q[i] = IF i <= n THEN p[i] ELSE r[i - n]  BY ConcatProperties
<1>. HIDE DEF q, n
<1>3. kept = 1 .. n
  <2>1. ASSUME NEW i \in 1 .. n  PROVE i \in kept
    <3>1. ASSUME NEW j \in DOMAIN r, r[j] = q[i]  PROVE FALSE
      <4>1. n + j \in DOMAIN q /\ q[n + j] = r[j] /\ n + j # i /\ i \in DOMAIN q  BY <1>1, <1>2
      <4>. QED  BY <3>1, <4>1 DEF Injective, q
    <3>. QED  BY <1>1, <3>1 DEF Range
  <2>2. ASSUME NEW i \in kept  PROVE i \in 1 .. n
    <3>1. i \in 1 .. n + Len(r)  BY <1>1
    <3>2. CASE i > n
      <4>1. i - n \in DOMAIN r /\ q[i] = r[i - n]  BY <1>1, <1>2, <3>1, <3>2
      <4>. QED  BY <4>1 DEF Range
    <3>. QED  BY <1>1, <3>1, <3>2
  <2>. QED  BY <2>1, <2>2
<1>4. \A i \in 0 .. n : Cardinality(1 .. i) = i
  <2>. TAKE i \in 0 .. n
  <2>. QED  BY <1>1, FS_Interval
<1>. HIDE DEF kept
<1>5. ASSUME NEW j \in 1 .. n  PROVE (CHOOSE i \in kept : Cardinality({k \in kept : k <= i}) = j) = j
  <2>1. ASSUME NEW i \in 1 .. n  PROVE Cardinality({k \in kept : k <= i}) = i
    <3>1. {k \in kept : k <= i} = 1 .. i  BY <1>1, <1>3
    <3>2. Cardinality(1 .. i) = i  BY <1>1, <1>4
    <3>. QED  BY <3>1, <3>2
  <2>. QED  BY <1>3, <2>1
<1>6. Withdrawn(q, Range(r)) = [j \in 1 .. n |-> q[j]]
  <2>1. Withdrawn(q, Range(r)) = [j \in 1 .. Cardinality(kept) |->
            q[CHOOSE i \in kept : Cardinality({k \in kept : k <= i}) = j]]
    BY DEF Withdrawn, kept
  <2>2. Cardinality(kept) = n  BY <1>1, <1>3, <1>4
  <2>. QED  BY <1>5, <2>1, <2>2
<1>7. [j \in 1 .. n |-> q[j]] = p
  <2>1. \A j \in 1 .. n : q[j] = p[j]  BY <1>1, <1>2
  <2>2. p = [j \in 1 .. n |-> p[j]]  BY <1>1
  <2>. QED  BY <2>1, <2>2
<1>. QED  BY <1>6, <1>7 DEF q

(* The messages of a queue of parked senders.                              *)
MsgsIn(o, q) == [i \in DOMAIN q |-> o[q[i]].msgs[1]]
MsgsOf(q) == MsgsIn(op, q)

LEMMA MsgsOfIs ==
    ASSUME NEW q \in Seq(Tasks), \A u \in Range(q) : op[u].msgs[1] \in Msgs
    PROVE  /\ MsgsOf(q) \in Seq(Msgs) /\ Len(MsgsOf(q)) = Len(q)
           /\ \A i \in 1 .. Len(q) : MsgsOf(q)[i] = op[q[i]].msgs[1]
           /\ q = <<>> => MsgsOf(q) = <<>>
           /\ Range(MsgsOf(q)) = {op[u].msgs[1] : u \in Range(q)}
<1>1. DOMAIN q = 1 .. Len(q) /\ Len(q) \in Nat  OBVIOUS
<1>2. \A i \in 1 .. Len(q) : op[q[i]].msgs[1] \in Msgs  BY <1>1 DEF Range
<1>3. MsgsOf(q) \in [1 .. Len(q) -> Msgs]  BY <1>1, <1>2 DEF MsgsOf, MsgsIn
<1>4. MsgsOf(q) \in Seq(Msgs) /\ Len(MsgsOf(q)) = Len(q)  BY <1>1, <1>3
<1>5. \A i \in 1 .. Len(q) : MsgsOf(q)[i] = op[q[i]].msgs[1]  BY <1>1 DEF MsgsOf, MsgsIn
<1>6. q = <<>> => MsgsOf(q) = <<>>  BY <1>4
<1>7. DOMAIN MsgsOf(q) = 1 .. Len(q)  BY <1>3
<1>. HIDE DEF MsgsOf
<1>8. Range(MsgsOf(q)) = {op[u].msgs[1] : u \in Range(q)}  BY <1>1, <1>5, <1>7 DEF Range
<1>. QED  BY <1>4, <1>5, <1>6, <1>8

LEMMA MsgsOfTail ==
    ASSUME NEW q \in Seq(Tasks), \A u \in Range(q) : op[u].msgs[1] \in Msgs, q # <<>>
    PROVE  /\ MsgsOf(Tail(q)) \in Seq(Msgs) /\ op[Head(q)].msgs[1] \in Msgs
           /\ MsgsOf(q) = <<op[Head(q)].msgs[1]>> \o MsgsOf(Tail(q))
<1>. DEFINE m == op[Head(q)].msgs[1]
            y == MsgsOf(Tail(q))
            x == MsgsOf(q)
<1>1. /\ Tail(q) \in Seq(Tasks) /\ Head(q) = q[1] /\ Len(q) \in Nat /\ Len(q) >= 1 /\ Len(Tail(q)) = Len(q) - 1
      /\ \A i \in 1 .. Len(q) - 1 : Tail(q)[i] = q[i + 1]
  OBVIOUS
<1>2. Range(Tail(q)) \subseteq Range(q) /\ Head(q) \in Range(q)  BY TailOf
<1>3. /\ x \in Seq(Msgs) /\ Len(x) = Len(q) /\ \A i \in 1 .. Len(q) : x[i] = op[q[i]].msgs[1]
  BY MsgsOfIs
<1>4. y \in Seq(Msgs) /\ Len(y) = Len(q) - 1 /\ \A i \in 1 .. Len(q) - 1 : y[i] = op[Tail(q)[i]].msgs[1]
  BY <1>1, <1>2, MsgsOfIs
<1>6. m \in Msgs /\ x[1] = m  BY <1>1, <1>2, <1>3
<1>. HIDE DEF m, x, y
<1>5. \A i \in 1 .. Len(q) - 1 : y[i] = x[i + 1]
  <2>. TAKE i \in 1 .. Len(q) - 1
  <2>1. Tail(q)[i] = q[i + 1] /\ i + 1 \in 1 .. Len(q)  BY <1>1
  <2>2. x[i + 1] = op[q[i + 1]].msgs[1] /\ y[i] = op[Tail(q)[i]].msgs[1]  BY <1>3, <1>4, <2>1
  <2>. QED  BY <2>1, <2>2
<1>. DEFINE z == <<m>> \o y
<1>7. z \in Seq(Msgs) /\ Len(z) = Len(q) /\ z[1] = m /\ \A i \in 2 .. Len(q) : z[i] = y[i - 1]
  <2>1. <<m>> \in Seq(Msgs) /\ Len(<<m>>) = 1 /\ <<m>>[1] = m  BY <1>6
  <2>. DEFINE o == <<m>>
  <2>2. o \in Seq(Msgs) /\ Len(o) = 1 /\ o[1] = m  BY <2>1
  <2>. HIDE DEF o
  <2>3. /\ o \o y \in Seq(Msgs) /\ Len(o \o y) = Len(o) + Len(y)
        /\ \A i \in 1 .. Len(o) + Len(y) : (o \o y)[i] = IF i <= Len(o) THEN o[i] ELSE y[i - Len(o)]
    BY <1>4, <2>2, ConcatProperties
  <2>4. o \o y \in Seq(Msgs) /\ Len(o \o y) = Len(q) /\ (o \o y)[1] = m
        /\ \A i \in 2 .. Len(q) : (o \o y)[i] = y[i - 1]
    BY <1>1, <1>4, <2>2, <2>3
  <2>. QED  BY <2>4 DEF o
<1>. HIDE DEF z
<1>8. \A i \in 1 .. Len(q) : x[i] = z[i]
  <2>. TAKE i \in 1 .. Len(q)
  <2>1. CASE i = 1  BY <1>6, <1>7, <2>1
  <2>2. CASE i # 1
    <3>1. i \in 2 .. Len(q) /\ i - 1 \in 1 .. Len(q) - 1 /\ (i - 1) + 1 = i  BY <1>1, <2>2
    <3>. QED  BY <1>5, <1>7, <3>1
  <2>. QED  BY <2>1, <2>2
<1>9. x = z  BY <1>3, <1>7, <1>8, SeqEqual
<1>. QED  BY <1>4, <1>6, <1>9 DEF m, x, y, z

LEMMA Assoc == \A p, q, r \in Seq(Msgs) : (p \o q) \o r = p \o (q \o r)
<1>. DEFINE M == Msgs
<1>. HIDE DEF M
<1>1. \A p, q, r \in Seq(M) : (p \o q) \o r = p \o (q \o r)  BY ConcatAssociative, SMT
<1>. QED  BY <1>1 DEF M

LEMMA HeadAndTail ==
    ASSUME NEW S, NEW q \in Seq(S), q # <<>>
    PROVE  q = <<Head(q)>> \o Tail(q) /\ Head(q) \in S /\ Tail(q) \in Seq(S)
<1>1. Len(q) \in Nat /\ Len(q) >= 1 /\ Head(q) = q[1] /\ Head(q) \in S /\ Tail(q) \in Seq(S)  OBVIOUS
<1>2. SubSeq(q, 1, Len(q)) = <<q[1]>> \o SubSeq(q, 2, Len(q))
  <2>1. 1 \in 1 .. Len(q) /\ Len(q) \in 1 .. Len(q)  BY <1>1
  <2>2. SubSeq(q, 1, Len(q)) = <<q[1]>> \o SubSeq(q, 1 + 1, Len(q))  BY <2>1, SubSeqRecursiveFirst
  <2>. QED  BY <2>2
<1>3. SubSeq(q, 1, Len(q)) = q /\ Tail(q) = SubSeq(q, 2, Len(q))  BY SubSeqFull, TailIsSubSeq
<1>. QED  BY <1>1, <1>2, <1>3

(* The parts of the invariants that are about one channel.                 *)
LEMMA FlowParts ==
    ASSUME ClaimInv, BlockInv, FlowInv, NEW c \in Channels
    PROVE  /\ arrival[c] \in Seq(Msgs) /\ taken[c] \in Seq(Msgs) /\ flushed[c] \in Seq(Msgs)
           /\ buffer[c] \in Seq(Msgs) /\ sendQ[c] \in Seq(Tasks) /\ MsgsOf(sendQ[c]) \in Seq(Msgs)
           /\ \A u \in Range(sendQ[c]) : op[u].msgs[1] \in Msgs
           /\ sendQ[c] = <<>> => MsgsOf(sendQ[c]) = <<>>
           /\ receivers[c] # 0 => flushed[c] = <<>>
           /\ arrival[c] = ((taken[c] \o flushed[c]) \o buffer[c]) \o MsgsOf(sendQ[c])
<1>1. arrival[c] \in Seq(Msgs) /\ taken[c] \in Seq(Msgs) /\ flushed[c] \in Seq(Msgs)  BY DEF FlowInv, HistoryType
<1>2. buffer[c] \in Seq(Msgs)  BY BlockedParts
<1>3. sendQ[c] \in Seq(Tasks)  BY QueuedIs
<1>4. \A u \in Range(sendQ[c]) : op[u].msgs[1] \in Msgs  BY ParkedMsg
<1>5. MsgsOf(sendQ[c]) \in Seq(Msgs) /\ (sendQ[c] = <<>> => MsgsOf(sendQ[c]) = <<>>)  BY <1>3, <1>4, MsgsOfIs
<1>6. receivers[c] # 0 => flushed[c] = <<>>  BY DEF FlowInv, FlushedIsClosed
<1>7. ParkedMsgs(c) = MsgsOf(sendQ[c])  BY DEF ParkedMsgs, MsgsOf, MsgsIn
<1>8. arrival[c] = ((taken[c] \o flushed[c]) \o buffer[c]) \o MsgsOf(sendQ[c])
  BY <1>7 DEF FlowInv, FifoExactlyOnce
<1>. QED  BY <1>1, <1>2, <1>3, <1>4, <1>5, <1>6, <1>8

(* The select an attempt matches.                                          *)
LEMMA MatchWaits ==
    ASSUME ClaimInv, NEW c \in Channels, NEW kind, Matching(c, kind) # {}
    PROVE  LET u == Match(c, kind)
               k == FirstCase(u, c, kind)
           IN  /\ u \in Tasks /\ Waiting(u) /\ op[u].kind = "select" /\ WaitsTo(u, kind, c)
               /\ k \in DOMAIN op[u].cases /\ op[u].cases[k].kind = kind /\ k \in Nat
<1>. DEFINE u == Match(c, kind)
            k == FirstCase(u, c, kind)
<1>1. u \in Range(selQ[c]) /\ ~signaled[u] /\ CasesOf(u, c, kind) # {} /\ k \in CasesOf(u, c, kind) /\ k \in Nat
  BY MatchIs
<1>. HIDE DEF u, k
<1>2. u \in Tasks /\ Waiting(u) /\ op[u].kind = "select"  BY <1>1, UnclaimedWait
<1>3. k \in DOMAIN op[u].cases /\ op[u].cases[k].kind = kind  BY <1>1 DEF CasesOf
<1>4. WaitsTo(u, kind, c)  BY <1>1, <1>2 DEF WaitsTo
<1>. QED  BY <1>1, <1>2, <1>3, <1>4 DEF u, k

(* What an attempt does to the history: it offers at most one message,     *)
(* which is new, and hands out the oldest.                                 *)
Flows(c, r) ==
    /\ Fresh(arrival, r.arrived) /\ r.passed \in Seq(Msgs)
    /\ arrival[c] \o r.arrived = (((taken[c] \o r.passed) \o flushed[c]) \o r.buffer) \o MsgsOf(r.sendQ)

LEMMA FlowsNothing ==
    ASSUME ClaimInv, BlockInv, FlowInv, NEW c \in Channels, NEW r, r.arrived = <<>>, r.passed = <<>>,
           r.buffer = buffer[c], r.sendQ = sendQ[c]
    PROVE  Flows(c, r)
<1>1. /\ arrival[c] \in Seq(Msgs) /\ taken[c] \in Seq(Msgs)
      /\ arrival[c] = ((taken[c] \o flushed[c]) \o buffer[c]) \o MsgsOf(sendQ[c])
  BY FlowParts
<1>2. arrival[c] \o r.arrived = arrival[c] /\ taken[c] \o r.passed = taken[c] /\ r.passed \in Seq(Msgs)  BY <1>1
<1>. QED  BY <1>1, <1>2 DEF Flows, Fresh

(* A message that goes straight from a sender to a receiver: nobody waits  *)
(* before it.                                                              *)
LEMMA FlowsThrough ==
    ASSUME ClaimInv, BlockInv, FlowInv, NEW c \in Channels, NEW r, NEW m \in Msgs, ~Offered(arrival, m),
           r.arrived = <<m>>, r.passed = <<m>>, r.buffer = buffer[c], r.sendQ = sendQ[c],
           receivers[c] # 0, buffer[c] = <<>>, sendQ[c] = <<>>
    PROVE  Flows(c, r)
<1>1. /\ taken[c] \in Seq(Msgs) /\ flushed[c] = <<>> /\ MsgsOf(sendQ[c]) = <<>>
      /\ arrival[c] = ((taken[c] \o flushed[c]) \o buffer[c]) \o MsgsOf(sendQ[c])
  BY FlowParts
<1>2. arrival[c] = taken[c]
  <2>1. taken[c] \o <<>> = taken[c]  BY <1>1
  <2>. QED  BY <1>1, <2>1
<1>3. <<m>> \in Seq(Msgs)  OBVIOUS
<1>4. taken[c] \o <<m>> \in Seq(Msgs)  BY <1>1, <1>3
<1>. DEFINE y == taken[c] \o <<m>>
<1>5. y \in Seq(Msgs)  BY <1>4
<1>. HIDE DEF y
<1>6. ((y \o <<>>) \o <<>>) \o <<>> = y
  <2>1. y \o <<>> = y  BY <1>5
  <2>. QED  BY <2>1
<1>7. arrival[c] \o r.arrived = (((taken[c] \o r.passed) \o flushed[c]) \o r.buffer) \o MsgsOf(r.sendQ)
  BY <1>1, <1>2, <1>6 DEF y
<1>. QED  BY <1>3, <1>7 DEF Flows, Fresh

LEMMA TrySendFlows ==
    ASSUME ClaimInv, BlockInv, FlowInv, NEW c \in Channels, NEW m \in Msgs, ~Offered(arrival, m)
    PROVE  Flows(c, TrySend(c, m))
<1>. DEFINE r == TrySend(c, m)
<1>1. CASE receivers[c] = 0
  <2>1. r.buffer = buffer[c] /\ r.sendQ = sendQ[c] /\ r.arrived = <<>> /\ r.passed = <<>>  BY <1>1, SendClosed
  <2>. HIDE DEF r
  <2>2. Flows(c, r)  BY <2>1, FlowsNothing
  <2>. QED  BY <2>2 DEF r
<1>2. CASE receivers[c] # 0 /\ recvQ[c] # <<>>
  <2>1. r.buffer = buffer[c] /\ r.sendQ = sendQ[c] /\ r.arrived = <<m>> /\ r.passed = <<m>>
    BY <1>2, SendToReceiver
  <2>2. buffer[c] = <<>> /\ sendQ[c] = <<>>
    <3>1. Head(recvQ[c]) \in Range(recvQ[c])  BY <1>2, QueuedIs, TailOf
    <3>. QED  BY <3>1, QueuedWaits, BlockedParts
  <2>. HIDE DEF r
  <2>3. Flows(c, r)  BY <1>2, <2>1, <2>2, FlowsThrough
  <2>. QED  BY <2>3 DEF r
<1>3. CASE receivers[c] # 0 /\ recvQ[c] = <<>> /\ Matching(c, "receive") # {}
  <2>1. r.buffer = buffer[c] /\ r.sendQ = sendQ[c] /\ r.arrived = <<m>> /\ r.passed = <<m>>
    BY <1>3, SendToSelect
  <2>2. buffer[c] = <<>> /\ sendQ[c] = <<>>  BY <1>3, MatchWaits, BlockedParts
  <2>. HIDE DEF r
  <2>3. Flows(c, r)  BY <1>3, <2>1, <2>2, FlowsThrough
  <2>. QED  BY <2>3 DEF r
<1>4. CASE receivers[c] # 0 /\ recvQ[c] = <<>> /\ Matching(c, "receive") = {} /\ Len(buffer[c]) < Capacity[c]
  <2>1. r.buffer = Append(buffer[c], m) /\ r.sendQ = sendQ[c] /\ r.arrived = <<m>> /\ r.passed = <<>>
    BY <1>4, SendToBuffer
  <2>. HIDE DEF r
  <2>2. sendQ[c] = <<>>
    <3>1. ASSUME sendQ[c] # <<>>  PROVE FALSE
      <4>1. Head(sendQ[c]) \in Range(sendQ[c])  BY <3>1, QueuedIs, TailOf
      <4>2. Len(buffer[c]) = Capacity[c]  BY <4>1, QueuedWaits, BlockedParts
      <4>3. Len(buffer[c]) \in Nat  BY BlockedParts
      <4>. QED  BY <1>4, <4>2, <4>3
    <3>. QED  BY <3>1
  <2>3. /\ taken[c] \in Seq(Msgs) /\ buffer[c] \in Seq(Msgs) /\ flushed[c] = <<>> /\ MsgsOf(sendQ[c]) = <<>>
        /\ arrival[c] = ((taken[c] \o flushed[c]) \o buffer[c]) \o MsgsOf(sendQ[c])
    BY <1>4, <2>2, FlowParts
  <2>4. arrival[c] = taken[c] \o buffer[c]
    <3>1. taken[c] \o <<>> = taken[c]  BY <2>3
    <3>2. taken[c] \o buffer[c] \in Seq(Msgs)  BY <2>3
    <3>3. (taken[c] \o buffer[c]) \o <<>> = taken[c] \o buffer[c]  BY <3>2
    <3>. QED  BY <2>3, <3>1, <3>3
  <2>5. <<m>> \in Seq(Msgs)  OBVIOUS
  <2>6. r.buffer = buffer[c] \o <<m>> /\ r.buffer \in Seq(Msgs)  BY <2>1, <2>3, AppendIsConcat
  <2>7. arrival[c] \o <<m>> = taken[c] \o r.buffer
    <3>. DEFINE a == <<m>>
    <3>0. a \in Seq(Msgs)  BY <2>5
    <3>. HIDE DEF a
    <3>2. (taken[c] \o buffer[c]) \o a = taken[c] \o (buffer[c] \o a)  BY <2>3, <3>0, Assoc, Zenon
    <3>1. (taken[c] \o buffer[c]) \o <<m>> = taken[c] \o (buffer[c] \o <<m>>)  BY <3>2 DEF a
    <3>. QED  BY <2>4, <2>6, <3>1
  <2>8. ((taken[c] \o <<>>) \o <<>>) \o r.buffer = taken[c] \o r.buffer  BY <2>3
  <2>9. (taken[c] \o r.buffer) \o <<>> = taken[c] \o r.buffer
    <3>1. taken[c] \o r.buffer \in Seq(Msgs)  BY <2>3, <2>6
    <3>. QED  BY <3>1
  <2>10. arrival[c] \o r.arrived = (((taken[c] \o r.passed) \o flushed[c]) \o r.buffer) \o MsgsOf(r.sendQ)
    BY <2>1, <2>3, <2>7, <2>8, <2>9
  <2>11. r.passed \in Seq(Msgs)  BY <2>1
  <2>12. Flows(c, r)  BY <2>1, <2>10, <2>11 DEF Flows, Fresh
  <2>. QED  BY <2>12 DEF r
<1>5. CASE receivers[c] # 0 /\ recvQ[c] = <<>> /\ Matching(c, "receive") = {} /\ ~(Len(buffer[c]) < Capacity[c])
  <2>1. r = Attempt(c)  BY <1>5, SendPending
  <2>2. Flows(c, Attempt(c))  BY FieldsOf, FlowsNothing
  <2>. QED  BY <2>1, <2>2
<1>. QED  BY <1>1, <1>2, <1>3, <1>4, <1>5

LEMMA TryReceiveFlows ==
    ASSUME ClaimInv, HandleInv, BlockInv, FlowInv, NEW c \in Channels
    PROVE  Flows(c, TryReceive(c))
<1>. DEFINE r == TryReceive(c)
            p == taken[c]
            q == sendQ[c]
            s == Head(q)
<1>0. /\ p \in Seq(Msgs) /\ buffer[c] \in Seq(Msgs) /\ q \in Seq(Tasks) /\ MsgsOf(q) \in Seq(Msgs)
      /\ \A u \in Range(q) : op[u].msgs[1] \in Msgs
      /\ receivers[c] # 0 => flushed[c] = <<>>
      /\ arrival[c] \in Seq(Msgs) /\ arrival[c] = ((p \o flushed[c]) \o buffer[c]) \o MsgsOf(q)
  BY FlowParts
<1>6. p \o <<>> = p /\ arrival[c] \o <<>> = arrival[c]  BY <1>0
<1>1. CASE buffer[c] # <<>>
  <2>. DEFINE a == <<Head(buffer[c])>>
              b == Tail(buffer[c])
  <2>1. /\ r.buffer = IF Refills(c) THEN Append(b, op[s].msgs[1]) ELSE b
        /\ r.sendQ = IF Refills(c) THEN Tail(q) ELSE q
        /\ r.arrived = <<>> /\ r.passed = a
    BY <1>1, ReceiveFromBuffer
  <2>2. receivers[c] # 0  BY <1>1 DEF HandleInv, BufferHasReader
  <2>3. buffer[c] = a \o b /\ Head(buffer[c]) \in Msgs /\ b \in Seq(Msgs)  BY <1>0, <1>1, HeadAndTail
  <2>4. a \in Seq(Msgs)  BY <2>3
  <2>. HIDE DEF r, a, b, p
  <2>5. (p \o a) \o flushed[c] = p \o a
    <3>1. p \o a \in Seq(Msgs)  BY <1>0, <2>4
    <3>2. (p \o a) \o <<>> = p \o a  BY <3>1, ConcatEmptySeq
    <3>. QED  BY <1>0, <2>2, <3>2
  <2>6. arrival[c] = (p \o (a \o b)) \o MsgsOf(q)  BY <1>0, <1>6, <2>2, <2>3
  <2>8. CASE Refills(c)
    <3>1. q # <<>>  BY <2>8 DEF Refills
    <3>. DEFINE y == <<op[s].msgs[1]>>
                z == MsgsOf(Tail(q))
    <3>3. z \in Seq(Msgs) /\ op[s].msgs[1] \in Msgs /\ MsgsOf(q) = y \o z  BY <1>0, <3>1, MsgsOfTail
    <3>7. y \in Seq(Msgs)  BY <3>3
    <3>4. r.buffer = b \o y /\ MsgsOf(r.sendQ) = z
      <4>1. Append(b, op[s].msgs[1]) = b \o y  BY <2>3, <3>3, AppendIsConcat
      <4>. QED  BY <2>1, <2>8, <4>1
    <3>. HIDE DEF y, z, q
    <3>5. (p \o (a \o b)) \o (y \o z) = ((p \o a) \o (b \o y)) \o z
      <4>1. p \in Seq(Msgs) /\ a \in Seq(Msgs) /\ b \in Seq(Msgs) /\ y \in Seq(Msgs) /\ z \in Seq(Msgs)
        BY <1>0, <2>3, <2>4, <3>3, <3>7
      <4>. DEFINE w == p \o a
                  yz == y \o z
                  by == b \o y
      <4>2. w \in Seq(Msgs) /\ yz \in Seq(Msgs) /\ by \in Seq(Msgs)  BY <4>1
      <4>3. p \o (a \o b) = w \o b  BY <4>1, Assoc, Zenon
      <4>5. b \o yz = by \o z  BY <4>1, Assoc, Zenon
      <4>. HIDE DEF w, yz, by
      <4>7. w \in Seq(Msgs) /\ b \in Seq(Msgs) /\ yz \in Seq(Msgs)  BY <4>1, <4>2
      <4>4. (w \o b) \o yz = w \o (b \o yz)  BY <4>7, Assoc, Zenon
      <4>8. w \in Seq(Msgs) /\ by \in Seq(Msgs) /\ z \in Seq(Msgs)  BY <4>1, <4>2
      <4>6. w \o (by \o z) = (w \o by) \o z  BY <4>8, Assoc, Zenon
      <4>. QED  BY <4>3, <4>4, <4>5, <4>6 DEF w, yz, by
    <3>6. arrival[c] \o r.arrived = (((p \o r.passed) \o flushed[c]) \o r.buffer) \o MsgsOf(r.sendQ)
      BY <1>6, <2>1, <2>5, <2>6, <3>3, <3>4, <3>5
    <3>. QED  BY <2>1, <2>4, <3>6 DEF Flows, Fresh, r, p
  <2>9. CASE ~Refills(c)
    <3>1. r.buffer = b /\ r.sendQ = q  BY <2>1, <2>9
    <3>2. p \o (a \o b) = (p \o a) \o b  BY <1>0, <2>3, <2>4, Assoc, Zenon
    <3>3. arrival[c] \o r.arrived = (((p \o r.passed) \o flushed[c]) \o r.buffer) \o MsgsOf(r.sendQ)
      BY <1>6, <2>1, <2>5, <2>6, <3>1, <3>2
    <3>. QED  BY <2>1, <2>4, <3>3 DEF Flows, Fresh, r, p
  <2>. QED  BY <2>8, <2>9
<1>2. CASE buffer[c] = <<>> /\ q # <<>>
  <2>. DEFINE y == <<op[s].msgs[1]>>
              z == MsgsOf(Tail(q))
  <2>1. r.buffer = buffer[c] /\ r.sendQ = Tail(q) /\ r.arrived = <<>> /\ r.passed = y
    BY <1>2, ReceiveFromSender
  <2>2. receivers[c] # 0
    <3>1. s \in Range(q)  BY <1>2, QueuedIs, TailOf
    <3>. QED  BY <3>1, QueuedWaits, BlockedParts
  <2>3. z \in Seq(Msgs) /\ op[s].msgs[1] \in Msgs /\ MsgsOf(q) = y \o z  BY <1>0, <1>2, MsgsOfTail
  <2>4. MsgsOf(r.sendQ) = z  BY <2>1
  <2>5. y \in Seq(Msgs)  BY <2>3
  <2>. HIDE DEF r, y, z, p, q
  <2>6. ((p \o y) \o <<>>) \o <<>> = p \o y
    <3>1. p \o y \in Seq(Msgs)  BY <1>0, <2>5
    <3>2. (p \o y) \o <<>> = p \o y  BY <3>1, ConcatEmptySeq
    <3>. QED  BY <3>2
  <2>7. arrival[c] = p \o (y \o z)  BY <1>0, <1>2, <1>6, <2>2, <2>3
  <2>8. p \o (y \o z) = (p \o y) \o z  BY <1>0, <2>3, <2>5, Assoc, Zenon
  <2>10. arrival[c] \o r.arrived = (((p \o r.passed) \o flushed[c]) \o r.buffer) \o MsgsOf(r.sendQ)
    BY <1>0, <1>2, <1>6, <2>1, <2>2, <2>4, <2>6, <2>7, <2>8
  <2>. QED  BY <2>1, <2>5, <2>10 DEF Flows, Fresh, r, p
<1>3. CASE buffer[c] = <<>> /\ q = <<>> /\ Matching(c, "send") # {}
  <2>. DEFINE u == Match(c, "send")
              k == FirstCase(u, c, "send")
              m == op[u].msgs[k]
  <2>1. r.buffer = buffer[c] /\ r.sendQ = sendQ[c] /\ r.arrived = <<m>> /\ r.passed = <<m>>
    BY <1>3, ReceiveFromSelect
  <2>2. /\ u \in Tasks /\ Waiting(u) /\ op[u].kind = "select" /\ WaitsTo(u, "send", c)
        /\ k \in DOMAIN op[u].cases /\ op[u].cases[k].kind = "send"
    BY <1>3, MatchWaits
  <2>. HIDE DEF r, u, k
  <2>3. receivers[c] # 0  BY <2>2, BlockedParts
  <2>4. m \in Msgs  BY <2>2 DEF BlockInv, OpsFit, MsgsFit
  <2>5. ~Offered(arrival, m)
    <3>1. Offered(arrival, m) <=> Accepted(u, k)  BY <2>2 DEF FlowInv, SuspendedAreTrue
    <3>. QED  BY <2>2, <3>1 DEF Accepted
  <2>. HIDE DEF m
  <2>6. Flows(c, r)  BY <1>3, <2>1, <2>3, <2>4, <2>5, FlowsThrough
  <2>. QED  BY <2>6 DEF r
<1>4. CASE buffer[c] = <<>> /\ q = <<>> /\ Matching(c, "send") = {} /\ senders[c] = 0
  <2>1. r.buffer = buffer[c] /\ r.sendQ = sendQ[c] /\ r.arrived = <<>> /\ r.passed = <<>>  BY <1>4, ReceiveClosed
  <2>. HIDE DEF r
  <2>2. Flows(c, r)  BY <2>1, FlowsNothing
  <2>. QED  BY <2>2 DEF r
<1>5. CASE buffer[c] = <<>> /\ q = <<>> /\ Matching(c, "send") = {} /\ senders[c] # 0
  <2>1. r = Attempt(c)  BY <1>5, ReceivePending
  <2>2. Flows(c, Attempt(c))  BY FieldsOf, FlowsNothing
  <2>. QED  BY <2>1, <2>2
<1>. QED  BY <1>1, <1>2, <1>3, <1>4, <1>5

(***************************************************************************)
(* What a task is told about the messages of its operation.                *)
(***************************************************************************)

(* Task u, given the wake w in a step that offers the messages A, is told  *)
(* the truth; A holds no message of a task that is not woken.              *)
TellsTask(u, w, A) ==
    /\ Answers(w, op[u])
    /\ \A i \in DOMAIN op[u].cases : op[u].cases[i].kind = "send" =>
          (Offered(arrival, op[u].msgs[i]) \/ op[u].msgs[i] \in A
              <=> w.status = "ready" /\ (op[u].kind = "select" => w.case = i))
Foreign(u, A) ==
    \A i \in DOMAIN op[u].cases : op[u].cases[i].kind = "send" => op[u].msgs[i] \notin A

(* A message that is offered was offered by an operation under way.        *)
Current(t, X, A) ==
    \A x \in A : \/ x \in X
                 \/ \E u \in Tasks \ {t} : \E i \in DOMAIN op[u].cases :
                       op[u].cases[i].kind = "send" /\ x = op[u].msgs[i]
Tells(t, ws, A) ==
    \A u \in Tasks \ {t} : IF ws[u] = <<>> THEN Foreign(u, A) ELSE TellsTask(u, ws[u][1], A)

LEMMA MsgIs ==
    ASSUME FlowInv, NEW u \in Tasks, NEW i \in DOMAIN op[u].cases, op[u].cases[i].kind = "send"
    PROVE  /\ op[u].msgs[i] = <<u, started[u], i>>
           /\ Offered(arrival, op[u].msgs[i]) <=> Accepted(u, i)
           /\ Waiting(u) => (Offered(arrival, op[u].msgs[i]) <=> op[u].kind = "send")
<1>1. op[u].msgs[i] = <<u, started[u], i>>  BY DEF FlowInv, MsgsAreNamed, Named
<1>2. Offered(arrival, op[u].msgs[i]) <=> Accepted(u, i)  BY DEF FlowInv, SuspendedAreTrue
<1>3. Waiting(u) => (Accepted(u, i) <=> op[u].kind = "send")  BY DEF Accepted
<1>. QED  BY <1>1, <1>2, <1>3

(* Two messages of different operations differ.                            *)
LEMMA ForeignTo ==
    ASSUME FlowInv, NEW u \in Tasks, NEW t, t # u, NEW n, NEW k
    PROVE  Foreign(u, {<<t, n, k>>})
<1>. SUFFICES ASSUME NEW i \in DOMAIN op[u].cases, op[u].cases[i].kind = "send"
              PROVE  op[u].msgs[i] # <<t, n, k>>
  BY DEF Foreign
<1>1. op[u].msgs[i] = <<u, started[u], i>>  BY MsgIs
<1>. QED  BY <1>1

(* A select that is claimed without its message being taken.               *)
LEMMA TellsSelect ==
    ASSUME FlowInv, NEW u \in Tasks, Waiting(u), op[u].kind = "select", NEW A, Foreign(u, A),
           NEW w, w.status # "ready" \/ (w.case \in DOMAIN op[u].cases /\ op[u].cases[w.case].kind = "receive")
    PROVE  TellsTask(u, w, A)
<1>. SUFFICES ASSUME NEW i \in DOMAIN op[u].cases, op[u].cases[i].kind = "send"
              PROVE  Offered(arrival, op[u].msgs[i]) \/ op[u].msgs[i] \in A
                        <=> w.status = "ready" /\ (op[u].kind = "select" => w.case = i)
  BY DEF TellsTask, Answers
<1>1. ~Offered(arrival, op[u].msgs[i])  BY MsgIs
<1>2. op[u].msgs[i] \notin A  BY DEF Foreign
<1>3. ~(w.status = "ready" /\ w.case = i)  OBVIOUS
<1>. QED  BY <1>1, <1>2, <1>3

(* A select whose case k is taken.                                         *)
LEMMA TellsTaken ==
    ASSUME FlowInv, NEW u \in Tasks, Waiting(u), op[u].kind = "select",
           NEW k \in DOMAIN op[u].cases, op[u].cases[k].kind = "send",
           NEW w, w.status = "ready", w.case = k
    PROVE  TellsTask(u, w, {op[u].msgs[k]})
<1>. SUFFICES ASSUME NEW i \in DOMAIN op[u].cases, op[u].cases[i].kind = "send"
              PROVE  Offered(arrival, op[u].msgs[i]) \/ op[u].msgs[i] = op[u].msgs[k] <=> w.case = i
  BY DEF TellsTask, Answers
<1>1. ~Offered(arrival, op[u].msgs[i])  BY MsgIs
<1>2. op[u].msgs[i] = <<u, started[u], i>> /\ op[u].msgs[k] = <<u, started[u], k>>  BY MsgIs
<1>3. <<u, started[u], i>> = <<u, started[u], k>> <=> i = k  OBVIOUS
<1>. QED  BY <1>1, <1>2, <1>3

(* A parked receiver has no message to be told about; a parked sender's    *)
(* message has been offered.                                               *)
LEMMA TellsReceiver ==
    ASSUME ClaimInv, NEW u \in Tasks, op[u].kind = "receive", NEW w, NEW A
    PROVE  TellsTask(u, w, A)
<1>1. SingleCase(u)  BY TaskByTask DEF TaskOK
<1>. DEFINE x == [kind |-> op[u].kind, chan |-> op[u].cases[1].chan]
<1>2. op[u].cases = <<x>> /\ x.kind = "receive"  BY <1>1 DEF SingleCase
<1>. HIDE DEF x
<1>3. \A i \in DOMAIN <<x>> : <<x>>[i] = x  OBVIOUS
<1>4. \A i \in DOMAIN op[u].cases : op[u].cases[i].kind = "receive"  BY <1>2, <1>3
<1>. QED  BY <1>4 DEF TellsTask, Answers

LEMMA TellsSender ==
    ASSUME FlowInv, NEW u \in Tasks, Waiting(u), op[u].kind = "send", NEW w, w.status = "ready", NEW A
    PROVE  TellsTask(u, w, A)
  BY MsgIs DEF TellsTask, Answers

LEMMA NobodyTold ==
    ASSUME NEW t, NEW ws, \A u \in Tasks : ws[u] = <<>>, NEW A, A = {}
    PROVE  Tells(t, ws, A)
  BY DEF Tells, Foreign

LEMMA TrySendTells ==
    ASSUME ClaimInv, FlowInv, NEW c \in Channels, NEW t, NEW n, NEW k
    PROVE  /\ Tells(t, TrySend(c, <<t, n, k>>).wakes, Range(TrySend(c, <<t, n, k>>).arrived))
           /\ LET m == <<t, n, k>>
                  r == TrySend(c, m)
              IN  \/ r.status = "ready" /\ r.arrived = <<m>> /\ Range(r.arrived) = {m}
                  \/ r.status # "ready" /\ r.arrived = <<>> /\ Range(r.arrived) = {}
<1>. DEFINE m == <<t, n, k>>
            r == TrySend(c, m)
<1>. HIDE DEF m
<1>0. Range(<<m>>) = {m} /\ Range(<<>>) = {}  BY DEF Range
<1>6. \A u \in Tasks \ {t} : Foreign(u, {m})  BY ForeignTo DEF m
<1>7. Wk("ready", 0) \in Waits /\ Wk("event", 0) \in Waits /\ Wk("ready", 0).status = "ready"
      /\ Wk("event", 0).status = "event"
  BY WkIs DEF Statuses
<1>1. CASE receivers[c] = 0
  <2>1. r.wakes = NoWakes /\ r.arrived = <<>> /\ r.status = "closed"  BY <1>1, SendClosed
  <2>. HIDE DEF r
  <2>2. Tells(t, r.wakes, Range(r.arrived))  BY <1>0, <2>1, NoWakesIs, NobodyTold
  <2>. QED  BY <1>0, <2>1, <2>2 DEF r, m
<1>2. CASE receivers[c] # 0 /\ recvQ[c] # <<>>
  <2>. DEFINE h == Head(recvQ[c])
  <2>1. r.wakes = WakeEach({h}, Wk("ready", 0)) /\ r.arrived = <<m>> /\ r.status = "ready"  BY <1>2, SendToReceiver
  <2>2. h \in Tasks /\ op[h].kind = "receive"  BY <1>2, QueuedIs, TailOf
  <2>. HIDE DEF r, h
  <2>3. ASSUME NEW u \in Tasks \ {t}
        PROVE  IF r.wakes[u] = <<>> THEN Foreign(u, {m}) ELSE TellsTask(u, r.wakes[u][1], {m})
    <3>1. u # h => r.wakes[u] = <<>>  BY <1>7, <2>1, WakeEachIs
    <3>2. u = h => TellsTask(u, r.wakes[u][1], {m})  BY <2>2, TellsReceiver
    <3>. QED  BY <1>6, <3>1, <3>2
  <2>4. Tells(t, r.wakes, Range(r.arrived))  BY <1>0, <2>1, <2>3 DEF Tells
  <2>. QED  BY <1>0, <2>1, <2>4 DEF r, m
<1>3. CASE receivers[c] # 0 /\ recvQ[c] = <<>> /\ Matching(c, "receive") # {}
  <2>. DEFINE v == Match(c, "receive")
              j == FirstCase(v, c, "receive")
  <2>1. r.wakes = WakeEach({v}, Wk("ready", j)) /\ r.arrived = <<m>> /\ r.status = "ready"  BY <1>3, SendToSelect
  <2>2. /\ v \in Tasks /\ Waiting(v) /\ op[v].kind = "select"
        /\ j \in DOMAIN op[v].cases /\ op[v].cases[j].kind = "receive" /\ j \in Nat
    BY <1>3, MatchWaits
  <2>. HIDE DEF r, v, j
  <2>3. Wk("ready", j) \in Waits /\ Wk("ready", j).case = j  BY <2>2, WkIs DEF Statuses
  <2>4. ASSUME NEW u \in Tasks \ {t}
        PROVE  IF r.wakes[u] = <<>> THEN Foreign(u, {m}) ELSE TellsTask(u, r.wakes[u][1], {m})
    <3>1. u # v => r.wakes[u] = <<>>  BY <2>1, <2>3, WakeEachIs
    <3>2. ASSUME u = v  PROVE TellsTask(u, r.wakes[u][1], {m})
      <4>1. r.wakes[u][1] = Wk("ready", j)  BY <2>1, <2>3, <3>2, WakeEachIs
      <4>2. TellsTask(u, Wk("ready", j), {m})  BY <1>6, <2>2, <2>3, <3>2, TellsSelect
      <4>. QED  BY <4>1, <4>2
    <3>. QED  BY <1>6, <3>1, <3>2
  <2>5. Tells(t, r.wakes, Range(r.arrived))  BY <1>0, <2>1, <2>4 DEF Tells
  <2>. QED  BY <1>0, <2>1, <2>5 DEF r, m
<1>4. CASE receivers[c] # 0 /\ recvQ[c] = <<>> /\ Matching(c, "receive") = {} /\ Len(buffer[c]) < Capacity[c]
  <2>1. r.wakes = Signals(c) /\ r.arrived = <<m>> /\ r.status = "ready"  BY <1>4, SendToBuffer
  <2>. HIDE DEF r
  <2>2. ASSUME NEW u \in Tasks \ {t}
        PROVE  IF r.wakes[u] = <<>> THEN Foreign(u, {m}) ELSE TellsTask(u, r.wakes[u][1], {m})
    <3>1. u \notin Unclaimed(c) => r.wakes[u] = <<>>  BY <1>7, <2>1, WakeEachIs DEF Signals
    <3>2. ASSUME u \in Unclaimed(c)  PROVE TellsTask(u, r.wakes[u][1], {m})
      <4>1. r.wakes[u][1] = Wk("event", 0)  BY <1>7, <2>1, <3>2, WakeEachIs DEF Signals
      <4>2. Waiting(u) /\ op[u].kind = "select"  BY <3>2, UnclaimedWait DEF Unclaimed
      <4>3. TellsTask(u, Wk("event", 0), {m})  BY <1>6, <1>7, <4>2, TellsSelect
      <4>. QED  BY <4>1, <4>3
    <3>. QED  BY <1>6, <3>1, <3>2
  <2>3. Tells(t, r.wakes, Range(r.arrived))  BY <1>0, <2>1, <2>2 DEF Tells
  <2>. QED  BY <1>0, <2>1, <2>3 DEF r, m
<1>5. CASE receivers[c] # 0 /\ recvQ[c] = <<>> /\ Matching(c, "receive") = {} /\ ~(Len(buffer[c]) < Capacity[c])
  <2>1. r = Attempt(c)  BY <1>5, SendPending
  <2>2. r.wakes = NoWakes /\ r.arrived = <<>> /\ r.status = "pending"  BY <2>1, FieldsOf
  <2>. HIDE DEF r
  <2>3. Tells(t, r.wakes, Range(r.arrived))  BY <1>0, <2>2, NoWakesIs, NobodyTold
  <2>. QED  BY <1>0, <2>2, <2>3 DEF r, m
<1>. QED  BY <1>1, <1>2, <1>3, <1>4, <1>5

LEMMA TryReceiveTells ==
    ASSUME ClaimInv, FlowInv, NEW c \in Channels, NEW t, ~Waiting(t)
    PROVE  LET r == TryReceive(c)
           IN  Tells(t, r.wakes, Range(r.arrived)) /\ Current(t, {}, Range(r.arrived))
<1>. DEFINE r == TryReceive(c)
<1>0. \A m : Range(<<m>>) = {m} /\ Range(<<>>) = {}  BY DEF Range
<1>7. Wk("ready", 0) \in Waits /\ Wk("event", 0) \in Waits /\ Wk("ready", 0).status = "ready"
      /\ Wk("event", 0).status = "event"
  BY WkIs DEF Statuses
<1>8. \A u \in Tasks : Foreign(u, {})  BY DEF Foreign
<1>9. Current(t, {}, {})  BY DEF Current
<1>1. CASE buffer[c] # <<>>
  <2>. DEFINE s == Head(sendQ[c])
              X == IF Refills(c) THEN {s} ELSE {}
              v == Signals(c)
              w == WakeEach(X, Wk("ready", 0))
  <2>1. r.wakes = AndThen(v, w) /\ r.arrived = <<>>  BY <1>1, ReceiveFromBuffer
  <2>2. \A u \in X : u \in Tasks /\ Waiting(u) /\ op[u].kind = "send"
    <3>1. Refills(c) => s \in Range(sendQ[c])  BY QueuedIs, TailOf DEF Refills
    <3>. QED  BY <3>1, QueuedIs
  <2>. HIDE DEF r, X
  <2>3. /\ v \in [Tasks -> Seq(Waits)] /\ w \in [Tasks -> Seq(Waits)]
        /\ \A u \in Tasks : /\ u \notin Unclaimed(c) => v[u] = <<>>
                            /\ u \in Unclaimed(c) => v[u] # <<>> /\ v[u][1] = Wk("event", 0)
                            /\ u \notin X => w[u] = <<>>
                            /\ u \in X => w[u] # <<>> /\ w[u][1] = Wk("ready", 0)
    BY <1>7, WakeEachIs DEF Signals
  <2>. HIDE DEF v, w
  <2>6. /\ \A u \in Tasks : w[u] = <<>> => r.wakes[u] = v[u]
        /\ \A u \in Tasks : v[u] = <<>> => r.wakes[u] = w[u]
    <3>1. v \in [Tasks -> Seq(Waits)] /\ w \in [Tasks -> Seq(Waits)]  BY <2>3
    <3>. QED  BY <2>1, <3>1, AndThenIs
  <2>4. ASSUME NEW u \in Tasks \ {t}
        PROVE  IF r.wakes[u] = <<>> THEN Foreign(u, {}) ELSE TellsTask(u, r.wakes[u][1], {})
    <3>1. ASSUME u \in X  PROVE TellsTask(u, r.wakes[u][1], {})
      <4>1. u \notin Unclaimed(c)  BY <2>2, <3>1, UnclaimedWait DEF Unclaimed
      <4>2. r.wakes[u] = w[u]  BY <2>3, <2>6, <4>1
      <4>3. TellsTask(u, Wk("ready", 0), {})  BY <1>7, <2>2, <3>1, TellsSender
      <4>. QED  BY <2>3, <3>1, <4>2, <4>3
    <3>2. ASSUME u \notin X, u \in Unclaimed(c)  PROVE TellsTask(u, r.wakes[u][1], {})
      <4>1. r.wakes[u] = v[u]  BY <2>3, <2>6, <3>2
      <4>2. Waiting(u) /\ op[u].kind = "select"  BY <3>2, UnclaimedWait DEF Unclaimed
      <4>3. TellsTask(u, Wk("event", 0), {})  BY <1>7, <1>8, <4>2, TellsSelect
      <4>. QED  BY <2>3, <3>2, <4>1, <4>3
    <3>3. ASSUME u \notin X, u \notin Unclaimed(c)  PROVE r.wakes[u] = <<>>
      BY <2>3, <2>6, <3>3
    <3>. QED  BY <1>8, <3>1, <3>2, <3>3
  <2>5. Tells(t, r.wakes, Range(r.arrived))  BY <1>0, <2>1, <2>4 DEF Tells
  <2>. QED  BY <1>0, <1>9, <2>1, <2>5 DEF r
<1>2. CASE buffer[c] = <<>> /\ sendQ[c] # <<>>
  <2>. DEFINE s == Head(sendQ[c])
  <2>1. r.wakes = WakeEach({s}, Wk("ready", 0)) /\ r.arrived = <<>>  BY <1>2, ReceiveFromSender
  <2>2. s \in Tasks /\ Waiting(s) /\ op[s].kind = "send"  BY <1>2, QueuedIs, TailOf
  <2>. HIDE DEF r, s
  <2>3. ASSUME NEW u \in Tasks \ {t}
        PROVE  IF r.wakes[u] = <<>> THEN Foreign(u, {}) ELSE TellsTask(u, r.wakes[u][1], {})
    <3>1. u # s => r.wakes[u] = <<>>  BY <1>7, <2>1, WakeEachIs
    <3>2. ASSUME u = s  PROVE TellsTask(u, r.wakes[u][1], {})
      <4>1. r.wakes[u][1] = Wk("ready", 0)  BY <1>7, <2>1, <3>2, WakeEachIs
      <4>2. TellsTask(u, Wk("ready", 0), {})  BY <1>7, <2>2, <3>2, TellsSender
      <4>. QED  BY <4>1, <4>2
    <3>. QED  BY <1>8, <3>1, <3>2
  <2>4. Tells(t, r.wakes, Range(r.arrived))  BY <1>0, <2>1, <2>3 DEF Tells
  <2>. QED  BY <1>0, <1>9, <2>1, <2>4 DEF r
<1>3. CASE buffer[c] = <<>> /\ sendQ[c] = <<>> /\ Matching(c, "send") # {}
  <2>. DEFINE v == Match(c, "send")
              k == FirstCase(v, c, "send")
              m == op[v].msgs[k]
  <2>1. r.wakes = WakeEach({v}, Wk("ready", k)) /\ r.arrived = <<m>>  BY <1>3, ReceiveFromSelect
  <2>2. /\ v \in Tasks /\ Waiting(v) /\ op[v].kind = "select"
        /\ k \in DOMAIN op[v].cases /\ op[v].cases[k].kind = "send" /\ k \in Nat
    BY <1>3, MatchWaits
  <2>. HIDE DEF r, v, k
  <2>3. Wk("ready", k) \in Waits /\ Wk("ready", k).case = k /\ Wk("ready", k).status = "ready"
    BY <2>2, WkIs DEF Statuses
  <2>4. m = <<v, started[v], k>>  BY <2>2, MsgIs
  <2>5. ASSUME NEW u \in Tasks \ {t}
        PROVE  IF r.wakes[u] = <<>> THEN Foreign(u, {m}) ELSE TellsTask(u, r.wakes[u][1], {m})
    <3>1. u # v => r.wakes[u] = <<>>  BY <2>1, <2>3, WakeEachIs
    <3>3. u # v => Foreign(u, {m})  BY <2>4, ForeignTo
    <3>2. ASSUME u = v  PROVE r.wakes[u] # <<>> /\ TellsTask(u, r.wakes[u][1], {m})
      <4>1. r.wakes[u] # <<>> /\ r.wakes[u][1] = Wk("ready", k)  BY <2>1, <2>3, <3>2, WakeEachIs
      <4>2. TellsTask(v, Wk("ready", k), {m})  BY <2>2, <2>3, TellsTaken
      <4>. QED  BY <3>2, <4>1, <4>2
    <3>. QED  BY <3>1, <3>2, <3>3
  <2>6. Current(t, {}, {m})
    <3>1. v \in Tasks \ {t}  BY <2>2
    <3>. QED  BY <2>2, <3>1 DEF Current
  <2>. HIDE DEF m
  <2>7. Tells(t, r.wakes, Range(r.arrived))  BY <1>0, <2>1, <2>5 DEF Tells
  <2>. QED  BY <1>0, <2>1, <2>6, <2>7 DEF r
<1>4. CASE buffer[c] = <<>> /\ sendQ[c] = <<>> /\ Matching(c, "send") = {} /\ senders[c] = 0
  <2>1. r.wakes = NoWakes /\ r.arrived = <<>>  BY <1>4, ReceiveClosed
  <2>. HIDE DEF r
  <2>2. Tells(t, r.wakes, Range(r.arrived))  BY <1>0, <2>1, NoWakesIs, NobodyTold
  <2>. QED  BY <1>0, <1>9, <2>1, <2>2 DEF r
<1>5. CASE buffer[c] = <<>> /\ sendQ[c] = <<>> /\ Matching(c, "send") = {} /\ senders[c] # 0
  <2>1. r = Attempt(c)  BY <1>5, ReceivePending
  <2>2. r.wakes = NoWakes /\ r.arrived = <<>>  BY <2>1, FieldsOf
  <2>. HIDE DEF r
  <2>3. Tells(t, r.wakes, Range(r.arrived))  BY <1>0, <2>2, NoWakesIs, NobodyTold
  <2>. QED  BY <1>0, <1>9, <2>2, <2>3 DEF r
<1>. QED  BY <1>1, <1>2, <1>3, <1>4, <1>5

(***************************************************************************)
(* The invariant, task by task and channel by channel.                     *)
(***************************************************************************)

TaskTrue(t) ==
    /\ Named(op[t], t, started[t])
    /\ Waiting(t) \/ Answers(Told(t), op[t])
    /\ \A i \in DOMAIN op[t].cases :
          op[t].cases[i].kind = "send" => (Offered(arrival, op[t].msgs[i]) <=> Accepted(t, i))

LEMMA FlowByTaskNext ==
    ASSUME HistoryType', FlushedIsClosed', Once(arrival'), OfferedAreStarted', FifoExactlyOnce',
           \A t \in Tasks : TaskTrue(t)'
    PROVE  FlowInv'
<1>1. MsgsAreNamed'
  <2>1. \A t \in Tasks : Named(op[t], t, started[t])'  BY DEF TaskTrue
  <2>. QED  BY <2>1 DEF MsgsAreNamed
<1>2. SuspendedAreTrue'  BY DEF TaskTrue, SuspendedAreTrue
<1>. QED  BY <1>1, <1>2 DEF FlowInv

(* A task that a step leaves alone or wakes.                               *)
TruthFollows(u, ws) ==
    /\ op'[u] = op[u] /\ started'[u] = started[u]
    /\ ws[u] = <<>> => stage'[u] = stage[u] /\ wake'[u] = wake[u] /\ mailbox'[u] = mailbox[u]
    /\ ws[u] # <<>> =>
          \/ stage'[u] = "woken" /\ wake'[u] = ws[u][1] /\ mailbox'[u] = <<>>
          \/ stage'[u] = "parked" /\ mailbox'[u] = ws[u]
    /\ ws[u] # <<>> => Answers(ws[u][1], op[u])
    /\ \A i \in DOMAIN op[u].cases : op[u].cases[i].kind = "send" =>
          IF ws[u] = <<>> THEN Offered(arrival', op[u].msgs[i]) <=> Offered(arrival, op[u].msgs[i])
          ELSE Offered(arrival', op[u].msgs[i])
                  <=> ws[u][1].status = "ready" /\ (op[u].kind = "select" => ws[u][1].case = i)

LEMMA TruthKept ==
    ASSUME FlowInv, NEW ws, NEW u \in Tasks, TruthFollows(u, ws)
    PROVE  TaskTrue(u)'
<1>1. Named(op[u], u, started[u])'
  <2>1. Named(op[u], u, started[u])  BY DEF FlowInv, MsgsAreNamed
  <2>. QED  BY <2>1 DEF Named, TruthFollows
<1>2. ASSUME NEW i \in DOMAIN op[u].cases, op[u].cases[i].kind = "send"
      PROVE  Offered(arrival', op[u].msgs[i]) <=> Accepted(u, i)'
  <2>1. CASE ws[u] = <<>>
    <3>1. Offered(arrival, op[u].msgs[i]) <=> Accepted(u, i)  BY <1>2, MsgIs
    <3>2. Accepted(u, i)' <=> Accepted(u, i)  BY <2>1 DEF TruthFollows, Accepted, Told, Waiting
    <3>3. Offered(arrival', op[u].msgs[i]) <=> Offered(arrival, op[u].msgs[i])  BY <1>2, <2>1 DEF TruthFollows
    <3>. QED  BY <3>1, <3>2, <3>3
  <2>2. CASE ws[u] # <<>>
    <3>1. Accepted(u, i)' <=> ws[u][1].status = "ready" /\ (op[u].kind = "select" => ws[u][1].case = i)
      <4>1. op'[u] = op[u]  BY DEF TruthFollows
      <4>2. CASE stage'[u] = "woken" /\ wake'[u] = ws[u][1] /\ mailbox'[u] = <<>>
        BY <4>1, <4>2 DEF Accepted, Told, Waiting
      <4>3. CASE stage'[u] = "parked" /\ mailbox'[u] = ws[u]
        BY <2>2, <4>1, <4>3 DEF Accepted, Told, Waiting
      <4>. QED  BY <2>2, <4>2, <4>3 DEF TruthFollows
    <3>2. Offered(arrival', op[u].msgs[i]) <=> ws[u][1].status = "ready" /\ (op[u].kind = "select" => ws[u][1].case = i)
      BY <1>2, <2>2 DEF TruthFollows
    <3>. QED  BY <3>1, <3>2
  <2>. QED  BY <2>1, <2>2
<1>3. op'[u] = op[u]  BY DEF TruthFollows
<1>4. (Waiting(u) \/ Answers(Told(u), op[u]))'
  <2>1. CASE ws[u] = <<>>
    <3>1. Waiting(u) \/ Answers(Told(u), op[u])  BY DEF FlowInv, SuspendedAreTrue
    <3>2. (Waiting(u)' <=> Waiting(u)) /\ Told(u)' = Told(u)  BY <2>1 DEF TruthFollows, Told, Waiting
    <3>. QED  BY <1>3, <3>1, <3>2 DEF Answers
  <2>2. CASE ws[u] # <<>>
    <3>1. Told(u)' = ws[u][1]  BY <2>2 DEF TruthFollows, Told
    <3>2. Answers(ws[u][1], op[u])  BY <2>2 DEF TruthFollows
    <3>. QED  BY <1>3, <3>1, <3>2 DEF Answers
  <2>. QED  BY <2>1, <2>2
<1>. QED  BY <1>1, <1>2, <1>3, <1>4 DEF TaskTrue

(* A task without an operation has nothing to be told.                     *)
LEMMA IdleIsTrue ==
    ASSUME NEW t, op'[t].kind = "none", op'[t].cases = <<>>
    PROVE  TaskTrue(t)'
  BY DEF TaskTrue, Named, Answers

LEMMA FifoNext ==
    ASSUME NEW d \in Channels,
           arrival'[d] = ((taken'[d] \o flushed'[d]) \o buffer'[d]) \o MsgsIn(op', sendQ'[d])
    PROVE  (arrival[d] = taken[d] \o flushed[d] \o buffer[d] \o ParkedMsgs(d))'
<1>1. ParkedMsgs(d)' = MsgsIn(op', sendQ'[d])  BY DEF ParkedMsgs, MsgsIn
<1>. QED  BY <1>1

(* The messages of a queue do not change when somebody else's operation    *)
(* does.                                                                   *)
LEMMA MsgsKept ==
    ASSUME ClaimInv, NEW t, ~Waiting(t), \A u \in Tasks \ {t} : op'[u] = op[u], NEW d \in Channels
    PROVE  /\ MsgsIn(op', sendQ[d]) = MsgsOf(sendQ[d])
           /\ \A q \in Seq(Tasks) : Range(q) \subseteq Range(sendQ[d]) => MsgsIn(op', q) = MsgsOf(q)
<1>1. \A u \in Range(sendQ[d]) : u \in Tasks \ {t}  BY QueuedIs
<1>2. ASSUME NEW q \in Seq(Tasks), Range(q) \subseteq Range(sendQ[d])  PROVE MsgsIn(op', q) = MsgsOf(q)
  <2>1. \A i \in DOMAIN q : q[i] \in Tasks \ {t}  BY <1>1, <1>2 DEF Range
  <2>2. \A i \in DOMAIN q : op'[q[i]].msgs[1] = op[q[i]].msgs[1]  BY <2>1
  <2>. QED  BY <2>2 DEF MsgsOf, MsgsIn
<1>3. sendQ[d] \in Seq(Tasks)  BY QueuedIs
<1>. QED  BY <1>2, <1>3

(* A step of task t that commits r on channel c; X are the messages of its *)
(* own operation.                                                          *)
CommitsFlow(t, c, r, base, baseWake, X) ==
    /\ Commit(t, c, r, base, baseWake) /\ Sound(r.wakes) /\ ~Waiting(t)
    /\ Fresh(arrival, r.arrived) /\ r.passed \in Seq(Msgs)
    /\ Tells(t, r.wakes, Range(r.arrived)) /\ Current(t, X, Range(r.arrived))
    /\ \A u \in Tasks \ {t} : /\ base[u] = stage[u] /\ baseWake[u] = wake[u]
                              /\ op'[u] = op[u] /\ started'[u] = started[u]
    /\ \A x \in X : x[1] = t /\ x[2] <= started'[t]
    /\ started[t] <= started'[t] /\ receivers' = receivers /\ flushed' = flushed

LEMMA CommitFlows ==
    ASSUME ClaimInv, ClaimInv', BlockInv, FlowInv, NEW t \in Tasks, NEW c \in Channels, NEW r, NEW base, NEW baseWake, NEW X,
           CommitsFlow(t, c, r, base, baseWake, X), TaskTrue(t)',
           arrival[c] \o r.arrived =
               (((taken[c] \o r.passed) \o flushed[c]) \o r.buffer) \o MsgsIn(op', r.sendQ)
    PROVE  /\ FlowInv'
           /\ \A x : Offered(arrival', x) <=> Offered(arrival, x) \/ x \in Range(r.arrived)
<1>. DEFINE ws == r.wakes
            A == Range(r.arrived)
            e == Home[t]
<1>1. /\ buffer' = [buffer EXCEPT ![c] = r.buffer] /\ sendQ' = [sendQ EXCEPT ![c] = r.sendQ]
      /\ arrival' = [arrival EXCEPT ![c] = @ \o r.arrived] /\ taken' = [taken EXCEPT ![c] = @ \o r.passed]
      /\ WakeTasks(ws, e, base, baseWake)
  BY DEF CommitsFlow, Commit
<1>2. Sound(ws) /\ Tells(t, ws, A) /\ Current(t, X, A)  BY DEF CommitsFlow
<1>. HIDE DEF ws, A, e
<1>3. /\ arrival \in [Channels -> Seq(Msgs)] /\ taken \in [Channels -> Seq(Msgs)]
      /\ flushed \in [Channels -> Seq(Msgs)] /\ Once(arrival)
  BY DEF FlowInv, HistoryType
<1>4. /\ arrival' \in [Channels -> Seq(Msgs)] /\ Once(arrival') /\ arrival'[c] = arrival[c] \o r.arrived
      /\ \A d \in Channels : d # c => arrival'[d] = arrival[d]
      /\ \A x : Offered(arrival', x) <=> Offered(arrival, x) \/ x \in A
  <2>1. Fresh(arrival, r.arrived)  BY DEF CommitsFlow
  <2>2. Offering(arrival, c, r.arrived, arrival')  BY <1>1, <1>3, <2>1 DEF Offering
  <2>. QED  BY <2>2, OfferOne DEF A
<1>5. HistoryType'
  <2>1. r.passed \in Seq(Msgs) /\ flushed' = flushed  BY DEF CommitsFlow
  <2>2. taken[c] \o r.passed \in Seq(Msgs)  BY <1>3, <2>1
  <2>3. taken' \in [Channels -> Seq(Msgs)]  BY <1>1, <1>3, <2>2
  <2>. QED  BY <1>3, <1>4, <2>1, <2>3 DEF HistoryType
<1>6. FlushedIsClosed'  BY DEF FlowInv, FlushedIsClosed, CommitsFlow
<1>7. FifoExactlyOnce'
  <2>1. ASSUME NEW d \in Channels
        PROVE  arrival'[d] = ((taken'[d] \o flushed'[d]) \o buffer'[d]) \o MsgsIn(op', sendQ'[d])
    <3>0. buffer \in [Channels -> Seq(Msgs)] /\ sendQ \in [Channels -> Seq(Tasks)]
      BY DEF BlockInv, BufferFits, ClaimInv, ClaimType
    <3>00. flushed' = flushed  BY DEF CommitsFlow
    <3>1. CASE d = c
      <4>1. taken'[c] = taken[c] \o r.passed /\ buffer'[c] = r.buffer /\ sendQ'[c] = r.sendQ
        BY <1>1, <1>3, <3>0
      <4>. QED  BY <1>4, <3>00, <3>1, <4>1
    <3>2. CASE d # c
      <4>1. taken'[d] = taken[d] /\ buffer'[d] = buffer[d] /\ sendQ'[d] = sendQ[d] /\ arrival'[d] = arrival[d]
        BY <1>1, <1>3, <1>4, <3>0, <3>2
      <4>2. ~Waiting(t) /\ \A u \in Tasks \ {t} : op'[u] = op[u]  BY DEF CommitsFlow
      <4>3. MsgsIn(op', sendQ[d]) = MsgsOf(sendQ[d])  BY <4>2, MsgsKept
      <4>4. arrival[d] = ((taken[d] \o flushed[d]) \o buffer[d]) \o MsgsOf(sendQ[d])  BY FlowParts
      <4>. QED  BY <3>00, <4>1, <4>3, <4>4
    <3>. QED  BY <3>1, <3>2
  <2>2. \A d \in Channels : (arrival[d] = taken[d] \o flushed[d] \o buffer[d] \o ParkedMsgs(d))'
    BY <2>1, FifoNext
  <2>. QED  BY <2>2 DEF FifoExactlyOnce
<1>8. OfferedAreStarted'
  <2>. SUFFICES ASSUME NEW m \in Msgs, Offered(arrival', m)  PROVE m[2] <= started'[m[1]]
    BY DEF OfferedAreStarted
  <2>1. started \in [Tasks -> 0 .. MaxOps] /\ started' \in [Tasks -> 0 .. MaxOps] /\ MaxOps \in Nat
    BY ConstantsAssumption DEF ClaimInv, ClaimType
  <2>2. m[1] \in Tasks /\ m[2] \in 1 .. MaxOps  BY DEF Msgs
  <2>3. \A u \in Tasks : started[u] <= started'[u]
    <3>1. \A u \in Tasks \ {t} : started'[u] = started[u]  BY DEF CommitsFlow
    <3>2. started[t] <= started'[t]  BY DEF CommitsFlow
    <3>3. \A u \in Tasks : started[u] <= started[u]  BY <2>1
    <3>. QED  BY <3>1, <3>2, <3>3
  <2>4. CASE Offered(arrival, m)
    <3>1. m[2] <= started[m[1]]  BY <2>4 DEF FlowInv, OfferedAreStarted
    <3>2. started[m[1]] \in Nat /\ started'[m[1]] \in Nat /\ started[m[1]] <= started'[m[1]]  BY <2>1, <2>2, <2>3
    <3>. QED  BY <2>2, <3>1, <3>2
  <2>5. CASE m \in X
    BY <2>5 DEF CommitsFlow
  <2>6. CASE \E u \in Tasks \ {t} : \E i \in DOMAIN op[u].cases : op[u].cases[i].kind = "send" /\ m = op[u].msgs[i]
    <3>1. PICK u \in Tasks \ {t} : \E i \in DOMAIN op[u].cases : op[u].cases[i].kind = "send" /\ m = op[u].msgs[i]
      BY <2>6
    <3>2. PICK i \in DOMAIN op[u].cases : op[u].cases[i].kind = "send" /\ m = op[u].msgs[i]  BY <3>1
    <3>3. m = <<u, started[u], i>>  BY <3>2, MsgIs
    <3>4. m[1] = u /\ m[2] = started[u]  BY <3>3
    <3>5. started[u] <= started'[u]  BY <2>3
    <3>. QED  BY <3>4, <3>5
  <2>. QED  BY <1>2, <1>4, <2>4, <2>5, <2>6 DEF Current
<1>9. ASSUME NEW u \in Tasks, u # t  PROVE TaskTrue(u)'
  <2>1. op'[u] = op[u] /\ started'[u] = started[u] /\ base[u] = stage[u] /\ baseWake[u] = wake[u]
    BY <1>9 DEF CommitsFlow
  <2>2. ws[u] = <<>> => stage'[u] = stage[u] /\ wake'[u] = wake[u] /\ mailbox'[u] = mailbox[u]
    BY <1>1, <1>2, <2>1, Woken
  <2>3. ws[u] # <<>> => \/ stage'[u] = "woken" /\ wake'[u] = ws[u][1] /\ mailbox'[u] = <<>>
                        \/ stage'[u] = "parked" /\ mailbox'[u] = ws[u]
    <3>1. ws[u] # <<>> => stage[u] = "parked"  BY <1>2 DEF Sound, Waiting
    <3>2. ws[u] # <<>> => \/ stage'[u] = "woken" /\ wake'[u] = ws[u][1] /\ mailbox'[u] = <<>>
                          \/ stage'[u] = base[u] /\ wake'[u] = baseWake[u] /\ mailbox'[u] = ws[u]
      BY <1>1, <1>2, Woken
    <3>. QED  BY <2>1, <3>1, <3>2
  <2>4. ASSUME NEW i \in DOMAIN op[u].cases, op[u].cases[i].kind = "send"
        PROVE  IF ws[u] = <<>> THEN Offered(arrival', op[u].msgs[i]) <=> Offered(arrival, op[u].msgs[i])
               ELSE Offered(arrival', op[u].msgs[i])
                       <=> ws[u][1].status = "ready" /\ (op[u].kind = "select" => ws[u][1].case = i)
    <3>1. IF ws[u] = <<>> THEN Foreign(u, A) ELSE TellsTask(u, ws[u][1], A)  BY <1>2, <1>9 DEF Tells
    <3>2. ws[u] = <<>> => op[u].msgs[i] \notin A  BY <2>4, <3>1 DEF Foreign
    <3>3. ws[u] # <<>> => (Offered(arrival, op[u].msgs[i]) \/ op[u].msgs[i] \in A
                             <=> ws[u][1].status = "ready" /\ (op[u].kind = "select" => ws[u][1].case = i))
      BY <2>4, <3>1 DEF TellsTask
    <3>. QED  BY <1>4, <3>2, <3>3
  <2>6. ws[u] # <<>> => Answers(ws[u][1], op[u])  BY <1>2, <1>9 DEF Tells, TellsTask
  <2>5. TruthFollows(u, ws)  BY <2>1, <2>2, <2>3, <2>4, <2>6 DEF TruthFollows
  <2>. QED  BY <2>5, TruthKept
<1>10. \A u \in Tasks : TaskTrue(u)'  BY <1>9
<1>. QED  BY <1>4, <1>5, <1>6, <1>7, <1>8, <1>10, FlowByTaskNext DEF A

(***************************************************************************)
(* What the steps do to the history and to the verdicts.                   *)
(***************************************************************************)

(* A message whose operation has not ended.                                *)
Open(x) == x[2] > started[x[1]] \/ (op[x[1]].kind # "none" /\ x[2] = started[x[1]])

(* Operation o of task t ends and the task is told the truth.              *)
Judged(t, o, status, case) ==
    /\ Judge(o, status, case) /\ Named(o, t, started'[t]) /\ MsgsFit(o) /\ op'[t].kind = "none"
    /\ \A i \in DOMAIN o.cases : o.cases[i].kind = "send" =>
          (Offered(arrival', o.msgs[i]) <=> status = "ready" /\ o.msgs[i] = o.msgs[case])

(* Only messages of operations under way are offered or withdrawn, and     *)
(* what a task is told is true.                                            *)
Honest ==
    /\ \A x \in Msgs : Open(x) \/ (Offered(arrival', x) <=> Offered(arrival, x))
    /\ verdict' = verdict \/ \E t \in Tasks : \E o, status, case : Judged(t, o, status, case)
    /\ \A u \in Tasks : /\ started[u] <= started'[u]
                        /\ op'[u].kind # "none" => op[u].kind # "none" \/ started[u] < started'[u]

LEMMA SignalsTell ==
    ASSUME ClaimInv, FlowInv, NEW c \in Channels, NEW t, NEW A, \A u \in Tasks \ {t} : Foreign(u, A)
    PROVE  Tells(t, Signals(c), A)
<1>1. Wk("event", 0) \in Waits /\ Wk("event", 0).status = "event"  BY WkIs DEF Statuses
<1>2. ASSUME NEW u \in Tasks \ {t}
      PROVE  IF Signals(c)[u] = <<>> THEN Foreign(u, A) ELSE TellsTask(u, Signals(c)[u][1], A)
  <2>1. u \notin Unclaimed(c) => Signals(c)[u] = <<>>  BY <1>1, WakeEachIs DEF Signals
  <2>2. ASSUME u \in Unclaimed(c)  PROVE TellsTask(u, Signals(c)[u][1], A)
    <3>1. Signals(c)[u][1] = Wk("event", 0)  BY <1>1, <2>2, WakeEachIs DEF Signals
    <3>2. Waiting(u) /\ op[u].kind = "select"  BY <2>2, UnclaimedWait DEF Unclaimed
    <3>3. TellsTask(u, Wk("event", 0), A)  BY <1>1, <3>2, TellsSelect
    <3>. QED  BY <3>1, <3>3
  <2>. QED  BY <2>1, <2>2
<1>. QED  BY <1>2 DEF Tells

(* Steps that neither offer nor take a message.                            *)
Still == /\ UNCHANGED <<arrival, taken, flushed, buffer, sendQ>>
         /\ \A c \in Channels : receivers'[c] # 0 => receivers[c] # 0
         /\ \A u \in Tasks : started[u] <= started'[u]

LEMMA StillFlows ==
    ASSUME ClaimInv, ClaimInv', BlockInv, FlowInv, Still, \A u \in Tasks : TaskTrue(u)',
           \A d \in Channels : MsgsIn(op', sendQ[d]) = MsgsOf(sendQ[d])
    PROVE  FlowInv'
<1>1. HistoryType' /\ FlushedIsClosed' /\ Once(arrival')  BY DEF FlowInv, HistoryType, FlushedIsClosed, Still
<1>2. FifoExactlyOnce'
  <2>1. ASSUME NEW d \in Channels
        PROVE  arrival'[d] = ((taken'[d] \o flushed'[d]) \o buffer'[d]) \o MsgsIn(op', sendQ'[d])
    <3>1. arrival[d] = ((taken[d] \o flushed[d]) \o buffer[d]) \o MsgsOf(sendQ[d])  BY FlowParts
    <3>. QED  BY <3>1 DEF Still
  <2>2. \A d \in Channels : (arrival[d] = taken[d] \o flushed[d] \o buffer[d] \o ParkedMsgs(d))'
    BY <2>1, FifoNext
  <2>. QED  BY <2>2 DEF FifoExactlyOnce
<1>3. OfferedAreStarted'
  <2>. SUFFICES ASSUME NEW m \in Msgs, Offered(arrival', m)  PROVE m[2] <= started'[m[1]]
    BY DEF OfferedAreStarted
  <2>1. started \in [Tasks -> 0 .. MaxOps] /\ started' \in [Tasks -> 0 .. MaxOps] /\ MaxOps \in Nat
    BY ConstantsAssumption DEF ClaimInv, ClaimType
  <2>2. m[1] \in Tasks /\ m[2] \in 1 .. MaxOps  BY DEF Msgs
  <2>3. m[2] <= started[m[1]]  BY DEF FlowInv, OfferedAreStarted, Still
  <2>4. started[m[1]] \in Nat /\ started'[m[1]] \in Nat /\ started[m[1]] <= started'[m[1]]  BY <2>1, <2>2 DEF Still
  <2>. QED  BY <2>2, <2>3, <2>4
<1>. QED  BY <1>1, <1>2, <1>3, FlowByTaskNext

(* In such a step only task t moves, or tasks are woken without an answer  *)
(* to their messages.                                                      *)
LEMMA AloneFlows ==
    ASSUME ClaimInv, ClaimInv', BlockInv, FlowInv, Still, NEW t \in Tasks, TaskTrue(t)', ~Waiting(t),
           \A u \in Tasks \ {t} : /\ stage'[u] = stage[u] /\ wake'[u] = wake[u] /\ mailbox'[u] = mailbox[u]
                                  /\ op'[u] = op[u] /\ started'[u] = started[u]
    PROVE  FlowInv'
<1>1. \A d \in Channels : MsgsIn(op', sendQ[d]) = MsgsOf(sendQ[d])  BY MsgsKept
<1>2. ASSUME NEW u \in Tasks \ {t}  PROVE TaskTrue(u)'
  <2>1. NoWakes[u] = <<>>  BY NoWakesIs
  <2>2. arrival' = arrival  BY DEF Still
  <2>3. TruthFollows(u, NoWakes)  BY <2>1, <2>2 DEF TruthFollows
  <2>. QED  BY <2>3, TruthKept
<1>3. \A u \in Tasks : TaskTrue(u)'  BY <1>2
<1>. QED  BY <1>1, <1>3, StillFlows

(* A step that offers messages of operations under way is honest about     *)
(* the rest.                                                               *)
LEMMA OffersOpen ==
    ASSUME HandleInv, FlowInv, NEW t, NEW X, NEW A, Current(t, X, A), \A x \in X : Open(x),
           \A x : Offered(arrival', x) <=> Offered(arrival, x) \/ x \in A
    PROVE  \A x \in Msgs : Open(x) \/ (Offered(arrival', x) <=> Offered(arrival, x))
<1>. SUFFICES ASSUME NEW x \in Msgs, x \in A  PROVE Open(x)
  OBVIOUS
<1>1. CASE x \in X  BY <1>1
<1>2. CASE x \notin X
  <2>1. PICK u \in Tasks : \E i \in DOMAIN op[u].cases : op[u].cases[i].kind = "send" /\ x = op[u].msgs[i]
    BY <1>2 DEF Current
  <2>2. PICK i \in DOMAIN op[u].cases : op[u].cases[i].kind = "send" /\ x = op[u].msgs[i]  BY <2>1
  <2>3. x = <<u, started[u], i>>  BY <2>2, MsgIs
  <2>4. op[u].kind # "none"
    <3>1. op[u].kind = "none" => op[u].cases = <<>>  BY DEF HandleInv, OpsKeepHandles
    <3>2. DOMAIN <<>> = {}  OBVIOUS
    <3>. QED  BY <2>2, <3>1, <3>2
  <2>5. x[1] = u /\ x[2] = started[u]  BY <2>3
  <2>. QED  BY <2>4, <2>5 DEF Open
<1>. QED  BY <1>1, <1>2

(* A message of an operation that has not started is not in the history.   *)
LEMMA NotYetOffered ==
    ASSUME ClaimInv, FlowInv, NEW t \in Tasks, NEW k \in Nat, started[t] < MaxOps
    PROVE  LET m == <<t, started[t] + 1, k>>
           IN  m \in Msgs /\ Open(m) /\ ~Offered(arrival, m) /\ m[1] = t /\ m[2] = started[t] + 1
<1>. DEFINE m == <<t, started[t] + 1, k>>
<1>1. started[t] \in 0 .. MaxOps /\ MaxOps \in Nat  BY ConstantsAssumption DEF ClaimInv, ClaimType
<1>2. started[t] + 1 \in 1 .. MaxOps  BY <1>1
<1>3. m \in Msgs /\ m[1] = t /\ m[2] = started[t] + 1  BY <1>2 DEF Msgs
<1>. HIDE DEF m
<1>4. Open(m)  BY <1>1, <1>3 DEF Open
<1>5. Offered(arrival, m) => m[2] <= started[m[1]]  BY <1>3 DEF FlowInv, OfferedAreStarted
<1>6. ~Offered(arrival, m)  BY <1>1, <1>3, <1>5
<1>. QED  BY <1>3, <1>4, <1>6 DEF m

LEMMA CountIs ==
    ASSUME ClaimInv, NEW t \in Tasks, Count(t)
    PROVE  /\ started'[t] = started[t] + 1 /\ \A u \in Tasks \ {t} : started'[u] = started[u]
           /\ \A u \in Tasks : started[u] <= started'[u]
           /\ started[t] < started'[t]
<1>1. started \in [Tasks -> Nat]  BY ConstantsAssumption DEF ClaimInv, ClaimType
<1>. QED  BY <1>1 DEF Count

(* Nobody starts an operation without counting it.                         *)
LEMMA Starts ==
    ASSUME NEW t, \A u \in Tasks \ {t} : op'[u] = op[u],
           op'[t].kind = "none" \/ op[t].kind # "none" \/ started[t] < started'[t]
    PROVE  \A u \in Tasks : op'[u].kind # "none" => op[u].kind # "none" \/ started[u] < started'[u]
  OBVIOUS

LEMMA SingleJudged ==
    ASSUME NEW t, NEW o, NEW m, NEW status, NEW case, NEW x, o.cases = <<x>>, o.msgs = <<m>>, x.kind = "send",
           m = <<t, started'[t], 1>>, m \in Msgs, case = 1, Judge(o, status, case), op'[t].kind = "none",
           Offered(arrival', m) <=> status = "ready"
    PROVE  Judged(t, o, status, case)
<1>1. DOMAIN <<x>> = {1} /\ <<x>>[1] = x /\ <<m>>[1] = m  OBVIOUS
<1>2. Named(o, t, started'[t])  BY <1>1 DEF Named
<1>3. MsgsFit(o)  BY SingleFits
<1>. QED  BY <1>1, <1>2, <1>3 DEF Judged

(* The messages of a queue that a sender joins.                            *)
LEMMA MsgsAppend ==
    ASSUME ClaimInv, BlockInv, NEW t \in Tasks, ~Waiting(t), \A u \in Tasks \ {t} : op'[u] = op[u], NEW c \in Channels,
           NEW m \in Msgs, op'[t].msgs[1] = m
    PROVE  MsgsIn(op', Append(sendQ[c], t)) = MsgsOf(sendQ[c]) \o <<m>>
<1>. DEFINE q == sendQ[c]
            p == MsgsOf(q)
            x == MsgsIn(op', Append(q, t))
<1>1. q \in Seq(Tasks) /\ \A u \in Range(q) : u \in Tasks \ {t} /\ op[u].msgs[1] \in Msgs
  BY QueuedIs, ParkedMsg
<1>2. p \in Seq(Msgs) /\ Len(p) = Len(q) /\ \A i \in 1 .. Len(q) : p[i] = op[q[i]].msgs[1]  BY <1>1, MsgsOfIs
<1>3. p \o <<m>> = Append(p, m)  BY <1>2, AppendIsConcat
<1>4. /\ DOMAIN Append(q, t) = 1 .. Len(q) + 1 /\ Len(q) \in Nat /\ Append(q, t)[Len(q) + 1] = t
      /\ \A i \in 1 .. Len(q) : Append(q, t)[i] = q[i]
  BY <1>1
<1>5. \A i \in 1 .. Len(q) : op'[q[i]].msgs[1] = op[q[i]].msgs[1]
  <2>1. \A i \in 1 .. Len(q) : q[i] \in Tasks \ {t}  BY <1>1 DEF Range
  <2>. QED  BY <2>1
<1>. HIDE DEF p
<1>6. DOMAIN Append(p, m) = 1 .. Len(q) + 1 /\ Append(p, m)[Len(q) + 1] = m
      /\ \A i \in 1 .. Len(q) : Append(p, m)[i] = p[i]
  BY <1>2
<1>7. x = [i \in 1 .. Len(q) + 1 |-> op'[Append(q, t)[i]].msgs[1]]  BY <1>4 DEF MsgsIn
<1>. HIDE DEF x, q
<1>8. \A i \in 1 .. Len(q) + 1 : op'[Append(q, t)[i]].msgs[1] = Append(p, m)[i]
  <2>. TAKE i \in 1 .. Len(q) + 1
  <2>1. CASE i = Len(q) + 1  BY <1>4, <1>6, <2>1
  <2>2. CASE i # Len(q) + 1
    <3>1. i \in 1 .. Len(q)  BY <1>4, <2>2
    <3>. QED  BY <1>2, <1>4, <1>5, <1>6, <3>1
  <2>. QED  BY <2>1, <2>2
<1>9. Append(p, m) = [i \in 1 .. Len(q) + 1 |-> Append(p, m)[i]]
  <2>1. Append(p, m) \in Seq(Msgs) /\ Len(Append(p, m)) = Len(q) + 1  BY <1>2
  <2>2. \A s \in Seq(Msgs) : s = [i \in 1 .. Len(s) |-> s[i]]  OBVIOUS
  <2>. QED  BY <2>1, <2>2
<1>. QED  BY <1>3, <1>7, <1>8, <1>9 DEF p, q, x

LEMMA SendFlows ==
    ASSUME ClaimInv, ClaimInv', HandleInv, BlockInv, FlowInv, NEW t \in Tasks, NEW c \in Channels, Send(t, c)
    PROVE  FlowInv' /\ Honest
<1>. DEFINE m == <<t, started[t] + 1, 1>>
            x == [kind |-> "send", chan |-> c]
            o == [kind |-> "send", cases |-> <<x>>, msgs |-> <<m>>, timed |-> FALSE]
            r == TrySend(c, m)
            s == [r EXCEPT !.sendQ = Append(@, t), !.wakes = Signals(c), !.claimed = Unclaimed(c), !.arrived = <<m>>]
<1>1. stage[t] = "ready" /\ started[t] < MaxOps /\ Count(t) /\ flushed' = flushed  BY DEF Send, CanStart
<1>2. \/ /\ UNCHANGED <<stage, wake, op, mailbox, buffer, sendQ, receivers, arrival, taken>>
         /\ Judge(o, "cancelled", 1)
      \/ /\ Commit(t, c, r, stage, wake) /\ op' = op /\ receivers' = receivers
         /\ Judge(o, r.status, 1)
      \/ /\ r.status = "pending" /\ op' = [op EXCEPT ![t] = o] /\ receivers' = receivers
         /\ Commit(t, c, s, [stage EXCEPT ![t] = "parked"], wake) /\ verdict' = verdict
  BY DEF Send, chanVars
<1>3. m \in Msgs /\ Open(m) /\ ~Offered(arrival, m) /\ m[1] = t /\ m[2] = started[t] + 1
  BY <1>1, NotYetOffered
<1>4. /\ started'[t] = started[t] + 1 /\ \A u \in Tasks \ {t} : started'[u] = started[u]
      /\ \A u \in Tasks : started[u] <= started'[u]
      /\ started[t] < started'[t]
  BY <1>1, CountIs
<1>5. op[t].kind = "none" /\ op[t].cases = <<>> /\ ~Waiting(t) /\ mailbox[t] = <<>>
  <2>1. op[t].kind = "none" /\ mailbox[t] = <<>>  BY <1>1, TaskByTask DEF TaskOK
  <2>. QED  BY <1>1, <2>1 DEF HandleInv, OpsKeepHandles, Waiting
<1>6. Claims(c, r) /\ Flows(c, r)  BY <1>3, TrySendClaims, TrySendFlows
<1>7. /\ Tells(t, r.wakes, Range(r.arrived))
      /\ \/ r.status = "ready" /\ r.arrived = <<m>> /\ Range(r.arrived) = {m}
         \/ r.status # "ready" /\ r.arrived = <<>> /\ Range(r.arrived) = {}
  BY TrySendTells
<1>8. r.status = "pending" => r = Attempt(c)  BY SendIsPending
<1>9. r = Attempt(c) => /\ s.wakes = Signals(c) /\ s.buffer = buffer[c] /\ s.arrived = <<m>> /\ s.passed = <<>>
                        /\ s.sendQ = Append(sendQ[c], t)
  <2>. SUFFICES ASSUME r = Attempt(c)
                PROVE  /\ s.wakes = Signals(c) /\ s.buffer = buffer[c] /\ s.arrived = <<m>> /\ s.passed = <<>>
                       /\ s.sendQ = Append(sendQ[c], t)
    OBVIOUS
  <2>. HIDE DEF r, m
  <2>1. s.wakes = Signals(c)  BY DEF Attempt
  <2>2. s.buffer = buffer[c]  BY DEF Attempt
  <2>3. s.arrived = <<m>>  BY DEF Attempt
  <2>4. s.passed = <<>>  BY DEF Attempt
  <2>5. s.sendQ = Append(sendQ[c], t)  BY DEF Attempt
  <2>. QED  BY <2>1, <2>2, <2>3, <2>4, <2>5
<1>10. o.kind = "send" /\ o.cases = <<x>> /\ o.msgs = <<m>> /\ x.kind = "send"  OBVIOUS
<1>11. m = <<t, started'[t], 1>>  BY <1>4
<1>12. \A u \in Tasks \ {t} : Foreign(u, {m})  BY ForeignTo
<1>13. \A y \in {m} : y[1] = t /\ y[2] <= started'[t]
  <2>1. started'[t] \in Nat  BY ConstantsAssumption DEF ClaimInv, ClaimType
  <2>. QED  BY <1>3, <1>4, <2>1
<1>. HIDE DEF m, r, s, o, x
<1>14. CASE /\ UNCHANGED <<stage, wake, op, mailbox, buffer, sendQ, receivers, arrival, taken>>
            /\ Judge(o, "cancelled", 1)
  <2>1. TaskTrue(t)'  BY <1>5, <1>14, IdleIsTrue
  <2>2. Still  BY <1>1, <1>4, <1>14 DEF Still
  <2>3. FlowInv'  BY <1>4, <1>5, <1>14, <2>1, <2>2, AloneFlows
  <2>4. Judged(t, o, "cancelled", 1)
    <3>1. ~Offered(arrival', m)  BY <1>3, <1>14
    <3>. QED  BY <1>3, <1>5, <1>10, <1>11, <1>14, <3>1, SingleJudged
  <2>. QED  BY <1>4, <1>14, <2>3, <2>4 DEF Honest
<1>15. CASE /\ Commit(t, c, r, stage, wake) /\ op' = op /\ receivers' = receivers
            /\ Judge(o, r.status, 1)
  <2>1. TaskTrue(t)'  BY <1>5, <1>15, IdleIsTrue
  <2>2. CommitsFlow(t, c, r, stage, wake, {m})
    <3>1. Sound(r.wakes)  BY <1>6 DEF Claims
    <3>2. Fresh(arrival, r.arrived) /\ r.passed \in Seq(Msgs)  BY <1>6 DEF Flows
    <3>3. Current(t, {m}, Range(r.arrived))  BY <1>7 DEF Current
    <3>. QED  BY <1>1, <1>4, <1>5, <1>7, <1>13, <1>15, <3>1, <3>2, <3>3 DEF CommitsFlow
  <2>3. arrival[c] \o r.arrived = (((taken[c] \o r.passed) \o flushed[c]) \o r.buffer) \o MsgsIn(op', r.sendQ)
    BY <1>6, <1>15 DEF Flows, MsgsOf
  <2>4. FlowInv' /\ \A y : Offered(arrival', y) <=> Offered(arrival, y) \/ y \in Range(r.arrived)
    BY <2>1, <2>2, <2>3, CommitFlows
  <2>5. \A y \in Msgs : Open(y) \/ (Offered(arrival', y) <=> Offered(arrival, y))
    BY <1>3, <1>7, <2>4
  <2>6. Judged(t, o, r.status, 1)
    <3>1. Offered(arrival', m) <=> r.status = "ready"  BY <1>3, <1>7, <2>4
    <3>2. op'[t].kind = "none"  BY <1>5, <1>15
    <3>3. Judge(o, r.status, 1)  BY <1>15
    <3>. DEFINE v == r.status
    <3>4. (Offered(arrival', m) <=> v = "ready") /\ Judge(o, v, 1)  BY <3>1, <3>3
    <3>. HIDE DEF v
    <3>5. Judged(t, o, v, 1)  BY <1>3, <1>10, <1>11, <3>2, <3>4, SingleJudged
    <3>. QED  BY <3>5 DEF v
  <2>. QED  BY <1>4, <1>15, <2>4, <2>5, <2>6 DEF Honest
<1>16. CASE /\ r.status = "pending" /\ op' = [op EXCEPT ![t] = o] /\ receivers' = receivers
            /\ Commit(t, c, s, [stage EXCEPT ![t] = "parked"], wake) /\ verdict' = verdict
  <2>. DEFINE base == [stage EXCEPT ![t] = "parked"]
  <2>1. /\ s.wakes = Signals(c) /\ s.buffer = buffer[c] /\ s.arrived = <<m>> /\ s.passed = <<>>
        /\ s.sendQ = Append(sendQ[c], t)
    BY <1>8, <1>9, <1>16
  <2>2. /\ op'[t] = o /\ \A u \in Tasks \ {t} : op'[u] = op[u]
        /\ base[t] = "parked" /\ \A u \in Tasks \ {t} : base[u] = stage[u]
    <3>1. op \in [Tasks -> Operations] /\ stage \in [Tasks -> Stages]  BY DEF ClaimInv, ClaimType
    <3>. QED  BY <1>16, <3>1
  <2>3. Commit(t, c, s, base, wake)  BY <1>16
  <2>. HIDE DEF base
  <2>4. Range(<<m>>) = {m}  BY DEF Range
  <2>5. Sound(Signals(c)) /\ Signals(c)[t] = <<>>
    <3>1. Wk("event", 0) \in Waits  BY WkIs DEF Statuses
    <3>2. \A u \in Unclaimed(c) : Waiting(u) /\ u \in Tasks  BY UnclaimedWait DEF Unclaimed
    <3>3. Sound(Signals(c))  BY <3>1, <3>2, WakeEachIs DEF Sound, Signals
    <3>4. t \notin Unclaimed(c)  BY <1>5, <3>2
    <3>. QED  BY <3>1, <3>3, <3>4, WakeEachIs DEF Signals
  <2>6. CommitsFlow(t, c, s, base, wake, {m})
    <3>1. Tells(t, s.wakes, Range(s.arrived))
      <4>1. Tells(t, Signals(c), {m})  BY <1>12, SignalsTell
      <4>. QED  BY <2>1, <2>4, <4>1
    <3>2. Fresh(arrival, s.arrived) /\ s.passed \in Seq(Msgs)  BY <1>3, <2>1 DEF Fresh
    <3>3. Current(t, {m}, Range(s.arrived))  BY <2>1, <2>4 DEF Current
    <3>4. Sound(s.wakes)  BY <2>1, <2>5
    <3>. QED  BY <1>1, <1>4, <1>5, <1>13, <1>16, <2>2, <2>3, <3>1, <3>2, <3>3, <3>4 DEF CommitsFlow
  <2>7. arrival[c] \o s.arrived = (((taken[c] \o s.passed) \o flushed[c]) \o s.buffer) \o MsgsIn(op', s.sendQ)
    <3>1. op'[t].msgs[1] = m  BY <1>10, <2>2
    <3>2. MsgsIn(op', Append(sendQ[c], t)) = MsgsOf(sendQ[c]) \o <<m>>  BY <1>3, <1>5, <2>2, <3>1, MsgsAppend
    <3>3. /\ arrival[c] \in Seq(Msgs) /\ taken[c] \in Seq(Msgs) /\ flushed[c] \in Seq(Msgs)
          /\ buffer[c] \in Seq(Msgs) /\ MsgsOf(sendQ[c]) \in Seq(Msgs)
          /\ arrival[c] = ((taken[c] \o flushed[c]) \o buffer[c]) \o MsgsOf(sendQ[c])
      BY FlowParts
    <3>. DEFINE a == (taken[c] \o flushed[c]) \o buffer[c]
                b == MsgsOf(sendQ[c])
                n == <<m>>
    <3>4. a \in Seq(Msgs) /\ b \in Seq(Msgs) /\ n \in Seq(Msgs)
      <4>1. taken[c] \o flushed[c] \in Seq(Msgs)  BY <3>3
      <4>2. a \in Seq(Msgs)  BY <3>3, <4>1
      <4>3. n \in Seq(Msgs)  BY <1>3
      <4>. QED  BY <3>3, <4>2, <4>3
    <3>5. (a \o b) \o n = a \o (b \o n)
      <4>. HIDE DEF a, b, n
      <4>. QED  BY <3>4, Assoc, Zenon
    <3>6. taken[c] \o <<>> = taken[c]  BY <3>3
    <3>. QED  BY <2>1, <3>2, <3>3, <3>5, <3>6
  <2>8. TaskTrue(t)'
    <3>1. arrival' = [arrival EXCEPT ![c] = @ \o <<m>>] /\ WakeTasks(Signals(c), Home[t], base, wake)
      BY <2>1, <2>3 DEF Commit
    <3>2. Offered(arrival', m)
      <4>1. arrival \in [Channels -> Seq(Msgs)] /\ Once(arrival)  BY DEF FlowInv, HistoryType
      <4>2. Offering(arrival, c, <<m>>, arrival')  BY <1>3, <3>1, <4>1 DEF Offering, Fresh
      <4>3. \A y : Offered(arrival', y) <=> Offered(arrival, y) \/ y \in Range(<<m>>)  BY <4>2, OfferOne
      <4>. QED  BY <2>4, <4>3
    <3>3. Waiting(t)'
      <4>1. Signals(c) \in [Tasks -> Seq(Waits)]  BY <2>5 DEF Sound
      <4>2. mailbox \in [Tasks -> Seq(Waits)]  BY DEF ClaimInv, ClaimType
      <4>3. /\ stage'[t] = "parked" /\ mailbox'[t] = <<>>
               <=> base[t] = "parked" /\ mailbox[t] = <<>> /\ Signals(c)[t] = <<>>
        BY <3>1, <4>1, <4>2, WaitingAfter
      <4>. QED  BY <1>5, <2>2, <2>5, <4>3 DEF Waiting
    <3>4. Accepted(t, 1)'  BY <1>10, <2>2, <3>3 DEF Accepted
    <3>5. DOMAIN <<x>> = {1} /\ <<m>>[1] = m /\ <<x>>[1] = x  OBVIOUS
    <3>6. op'[t].cases = <<x>> /\ op'[t].msgs = <<m>>  BY <1>10, <2>2
    <3>7. Named(op[t], t, started[t])'  BY <1>10, <1>11, <3>5, <3>6 DEF Named
    <3>. QED  BY <3>2, <3>3, <3>4, <3>5, <3>6, <3>7 DEF TaskTrue
  <2>9. FlowInv' /\ \A y : Offered(arrival', y) <=> Offered(arrival, y) \/ y \in Range(s.arrived)
    BY <2>6, <2>7, <2>8, CommitFlows
  <2>10. \A y \in Msgs : Open(y) \/ (Offered(arrival', y) <=> Offered(arrival, y))
    BY <1>3, <2>1, <2>4, <2>9
  <2>. QED  BY <1>4, <1>16, <2>2, <2>9, <2>10 DEF Honest
<1>. QED  BY <1>2, <1>14, <1>15, <1>16

LEMMA ReceiveFlows ==
    ASSUME ClaimInv, ClaimInv', HandleInv, BlockInv, FlowInv, NEW t \in Tasks, NEW c \in Channels, Receive(t, c)
    PROVE  FlowInv' /\ Honest
<1>. DEFINE x == [kind |-> "receive", chan |-> c]
            o == [kind |-> "receive", msgs |-> <<NoMsg>>, timed |-> FALSE, cases |-> <<x>>]
            r == TryReceive(c)
            s == [r EXCEPT !.recvQ = Append(@, t), !.wakes = Signals(c), !.claimed = Unclaimed(c)]
<1>1. stage[t] = "ready" /\ started[t] < MaxOps /\ Count(t) /\ flushed' = flushed /\ verdict' = verdict
  BY DEF Receive, CanStart
<1>2. \/ UNCHANGED <<stage, wake, op, mailbox, buffer, sendQ, receivers, arrival, taken>>
      \/ Commit(t, c, r, stage, wake) /\ op' = op /\ receivers' = receivers
      \/ /\ r.status = "pending" /\ op' = [op EXCEPT ![t] = o] /\ receivers' = receivers
         /\ Commit(t, c, s, [stage EXCEPT ![t] = "parked"], wake)
  BY DEF Receive, chanVars
<1>4. /\ started'[t] = started[t] + 1 /\ \A u \in Tasks \ {t} : started'[u] = started[u]
      /\ \A u \in Tasks : started[u] <= started'[u]
      /\ started[t] < started'[t]
  BY <1>1, CountIs
<1>5. op[t].kind = "none" /\ op[t].cases = <<>> /\ ~Waiting(t) /\ mailbox[t] = <<>>
  <2>1. op[t].kind = "none" /\ mailbox[t] = <<>>  BY <1>1, TaskByTask DEF TaskOK
  <2>. QED  BY <1>1, <2>1 DEF HandleInv, OpsKeepHandles, Waiting
<1>6. Claims(c, r) /\ Flows(c, r)  BY TryReceiveClaims, TryReceiveFlows
<1>7. Tells(t, r.wakes, Range(r.arrived)) /\ Current(t, {}, Range(r.arrived))
  BY <1>5, TryReceiveTells
<1>8. r.status = "pending" => r = Attempt(c)  BY ReceiveIsPending
<1>9. r = Attempt(c) => /\ s.wakes = Signals(c) /\ s.buffer = buffer[c] /\ s.arrived = <<>> /\ s.passed = <<>>
                        /\ s.sendQ = sendQ[c]
  BY DEF Attempt
<1>10. o.kind = "receive" /\ o.cases = <<x>> /\ o.msgs = <<NoMsg>> /\ x.kind = "receive"  OBVIOUS
<1>. HIDE DEF r, s, o, x
<1>14. CASE UNCHANGED <<stage, wake, op, mailbox, buffer, sendQ, receivers, arrival, taken>>
  <2>1. TaskTrue(t)'  BY <1>5, <1>14, IdleIsTrue
  <2>2. Still  BY <1>1, <1>4, <1>14 DEF Still
  <2>3. FlowInv'  BY <1>4, <1>5, <1>14, <2>1, <2>2, AloneFlows
  <2>. QED  BY <1>1, <1>4, <1>14, <2>3 DEF Honest
<1>15. CASE Commit(t, c, r, stage, wake) /\ op' = op /\ receivers' = receivers
  <2>1. TaskTrue(t)'  BY <1>5, <1>15, IdleIsTrue
  <2>2. CommitsFlow(t, c, r, stage, wake, {})
    <3>1. Sound(r.wakes)  BY <1>6 DEF Claims
    <3>2. Fresh(arrival, r.arrived) /\ r.passed \in Seq(Msgs)  BY <1>6 DEF Flows
    <3>. QED  BY <1>1, <1>4, <1>5, <1>7, <1>15, <3>1, <3>2 DEF CommitsFlow
  <2>3. arrival[c] \o r.arrived = (((taken[c] \o r.passed) \o flushed[c]) \o r.buffer) \o MsgsIn(op', r.sendQ)
    BY <1>6, <1>15 DEF Flows, MsgsOf
  <2>4. FlowInv' /\ \A y : Offered(arrival', y) <=> Offered(arrival, y) \/ y \in Range(r.arrived)
    BY <2>1, <2>2, <2>3, CommitFlows
  <2>5. \A y \in Msgs : Open(y) \/ (Offered(arrival', y) <=> Offered(arrival, y))
    BY <1>7, <2>4, OffersOpen
  <2>. QED  BY <1>1, <1>4, <1>15, <2>4, <2>5 DEF Honest
<1>16. CASE /\ r.status = "pending" /\ op' = [op EXCEPT ![t] = o] /\ receivers' = receivers
            /\ Commit(t, c, s, [stage EXCEPT ![t] = "parked"], wake)
  <2>. DEFINE base == [stage EXCEPT ![t] = "parked"]
  <2>1. /\ s.wakes = Signals(c) /\ s.buffer = buffer[c] /\ s.arrived = <<>> /\ s.passed = <<>>
        /\ s.sendQ = sendQ[c]
    BY <1>8, <1>9, <1>16
  <2>2. /\ op'[t] = o /\ \A u \in Tasks \ {t} : op'[u] = op[u]
        /\ base[t] = "parked" /\ \A u \in Tasks \ {t} : base[u] = stage[u]
    <3>1. op \in [Tasks -> Operations] /\ stage \in [Tasks -> Stages]  BY DEF ClaimInv, ClaimType
    <3>. QED  BY <1>16, <3>1
  <2>3. Commit(t, c, s, base, wake)  BY <1>16
  <2>. HIDE DEF base
  <2>4. Range(<<>>) = {}  BY DEF Range
  <2>5. Sound(Signals(c))
    <3>1. Wk("event", 0) \in Waits  BY WkIs DEF Statuses
    <3>2. \A u \in Unclaimed(c) : Waiting(u) /\ u \in Tasks  BY UnclaimedWait DEF Unclaimed
    <3>. QED  BY <3>1, <3>2, WakeEachIs DEF Sound, Signals
  <2>6. CommitsFlow(t, c, s, base, wake, {})
    <3>1. Tells(t, s.wakes, Range(s.arrived))
      <4>1. \A u \in Tasks \ {t} : Foreign(u, {})  BY DEF Foreign
      <4>2. Tells(t, Signals(c), {})  BY <4>1, SignalsTell
      <4>. QED  BY <2>1, <2>4, <4>2
    <3>2. Fresh(arrival, s.arrived) /\ s.passed \in Seq(Msgs)  BY <2>1 DEF Fresh
    <3>3. Current(t, {}, Range(s.arrived))  BY <2>1, <2>4 DEF Current
    <3>4. Sound(s.wakes)  BY <2>1, <2>5
    <3>. QED  BY <1>1, <1>4, <1>5, <1>16, <2>2, <2>3, <3>1, <3>2, <3>3, <3>4 DEF CommitsFlow
  <2>7. arrival[c] \o s.arrived = (((taken[c] \o s.passed) \o flushed[c]) \o s.buffer) \o MsgsIn(op', s.sendQ)
    <3>1. MsgsIn(op', sendQ[c]) = MsgsOf(sendQ[c])  BY <1>5, <2>2, MsgsKept
    <3>2. /\ arrival[c] \in Seq(Msgs) /\ taken[c] \in Seq(Msgs)
          /\ arrival[c] = ((taken[c] \o flushed[c]) \o buffer[c]) \o MsgsOf(sendQ[c])
      BY FlowParts
    <3>3. taken[c] \o <<>> = taken[c] /\ arrival[c] \o <<>> = arrival[c]  BY <3>2
    <3>. QED  BY <2>1, <3>1, <3>2, <3>3
  <2>8. TaskTrue(t)'
    <3>1. DOMAIN <<x>> = {1} /\ <<NoMsg>>[1] = NoMsg /\ <<x>>[1] = x  OBVIOUS
    <3>2. op'[t].cases = <<x>> /\ op'[t].msgs = <<NoMsg>>  BY <1>10, <2>2
    <3>3. Named(op[t], t, started[t])'  BY <1>10, <3>1, <3>2 DEF Named
    <3>4. op'[t].kind = "receive"  BY <1>10, <2>2
    <3>. QED  BY <1>10, <3>1, <3>2, <3>3, <3>4 DEF TaskTrue, Answers
  <2>9. FlowInv' /\ \A y : Offered(arrival', y) <=> Offered(arrival, y) \/ y \in Range(s.arrived)
    BY <2>6, <2>7, <2>8, CommitFlows
  <2>10. \A y \in Msgs : Open(y) \/ (Offered(arrival', y) <=> Offered(arrival, y))
    BY <2>1, <2>4, <2>9
  <2>. QED  BY <1>1, <1>4, <2>2, <2>9, <2>10 DEF Honest
<1>. QED  BY <1>2, <1>14, <1>15, <1>16

(* The select operation o that task t polls: none of its messages has been *)
(* offered yet.                                                            *)
Polls(t, o) ==
    /\ o \in Operations /\ o.kind = "select" /\ MsgsFit(o) /\ Named(o, t, started'[t])
    /\ \A i \in DOMAIN o.cases : o.cases[i].kind = "send" => Open(o.msgs[i]) /\ ~Offered(arrival, o.msgs[i])
    /\ stage[t] \in {"ready", "repoll"} /\ receivers' = receivers /\ flushed' = flushed
    /\ \A u \in Tasks \ {t} : started'[u] = started[u]
    /\ \A u \in Tasks : started[u] <= started'[u]
    /\ op[t].kind # "none" \/ started[t] < started'[t]

LEMMA PollsMsg ==
    ASSUME NEW t, NEW o, Polls(t, o), NEW i \in DOMAIN o.cases
    PROVE  /\ i \in Nat /\ o.cases[i].chan \in Channels /\ o.cases[i].kind \in {"send", "receive"}
           /\ o.cases[i].kind = "send" => o.msgs[i] = <<t, started'[t], i>> /\ o.msgs[i] \in Msgs
           /\ o.cases[i].kind = "receive" => o.msgs[i] = NoMsg /\ NoMsg \notin Msgs
<1>1. o.cases \in Seq(Case)  BY DEF Polls, Operations
<1>2. i \in Nat /\ o.cases[i] \in Case  BY <1>1
<1>3. o.cases[i].kind = "send" => o.msgs[i] = <<t, started'[t], i>> /\ o.msgs[i] \in Msgs
  BY DEF Polls, Named, MsgsFit
<1>4. NoMsg \notin Msgs  BY ConstantsAssumption DEF Msgs
<1>5. o.cases[i].kind = "receive" => o.msgs[i] = NoMsg  BY DEF Polls, Named
<1>. QED  BY <1>2, <1>3, <1>4, <1>5 DEF Case

(* What the attempt at case i does, seen from the task that makes it.      *)
LEMMA AttemptTells ==
    ASSUME ClaimInv, HandleInv, BlockInv, FlowInv, NEW t \in Tasks, NEW o, Polls(t, o), NEW i \in DOMAIN o.cases
    PROVE  LET r == AttemptCase(o, i)
               d == o.cases[i].chan
               X == IF o.cases[i].kind = "send" THEN {o.msgs[i]} ELSE {}
           IN  /\ Claims(d, r) /\ Flows(d, r) /\ Tells(t, r.wakes, Range(r.arrived))
               /\ Current(t, X, Range(r.arrived))
               /\ \A j \in DOMAIN o.cases : o.cases[j].kind = "send" =>
                     (o.msgs[j] \in Range(r.arrived) <=> r.status = "ready" /\ o.msgs[j] = o.msgs[i])
<1>. DEFINE r == AttemptCase(o, i)
            d == o.cases[i].chan
            m == o.msgs[i]
<1>1. d \in Channels /\ o.cases[i].kind \in {"send", "receive"} /\ i \in Nat  BY PollsMsg
<1>2. ~Waiting(t)  BY DEF Polls, Waiting
<1>3. Claims(d, r)  BY AttemptCaseClaims DEF Polls
<1>4. CASE o.cases[i].kind = "send"
  <2>1. m = <<t, started'[t], i>> /\ m \in Msgs /\ ~Offered(arrival, m)  BY <1>4, PollsMsg DEF Polls
  <2>2. r = TrySend(d, m)  BY <1>4 DEF AttemptCase
  <2>. HIDE DEF m, d
  <2>3. Flows(d, TrySend(d, m))  BY <1>1, <2>1, TrySendFlows
  <2>4. \A n : /\ Tells(t, TrySend(d, <<t, n, i>>).wakes, Range(TrySend(d, <<t, n, i>>).arrived))
               /\ LET v == TrySend(d, <<t, n, i>>)
                  IN  \/ v.status = "ready" /\ v.arrived = <<<<t, n, i>>>> /\ Range(v.arrived) = {<<t, n, i>>}
                      \/ v.status # "ready" /\ v.arrived = <<>> /\ Range(v.arrived) = {}
    BY <1>1, TrySendTells
  <2>5. /\ Tells(t, TrySend(d, m).wakes, Range(TrySend(d, m).arrived))
        /\ \/ TrySend(d, m).status = "ready" /\ Range(TrySend(d, m).arrived) = {m}
           \/ TrySend(d, m).status # "ready" /\ Range(TrySend(d, m).arrived) = {}
    BY <2>1, <2>4
  <2>. HIDE DEF r
  <2>6. Current(t, {m}, Range(r.arrived))  BY <2>2, <2>5 DEF Current
  <2>7. \A j : o.msgs[j] \in Range(r.arrived) <=> r.status = "ready" /\ o.msgs[j] = m  BY <2>2, <2>5
  <2>. QED  BY <1>3, <1>4, <2>2, <2>3, <2>5, <2>6, <2>7 DEF r, d, m
<1>5. CASE o.cases[i].kind = "receive"
  <2>1. m = NoMsg /\ NoMsg \notin Msgs  BY <1>5, PollsMsg
  <2>2. r = TryReceive(d)  BY <1>5 DEF AttemptCase
  <2>. HIDE DEF m, d
  <2>3. Flows(d, TryReceive(d))  BY <1>1, TryReceiveFlows
  <2>4. Tells(t, TryReceive(d).wakes, Range(TryReceive(d).arrived)) /\ Current(t, {}, Range(TryReceive(d).arrived))
    BY <1>1, <1>2, TryReceiveTells
  <2>. HIDE DEF r
  <2>5. ASSUME NEW j \in DOMAIN o.cases, o.cases[j].kind = "send"
        PROVE  o.msgs[j] \notin Range(r.arrived) /\ o.msgs[j] # m
    <3>1. o.msgs[j] = <<t, started'[t], j>> /\ o.msgs[j] \in Msgs  BY <2>5, PollsMsg
    <3>2. ASSUME NEW u \in Tasks \ {t}, NEW k \in DOMAIN op[u].cases, op[u].cases[k].kind = "send"
          PROVE  op[u].msgs[k] # o.msgs[j]
      <4>1. op[u].msgs[k] = <<u, started[u], k>>  BY <3>2, MsgIs
      <4>. QED  BY <3>1, <4>1
    <3>3. o.msgs[j] \notin Range(r.arrived)  BY <2>2, <2>4, <3>2 DEF Current
    <3>. QED  BY <2>1, <3>1, <3>3
  <2>. QED  BY <1>3, <1>5, <2>2, <2>3, <2>4, <2>5 DEF r, d, m
<1>. QED  BY <1>1, <1>4, <1>5

LEMMA PollJudged ==
    ASSUME NEW t, NEW o, Polls(t, o), NEW status, NEW case, Judge(o, status, case), op'[t].kind = "none",
           \A j \in DOMAIN o.cases : o.cases[j].kind = "send" =>
              (Offered(arrival', o.msgs[j]) <=> status = "ready" /\ o.msgs[j] = o.msgs[case])
    PROVE  Judged(t, o, status, case)
  BY DEF Judged, Polls

LEMMA PollFlows ==
    ASSUME ClaimInv, ClaimInv', HandleInv, BlockInv, FlowInv, NEW t \in Tasks, NEW o, Polls(t, o),
           NEW late, PollCases(t, o, late)
    PROVE  FlowInv' /\ Honest
<1>1. /\ op \in [Tasks -> Operations] /\ stage \in [Tasks -> Stages] /\ wake \in [Tasks -> Waits]
  BY DEF ClaimInv, ClaimType
<1>2. /\ ~Waiting(t) /\ receivers' = receivers /\ flushed' = flushed
      /\ \A u \in Tasks \ {t} : started'[u] = started[u]
      /\ \A u \in Tasks : started[u] <= started'[u]
      /\ op[t].kind # "none" \/ started[t] < started'[t]
  BY DEF Polls, Waiting
<1>3. NoOp.kind = "none" /\ NoOp.cases = <<>>  BY DEF NoOp
<1>4. \A j \in DOMAIN o.cases : o.cases[j].kind = "send" => Open(o.msgs[j]) /\ ~Offered(arrival, o.msgs[j])
  BY DEF Polls
<1>5. ASSUME Eligible(o) # {},
             LET i == CHOOSE i \in Eligible(o) : \A j \in Eligible(o) : i <= j
                 r == AttemptCase(o, i)
             IN  /\ Commit(t, o.cases[i].chan, r, [stage EXCEPT ![t] = "ready"], [wake EXCEPT ![t] = NoWake])
                 /\ Finish(t, o, r.status, i)
      PROVE  FlowInv' /\ Honest
  <2>. DEFINE i == CHOOSE i \in Eligible(o) : \A j \in Eligible(o) : i <= j
              r == AttemptCase(o, i)
              d == o.cases[i].chan
              X == IF o.cases[i].kind = "send" THEN {o.msgs[i]} ELSE {}
              base == [stage EXCEPT ![t] = "ready"]
              baseWake == [wake EXCEPT ![t] = NoWake]
  <2>1. Commit(t, d, r, base, baseWake) /\ op' = [op EXCEPT ![t] = NoOp] /\ Judge(o, r.status, i)
    BY <1>5 DEF Finish
  <2>2. Eligible(o) \subseteq Nat  BY PollsMsg DEF Eligible
  <2>3. \E k \in Eligible(o) : \A j \in Eligible(o) : k <= j  BY <1>5, <2>2, LeastOf
  <2>4. i \in Eligible(o)  BY <2>3
  <2>5. i \in DOMAIN o.cases  BY <2>4 DEF Eligible
  <2>. HIDE DEF i
  <2>6. d \in Channels  BY <2>5, PollsMsg
  <2>7. /\ Claims(d, r) /\ Flows(d, r) /\ Tells(t, r.wakes, Range(r.arrived))
        /\ Current(t, X, Range(r.arrived))
        /\ \A j \in DOMAIN o.cases : o.cases[j].kind = "send" =>
              (o.msgs[j] \in Range(r.arrived) <=> r.status = "ready" /\ o.msgs[j] = o.msgs[i])
    BY <2>5, AttemptTells
  <2>8. \A x \in X : Open(x) /\ x[1] = t /\ x[2] = started'[t]
    <3>1. o.cases[i].kind = "send" => o.msgs[i] = <<t, started'[t], i>> /\ Open(o.msgs[i])
      BY <1>4, <2>5, PollsMsg
    <3>. QED  BY <3>1
  <2>9. /\ \A u \in Tasks \ {t} : base[u] = stage[u] /\ baseWake[u] = wake[u] /\ op'[u] = op[u]
        /\ op'[t] = NoOp
    BY <1>1, <2>1
  <2>. HIDE DEF r, d, X, base, baseWake
  <2>10. CommitsFlow(t, d, r, base, baseWake, X)
    <3>1. Sound(r.wakes)  BY <2>7 DEF Claims
    <3>2. Fresh(arrival, r.arrived) /\ r.passed \in Seq(Msgs)  BY <2>7 DEF Flows
    <3>3. \A x \in X : x[1] = t /\ x[2] <= started'[t]
      <4>1. started'[t] \in Nat  BY ConstantsAssumption DEF ClaimInv, ClaimType
      <4>. QED  BY <2>8, <4>1
    <3>. QED  BY <1>2, <2>1, <2>7, <2>9, <3>1, <3>2, <3>3 DEF CommitsFlow
  <2>11. arrival[d] \o r.arrived = (((taken[d] \o r.passed) \o flushed[d]) \o r.buffer) \o MsgsIn(op', r.sendQ)
    <3>1. r.sendQ \in Seq(Tasks) /\ Range(r.sendQ) \subseteq Range(sendQ[d])
      <4>1. r.sendQ \in Seq(Tasks) /\ \A u \in Tasks : u \in Range(r.sendQ) => u \in Range(sendQ[d])
        BY <2>7 DEF Claims
      <4>2. Range(r.sendQ) \subseteq Tasks  BY <4>1 DEF Range
      <4>. QED  BY <4>1, <4>2
    <3>2. \A q \in Seq(Tasks) : Range(q) \subseteq Range(sendQ[d]) => MsgsIn(op', q) = MsgsOf(q)
      BY <1>2, <2>6, <2>9, MsgsKept
    <3>3. MsgsIn(op', r.sendQ) = MsgsOf(r.sendQ)  BY <3>1, <3>2
    <3>. QED  BY <2>7, <3>3 DEF Flows
  <2>12. TaskTrue(t)'  BY <1>3, <2>9, IdleIsTrue
  <2>13. FlowInv' /\ \A y : Offered(arrival', y) <=> Offered(arrival, y) \/ y \in Range(r.arrived)
    BY <2>6, <2>10, <2>11, <2>12, CommitFlows
  <2>14. \A y \in Msgs : Open(y) \/ (Offered(arrival', y) <=> Offered(arrival, y))
    <3>1. \A x \in X : Open(x)  BY <2>8
    <3>. QED  BY <2>7, <2>13, <3>1, OffersOpen
  <2>15. Judged(t, o, r.status, i)
    <3>. DEFINE v == r.status
    <3>1. Judge(o, v, i)  BY <2>1
    <3>2. \A j \in DOMAIN o.cases : o.cases[j].kind = "send" =>
             (Offered(arrival', o.msgs[j]) <=> v = "ready" /\ o.msgs[j] = o.msgs[i])
      BY <1>4, <2>7, <2>13
    <3>3. op'[t].kind = "none"  BY <1>3, <2>9
    <3>. HIDE DEF v
    <3>4. Judged(t, o, v, i)  BY <3>1, <3>2, <3>3, PollJudged
    <3>. QED  BY <3>4 DEF v
  <2>16. \A u \in Tasks : op'[u].kind # "none" => op[u].kind # "none" \/ started[u] < started'[u]
    BY <1>2, <2>9
  <2>. QED  BY <1>2, <2>13, <2>14, <2>15, <2>16 DEF Honest
<1>6. ASSUME stage' = [stage EXCEPT ![t] = "parked"], op' = [op EXCEPT ![t] = o],
             wake' = [wake EXCEPT ![t] = NoWake],
             UNCHANGED <<buffer, sendQ, mailbox, arrival, taken, verdict>>
      PROVE  FlowInv' /\ Honest
  <2>1. /\ \A u \in Tasks \ {t} : op'[u] = op[u] /\ stage'[u] = stage[u] /\ wake'[u] = wake[u]
        /\ op'[t] = o /\ stage'[t] = "parked"
    BY <1>1, <1>6
  <2>2. Waiting(t)'
    <3>1. mailbox[t] = <<>>  BY TaskByTask DEF TaskOK, Polls
    <3>. QED  BY <1>6, <2>1, <3>1 DEF Waiting
  <2>3. TaskTrue(t)'
    <3>1. o.kind = "select" /\ Named(o, t, started'[t])  BY DEF Polls
    <3>2. \A i : ~Accepted(t, i)'  BY <2>1, <2>2, <3>1 DEF Accepted
    <3>3. Named(op[t], t, started[t])'  BY <2>1, <3>1 DEF Named
    <3>. QED  BY <1>4, <1>6, <2>1, <2>2, <3>2, <3>3 DEF TaskTrue
  <2>4. Still  BY <1>2, <1>6 DEF Still
  <2>5. FlowInv'  BY <1>2, <1>6, <2>1, <2>3, <2>4, AloneFlows
  <2>. QED  BY <1>2, <1>6, <2>1, <2>5 DEF Honest
<1>7. ASSUME NEW status, status # "ready", NEW case, Finish(t, o, status, case), stage' = [stage EXCEPT ![t] = "ready"],
             wake' = [wake EXCEPT ![t] = NoWake], UNCHANGED <<buffer, sendQ, mailbox, arrival, taken>>
      PROVE  FlowInv' /\ Honest
  <2>1. /\ \A u \in Tasks \ {t} : op'[u] = op[u] /\ stage'[u] = stage[u] /\ wake'[u] = wake[u]
        /\ op'[t] = NoOp
    BY <1>1, <1>7 DEF Finish
  <2>2. TaskTrue(t)'  BY <1>3, <2>1, IdleIsTrue
  <2>3. Still  BY <1>2, <1>7 DEF Still
  <2>4. FlowInv'  BY <1>2, <1>7, <2>1, <2>2, <2>3, AloneFlows
  <2>5. Judged(t, o, status, case)
    <3>1. Judge(o, status, case) /\ op'[t].kind = "none"  BY <1>3, <1>7, <2>1 DEF Finish
    <3>2. \A j \in DOMAIN o.cases : o.cases[j].kind = "send" =>
             (Offered(arrival', o.msgs[j]) <=> status = "ready" /\ o.msgs[j] = o.msgs[case])
      BY <1>4, <1>7
    <3>. QED  BY <3>1, <3>2, PollJudged
  <2>. QED  BY <1>2, <1>3, <1>7, <2>1, <2>4, <2>5 DEF Honest
<1>8. \/ /\ Eligible(o) # {}
         /\ LET i == CHOOSE i \in Eligible(o) : \A j \in Eligible(o) : i <= j
                r == AttemptCase(o, i)
            IN  /\ Commit(t, o.cases[i].chan, r, [stage EXCEPT ![t] = "ready"], [wake EXCEPT ![t] = NoWake])
                /\ Finish(t, o, r.status, i)
      \/ /\ stage' = [stage EXCEPT ![t] = "parked"] /\ op' = [op EXCEPT ![t] = o]
         /\ wake' = [wake EXCEPT ![t] = NoWake]
         /\ UNCHANGED <<buffer, sendQ, mailbox, arrival, taken, verdict>>
      \/ \E status : /\ status # "ready" /\ Finish(t, o, status, 0)
                     /\ stage' = [stage EXCEPT ![t] = "ready"] /\ wake' = [wake EXCEPT ![t] = NoWake]
                     /\ UNCHANGED <<buffer, sendQ, mailbox, arrival, taken>>
  BY Zenon DEF PollCases
<1>. QED  BY <1>5, <1>6, <1>7, <1>8

LEMMA SelectFlows ==
    ASSUME ClaimInv, ClaimInv', HandleInv, BlockInv, FlowInv, NEW t \in Tasks, NEW s \in Selects, NEW timed \in BOOLEAN,
           NEW late \in BOOLEAN, Select(t, s, timed, late)
    PROVE  FlowInv' /\ Honest
<1>. DEFINE g == [i \in DOMAIN s |-> IF s[i].kind = "send" THEN <<t, started[t] + 1, i>> ELSE NoMsg]
            o == SelectOp(t, s, timed)
<1>1. /\ stage[t] = "ready" /\ started[t] < MaxOps /\ Count(t) /\ receivers' = receivers /\ flushed' = flushed
  BY DEF Select, CanStart
<1>2. PollCases(t, o, late)  BY DEF Select, SelectOp
<1>3. started[t] + 1 \in 1 .. MaxOps  BY <1>1, CountTyped DEF ClaimInv
<1>4. /\ started'[t] = started[t] + 1 /\ \A u \in Tasks \ {t} : started'[u] = started[u]
      /\ \A u \in Tasks : started[u] <= started'[u]
      /\ started[t] < started'[t]
  BY <1>1, CountIs
<1>5. o \in Operations  BY <1>3, SelectOpTyped
<1>6. o.kind = "select" /\ o.cases = s /\ o.msgs = g  BY DEF SelectOp
<1>7. DOMAIN s \subseteq Nat
  <2>1. s \in Seq(Case)  BY ConstantsAssumption
  <2>. QED  BY <2>1
<1>8. ASSUME NEW i \in DOMAIN s, s[i].kind = "send"
      PROVE  g[i] = <<t, started[t] + 1, i>> /\ g[i] \in Msgs /\ Open(g[i]) /\ ~Offered(arrival, g[i])
  <2>1. g[i] = <<t, started[t] + 1, i>>  BY <1>8
  <2>2. i \in Nat  BY <1>7
  <2>. HIDE DEF g
  <2>. QED  BY <1>1, <2>1, <2>2, NotYetOffered
<1>9. DOMAIN g = DOMAIN s /\ \A i \in DOMAIN s : s[i].kind # "send" => g[i] = NoMsg  OBVIOUS
<1>. HIDE DEF g, o
<1>10. MsgsFit(o)  BY <1>6, <1>8, <1>9 DEF MsgsFit
<1>11. Named(o, t, started'[t])  BY <1>4, <1>6, <1>8, <1>9 DEF Named
<1>12. Polls(t, o)  BY <1>1, <1>4, <1>5, <1>6, <1>8, <1>10, <1>11 DEF Polls
<1>. QED  BY <1>2, <1>12, PollFlows

LEMMA RepollFlows ==
    ASSUME ClaimInv, ClaimInv', HandleInv, BlockInv, FlowInv, NEW t \in Tasks, Repoll(t)
    PROVE  FlowInv' /\ Honest
<1>1. /\ stage[t] = "repoll" /\ PollCases(t, op[t], expired[t]) /\ receivers' = receivers /\ flushed' = flushed
      /\ started' = started
  BY DEF Repoll
<1>2. op[t].kind = "select" /\ op[t] \in Operations /\ mailbox[t] = <<>> /\ wake[t].status = "event"
  BY <1>1, TaskByTask DEF TaskOK, ClaimType
<1>3. MsgsFit(op[t]) /\ Named(op[t], t, started[t])  BY DEF BlockInv, OpsFit, FlowInv, MsgsAreNamed
<1>4. ASSUME NEW i \in DOMAIN op[t].cases, op[t].cases[i].kind = "send"
      PROVE  Open(op[t].msgs[i]) /\ ~Offered(arrival, op[t].msgs[i])
  <2>1. op[t].msgs[i] = <<t, started[t], i>> /\ (Offered(arrival, op[t].msgs[i]) <=> Accepted(t, i))
    BY <1>4, MsgIs
  <2>2. ~Accepted(t, i)  BY <1>1, <1>2 DEF Accepted, Told, Waiting
  <2>3. op[t].msgs[i][1] = t /\ op[t].msgs[i][2] = started[t]  BY <2>1
  <2>. QED  BY <1>2, <2>1, <2>2, <2>3 DEF Open
<1>5. \A u \in Tasks : started[u] <= started[u]
  <2>1. started \in [Tasks -> Nat]  BY ConstantsAssumption DEF ClaimInv, ClaimType
  <2>. QED  BY <2>1
<1>6. Polls(t, op[t])  BY <1>1, <1>2, <1>3, <1>4, <1>5 DEF Polls
<1>. QED  BY <1>1, <1>6, PollFlows

(* A task that is told how its operation ended.                            *)
LEMMA EndsTrue ==
    ASSUME ClaimInv, ClaimInv', HandleInv, BlockInv, FlowInv, NEW t \in Tasks, ~Waiting(t), mailbox[t] = <<>>,
           NEW case, op[t].kind = "select" => case = wake[t].case,
           op[t].kind # "select" => case = 1 /\ op[t].kind \in {"send", "receive"},
           Finish(t, op[t], wake[t].status, case), stage' = [stage EXCEPT ![t] = "ready"],
           wake' = [wake EXCEPT ![t] = NoWake], Still, mailbox' = mailbox, started' = started
    PROVE  FlowInv' /\ Honest
<1>1. op \in [Tasks -> Operations] /\ stage \in [Tasks -> Stages] /\ wake \in [Tasks -> Waits]
  BY DEF ClaimInv, ClaimType
<1>2. /\ \A u \in Tasks \ {t} : op'[u] = op[u] /\ stage'[u] = stage[u] /\ wake'[u] = wake[u]
      /\ op'[t] = NoOp /\ Judge(op[t], wake[t].status, case)
  BY <1>1 DEF Finish
<1>3. NoOp.kind = "none" /\ NoOp.cases = <<>>  BY DEF NoOp
<1>4. TaskTrue(t)'  BY <1>2, <1>3, IdleIsTrue
<1>5. FlowInv'  BY <1>2, <1>4, AloneFlows
<1>6. MsgsFit(op[t]) /\ Named(op[t], t, started[t])  BY DEF BlockInv, OpsFit, FlowInv, MsgsAreNamed
<1>7. ASSUME NEW i \in DOMAIN op[t].cases, op[t].cases[i].kind = "send"
      PROVE  Offered(arrival', op[t].msgs[i]) <=> wake[t].status = "ready" /\ op[t].msgs[i] = op[t].msgs[case]
  <2>1. op[t].msgs[i] = <<t, started[t], i>> /\ (Offered(arrival, op[t].msgs[i]) <=> Accepted(t, i))
    BY <1>7, MsgIs
  <2>2. arrival' = arrival  BY DEF Still
  <2>3. CASE op[t].kind = "select"
    <3>1. Accepted(t, i) <=> wake[t].status = "ready" /\ case = i  BY <2>3 DEF Accepted, Told
    <3>2. Answers(wake[t], op[t])  BY DEF FlowInv, SuspendedAreTrue, Told
    <3>3. wake[t].status = "ready" => case \in DOMAIN op[t].cases  BY <2>3, <3>2 DEF Answers
    <3>4. ASSUME case \in DOMAIN op[t].cases, case # i  PROVE op[t].msgs[case] # op[t].msgs[i]
      <4>1. CASE op[t].cases[case].kind = "send"
        <5>1. op[t].msgs[case] = <<t, started[t], case>>  BY <3>4, <4>1, MsgIs
        <5>. QED  BY <2>1, <3>4, <5>1
      <4>2. CASE op[t].cases[case].kind # "send"
        <5>1. op[t].msgs[case] = NoMsg  BY <1>6, <3>4, <4>2 DEF Named
        <5>2. op[t].msgs[i] \in Msgs  BY <1>6, <1>7 DEF MsgsFit
        <5>3. NoMsg \notin Msgs  BY ConstantsAssumption DEF Msgs
        <5>. QED  BY <5>1, <5>2, <5>3
      <4>. QED  BY <4>1, <4>2
    <3>. QED  BY <2>1, <2>2, <3>1, <3>3, <3>4
  <2>4. CASE op[t].kind # "select"
    <3>1. Accepted(t, i) <=> wake[t].status = "ready"  BY <2>4 DEF Accepted, Told
    <3>2. SingleCase(t)  BY <2>4, TaskByTask DEF TaskOK
    <3>. DEFINE x == [kind |-> op[t].kind, chan |-> op[t].cases[1].chan]
    <3>3. op[t].cases = <<x>>  BY <3>2 DEF SingleCase
    <3>. HIDE DEF x
    <3>4. DOMAIN <<x>> = {1}  OBVIOUS
    <3>5. i = 1  BY <3>3, <3>4
    <3>. QED  BY <2>1, <2>2, <2>4, <3>1, <3>5
  <2>. QED  BY <2>3, <2>4
<1>8. Judged(t, op[t], wake[t].status, case)  BY <1>2, <1>3, <1>6, <1>7 DEF Judged
<1>9. arrival' = arrival /\ \A u \in Tasks : started[u] <= started'[u]  BY DEF Still
<1>10. \A u \in Tasks : op'[u].kind # "none" => op[u].kind # "none"  BY <1>2, <1>3
<1>. QED  BY <1>5, <1>8, <1>9, <1>10 DEF Honest

LEMMA StillWhenUnchanged ==
    ASSUME ClaimInv, UNCHANGED <<arrival, taken, flushed, buffer, sendQ, receivers, started>>
    PROVE  Still
<1>1. started \in [Tasks -> Nat]  BY ConstantsAssumption DEF ClaimInv, ClaimType
<1>. QED  BY <1>1 DEF Still

LEMMA TakeWakeFlows ==
    ASSUME ClaimInv, ClaimInv', HandleInv, BlockInv, FlowInv, NEW t \in Tasks, TakeWake(t)
    PROVE  FlowInv' /\ Honest
<1>1. /\ stage[t] = "woken" /\ op[t].kind \in {"send", "receive"} /\ Finish(t, op[t], wake[t].status, 1)
      /\ stage' = [stage EXCEPT ![t] = "ready"] /\ wake' = [wake EXCEPT ![t] = NoWake]
      /\ UNCHANGED <<arrival, taken, flushed, buffer, sendQ, receivers, started, mailbox>>
  BY DEF TakeWake, chanVars
<1>2. ~Waiting(t) /\ mailbox[t] = <<>>  BY <1>1, TaskByTask DEF TaskOK, Waiting
<1>3. Still  BY <1>1, StillWhenUnchanged
<1>. QED  BY <1>1, <1>2, <1>3, EndsTrue

(* Steps that change neither the messages nor what tasks are told.         *)
LEMMA AsideFlows ==
    ASSUME ClaimInv, ClaimInv', BlockInv, FlowInv, Still, UNCHANGED <<op, wake, mailbox, verdict>>,
           NEW t \in Tasks, \A u \in Tasks \ {t} : stage'[u] = stage[u] /\ started'[u] = started[u],
           TaskTrue(t)'
    PROVE  FlowInv' /\ Honest
<1>1. \A d \in Channels : MsgsIn(op', sendQ[d]) = MsgsOf(sendQ[d])  BY DEF MsgsOf
<1>2. ASSUME NEW u \in Tasks \ {t}  PROVE TaskTrue(u)'
  <2>1. NoWakes[u] = <<>>  BY NoWakesIs
  <2>2. arrival' = arrival  BY DEF Still
  <2>3. TruthFollows(u, NoWakes)  BY <2>1, <2>2 DEF TruthFollows
  <2>. QED  BY <2>3, TruthKept
<1>3. \A u \in Tasks : TaskTrue(u)'  BY <1>2
<1>4. FlowInv'  BY <1>1, <1>3, StillFlows
<1>5. arrival' = arrival /\ \A u \in Tasks : started[u] <= started'[u]  BY DEF Still
<1>. QED  BY <1>4, <1>5 DEF Honest

LEMMA UnregisterFlows ==
    ASSUME ClaimInv, ClaimInv', HandleInv, BlockInv, FlowInv, NEW t \in Tasks, Unregister(t)
    PROVE  FlowInv' /\ Honest
<1>1. /\ op[t].kind = "select" /\ stage[t] \in {"woken", "unregister"}
      /\ UNCHANGED <<arrival, taken, flushed, buffer, sendQ, receivers, started, mailbox>>
      /\ \/ /\ stage' = [stage EXCEPT ![t] = "unregister"] \/ stage' = [stage EXCEPT ![t] = "repoll"]
            /\ UNCHANGED <<op, wake, verdict>>
         \/ /\ Finish(t, op[t], wake[t].status, wake[t].case)
            /\ stage' = [stage EXCEPT ![t] = "ready"] /\ wake' = [wake EXCEPT ![t] = NoWake]
  BY DEF Unregister
<1>2. ~Waiting(t) /\ mailbox[t] = <<>>  BY <1>1, TaskByTask DEF TaskOK, Waiting
<1>3. Still  BY <1>1, StillWhenUnchanged
<1>4. CASE /\ stage' = [stage EXCEPT ![t] = "unregister"] \/ stage' = [stage EXCEPT ![t] = "repoll"]
           /\ UNCHANGED <<op, wake, verdict>>
  <2>1. stage'[t] # "parked" /\ \A u \in Tasks \ {t} : stage'[u] = stage[u]
    BY <1>4 DEF ClaimInv, ClaimType
  <2>2. TaskTrue(t)'
    <3>1. Named(op[t], t, started[t])'  BY <1>1, <1>4 DEF FlowInv, MsgsAreNamed, Named
    <3>2. ~Waiting(t)' /\ Told(t)' = Told(t)  BY <1>1, <1>4, <2>1 DEF Waiting, Told
    <3>3. Answers(Told(t), op[t])  BY <1>2 DEF FlowInv, SuspendedAreTrue
    <3>4. \A i : Accepted(t, i)' <=> Accepted(t, i)  BY <1>2, <1>4, <3>2 DEF Accepted
    <3>5. \A i \in DOMAIN op[t].cases : op[t].cases[i].kind = "send" => (Offered(arrival, op[t].msgs[i]) <=> Accepted(t, i))
      BY DEF FlowInv, SuspendedAreTrue
    <3>6. Answers(Told(t), op[t])'  BY <1>4, <3>2, <3>3 DEF Answers
    <3>. QED  BY <1>1, <1>4, <3>1, <3>4, <3>5, <3>6 DEF TaskTrue
  <2>. QED  BY <1>1, <1>3, <1>4, <2>1, <2>2, AsideFlows
<1>5. CASE /\ Finish(t, op[t], wake[t].status, wake[t].case)
           /\ stage' = [stage EXCEPT ![t] = "ready"] /\ wake' = [wake EXCEPT ![t] = NoWake]
  BY <1>1, <1>2, <1>3, <1>5, EndsTrue
<1>. QED  BY <1>1, <1>4, <1>5

LEMMA ExpireFlows ==
    ASSUME ClaimInv, ClaimInv', BlockInv, FlowInv, NEW t \in Tasks,
           UNCHANGED <<buffer, sendQ, receivers, stage, op, wake, mailbox, started, arrival, taken, flushed, verdict>>
    PROVE  FlowInv' /\ Honest
<1>1. Still  BY StillWhenUnchanged
<1>2. NoWakes[t] = <<>>  BY NoWakesIs
<1>3. TruthFollows(t, NoWakes)  BY <1>2 DEF TruthFollows
<1>4. TaskTrue(t)'  BY <1>3, TruthKept
<1>. QED  BY <1>1, <1>4, AsideFlows

(* The steps of a task without an operation that leave the messages alone. *)
LEMMA IdleFlows ==
    ASSUME ClaimInv, ClaimInv', HandleInv, BlockInv, FlowInv, NEW t \in Tasks, op[t].kind = "none",
           UNCHANGED <<op, wake, mailbox, verdict>>, Still,
           \A u \in Tasks \ {t} : stage'[u] = stage[u] /\ started'[u] = started[u]
    PROVE  FlowInv' /\ Honest
<1>1. op[t].cases = <<>>  BY DEF HandleInv, OpsKeepHandles
<1>2. TaskTrue(t)'  BY <1>1, IdleIsTrue
<1>. QED  BY <1>2, AsideFlows

LEMMA FlushDoneFlows ==
    ASSUME ClaimInv, ClaimInv', HandleInv, BlockInv, FlowInv, NEW t \in Tasks, FlushDone(t) \/ Return(t)
    PROVE  FlowInv' /\ Honest
<1>1. /\ stage[t] \in {"flush", "ready"}
      /\ UNCHANGED <<buffer, sendQ, receivers, op, wake, mailbox, started, arrival, taken, flushed, verdict>>
      /\ stage' = [stage EXCEPT ![t] = "ready"] \/ stage' = [stage EXCEPT ![t] = "done"]
  BY DEF FlushDone, Return, CanDrop, chanVars, histVars
<1>2. op[t].kind = "none"  BY <1>1, TaskByTask DEF TaskOK
<1>3. Still  BY <1>1, StillWhenUnchanged
<1>4. \A u \in Tasks \ {t} : stage'[u] = stage[u] /\ started'[u] = started[u]  BY <1>1 DEF ClaimInv, ClaimType
<1>. QED  BY <1>1, <1>2, <1>3, <1>4, IdleFlows

LEMMA CloneFlows ==
    ASSUME ClaimInv, ClaimInv', HandleInv, BlockInv, FlowInv, NEW t \in Tasks, NEW c \in Channels, NEW u \in Tasks,
           CloneSender(t, c, u) \/ CloneReceiver(t, c, u)
    PROVE  FlowInv' /\ Honest
<1>1. /\ stage[t] = "ready" /\ Count(t)
      /\ UNCHANGED <<buffer, sendQ, stage, op, wake, mailbox, arrival, taken, flushed, verdict>>
      /\ \/ receivers' = receivers
         \/ Owns(recvEnds, t, c) /\ receivers' = [receivers EXCEPT ![c] = @ + 1]
  BY DEF CloneSender, CloneReceiver, CanStart, histVars
<1>2. op[t].kind = "none"  BY <1>1, TaskByTask DEF TaskOK
<1>3. \A d \in Channels : receivers'[d] # 0 => receivers[d] # 0
  <2>1. Owns(recvEnds, t, c) => receivers[c] # 0  BY OwnedIsLive
  <2>2. receivers \in [Channels -> Nat]  BY HandleParts
  <2>. QED  BY <1>1, <2>1, <2>2
<1>4. /\ \A v \in Tasks \ {t} : started'[v] = started[v]
      /\ \A v \in Tasks : started[v] <= started'[v]
  BY <1>1, CountIs
<1>5. Still  BY <1>1, <1>3, <1>4 DEF Still
<1>. QED  BY <1>1, <1>2, <1>4, <1>5, IdleFlows

(* Steps that wake tasks and leave their operations alone.                 *)
Truly(u, ws) ==
    /\ ws[u] # <<>> => Answers(ws[u][1], op[u])
    /\ \A i \in DOMAIN op[u].cases : op[u].cases[i].kind = "send" =>
          IF ws[u] = <<>> THEN Offered(arrival', op[u].msgs[i]) <=> Offered(arrival, op[u].msgs[i])
          ELSE Offered(arrival', op[u].msgs[i])
                  <=> ws[u][1].status = "ready" /\ (op[u].kind = "select" => ws[u][1].case = i)

LEMMA WakesTruly ==
    ASSUME ClaimInv, FlowInv, NEW ws, Sound(ws), NEW e, NEW base, WakeTasks(ws, e, base, wake),
           op' = op, started' = started, NEW u \in Tasks, base[u] = stage[u], Truly(u, ws)
    PROVE  TaskTrue(u)'
<1>1. ws[u] = <<>> => stage'[u] = stage[u] /\ wake'[u] = wake[u] /\ mailbox'[u] = mailbox[u]  BY Woken
<1>2. ws[u] # <<>> => \/ stage'[u] = "woken" /\ wake'[u] = ws[u][1] /\ mailbox'[u] = <<>>
                      \/ stage'[u] = "parked" /\ mailbox'[u] = ws[u]
  <2>1. ws[u] # <<>> => stage[u] = "parked"  BY DEF Sound, Waiting
  <2>2. ws[u] # <<>> => \/ stage'[u] = "woken" /\ wake'[u] = ws[u][1] /\ mailbox'[u] = <<>>
                        \/ stage'[u] = base[u] /\ wake'[u] = wake[u] /\ mailbox'[u] = ws[u]
    BY Woken
  <2>. QED  BY <2>1, <2>2
<1>3. TruthFollows(u, ws)  BY <1>1, <1>2 DEF TruthFollows, Truly
<1>. QED  BY <1>3, TruthKept

LEMMA WakesFlow ==
    ASSUME ClaimInv, ClaimInv', BlockInv, FlowInv, NEW ws, Sound(ws), NEW e, WakeTasks(ws, e, stage, wake),
           Still, op' = op, started' = started, verdict' = verdict,
           \A u \in Tasks : ws[u] # <<>> => TellsTask(u, ws[u][1], {})
    PROVE  FlowInv' /\ Honest
<1>1. arrival' = arrival /\ \A u \in Tasks : started[u] <= started'[u]  BY DEF Still
<1>2. ASSUME NEW u \in Tasks  PROVE TaskTrue(u)'
  <2>1. Truly(u, ws)  BY <1>1 DEF Truly, TellsTask
  <2>. QED  BY <2>1, WakesTruly
<1>3. \A d \in Channels : MsgsIn(op', sendQ[d]) = MsgsOf(sendQ[d])  BY DEF MsgsOf
<1>4. FlowInv'  BY <1>2, <1>3, StillFlows
<1>. QED  BY <1>1, <1>4 DEF Honest

LEMMA DrainFlows ==
    ASSUME ClaimInv, ClaimInv', BlockInv, FlowInv, NEW e \in Executors, Drain(e)
    PROVE  FlowInv' /\ Honest
<1>. DEFINE ws == [t \in Tasks |-> IF Home[t] = e THEN mailbox[t] ELSE <<>>]
<1>1. /\ Enqueue(ws, stage, wake)
      /\ mailbox' = [t \in Tasks |-> IF Home[t] = e THEN <<>> ELSE mailbox[t]]
      /\ UNCHANGED <<arrival, taken, flushed, verdict, buffer, sendQ, receivers, op, started>>
  BY DEF Drain, chanVars, histVars
<1>2. \A u \in Tasks : ws[u] = IF Home[u] = e THEN mailbox[u] ELSE <<>>  OBVIOUS
<1>. HIDE DEF ws
<1>3. /\ stage' = [t \in Tasks |-> IF ws[t] # <<>> THEN "woken" ELSE stage[t]]
      /\ wake' = [t \in Tasks |-> IF ws[t] # <<>> THEN ws[t][1] ELSE wake[t]]
  BY <1>1 DEF Enqueue
<1>4. Still  BY <1>1, StillWhenUnchanged
<1>5. ASSUME NEW u \in Tasks  PROVE TaskTrue(u)'
  <2>1. ws[u] = <<>> => stage'[u] = stage[u] /\ wake'[u] = wake[u] /\ mailbox'[u] = mailbox[u]
    BY <1>1, <1>2, <1>3
  <2>2. ws[u] # <<>> => stage'[u] = "woken" /\ wake'[u] = ws[u][1] /\ mailbox'[u] = <<>>
    BY <1>1, <1>2, <1>3
  <2>3. ws[u] # <<>> => ~Waiting(u) /\ Told(u) = ws[u][1]  BY <1>2 DEF Waiting, Told
  <2>4. ws[u] # <<>> => Answers(ws[u][1], op[u])  BY <2>3 DEF FlowInv, SuspendedAreTrue
  <2>5. ASSUME NEW i \in DOMAIN op[u].cases, op[u].cases[i].kind = "send", ws[u] # <<>>
        PROVE  Offered(arrival, op[u].msgs[i]) <=> ws[u][1].status = "ready" /\ (op[u].kind = "select" => ws[u][1].case = i)
    <3>1. Offered(arrival, op[u].msgs[i]) <=> Accepted(u, i)  BY <2>5, MsgIs
    <3>. QED  BY <2>3, <2>5, <3>1 DEF Accepted
  <2>6. TruthFollows(u, ws)  BY <1>1, <2>1, <2>2, <2>4, <2>5 DEF TruthFollows
  <2>. QED  BY <2>6, TruthKept
<1>6. \A d \in Channels : MsgsIn(op', sendQ[d]) = MsgsOf(sendQ[d])  BY <1>1 DEF MsgsOf
<1>7. FlowInv'  BY <1>4, <1>5, <1>6, StillFlows
<1>8. \A u \in Tasks : started[u] <= started'[u]  BY <1>4 DEF Still
<1>. QED  BY <1>1, <1>7, <1>8 DEF Honest

LEMMA WakeExpiredFlows ==
    ASSUME ClaimInv, ClaimInv', BlockInv, FlowInv, NEW e \in Executors, WakeExpired(e)
    PROVE  FlowInv' /\ Honest
<1>. DEFINE ws == WakeEach(Late(e), Wk("timeout", 0))
<1>1. /\ WakeTasks(ws, e, stage, wake)
      /\ UNCHANGED <<arrival, taken, flushed, verdict, buffer, sendQ, receivers, op, started>>
  BY DEF WakeExpired, chanVars, histVars
<1>2. \A u \in Late(e) : u \in Tasks /\ Waiting(u) /\ op[u].kind = "select"
  <2>. TAKE u \in Late(e)
  <2>1. u \in Tasks /\ stage[u] = "parked" /\ op[u].kind = "select" /\ ~signaled[u]  BY DEF Late
  <2>2. TaskOK(u)  BY <2>1, TaskByTask
  <2>. QED  BY <2>1, <2>2 DEF TaskOK, Waiting
<1>3. Wk("timeout", 0) \in Waits /\ Wk("timeout", 0).status = "timeout"  BY WkIs DEF Statuses
<1>4. /\ ws \in [Tasks -> Seq(Waits)]
      /\ \A u \in Tasks : u \notin Late(e) => ws[u] = <<>>
      /\ \A u \in Tasks : u \in Late(e) => ws[u] # <<>> /\ Len(ws[u]) = 1 /\ ws[u][1] = Wk("timeout", 0)
  BY <1>3, WakeEachIs
<1>. HIDE DEF ws
<1>5. Sound(ws)  BY <1>2, <1>4 DEF Sound
<1>6. ASSUME NEW u \in Tasks, ws[u] # <<>>  PROVE TellsTask(u, ws[u][1], {})
  <2>1. u \in Late(e) /\ ws[u][1] = Wk("timeout", 0)  BY <1>4, <1>6
  <2>2. Foreign(u, {})  BY DEF Foreign
  <2>3. TellsTask(u, Wk("timeout", 0), {})  BY <1>2, <1>3, <2>1, <2>2, TellsSelect
  <2>. QED  BY <2>1, <2>3
<1>7. Still  BY <1>1, StillWhenUnchanged
<1>. QED  BY <1>1, <1>5, <1>6, <1>7, WakesFlow

(* What the wakes of a close are.                                          *)
LEMMA CloseTells ==
    ASSUME ClaimInv, NEW c \in Channels, NEW q, q = sendQ[c] \/ q = recvQ[c],
           NEW u \in Tasks
    PROVE  LET ws == AndThen(ClosedWakes(q), Signals(c))
           IN  /\ u \in Range(q) => ws[u] # <<>> /\ ws[u][1] = Wk("closed", 0)
               /\ u \in Unclaimed(c) => ws[u] # <<>> /\ ws[u][1] = Wk("event", 0)
               /\ u \notin Range(q) /\ u \notin Unclaimed(c) => ws[u] = <<>>
<1>. DEFINE v == ClosedWakes(q)
            w == Signals(c)
            ws == AndThen(v, w)
<1>1. /\ v \in [Tasks -> Seq(Waits)]
      /\ u \notin Range(q) => v[u] = <<>>
      /\ u \in Range(q) => v[u] # <<>> /\ v[u][1] = Wk("closed", 0)
  <2>1. Wk("closed", 0) \in Waits  BY WkIs DEF Statuses
  <2>. QED  BY <2>1, WakeEachIs DEF ClosedWakes
<1>2. /\ w \in [Tasks -> Seq(Waits)]
      /\ u \notin Unclaimed(c) => w[u] = <<>>
      /\ u \in Unclaimed(c) => w[u] # <<>> /\ w[u][1] = Wk("event", 0)
  <2>1. Wk("event", 0) \in Waits  BY WkIs DEF Statuses
  <2>. QED  BY <2>1, WakeEachIs DEF Signals
<1>3. ~(u \in Range(q) /\ u \in Unclaimed(c))
  <2>1. u \in Range(q) => op[u].kind # "select"  BY QueuedIs
  <2>2. u \in Unclaimed(c) => op[u].kind = "select"  BY UnclaimedWait DEF Unclaimed
  <2>. QED  BY <2>1, <2>2
<1>. HIDE DEF v, w
<1>4. /\ w[u] = <<>> => ws[u] = v[u]
      /\ v[u] = <<>> => ws[u] = w[u]
  BY <1>1, <1>2, AndThenIs
<1>. HIDE DEF ws
<1>5. CASE u \in Range(q)
  <2>1. ws[u] = v[u]  BY <1>2, <1>3, <1>4, <1>5
  <2>. QED  BY <1>1, <1>3, <1>5, <2>1 DEF ws, v, w
<1>6. CASE u \notin Range(q)
  <2>1. ws[u] = w[u]  BY <1>1, <1>4, <1>6
  <2>. QED  BY <1>2, <1>6, <2>1 DEF ws, v, w
<1>. QED  BY <1>5, <1>6

LEMMA DropSenderFlows ==
    ASSUME ClaimInv, ClaimInv', BlockInv, FlowInv, NEW t \in Tasks, NEW c \in Channels, DropSender(t, c)
    PROVE  FlowInv' /\ Honest
<1>. DEFINE last == senders[c] = 1
            ws == IF last THEN AndThen(ClosedWakes(recvQ[c]), Signals(c)) ELSE NoWakes
<1>1. /\ WakeTasks(ws, Home[t], stage, wake)
      /\ signaled' = [u \in Tasks |-> signaled[u] \/ (last /\ u \in Range(selQ[c]))]
      /\ UNCHANGED <<arrival, taken, flushed, verdict, buffer, sendQ, receivers, op, started>>
  BY DEF DropSender, histVars
<1>2. last \in BOOLEAN  OBVIOUS
<1>. HIDE DEF last
<1>3. Sound(ws)  BY <1>1, <1>2, DropIs
<1>4. ASSUME NEW u \in Tasks, ws[u] # <<>>  PROVE TellsTask(u, ws[u][1], {})
  <2>1. last  BY <1>4, NoWakesIs
  <2>2. /\ u \in Range(recvQ[c]) => ws[u][1] = Wk("closed", 0)
        /\ u \in Unclaimed(c) => ws[u][1] = Wk("event", 0)
        /\ u \in Range(recvQ[c]) \/ u \in Unclaimed(c)
    BY <1>4, <2>1, CloseTells
  <2>. HIDE DEF ws
  <2>3. ASSUME u \in Range(recvQ[c])  PROVE TellsTask(u, ws[u][1], {})
    <3>1. op[u].kind = "receive"  BY <2>3, QueuedIs
    <3>. QED  BY <3>1, TellsReceiver
  <2>4. ASSUME u \in Unclaimed(c)  PROVE TellsTask(u, ws[u][1], {})
    <3>1. Waiting(u) /\ op[u].kind = "select"  BY <2>4, UnclaimedWait DEF Unclaimed
    <3>2. Wk("event", 0).status = "event"  BY WkIs DEF Statuses
    <3>3. Foreign(u, {})  BY DEF Foreign
    <3>4. TellsTask(u, Wk("event", 0), {})  BY <3>1, <3>2, <3>3, TellsSelect
    <3>. QED  BY <2>2, <2>4, <3>4
  <2>. QED  BY <2>2, <2>3, <2>4
<1>. HIDE DEF ws
<1>5. Still  BY <1>1, StillWhenUnchanged
<1>. QED  BY <1>1, <1>3, <1>4, <1>5, WakesFlow

(* Steps that withdraw the messages of the senders G, parked on channel c, *)
(* and wake tasks without an answer to the others.                         *)
Unanswered(u, ws) ==
    ws[u] # <<>> => op[u].kind = "receive" \/ (op[u].kind = "select" /\ ws[u][1].status # "ready")
Withdraws(c, G, ws, e, base) ==
    /\ G \subseteq Range(sendQ[c]) /\ Sound(ws) /\ WakeTasks(ws, e, base, wake)
    /\ UNCHANGED <<op, started, verdict>>
    /\ \A u \in Tasks : base[u] = stage[u] \/ op[u].kind = "none"
    /\ \A u \in Tasks : IF u \in G THEN ws[u] # <<>> /\ ws[u][1].status # "ready" ELSE Unanswered(u, ws)
    /\ \A x : Offered(arrival', x) <=> Offered(arrival, x) /\ x \notin {op[u].msgs[1] : u \in G}

LEMMA WithdrawFlows ==
    ASSUME ClaimInv, ClaimInv', HandleInv, BlockInv, FlowInv, NEW c \in Channels, NEW G, NEW ws, NEW e, NEW base,
           Withdraws(c, G, ws, e, base), HistoryType', FlushedIsClosed', Once(arrival'), FifoExactlyOnce'
    PROVE  FlowInv' /\ Honest
<1>. DEFINE gone == {op[u].msgs[1] : u \in G}
<1>1. /\ G \subseteq Range(sendQ[c]) /\ Sound(ws) /\ WakeTasks(ws, e, base, wake)
      /\ op' = op /\ started' = started /\ verdict' = verdict
      /\ \A x : Offered(arrival', x) <=> Offered(arrival, x) /\ x \notin gone
  BY DEF Withdraws
<1>2. ASSUME NEW v \in G
      PROVE  /\ v \in Tasks /\ op[v].kind = "send" /\ DOMAIN op[v].cases = {1}
             /\ op[v].msgs[1] = <<v, started[v], 1>> /\ op[v].msgs[1] \in gone
  <2>1. v \in Tasks /\ op[v].kind = "send"  BY <1>1, QueuedIs
  <2>2. SingleCase(v)  BY <2>1, TaskByTask DEF TaskOK
  <2>. DEFINE x == [kind |-> op[v].kind, chan |-> op[v].cases[1].chan]
  <2>3. op[v].cases = <<x>> /\ x.kind = "send"  BY <2>1, <2>2 DEF SingleCase
  <2>. HIDE DEF x
  <2>4. DOMAIN <<x>> = {1} /\ <<x>>[1] = x  OBVIOUS
  <2>5. DOMAIN op[v].cases = {1} /\ op[v].cases[1].kind = "send"  BY <2>3, <2>4
  <2>6. op[v].msgs[1] = <<v, started[v], 1>>  BY <2>1, <2>5, MsgIs
  <2>. QED  BY <2>1, <2>5, <2>6
<1>. HIDE DEF gone
<1>3. ASSUME NEW u \in Tasks, u \notin G, NEW i \in DOMAIN op[u].cases, op[u].cases[i].kind = "send"
      PROVE  Offered(arrival', op[u].msgs[i]) <=> Offered(arrival, op[u].msgs[i])
  <2>1. op[u].msgs[i] = <<u, started[u], i>>  BY <1>3, MsgIs
  <2>2. ASSUME op[u].msgs[i] \in gone  PROVE FALSE
    <3>1. PICK v \in G : op[u].msgs[i] = op[v].msgs[1]  BY <2>2 DEF gone
    <3>2. op[v].msgs[1] = <<v, started[v], 1>>  BY <1>2
    <3>3. v = u  BY <2>1, <3>1, <3>2
    <3>. QED  BY <1>3, <3>3
  <2>. QED  BY <1>1, <2>2
<1>4. ASSUME NEW u \in Tasks  PROVE TaskTrue(u)'
  <2>1. CASE op[u].kind = "none"
    <3>1. op[u].cases = <<>>  BY <2>1 DEF HandleInv, OpsKeepHandles
    <3>. QED  BY <1>1, <2>1, <3>1, IdleIsTrue
  <2>2. CASE op[u].kind # "none"
    <3>1. base[u] = stage[u]  BY <2>2 DEF Withdraws
    <3>2. CASE u \in G
      <4>1. ws[u] # <<>> /\ ws[u][1].status # "ready"  BY <3>2 DEF Withdraws
      <4>2. \A i \in DOMAIN op[u].cases : ~Offered(arrival', op[u].msgs[i])  BY <1>1, <1>2, <3>2
      <4>3. Truly(u, ws)  BY <4>1, <4>2 DEF Truly, Answers
      <4>. QED  BY <1>1, <3>1, <4>3, WakesTruly
    <3>3. CASE u \notin G
      <4>1. Unanswered(u, ws)  BY <3>3 DEF Withdraws
      <4>2. ws[u] # <<>> => TellsTask(u, ws[u][1], {})
        <5>1. Waiting(u) \/ ws[u] = <<>>  BY <1>1 DEF Sound
        <5>2. Foreign(u, {})  BY DEF Foreign
        <5>3. CASE op[u].kind = "receive"  BY <5>3, TellsReceiver
        <5>4. CASE ws[u] # <<>> /\ op[u].kind = "select" /\ ws[u][1].status # "ready"
          BY <5>1, <5>2, <5>4, TellsSelect
        <5>. QED  BY <4>1, <5>3, <5>4 DEF Unanswered
      <4>3. Truly(u, ws)  BY <1>3, <3>3, <4>2 DEF Truly, TellsTask
      <4>. QED  BY <1>1, <3>1, <4>3, WakesTruly
    <3>. QED  BY <3>2, <3>3
  <2>. QED  BY <2>1, <2>2
<1>5. OfferedAreStarted'  BY <1>1 DEF FlowInv, OfferedAreStarted
<1>6. FlowInv'  BY <1>4, <1>5, FlowByTaskNext
<1>7. ASSUME NEW x \in Msgs  PROVE Open(x) \/ (Offered(arrival', x) <=> Offered(arrival, x))
  <2>1. ASSUME x \in gone  PROVE Open(x)
    <3>1. PICK v \in G : x = op[v].msgs[1]  BY <2>1 DEF gone
    <3>2. x = <<v, started[v], 1>> /\ op[v].kind # "none"  BY <1>2, <3>1
    <3>3. x[1] = v /\ x[2] = started[v]  BY <3>2
    <3>. QED  BY <3>2, <3>3 DEF Open
  <2>. QED  BY <1>1, <2>1
<1>8. \A u \in Tasks : started[u] <= started'[u]
  <2>1. started \in [Tasks -> Nat]  BY ConstantsAssumption DEF ClaimInv, ClaimType
  <2>. QED  BY <1>1, <2>1
<1>. QED  BY <1>1, <1>6, <1>7, <1>8 DEF Honest

(* The history of a channel whose other histories stay.                    *)
LEMMA FifoElsewhere ==
    ASSUME ClaimInv, BlockInv, FlowInv, op' = op, NEW c \in Channels,
           \A d \in Channels : d # c => /\ arrival'[d] = arrival[d] /\ taken'[d] = taken[d] /\ flushed'[d] = flushed[d]
                                        /\ buffer'[d] = buffer[d] /\ sendQ'[d] = sendQ[d],
           arrival'[c] = ((taken'[c] \o flushed'[c]) \o buffer'[c]) \o MsgsOf(sendQ'[c])
    PROVE  FifoExactlyOnce'
<1>1. ASSUME NEW d \in Channels
      PROVE  arrival'[d] = ((taken'[d] \o flushed'[d]) \o buffer'[d]) \o MsgsIn(op', sendQ'[d])
  <2>1. MsgsIn(op', sendQ'[d]) = MsgsOf(sendQ'[d])  BY DEF MsgsOf
  <2>2. CASE d = c  BY <2>1, <2>2
  <2>3. CASE d # c
    <3>1. arrival[d] = ((taken[d] \o flushed[d]) \o buffer[d]) \o MsgsOf(sendQ[d])  BY FlowParts
    <3>. QED  BY <2>1, <2>3, <3>1
  <2>. QED  BY <2>2, <2>3
<1>2. \A d \in Channels : (arrival[d] = taken[d] \o flushed[d] \o buffer[d] \o ParkedMsgs(d))'  BY <1>1, FifoNext
<1>. QED  BY <1>2 DEF FifoExactlyOnce

(* Withdrawing the message of a parked sender is taking the sender off its *)
(* queue.                                                                  *)
LEMMA WithoutParked ==
    ASSUME NEW p \in Seq(Msgs), NEW q \in Seq(Tasks), Injective(q), \A u \in Range(q) : op[u].msgs[1] \in Msgs,
           Injective(p \o MsgsOf(q)), NEW t \in Range(q)
    PROVE  /\ op[t].msgs[1] \in Range(p \o MsgsOf(q))
           /\ Without(p \o MsgsOf(q), op[t].msgs[1]) = p \o MsgsOf(Without(q, t))
<1>. DEFINE x == MsgsOf(q)
            a == p \o x
            m == op[t].msgs[1]
            w == Without(q, t)
            y == MsgsOf(w)
            b == p \o y
            r == Without(a, m)
            n == Len(p)
<1>1. /\ x \in Seq(Msgs) /\ Len(x) = Len(q) /\ \A i \in 1 .. Len(q) : x[i] = op[q[i]].msgs[1]
  BY MsgsOfIs
<1>2. PICK k \in 1 .. Len(q) : /\ q[k] = t /\ w \in Seq(Tasks) /\ DOMAIN w = 1 .. Len(q) - 1
                               /\ \A i \in DOMAIN w : w[i] = q[IF i < k THEN i ELSE i + 1]
  BY WithoutAt
<1>3. w \in Seq(Tasks) /\ Range(w) \subseteq Range(q)  BY WithoutOf
<1>4. /\ y \in Seq(Msgs) /\ Len(y) = Len(w) /\ \A i \in 1 .. Len(w) : y[i] = op[w[i]].msgs[1]
  BY <1>3, MsgsOfIs
<1>5. Len(q) \in Nat /\ n \in Nat /\ Len(w) = Len(q) - 1 /\ Len(w) \in Nat /\ DOMAIN w = 1 .. Len(w)  BY <1>2
<1>6. x[k] = m  BY <1>1, <1>2
<1>. HIDE DEF x, y, w, m
<1>7. /\ a \in Seq(Msgs) /\ Len(a) = n + Len(q)
      /\ \A i \in 1 .. n + Len(q) : a[i] = IF i <= n THEN p[i] ELSE x[i - n]
  <2>1. a \in Seq(Msgs) /\ Len(a) = Len(p) + Len(x)  BY <1>1
  <2>2. \A i \in 1 .. Len(p) + Len(x) : a[i] = IF i <= Len(p) THEN p[i] ELSE x[i - Len(p)]
    BY <1>1, ConcatProperties
  <2>. QED  BY <1>1, <2>1, <2>2
<1>8. /\ b \in Seq(Msgs) /\ Len(b) = n + Len(w)
      /\ \A i \in 1 .. n + Len(w) : b[i] = IF i <= n THEN p[i] ELSE y[i - n]
  <2>0. y \in Seq(Msgs)  BY <1>4
  <2>1. b \in Seq(Msgs) /\ Len(b) = Len(p) + Len(y)  BY <2>0
  <2>2. \A i \in 1 .. Len(p) + Len(y) : b[i] = IF i <= Len(p) THEN p[i] ELSE y[i - Len(p)]
    BY <1>4, ConcatProperties
  <2>. QED  BY <1>4, <2>1, <2>2
<1>9. Injective(a)  BY DEF x
<1>. HIDE DEF a, b, n
<1>10. DOMAIN a = 1 .. n + Len(q)  BY <1>7
<1>11. n + k \in DOMAIN a /\ a[n + k] = m
  <2>1. n + k \in 1 .. n + Len(q) /\ ~(n + k <= n) /\ (n + k) - n = k  BY <1>5
  <2>. QED  BY <1>6, <1>7, <1>10, <2>1
<1>12. m \in Range(a)  BY <1>11 DEF Range
<1>13. PICK j \in 1 .. Len(a) : /\ a[j] = m /\ r \in Seq(Msgs) /\ DOMAIN r = 1 .. Len(a) - 1
                                /\ \A i \in DOMAIN r : r[i] = a[IF i < j THEN i ELSE i + 1]
  <2>1. a \in Seq(Msgs)  BY <1>7
  <2>. QED  BY <1>12, <2>1, WithoutAt
<1>. HIDE DEF r
<1>14. j = n + k  BY <1>7, <1>9, <1>10, <1>11, <1>13 DEF Injective
<1>15. Len(r) = n + Len(w) /\ Len(r) \in Nat
  <2>1. Len(r) \in Nat /\ DOMAIN r = 1 .. Len(r)  BY <1>13
  <2>. DEFINE l == n + Len(w)
  <2>2. l \in Nat /\ l = Len(a) - 1  BY <1>5, <1>7
  <2>3. 1 .. Len(r) = 1 .. l  BY <1>13, <2>1, <2>2
  <2>. HIDE DEF l
  <2>4. Len(r) = l  BY <2>1, <2>2, <2>3
  <2>. QED  BY <2>1, <2>4 DEF l
<1>16. ASSUME NEW i \in 1 .. Len(r)  PROVE r[i] = b[i]
  <2>1. i \in DOMAIN r /\ r[i] = a[IF i < n + k THEN i ELSE i + 1]  BY <1>13, <1>14, <1>16
  <2>2. CASE i <= n
    <3>1. i < n + k /\ i \in 1 .. n + Len(q)  BY <1>5, <1>15, <2>2
    <3>. QED  BY <1>7, <1>8, <1>15, <2>1, <2>2, <3>1
  <2>3. CASE ~(i <= n)
    <3>. DEFINE l == i - n
    <3>1. l \in 1 .. Len(w) /\ (i < n + k <=> l < k) /\ l \in Nat  BY <1>5, <1>15, <2>3
    <3>2. b[i] = y[l] /\ y[l] = op[w[l]].msgs[1] /\ w[l] = q[IF l < k THEN l ELSE l + 1]
      BY <1>2, <1>4, <1>5, <1>8, <1>15, <2>3, <3>1
    <3>3. CASE l < k
      <4>1. r[i] = x[l] /\ l \in 1 .. Len(q)  BY <1>5, <1>7, <2>1, <2>3, <3>1, <3>3
      <4>. QED  BY <1>1, <3>2, <3>3, <4>1
    <3>4. CASE ~(l < k)
      <4>1. i + 1 \in 1 .. n + Len(q) /\ ~(i + 1 <= n) /\ (i + 1) - n = l + 1 /\ l + 1 \in 1 .. Len(q)
        BY <1>5, <1>15, <2>3, <3>1
      <4>2. r[i] = x[l + 1]  BY <1>7, <2>1, <3>1, <3>4, <4>1
      <4>3. x[l + 1] = op[q[l + 1]].msgs[1]  BY <1>1, <4>1
      <4>. QED  BY <3>2, <3>4, <4>2, <4>3
    <3>. QED  BY <3>3, <3>4
  <2>. QED  BY <2>2, <2>3
<1>17. r = b  BY <1>8, <1>13, <1>15, <1>16, SeqEqual
<1>. QED  BY <1>12, <1>17 DEF r, a, b, x, y, w, m

(* The last receiver leaves: what is parked is withdrawn, what is buffered *)
(* is flushed.                                                             *)
LEMMA CloseWithdraws ==
    ASSUME ClaimInv, HandleInv, BlockInv, FlowInv, NEW c \in Channels, receivers[c] # 0, op' = op, taken' = taken,
           buffer' = [buffer EXCEPT ![c] = <<>>], sendQ' = [sendQ EXCEPT ![c] = <<>>],
           flushed' = [flushed EXCEPT ![c] = buffer[c]],
           NEW gone, gone = {op[u].msgs[1] : u \in Range(sendQ[c])},
           arrival' = [arrival EXCEPT ![c] = Withdrawn(@, gone)]
    PROVE  /\ HistoryType' /\ Once(arrival') /\ FifoExactlyOnce'
           /\ \A x : Offered(arrival', x) <=> Offered(arrival, x) /\ x \notin gone
<1>. DEFINE p == (taken[c] \o flushed[c]) \o buffer[c]
            r == MsgsOf(sendQ[c])
            h == arrival[c]
<1>1. /\ h \in Seq(Msgs) /\ taken[c] \in Seq(Msgs) /\ flushed[c] = <<>> /\ buffer[c] \in Seq(Msgs)
      /\ sendQ[c] \in Seq(Tasks) /\ r \in Seq(Msgs) /\ h = p \o r
      /\ \A u \in Range(sendQ[c]) : op[u].msgs[1] \in Msgs
  BY FlowParts
<1>2. Range(r) = gone  BY <1>1, MsgsOfIs
<1>3. taken[c] \o flushed[c] \in Seq(Msgs)  BY <1>1
<1>4. p \in Seq(Msgs)  BY <1>1, <1>3
<1>5. /\ arrival \in [Channels -> Seq(Msgs)] /\ taken \in [Channels -> Seq(Msgs)]
      /\ flushed \in [Channels -> Seq(Msgs)] /\ Once(arrival)
      /\ buffer \in [Channels -> Seq(Msgs)] /\ sendQ \in [Channels -> Seq(Tasks)]
  BY DEF FlowInv, HistoryType, ClaimInv, ClaimType, BlockInv, BufferFits
<1>6. Injective(h)  BY <1>5 DEF Once
<1>. HIDE DEF p, r, h
<1>7. Withdrawn(h, gone) = p  BY <1>1, <1>2, <1>4, <1>6, WithdrawnIs
<1>8. arrival'[c] = p /\ \A d \in Channels : d # c => arrival'[d] = arrival[d]  BY <1>5, <1>7 DEF h
<1>9. arrival' \in [Channels -> Seq(Msgs)]  BY <1>4, <1>5, <1>7 DEF h
<1>10. HistoryType'
  <2>1. flushed' \in [Channels -> Seq(Msgs)]  BY <1>1, <1>5
  <2>. QED  BY <1>5, <1>9, <2>1 DEF HistoryType
<1>11. Injective(p) /\ Range(h) = Range(p) \cup Range(r) /\ Range(p) \cap Range(r) = {}
  <2>1. /\ h \in Seq(Msgs) /\ Len(h) = Len(p) + Len(r) /\ DOMAIN h = 1 .. Len(p) + Len(r) /\ Len(p) \in Nat
        /\ Len(r) \in Nat /\ DOMAIN p = 1 .. Len(p) /\ DOMAIN r = 1 .. Len(r)
    <3>1. h \in Seq(Msgs) /\ Len(h) = Len(p) + Len(r)  BY <1>1, <1>4
    <3>2. DOMAIN h = 1 .. Len(h)  BY <1>1
    <3>3. Len(p) \in Nat /\ DOMAIN p = 1 .. Len(p)  BY <1>4
    <3>4. Len(r) \in Nat /\ DOMAIN r = 1 .. Len(r)  BY <1>1
    <3>. QED  BY <3>1, <3>2, <3>3, <3>4
  <2>2. \A i \in 1 .. Len(p) + Len(r) : h[i] = IF i <= Len(p) THEN p[i] ELSE r[i - Len(p)]
    BY <1>1, <1>4, ConcatProperties
  <2>3. \A i \in DOMAIN p : i \in DOMAIN h /\ h[i] = p[i]  BY <2>1, <2>2
  <2>4. \A j \in DOMAIN r : Len(p) + j \in DOMAIN h /\ h[Len(p) + j] = r[j]
    <3>. TAKE j \in DOMAIN r
    <3>1. Len(p) + j \in 1 .. Len(p) + Len(r) /\ ~(Len(p) + j <= Len(p)) /\ (Len(p) + j) - Len(p) = j  BY <2>1
    <3>. QED  BY <2>1, <2>2, <3>1
  <2>5. \A i \in DOMAIN h : i \in DOMAIN p \/ (i - Len(p) \in DOMAIN r /\ h[i] = r[i - Len(p)])  BY <2>1, <2>2
  <2>6. Injective(p)  BY <1>6, <2>3 DEF Injective
  <2>7. Range(h) = Range(p) \cup Range(r)  BY <2>3, <2>4, <2>5 DEF Range
  <2>8. ASSUME NEW i \in DOMAIN p, NEW j \in DOMAIN r, p[i] = r[j]  PROVE FALSE
    <3>1. i = Len(p) + j  BY <1>6, <2>3, <2>4, <2>8 DEF Injective
    <3>. QED  BY <2>1, <3>1
  <2>9. Range(p) \cap Range(r) = {}  BY <2>8 DEF Range
  <2>. QED  BY <2>6, <2>7, <2>9
<1>12. \A d \in Channels : Range(arrival'[d]) = IF d = c THEN Range(p) ELSE Range(arrival[d])  BY <1>8
<1>13. \A d, e \in Channels : d # e => Range(arrival[d]) \cap Range(arrival[e]) = {}  BY <1>5 DEF Once
<1>14. Once(arrival')
  <2>1. \A d \in Channels : Injective(arrival'[d])  BY <1>5, <1>8, <1>11 DEF Once
  <2>2. \A d \in Channels : Range(arrival'[d]) \subseteq Range(arrival[d])  BY <1>11, <1>12 DEF h
  <2>3. ASSUME NEW d \in Channels, NEW e \in Channels, d # e  PROVE Range(arrival'[d]) \cap Range(arrival'[e]) = {}
    BY <1>13, <2>2, <2>3
  <2>. QED  BY <2>1, <2>3 DEF Once
<1>15. \A x : Offered(arrival', x) <=> Offered(arrival, x) /\ x \notin gone
  <2>1. \A d \in Channels : d # c => Range(arrival[d]) \cap gone = {}  BY <1>2, <1>11, <1>13 DEF h
  <2>2. \A d \in Channels : Range(arrival'[d]) = Range(arrival[d]) \ gone  BY <1>2, <1>11, <1>12, <2>1 DEF h
  <2>. QED  BY <2>2 DEF Offered
<1>16. FifoExactlyOnce'
  <2>1. buffer'[c] = <<>> /\ sendQ'[c] = <<>> /\ flushed'[c] = buffer[c]  BY <1>5
  <2>2. MsgsOf(sendQ'[c]) = <<>>
    <3>1. <<>> \in Seq(Tasks) /\ Range(<<>>) = {}  BY DEF Range
    <3>. QED  BY <2>1, <3>1, MsgsOfIs
  <2>3. p = taken[c] \o buffer[c] /\ taken[c] \o buffer[c] \in Seq(Msgs)
    <3>1. taken[c] \o <<>> = taken[c]  BY <1>1
    <3>. QED  BY <1>1, <1>4, <3>1 DEF p
  <2>4. ((taken'[c] \o flushed'[c]) \o buffer'[c]) \o MsgsOf(sendQ'[c]) = p
    <3>1. p \o <<>> = p  BY <1>4
    <3>. QED  BY <2>1, <2>2, <2>3, <3>1
  <2>5. \A d \in Channels : d # c => /\ taken'[d] = taken[d] /\ flushed'[d] = flushed[d]
                                     /\ buffer'[d] = buffer[d] /\ sendQ'[d] = sendQ[d]
    BY <1>5
  <2>. QED  BY <1>8, <2>4, <2>5, FifoElsewhere
<1>. QED  BY <1>10, <1>14, <1>15, <1>16

LEMMA DropReceiverFlows ==
    ASSUME ClaimInv, ClaimInv', HandleInv, BlockInv, FlowInv, NEW t \in Tasks, NEW c \in Channels, DropReceiver(t, c)
    PROVE  FlowInv' /\ Honest
<1>. DEFINE last == receivers[c] = 1
            hold == last /\ buffer[c] # <<>>
            gone == {op[u].msgs[1] : u \in Range(sendQ[c])}
            ws == IF last THEN AndThen(ClosedWakes(sendQ[c]), Signals(c)) ELSE NoWakes
            base == IF hold THEN [stage EXCEPT ![t] = "flush"] ELSE stage
            e == Home[t]
<1>1. /\ sendQ' = IF last THEN [sendQ EXCEPT ![c] = <<>>] ELSE sendQ
      /\ buffer' = IF last THEN [buffer EXCEPT ![c] = <<>>] ELSE buffer
      /\ flushed' = IF last THEN [flushed EXCEPT ![c] = buffer[c]] ELSE flushed
      /\ arrival' = IF last THEN [arrival EXCEPT ![c] = Withdrawn(@, gone)] ELSE arrival
      /\ receivers' = [receivers EXCEPT ![c] = @ - 1]
      /\ signaled' = [u \in Tasks |-> signaled[u] \/ (last /\ u \in Range(selQ[c]))]
      /\ WakeTasks(ws, e, base, wake) /\ stage[t] = "ready"
      /\ UNCHANGED <<op, started, taken, verdict>>
  BY DEF DropReceiver, CanDrop
<1>2. last \in BOOLEAN  OBVIOUS
<1>3. receivers \in [Channels -> Nat] /\ stage \in [Tasks -> Stages]  BY HandleParts DEF ClaimInv, ClaimType
<1>4. receivers[c] # 0  BY OwnedIsLive DEF DropReceiver
<1>5. /\ \A d \in Channels : receivers'[d] # 0 => receivers[d] # 0
      /\ last => receivers'[c] = 0
  BY <1>1, <1>3, <1>4
<1>6. op[t].kind = "none"  BY <1>1, TaskByTask DEF TaskOK
<1>7. \A u \in Tasks : base[u] = stage[u] \/ op[u].kind = "none"  BY <1>3, <1>6
<1>8. ~last => base = stage /\ ws = NoWakes  OBVIOUS
<1>9. ASSUME last, NEW u \in Tasks
      PROVE  /\ u \in Range(sendQ[c]) => ws[u] # <<>> /\ ws[u][1] = Wk("closed", 0)
             /\ u \in Unclaimed(c) => ws[u] # <<>> /\ ws[u][1] = Wk("event", 0)
             /\ u \notin Range(sendQ[c]) /\ u \notin Unclaimed(c) => ws[u] = <<>>
  BY <1>9, CloseTells
<1>. HIDE DEF last, e, base
<1>10. Sound(ws)  BY <1>1, <1>2, DropIs
<1>. HIDE DEF ws
<1>11. CASE ~last
  <2>1. /\ UNCHANGED <<arrival, taken, flushed, buffer, sendQ, op, started, verdict>>
        /\ WakeTasks(ws, e, stage, wake)
    BY <1>1, <1>8, <1>11
  <2>2. \A u \in Tasks : started[u] <= started'[u]
    <3>1. started \in [Tasks -> Nat]  BY ConstantsAssumption DEF ClaimInv, ClaimType
    <3>. QED  BY <2>1, <3>1
  <2>3. Still  BY <1>5, <2>1, <2>2 DEF Still
  <2>4. \A u \in Tasks : ws[u] = <<>>  BY <1>8, <1>11, NoWakesIs
  <2>. QED  BY <1>10, <2>1, <2>3, <2>4, WakesFlow
<1>12. CASE last
  <2>1. /\ HistoryType' /\ Once(arrival') /\ FifoExactlyOnce'
        /\ \A x : Offered(arrival', x) <=> Offered(arrival, x) /\ x \notin gone
    <3>. HIDE DEF gone
    <3>1. /\ sendQ' = [sendQ EXCEPT ![c] = <<>>] /\ buffer' = [buffer EXCEPT ![c] = <<>>]
          /\ flushed' = [flushed EXCEPT ![c] = buffer[c]] /\ arrival' = [arrival EXCEPT ![c] = Withdrawn(@, gone)]
          /\ op' = op /\ taken' = taken
      BY <1>1, <1>12
    <3>2. gone = {op[u].msgs[1] : u \in Range(sendQ[c])}  BY DEF gone
    <3>. QED  BY <1>4, <3>1, <3>2, CloseWithdraws
  <2>2. FlushedIsClosed'
    <3>1. \A d \in Channels : d # c => flushed'[d] = flushed[d] /\ receivers'[d] = receivers[d]
      BY <1>1, <1>3, <1>12 DEF FlowInv, HistoryType
    <3>. QED  BY <1>5, <1>12, <3>1 DEF FlowInv, FlushedIsClosed
  <2>3. ASSUME NEW u \in Tasks
        PROVE  IF u \in Range(sendQ[c]) THEN ws[u] # <<>> /\ ws[u][1].status # "ready" ELSE Unanswered(u, ws)
    <3>1. Wk("closed", 0).status = "closed" /\ Wk("event", 0).status = "event"  BY WkIs DEF Statuses
    <3>2. u \in Unclaimed(c) => op[u].kind = "select"  BY UnclaimedWait DEF Unclaimed
    <3>. QED  BY <1>9, <1>12, <3>1, <3>2 DEF Unanswered
  <2>4. Withdraws(c, Range(sendQ[c]), ws, e, base)  BY <1>1, <1>7, <1>10, <2>1, <2>3 DEF Withdraws
  <2>. QED  BY <2>1, <2>2, <2>4, WithdrawFlows
<1>. QED  BY <1>11, <1>12

LEMMA CancelFlows ==
    ASSUME ClaimInv, ClaimInv', HandleInv, BlockInv, FlowInv, NEW t \in Tasks, Cancel(t)
    PROVE  FlowInv' /\ Honest
<1>. DEFINE c == op[t].cases[1].chan
            removed == /\ stage[t] = "parked" /\ op[t].kind \in {"send", "receive"}
                       /\ t \in Range(sendQ[c]) \cup Range(recvQ[c])
            claimed == Claimable(t)
            ws == WakeEach(IF removed \/ claimed THEN {t} ELSE {}, Wk("cancelled", 0))
            m == op[t].msgs[1]
<1>1. /\ sendQ' = IF removed /\ t \in Range(sendQ[c]) THEN [sendQ EXCEPT ![c] = Without(@, t)] ELSE sendQ
      /\ arrival' = IF removed /\ op[t].kind = "send" THEN [arrival EXCEPT ![c] = Without(@, m)] ELSE arrival
      /\ WakeTasks(ws, Home[t], stage, wake)
      /\ UNCHANGED <<buffer, receivers, op, started, taken, flushed, verdict>>
  BY DEF Cancel
<1>2. TaskOK(t)  BY TaskByTask
<1>3. removed => c \in Channels
  <2>1. SUFFICES ASSUME removed  PROVE c \in Channels
    OBVIOUS
  <2>2. op[t].cases = <<[kind |-> op[t].kind, chan |-> c]>>  BY <1>2, <2>1 DEF TaskOK, SingleCase
  <2>3. 1 \in DOMAIN op[t].cases  BY <2>2
  <2>. QED  BY <2>3, OpTyped DEF ClaimInv
<1>4. claimed => stage[t] = "parked" /\ op[t].kind = "select" /\ ~signaled[t]  BY DEF Claimable
<1>5. removed => op[t].kind \in {"send", "receive"} /\ t \in Range(sendQ[c]) \cup Range(recvQ[c])  OBVIOUS
<1>6. ws = WakeEach(IF removed \/ claimed THEN {t} ELSE {}, Wk("cancelled", 0))  OBVIOUS
<1>. HIDE DEF ws, removed, claimed, c
<1>7. removed => Waiting(t) /\ (op[t].kind = "send" <=> t \in Range(sendQ[c]))  BY <1>3, <1>5, QueuedIs
<1>8. claimed => Waiting(t)  BY <1>2, <1>4 DEF TaskOK, Waiting
<1>9. Wk("cancelled", 0) \in Waits /\ Wk("cancelled", 0).status = "cancelled"  BY WkIs DEF Statuses
<1>10. /\ ws \in [Tasks -> Seq(Waits)]
       /\ \A u \in Tasks : ws[u] # <<>> => u = t /\ (removed \/ claimed) /\ Len(ws[u]) = 1
                                           /\ ws[u][1] = Wk("cancelled", 0)
       /\ removed => ws[t] # <<>>
  <2>. DEFINE ts == IF removed \/ claimed THEN {t} ELSE {}
  <2>1. \A u \in Tasks : u \in ts <=> u = t /\ (removed \/ claimed)  OBVIOUS
  <2>2. ws = WakeEach(ts, Wk("cancelled", 0))  BY <1>6
  <2>. HIDE DEF ts
  <2>3. /\ ws \in [Tasks -> Seq(Waits)]
        /\ \A u \in Tasks : u \notin ts => ws[u] = <<>>
        /\ \A u \in Tasks : u \in ts => ws[u] # <<>> /\ Len(ws[u]) = 1 /\ ws[u][1] = Wk("cancelled", 0)
    BY <1>9, <2>2, WakeEachIs
  <2>. QED  BY <2>1, <2>3, Zenon
<1>11. Sound(ws)  BY <1>7, <1>8, <1>10 DEF Sound
<1>12. CASE removed /\ op[t].kind = "send"
  <2>. DEFINE p == (taken[c] \o flushed[c]) \o buffer[c]
              q == sendQ[c]
              h == arrival[c]
  <2>1. c \in Channels /\ t \in Range(q)  BY <1>3, <1>7, <1>12
  <2>2. /\ h \in Seq(Msgs) /\ taken[c] \in Seq(Msgs) /\ flushed[c] \in Seq(Msgs) /\ buffer[c] \in Seq(Msgs)
        /\ q \in Seq(Tasks) /\ h = p \o MsgsOf(q) /\ \A u \in Range(q) : op[u].msgs[1] \in Msgs
    BY <2>1, FlowParts
  <2>3. p \in Seq(Msgs)
    <3>1. taken[c] \o flushed[c] \in Seq(Msgs)  BY <2>2
    <3>. QED  BY <2>2, <3>1
  <2>4. /\ arrival \in [Channels -> Seq(Msgs)] /\ taken \in [Channels -> Seq(Msgs)]
        /\ flushed \in [Channels -> Seq(Msgs)] /\ Once(arrival) /\ sendQ \in [Channels -> Seq(Tasks)]
    BY DEF FlowInv, HistoryType, ClaimInv, ClaimType
  <2>5. Injective(h) /\ Injective(q)  BY <2>1, <2>4, QueuedIs DEF Once
  <2>. HIDE DEF p, q, h, m
  <2>6. m \in Range(h) /\ Without(h, m) = p \o MsgsOf(Without(q, t))
    BY <2>1, <2>2, <2>3, <2>5, WithoutParked DEF m
  <2>7. Withdrawing(arrival, c, m, arrival')
    <3>1. arrival' = [arrival EXCEPT ![c] = Without(@, m)]  BY <1>1, <1>12
    <3>. QED  BY <2>4, <2>6, <3>1 DEF Withdrawing, h
  <2>8. /\ arrival' \in [Channels -> Seq(Msgs)] /\ Once(arrival') /\ arrival'[c] = Without(h, m)
        /\ \A d \in Channels : d # c => arrival'[d] = arrival[d]
        /\ \A x : Offered(arrival', x) <=> Offered(arrival, x) /\ x # m
    BY <2>1, <2>7, WithdrawOne DEF h
  <2>9. HistoryType'  BY <1>1, <2>4, <2>8 DEF HistoryType
  <2>10. FlushedIsClosed'  BY <1>1 DEF FlowInv, FlushedIsClosed
  <2>11. sendQ'[c] = Without(q, t) /\ \A d \in Channels : d # c => sendQ'[d] = sendQ[d]
    BY <1>1, <1>12, <2>1, <2>4 DEF q
  <2>12. FifoExactlyOnce'
    <3>1. arrival'[c] = ((taken'[c] \o flushed'[c]) \o buffer'[c]) \o MsgsOf(sendQ'[c])
      BY <1>1, <2>6, <2>8, <2>11 DEF p
    <3>2. op' = op /\ taken' = taken /\ flushed' = flushed /\ buffer' = buffer  BY <1>1
    <3>. QED  BY <2>1, <2>8, <2>11, <3>1, <3>2, FifoElsewhere
  <2>13. Withdraws(c, {t}, ws, Home[t], stage)
    <3>1. {t} \subseteq Range(sendQ[c])  BY <2>1 DEF q
    <3>2. {op[u].msgs[1] : u \in {t}} = {m}  BY DEF m
    <3>3. \A x : Offered(arrival', x) <=> Offered(arrival, x) /\ x \notin {op[u].msgs[1] : u \in {t}}
      BY <2>8, <3>2
    <3>4. \A u \in Tasks : IF u \in {t} THEN ws[u] # <<>> /\ ws[u][1].status # "ready" ELSE Unanswered(u, ws)
      BY <1>9, <1>10, <1>12 DEF Unanswered
    <3>. QED  BY <1>1, <1>11, <3>1, <3>3, <3>4 DEF Withdraws
  <2>. QED  BY <2>1, <2>8, <2>9, <2>10, <2>12, <2>13, WithdrawFlows
<1>13. CASE ~(removed /\ op[t].kind = "send")
  <2>1. arrival' = arrival /\ sendQ' = sendQ  BY <1>1, <1>7, <1>13
  <2>2. Still  BY <1>1, <2>1, StillWhenUnchanged
  <2>3. ASSUME NEW u \in Tasks, ws[u] # <<>>  PROVE TellsTask(u, ws[u][1], {})
    <3>1. u = t /\ (removed \/ claimed) /\ ws[u][1] = Wk("cancelled", 0)  BY <1>10, <2>3
    <3>2. CASE removed
      <4>1. op[t].kind = "receive"  BY <1>5, <1>13, <3>2
      <4>. QED  BY <3>1, <4>1, TellsReceiver
    <3>3. CASE claimed
      <4>1. Foreign(t, {})  BY DEF Foreign
      <4>2. TellsTask(t, Wk("cancelled", 0), {})  BY <1>4, <1>8, <1>9, <3>3, <4>1, TellsSelect
      <4>. QED  BY <3>1, <4>2
    <3>. QED  BY <3>1, <3>2, <3>3
  <2>. QED  BY <1>1, <1>11, <2>2, <2>3, WakesFlow
<1>. QED  BY <1>12, <1>13

LEMMA InitFlows == Init => FlowInv
<1>. SUFFICES ASSUME Init  PROVE FlowInv
  OBVIOUS
<1>1. /\ buffer = [c \in Channels |-> <<>>] /\ sendQ = [c \in Channels |-> <<>>]
      /\ op = [t \in Tasks |-> NoOp] /\ arrival = [c \in Channels |-> <<>>]
      /\ taken = [c \in Channels |-> <<>>] /\ flushed = [c \in Channels |-> <<>>]
  BY DEF Init
<1>2. \A c \in Channels : arrival[c] = <<>> /\ taken[c] = <<>> /\ flushed[c] = <<>> /\ buffer[c] = <<>> /\ sendQ[c] = <<>>
  BY <1>1
<1>3. <<>> \in Seq(Msgs) /\ Range(<<>>) = {} /\ Injective(<<>>)  BY DEF Range, Injective
<1>4. HistoryType  BY <1>1, <1>3 DEF HistoryType
<1>5. FlushedIsClosed  BY <1>2 DEF FlushedIsClosed
<1>6. \A t \in Tasks : op[t].kind = "none" /\ DOMAIN op[t].cases = {}  BY <1>1, Nothing
<1>7. MsgsAreNamed  BY <1>6 DEF MsgsAreNamed, Named
<1>8. Once(arrival)  BY <1>2, <1>3 DEF Once
<1>9. \A x : ~Offered(arrival, x)  BY <1>2, <1>3 DEF Offered
<1>10. OfferedAreStarted  BY <1>9 DEF OfferedAreStarted
<1>11. SuspendedAreTrue  BY <1>6 DEF SuspendedAreTrue, Answers
<1>12. FifoExactlyOnce
  <2>. SUFFICES ASSUME NEW c \in Channels
                PROVE  arrival[c] = taken[c] \o flushed[c] \o buffer[c] \o ParkedMsgs(c)
    BY DEF FifoExactlyOnce
  <2>1. ParkedMsgs(c) = <<>>
    <3>1. <<>> \in Seq(Tasks) /\ Range(<<>>) = {}  BY DEF Range
    <3>2. MsgsOf(<<>>) = <<>>  BY <3>1, MsgsOfIs
    <3>. QED  BY <1>2, <3>2 DEF ParkedMsgs, MsgsOf, MsgsIn
  <2>2. \A s \in Seq(Msgs) : s \o <<>> = s  OBVIOUS
  <2>3. <<>> \o <<>> = <<>>  BY <1>3, <2>2
  <2>. QED  BY <1>2, <2>1, <2>3
<1>. QED  BY <1>4, <1>5, <1>7, <1>8, <1>10, <1>11, <1>12 DEF FlowInv

(* Every step keeps the flow and is honest about it.                       *)
LEMMA NextFlows ==
    ASSUME ClaimInv, ClaimInv', HandleInv, BlockInv, FlowInv, [Next]_vars
    PROVE  FlowInv' /\ (Honest \/ UNCHANGED vars)
<1>1. ASSUME NEW t \in Tasks, Start(t)  PROVE FlowInv' /\ Honest
  BY <1>1, SendFlows, ReceiveFlows, SelectFlows, CloneFlows DEF Start
<1>2. ASSUME NEW t \in Tasks, Continue(t)  PROVE FlowInv' /\ Honest
  BY <1>2, TakeWakeFlows, UnregisterFlows, RepollFlows, FlushDoneFlows DEF Continue
<1>3. ASSUME NEW t \in Tasks, Leave(t)  PROVE FlowInv' /\ Honest
  BY <1>3, DropSenderFlows, DropReceiverFlows, FlushDoneFlows DEF Leave
<1>4. ASSUME NEW t \in Tasks, Expire(t)  PROVE FlowInv' /\ Honest
  <2>1. UNCHANGED <<buffer, sendQ, receivers, stage, op, wake, mailbox, started, arrival, taken, flushed, verdict>>
    BY <1>4 DEF Expire, chanVars, histVars
  <2>. QED  BY <2>1, ExpireFlows
<1>5. ASSUME NEW t \in Tasks, Cancel(t)  PROVE FlowInv' /\ Honest  BY <1>5, CancelFlows
<1>6. ASSUME NEW e \in Executors, Idle(e)  PROVE FlowInv' /\ Honest
  BY <1>6, DrainFlows, WakeExpiredFlows DEF Idle
<1>7. CASE UNCHANGED vars
  <2>1. UNCHANGED <<buffer, sendQ, receivers, stage, op, wake, mailbox, started, arrival, taken, flushed, verdict>>
    BY <1>7 DEF vars, chanVars, taskVars, histVars
  <2>2. Still  BY <2>1, StillWhenUnchanged
  <2>3. ASSUME NEW u \in Tasks  PROVE TaskTrue(u)'
    <3>1. NoWakes[u] = <<>>  BY NoWakesIs
    <3>2. TruthFollows(u, NoWakes)  BY <2>1, <3>1 DEF TruthFollows
    <3>. QED  BY <3>2, TruthKept
  <2>4. \A d \in Channels : MsgsIn(op', sendQ[d]) = MsgsOf(sendQ[d])  BY <2>1 DEF MsgsOf
  <2>. QED  BY <1>7, <2>2, <2>3, <2>4, StillFlows
<1>. QED  BY <1>1, <1>2, <1>3, <1>4, <1>5, <1>6, <1>7 DEF Next

(* What is judged stays judged truly: its operation is over, so nobody     *)
(* offers or withdraws the message any more.                               *)
LEMMA JudgedStays ==
    ASSUME ClaimInv, ClaimInv', JudgedAreOver, VerdictIsTrue, Honest, NEW m \in DOMAIN verdict
    PROVE  /\ m \in Msgs /\ m[2] <= started'[m[1]] /\ (op'[m[1]].kind # "none" => m[2] < started'[m[1]])
           /\ verdict[m] = "sent" <=> Offered(arrival', m)
<1>1. /\ m \in Msgs /\ m[2] <= started[m[1]] /\ (op[m[1]].kind # "none" => m[2] < started[m[1]])
  BY DEF JudgedAreOver
<1>2. verdict[m] = "sent" <=> Offered(arrival, m)  BY DEF VerdictIsTrue, Offered
<1>. DEFINE u == m[1]
<1>3. u \in Tasks /\ m[2] \in Nat /\ started[u] \in Nat /\ started'[u] \in Nat
  <2>1. started \in [Tasks -> Nat] /\ started' \in [Tasks -> Nat]  BY ConstantsAssumption DEF ClaimInv, ClaimType
  <2>2. u \in Tasks /\ m[2] \in Nat  BY <1>1, ConstantsAssumption DEF Msgs
  <2>. QED  BY <2>1, <2>2
<1>4. ~Open(m)  BY <1>1, <1>3 DEF Open
<1>5. Offered(arrival', m) <=> Offered(arrival, m)  BY <1>1, <1>4 DEF Honest
<1>6. started[u] <= started'[u] /\ (op'[u].kind # "none" => op[u].kind # "none" \/ started[u] < started'[u])
  BY <1>3 DEF Honest
<1>7. m[2] <= started'[u] /\ (op'[u].kind # "none" => m[2] < started'[u])  BY <1>1, <1>3, <1>6
<1>. QED  BY <1>1, <1>2, <1>5, <1>7

LEMMA NextJudges ==
    ASSUME ClaimInv, ClaimInv', JudgedAreOver, VerdictIsTrue, Honest
    PROVE  JudgedAreOver' /\ VerdictIsTrue'
<1>. SUFFICES ASSUME NEW m \in DOMAIN verdict'
              PROVE  /\ m \in Msgs /\ m[2] <= started'[m[1]] /\ (op'[m[1]].kind # "none" => m[2] < started'[m[1]])
                     /\ verdict'[m] = "sent" <=> Offered(arrival', m)
  BY DEF JudgedAreOver, VerdictIsTrue, Offered
<1>1. CASE verdict' = verdict  BY <1>1, JudgedStays
<1>2. ASSUME NEW t \in Tasks, NEW o, NEW status, NEW case, Judged(t, o, status, case)
      PROVE  /\ m \in Msgs /\ m[2] <= started'[m[1]] /\ (op'[m[1]].kind # "none" => m[2] < started'[m[1]])
             /\ verdict'[m] = "sent" <=> Offered(arrival', m)
  <2>1. /\ Judge(o, status, case) /\ Named(o, t, started'[t]) /\ MsgsFit(o) /\ op'[t].kind = "none"
        /\ \A i \in DOMAIN o.cases : o.cases[i].kind = "send" =>
              (Offered(arrival', o.msgs[i]) <=> status = "ready" /\ o.msgs[i] = o.msgs[case])
    BY <1>2 DEF Judged
  <2>2. /\ m \in DOMAIN verdict \/ m \in Range(o.msgs)
        /\ m # NoMsg
        /\ verdict'[m] = IF \E i \in DOMAIN o.msgs : o.msgs[i] = m
                         THEN IF status = "ready" /\ m = o.msgs[case] THEN "sent" ELSE "dropped"
                         ELSE verdict[m]
    BY <2>1 DEF Judge
  <2>3. CASE \E i \in DOMAIN o.msgs : o.msgs[i] = m
    <3>1. PICK i \in DOMAIN o.msgs : o.msgs[i] = m  BY <2>3
    <3>2. i \in DOMAIN o.cases  BY <2>1 DEF MsgsFit
    <3>3. o.cases[i].kind = "send" /\ m = <<t, started'[t], i>>  BY <2>1, <2>2, <3>1, <3>2 DEF Named
    <3>4. m \in Msgs  BY <2>1, <3>1, <3>2, <3>3 DEF MsgsFit
    <3>5. m[1] = t /\ m[2] = started'[t]  BY <3>3
    <3>6. started'[t] <= started'[t]
      <4>1. started' \in [Tasks -> Nat]  BY ConstantsAssumption DEF ClaimInv, ClaimType
      <4>. QED  BY <4>1
    <3>7. Offered(arrival', m) <=> status = "ready" /\ m = o.msgs[case]  BY <2>1, <3>1, <3>2, <3>3
    <3>8. verdict'[m] = "sent" <=> status = "ready" /\ m = o.msgs[case]  BY <2>2, <2>3
    <3>. QED  BY <2>1, <3>4, <3>5, <3>6, <3>7, <3>8
  <2>4. CASE ~\E i \in DOMAIN o.msgs : o.msgs[i] = m
    <3>1. m \in DOMAIN verdict /\ verdict'[m] = verdict[m]  BY <2>2, <2>4 DEF Range
    <3>. QED  BY <3>1, JudgedStays
  <2>. QED  BY <2>3, <2>4
<1>. QED  BY <1>1, <1>2 DEF Honest

FlowsTruly == ClaimInv /\ HandleInv /\ BlockInv /\ FlowInv /\ JudgedAreOver /\ VerdictIsTrue

(* A channel hands every message on once and in order, and the tasks know  *)
(* which.                                                                  *)
THEOREM FlowInvariant == Spec => []FlowsTruly
<1>1. Init => FlowsTruly
  <2>1. Init => JudgedAreOver /\ VerdictIsTrue  BY DEF Init, JudgedAreOver, VerdictIsTrue
  <2>. QED  BY <2>1, InitClaims, InitHandles, InitBlocks, InitFlows DEF FlowsTruly
<1>2. FlowsTruly /\ [Next]_vars => FlowsTruly'
  <2>. SUFFICES ASSUME FlowsTruly, [Next]_vars  PROVE FlowsTruly'
    OBVIOUS
  <2>1. ClaimInv /\ HandleInv /\ BlockInv /\ FlowInv /\ JudgedAreOver /\ VerdictIsTrue  BY DEF FlowsTruly
  <2>2. ClaimInv'  BY <2>1, NextClaims
  <2>3. HandleInv'  BY <2>1, <2>2, NextHandles
  <2>4. BlockInv'  BY <2>1, NextBlocks
  <2>5. FlowInv' /\ (Honest \/ UNCHANGED vars)  BY <2>1, <2>2, NextFlows
  <2>6. CASE Honest
    <3>1. JudgedAreOver' /\ VerdictIsTrue'  BY <2>1, <2>2, <2>6, NextJudges
    <3>. QED  BY <2>2, <2>3, <2>4, <2>5, <3>1 DEF FlowsTruly
  <2>7. CASE UNCHANGED vars
    <3>1. UNCHANGED <<verdict, arrival, op, started>>  BY <2>7 DEF vars, taskVars, histVars
    <3>2. JudgedAreOver' /\ VerdictIsTrue'  BY <2>1, <3>1 DEF JudgedAreOver, VerdictIsTrue
    <3>. QED  BY <2>2, <2>3, <2>4, <2>5, <3>2 DEF FlowsTruly
  <2>. QED  BY <2>5, <2>6, <2>7
<1>. QED  BY <1>1, <1>2, PTL DEF Spec

(* One FIFO transport for poll_send, poll_receive and poll_select: for any *)
(* number of tasks, channels and executors, receivers get the messages of  *)
(* a channel in the order in which they were offered, each exactly once.   *)
THEOREM MessagesFlowInOrder == Spec => []FifoExactlyOnce
<1>1. FlowsTruly => FifoExactlyOnce  BY DEF FlowsTruly, FlowInv
<1>. QED  BY <1>1, FlowInvariant, PTL

(* What fdn_channel_poll_send and _select tell their task is true and      *)
(* stays true: "sent" exactly when the channel accepted the message.       *)
THEOREM VerdictsAreTrue == Spec => []VerdictIsTrue
<1>1. FlowsTruly => VerdictIsTrue  BY DEF FlowsTruly
<1>. QED  BY <1>1, FlowInvariant, PTL
=============================================================================
