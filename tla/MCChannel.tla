----------------------------- MODULE MCChannel -----------------------------
(* Small instances of Channel for TLC.                                     *)
EXTENDS Channel

CONSTANTS t1, t2, t3, a, b, e1, e2

TwoTasks == {t1, t2}
ThreeTasks == {t1, t2, t3}
OneChannel == {a}
TwoChannels == {a, b}

Split == [t \in Tasks |-> IF t = t2 THEN e2 ELSE e1]
Rendezvous == [c \in Channels |-> 0]
OneSlot == [c \in Channels |-> 1]
OneReceiver == [c \in Channels |-> 1]
TwoForB == [c \in Channels |-> IF c = b THEN 2 ELSE 1]
SenderT1 == [c \in Channels |-> t1]
ReceiverT2 == [c \in Channels |-> t2]

Rx(c) == [kind |-> "receive", chan |-> c]
Tx(c) == [kind |-> "send", chan |-> c]
OneSelect == {<<Rx(a)>>, <<Tx(a)>>}
TwoSelects == {<<Rx(a), Rx(b)>>, <<Tx(b), Tx(a)>>}
============================================================================
