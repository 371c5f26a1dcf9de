SPECIFICATION FairSpec
CONSTANTS
  t1 = t1
  t2 = t2
  t3 = t3
  a = a
  b = b
  e1 = e1
  e2 = e2
  NoMsg = NoMsg
  Tasks <- TwoTasks
  Channels <- TwoChannels
  Executors = {e1, e2}
  Home <- Split
  Capacity <- Rendezvous
  Selects <- TwoSelects
  FirstSender <- SenderT1
  FirstReceiver <- ReceiverT2
  MaxOps = 2
  MaxSenders = 1
  MaxReceivers <- TwoForB
INVARIANTS
  WaitingIsBlocked
PROPERTIES
  CancelJoins TimeoutFires
