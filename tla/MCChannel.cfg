SPECIFICATION Spec
CONSTANTS
  t1 = t1
  t2 = t2
  t3 = t3
  a = a
  b = b
  e1 = e1
  e2 = e2
  NoMsg = NoMsg
  Tasks <- ThreeTasks
  Channels <- OneChannel
  Executors = {e1, e2}
  Home <- Split
  Capacity <- OneSlot
  Selects <- OneSelect
  FirstSender <- SenderT1
  FirstReceiver <- ReceiverT2
  MaxOps = 2
  MaxSenders = 2
  MaxReceivers <- OneReceiver
INVARIANTS
  FifoExactlyOnce VerdictIsTrue DestroyedIsUnreachable
  NoDoubleWake DeliveredIsAnnounced
