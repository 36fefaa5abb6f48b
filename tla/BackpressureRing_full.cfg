CONSTANTS
  Capacity = 2
  SeqMod = 8
  MaxPublish = 4
  MaxConsumers = 1
  Consumers = {f1, f2}
  Founders = {f1, f2}
  Parts = {body}
  NoMessage = NoMessage
SPECIFICATION Spec
INVARIANT UnreadSlotsKept
CHECK_DEADLOCK FALSE
