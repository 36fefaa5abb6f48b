CONSTANTS
  Capacity = 2
  SeqMod = 9
  MaxPublish = 4
  Consumers = {c1}
  Local = {c1}
  Policies = {"Backpressure"}
  Depths = {3}
  WordMod = 9
  SpinBeforeSyscall = 1
SPECIFICATION FairSpec
PROPERTIES EveryMessageArrives
CHECK_DEADLOCK FALSE
