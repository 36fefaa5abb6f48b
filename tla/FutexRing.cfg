CONSTANTS
  Capacity = 2
  SeqMod = 12
  MaxPublish = 7
  Consumers = {c1, c2}
  Local = {c1, c2}
  Policies = {"Overwrite", "Backpressure"}
  Depths = {0, 3}
  WordMod = 6
  SpinBeforeSyscall = 1
SPECIFICATION FairSpec
INVARIANTS TypeOK NoLostWakeup OverlookedForALapAtMost NoLapUnderBackpressure
PROPERTIES AllButASleepersLastLapArrives ParksAfterFirstLap ImplementsLossyFanout
CHECK_DEADLOCK FALSE
