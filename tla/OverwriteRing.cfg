CONSTANTS
  Capacity = 2
  SeqMod = 9
  MaxPublish = 5
  Consumers = {c1, c2}
  Parts = {len, body}
  NoMessage = NoMessage
SPECIFICATION FairSpec
INVARIANTS TypeOK ValidViewIsWhole LappedIsReal
PROPERTIES ImplementsLossyFanout CatchUp
CHECK_DEADLOCK FALSE
