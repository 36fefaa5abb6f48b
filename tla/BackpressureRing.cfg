CONSTANTS
  Capacity = 2
  SeqMod = 9
  MaxPublish = 5
  MaxConsumers = 2
  Consumers = {f1, j1}
  Founders = {f1}
  Parts = {len, body}
  NoMessage = NoMessage
SPECIFICATION FairSpec
INVARIANTS TypeOK NeverLapped MembersSlotsKept
PROPERTIES ImplementsLosslessFanout PublishReturns CatchUp
CHECK_DEADLOCK FALSE
