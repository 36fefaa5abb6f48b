CONSTANTS
  Capacity = 2
  SeqMod = 11
  MaxPublish = 7
  Consumers = {c1}
  Parts = {len, body}
  NoMessage = NoMessage
SPECIFICATION FairSpec
INVARIANT ValidViewIsWhole
PROPERTIES FallsBackOnlyWhenTorn ImplementsStaleFanout CatchUp
CHECK_DEADLOCK FALSE
