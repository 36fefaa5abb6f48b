CONSTANTS
  k1 = k1
  k2 = k2
  o1 = o1
  ringA = ringA
  ringB = ringB
  Creators = {k1, k2}
  Openers = {o1}
  Layout <- MCLayout
  Bytes <- MCBytes
  None = None
  NamesLeft = TRUE
  Contention = FALSE
  HeaderBytes = 1
  Capacity = 2
  SeqMod = 8
  MaxPublish = 4
  MaxConsumers = 2
  Consumers = {c1, c2, c3}
  StoreBufferDepth = 2
  ProducerDepth = 3
SYMMETRY Symmetry
SPECIFICATION SegmentSpec
INVARIANTS TypeOK OpenersUseBuiltRings NameLeadsToOwner NoLeakedName
           CursorOwnership RoomForAll OverrunNeedsReuseOrLateCount
