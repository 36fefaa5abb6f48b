CONSTANTS
  Capacity = 2
  SeqMod = 8
  MaxPublish = 4
  MaxConsumers = 1
  Consumers = {c1, c2}
  StoreBufferDepth = 2
  ProducerDepth = 2
SYMMETRY Symmetry
SPECIFICATION AttachSpec
INVARIANT AttachIsLossless
