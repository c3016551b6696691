SPECIFICATION Spec
CONSTANTS
  Threads = {t1, t2}
  NoThread = NoThread
  Models = {"m1"}
  AdapterSets = {"none"}
  Domains = {"gpu0", "host"}
  Workers = {}
  NoAdapters = "none"
  NoDomain = "none"
  NoModel = "none"
  Word = 8
  Kind <- MCKind
  Node <- MCNode
  Governed <- MCGoverned
  WorkerNode <- MCWorkerNode
  WorkerDevices <- MCWorkerDevices
  Compatible <- AllCompatible
  Required <- MCRequired
  ShardBytes <- MCShardBytes
  Aggregate <- MCAggregate
  AdapterBytes <- MCAdapterBytes
  AllowForceEviction = FALSE
  AllowEvictLast = FALSE
  RelockBlocks = TRUE
  Ops = {"load", "publish", "evict", "migrate", "pin", "reference"}
  MaxResidencies = 3
  MaxModelGeneration = 1
  MaxBuffers = 4
SYMMETRY ThreadSymmetry
INVARIANTS
  ExactReservations
  ExactResidence
  SourceStays
  BuffersOwned
  NoDanglingBuffer
CHECK_DEADLOCK FALSE
