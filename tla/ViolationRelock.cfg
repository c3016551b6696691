SPECIFICATION FairSpec
CONSTANTS
  Threads = {t1}
  NoThread = NoThread
  Models = {"m1", "m2"}
  AdapterSets = {"none"}
  Domains = {"gpu0"}
  Workers = {}
  NoAdapters = "none"
  NoDomain = "none"
  NoModel = "none"
  Word = 8
  Kind <- MCKind
  Node <- MCNode
  Governed <- OneUnit
  WorkerNode <- MCWorkerNode
  WorkerDevices <- MCWorkerDevices
  Compatible <- AllCompatible
  Required <- MCRequired
  ShardBytes <- MCShardBytes
  Aggregate <- MCAggregate
  AdapterBytes <- MCAdapterBytes
  AllowForceEviction = FALSE
  AllowEvictLast = TRUE
  RelockBlocks = TRUE
  Ops = {"load"}
  MaxResidencies = 2
  MaxModelGeneration = 2
  MaxBuffers = 4
PROPERTIES
  CallsReturn
CHECK_DEADLOCK FALSE
