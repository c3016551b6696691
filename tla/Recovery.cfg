SPECIFICATION RecoverySpec
CONSTANTS
  Threads = {t1}
  NoThread = NoThread
  Models = {"m1"}
  AdapterSets = {"none"}
  Domains = {"gpu0", "host"}
  Workers = {}
  NoAdapters = "none"
  NoDomain = "none"
  NoModel = "none"
  Word = 8
  Kind <- MCKind
  Node <- MCNode
  Governed <- OneUnit
  WorkerNode <- MCWorkerNode
  WorkerDevices <- MCWorkerDevices
  Compatible <- AllCompatible
  Required <- MCRequired
  ShardBytes <- MCShardBytes
  Aggregate <- MCAggregate
  AdapterBytes <- MCAdapterBytes
  AllowForceEviction = FALSE
  AllowEvictLast = TRUE
  RelockBlocks = FALSE
  Ops = {"load", "publish", "migrate", "demote", "evict"}
  Absent = Absent
  Torn = Torn
  MaxCrashes = 1
  MaxResidencies = 2
  MaxModelGeneration = 1
  MaxBuffers = 2
INVARIANTS
  FileLoads
  ExactResidence
