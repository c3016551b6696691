SPECIFICATION RecoverySpec
CONSTANTS
  Threads = {t1}
  NoThread = NoThread
  Models = {"m1"}
  AdapterSets = {"none"}
  Domains = {"gpu0"}
  Workers = {}
  NoAdapters = "none"
  NoDomain = "none"
  NoModel = "none"
  Word = 8
  Kind <- MCKind
  Node <- MCNode
  Governed <- MCGoverned
  WorkerNode <- MCWorkerNode
  WorkerDevices <- MCWorkerDevices
  Compatible <- AllCompatible
  Required <- MCRequired
  ShardBytes <- MCShardBytes
  Aggregate <- MCAggregate
  AdapterBytes <- MCAdapterBytes
  AllowForceEviction = FALSE
  AllowEvictLast = TRUE
  RelockBlocks = FALSE
  Ops = {"load", "roll", "publish"}
  Absent = Absent
  Torn = Torn
  MaxCrashes = 1
  MaxResidencies = 2
  MaxModelGeneration = 2
  MaxBuffers = 4
INVARIANTS
  ReadyIsCurrent
