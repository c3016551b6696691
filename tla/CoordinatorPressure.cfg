SPECIFICATION FairSpec
CONSTANTS
  Threads = {t1, t2}
  NoThread = NoThread
  Models = {"heavy"}
  AdapterSets = {"none", "lora"}
  Domains = {"gpu0"}
  Workers = {}
  NoAdapters = "none"
  NoDomain = "none"
  NoModel = "none"
  Word = 8
  Kind <- MCKind
  Node <- MCNode
  Governed <- MCGoverned
  WorkerNode <- MCWorkerNode
  WorkerDevices <- MCWorkerDevices
  Compatible <- AllCompatible
  Required <- MCRequired
  ShardBytes <- MCShardBytes
  Aggregate <- MCAggregate
  AdapterBytes <- MCAdapterBytes
  AllowForceEviction = FALSE
  AllowEvictLast = TRUE
  RelockBlocks = FALSE
  Ops = {"load", "publish", "evict"}
  MaxResidencies = 6
  MaxModelGeneration = 1
  MaxBuffers = 4
INVARIANTS
  SetReadyIsTrue
PROPERTIES
  CallsReturn
