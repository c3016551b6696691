SPECIFICATION Spec
CONSTANTS
  Threads = {t1, t2}
  NoThread = NoThread
  Models = {"m1"}
  AdapterSets = {"none"}
  Domains = {"gpu0", "host"}
  Workers = {}
  NoAdapters = "none"
  NoDomain = "none"
  NoModel = "none"
  Word = 8
  Kind <- MCKind
  Node <- MCNode
  Governed <- MCGoverned
  WorkerNode <- MCWorkerNode
  WorkerDevices <- MCWorkerDevices
  Compatible <- AllCompatible
  Required <- MCRequired
  ShardBytes <- MCShardBytes
  Aggregate <- MCAggregate
  AdapterBytes <- MCAdapterBytes
  AllowForceEviction = FALSE
  AllowEvictLast = TRUE
  RelockBlocks = FALSE
  Ops = {"load", "demote", "roll"}
  MaxResidencies = 2
  MaxModelGeneration = 2
  MaxBuffers = 4
SYMMETRY ThreadSymmetry
INVARIANTS
  NoDanglingBuffer
