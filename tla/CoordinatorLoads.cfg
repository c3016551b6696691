SPECIFICATION Spec
CONSTANTS
  Threads = {t1, t2}
  NoThread = NoThread
  Models = {"sharded"}
  AdapterSets = {"none"}
  Domains = {"gpu0"}
  Workers = {"w1"}
  NoAdapters = "none"
  NoDomain = "none"
  NoModel = "none"
  Word = 8
  Kind <- MCKind
  Node <- MCNode
  Governed <- MCGoverned
  WorkerNode <- MCWorkerNode
  WorkerDevices <- MCWorkerDevices
  Compatible <- AllCompatible
  Required <- MCRequired
  ShardBytes <- MCShardBytes
  Aggregate <- MCAggregate
  AdapterBytes <- MCAdapterBytes
  AllowForceEviction = TRUE
  AllowEvictLast = TRUE
  RelockBlocks = FALSE
  Ops = {"load", "publish", "evict", "pin", "invalidate", "roll", "worker"}
  MaxResidencies = 4
  MaxModelGeneration = 2
  MaxBuffers = 4
SYMMETRY ThreadSymmetry
INVARIANTS
  ExactReservations
  ExactResidence
  ReadyIsCurrent
  NoDanglingBuffer
PROPERTIES
  StaleNeverRevived
