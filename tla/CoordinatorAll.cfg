SPECIFICATION Spec
CONSTANTS
  Threads = {t1, t2}
  NoThread = NoThread
  Models = {"m1"}
  AdapterSets = {"none"}
  Domains = {"gpu0", "host"}
  Workers = {"w1"}
  NoAdapters = "none"
  NoDomain = "none"
  NoModel = "none"
  Word = 8
  Kind <- MCKind
  Node <- MCNode
  Governed <- OneUnit
  WorkerNode <- MCWorkerNode
  WorkerDevices <- MCWorkerDevices
  Compatible <- AllCompatible
  Required <- MCRequired
  ShardBytes <- MCShardBytes
  Aggregate <- MCAggregate
  AdapterBytes <- MCAdapterBytes
  AllowForceEviction = FALSE
  AllowEvictLast = TRUE
  RelockBlocks = FALSE
  Ops = {"load", "publish", "migrate", "evict", "demote", "pin", "invalidate", "roll", "worker"}
  MaxResidencies = 2
  MaxModelGeneration = 2
  MaxBuffers = 2
SYMMETRY ThreadSymmetry
INVARIANTS
  TypeOK
  DomainsCoherent
  HoldsCovered
PROPERTIES
  TerminalIsFinal
