SPECIFICATION Spec
CONSTANTS
  Threads = {t1, t2}
  NoThread = NoThread
  Models = {"m1", "heavy"}
  AdapterSets = {"none"}
  Domains = {"gpu0"}
  Workers = {}
  NoAdapters = "none"
  NoDomain = "none"
  NoModel = "none"
  Word = 8
  Kind <- MCKind
  Node <- MCNode
  Governed <- ThreeUnits
  WorkerNode <- MCWorkerNode
  WorkerDevices <- MCWorkerDevices
  Compatible <- AllCompatible
  Required <- MCRequired
  ShardBytes <- MCShardBytes
  Aggregate <- MCAggregate
  AdapterBytes <- MCAdapterBytes
  AllowForceEviction = FALSE
  AllowEvictLast = TRUE
  RelockBlocks = FALSE
  Ops = {"load", "migrate", "demote", "evict"}
  MaxResidencies = 4
  MaxModelGeneration = 1
  MaxBuffers = 3
SYMMETRY ThreadSymmetry
INVARIANTS
  DomainsCoherent
PROPERTIES
  TerminalIsFinal
