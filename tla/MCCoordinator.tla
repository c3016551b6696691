--------------------------- MODULE MCCoordinator ---------------------------
(***************************************************************************)
(* Small instances of the coordinator for TLC: one node with accelerator   *)
(* and host domains of two units each, models of one or two units.         *)
(***************************************************************************)
EXTENDS Coordinator, TLC

MCKind == [d \in Domains |-> IF d = "host" THEN "PinnedHost" ELSE "Accelerator"]
MCNode == [d \in Domains |-> "n1"]
MCGoverned == [d \in Domains |-> 2]
ThreeUnits == [d \in Domains |-> 3]
OneUnit == [d \in Domains |-> 1]
MCWorkerNode == [w \in Workers |-> "n1"]
MCWorkerDevices == [w \in Workers |-> Domains \ {"host"}]
AllCompatible == Models \X Domains

\* "m1" and "m2" are monolithic, "sharded" has two shards, "heavy" has shards
\* that need more than its required_memory says.
MCShardBytes ==
  [m \in Models |-> IF m \in {"sharded", "heavy"} THEN <<1, 1>> ELSE <<1>>]
MCRequired == [m \in Models |-> IF m = "sharded" THEN 2 ELSE 1]
MCAdapterBytes == [a \in AdapterSets |-> IF a = "lora" THEN <<1>> ELSE << >>]
MCAggregate == [a \in AdapterSets |-> IF a = "lora" THEN 1 ELSE 0]

ThreadSymmetry == Permutations(Threads)
=============================================================================
