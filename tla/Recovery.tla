------------------------------ MODULE Recovery ------------------------------
(***************************************************************************)
(* Saving the coordinator and recovering it after its process died         *)
(* (Coordinator::save_to and load_from, src/src/persistence.cpp).          *)
(*                                                                         *)
(* save_to copies the state under the mutex and then, without it, opens    *)
(* the file (which truncates it) and writes the bytes.  The process may    *)
(* die at any point; the buffers die with it and the file stays.  A fresh  *)
(* coordinator may then be given the file.                                 *)
(*                                                                         *)
(* A file is Absent, Torn (what is in it fails the length, checksum or     *)
(* version checks of decode) or a snapshot.  A failed load_from throws in  *)
(* decode, before it changes anything, and so is not a step.               *)
(***************************************************************************)
EXTENDS Coordinator

CONSTANTS
  Absent, Torn,  \* a file that does not exist, or that decode rejects
  MaxCrashes     \* bound: times the process dies

ASSUME RecoveryAssumption == MaxCrashes \in Nat

VARIABLES
  running,  \* the process is up
  crashes,  \* how often it has died
  file,     \* what is on disk
  saving    \* the save in progress: its stage, and the snapshot it took

recoveryVars == <<vars, running, crashes, file, saving>>

NoSave == [stage |-> "idle", snapshot |-> Absent]

\* Slip: only what is resident is written.
SnapshotOfResident ==
  [domains |-> domains,
   residencies |-> [r \in {i \in Ids : is_resident_state(residencies[i].lifecycle)} |->
                      [residencies[r] EXCEPT !.handle = 0]],
   sets |-> sets]

\* Coordinator::snapshot.  The generations of the models are not part of it.
Snapshot ==
  [domains |-> domains,
   residencies |-> [r \in Ids |-> [residencies[r] EXCEPT !.handle = 0]],
   sets |-> sets]

-----------------------------------------------------------------------------
(* Decoding.  A domain is rebuilt by the operations that keep its books.    *)

\* The result of the first reserve is not looked at.
WithReserved(d) ==
  LET empty == [total |-> d.total, governed |-> d.governed, unavailable |-> d.unavailable,
                reserved |-> 0, resident |-> 0, pinned |-> 0]
  IN  IF can_reserve(empty, d.reserved) THEN reserve(empty, d.reserved) ELSE empty

WithResident(d) == commit(reserve(WithReserved(d), d.resident), d.resident)

\* Slip: the resident bytes are not read back.
dec_domain_empty(d) == WithReserved(d)

dec_domain(d) == pin(WithResident(d), d.pinned)

dec_domain_accepts(d) ==
  /\ can_reserve(WithReserved(d), d.resident)
  /\ can_commit(reserve(WithReserved(d), d.resident), d.resident)
  /\ can_pin(WithResident(d), d.pinned)

\* Its check for a live handle cannot fail: none is written, none is read.
validate_snapshot(s) ==
  /\ \A d \in Domains : verify_invariants(dec_domain(s.domains[d]))
  /\ \A i \in DOMAIN s.sets :
       s.sets[i].members \cup s.sets[i].required \subseteq DOMAIN s.residencies

decode_accepts(s) ==
  (\A d \in Domains : dec_domain_accepts(s.domains[d])) /\ validate_snapshot(s)

IsSnapshot(f) == f \notin {Absent, Torn}

\* Only a Ready residency is demoted: a copy saved while it moved is kept.
Restored(res) ==
  IF res.lifecycle = "Ready"
  THEN [res EXCEPT !.lifecycle = "Resident", !.readiness = "NotReady",
                   !.authority = "Provisional", !.handle = 0]
  ELSE [res EXCEPT !.handle = 0]

\* Slip: a set is restored as ready as it was.
RestoredAsReady(set) == set

RestoredSet(set) == [set EXCEPT !.ready = FALSE]

-----------------------------------------------------------------------------
RecoveryInit ==
  /\ Init
  /\ running = TRUE
  /\ crashes = 0
  /\ file = Absent
  /\ saving = NoSave

\* Any operation of the coordinator.
CoordinatorStep == running /\ Next /\ UNCHANGED <<running, crashes, file, saving>>

SaveBegins ==
  /\ running /\ mutex = NoThread
  /\ saving.stage = "idle"
  /\ saving' = [stage |-> "encoded", snapshot |-> Snapshot]
  /\ UNCHANGED <<vars, running, crashes, file>>

SaveOpens ==
  /\ running /\ saving.stage = "encoded"
  /\ file' = Torn
  /\ saving' = [saving EXCEPT !.stage = "writing"]
  /\ UNCHANGED <<vars, running, crashes>>

\* The open fails, and the old file stays.
SaveRefused ==
  /\ running /\ saving.stage = "encoded"
  /\ saving' = NoSave
  /\ UNCHANGED <<vars, running, crashes, file>>

\* All bytes are written, or save_to throws.
SaveEnds ==
  /\ running /\ saving.stage = "writing"
  /\ file' \in {saving.snapshot, Torn}
  /\ saving' = NoSave
  /\ UNCHANGED <<vars, running, crashes>>

\* The process dies.  The next one constructs a coordinator.
Crash ==
  /\ running /\ crashes < MaxCrashes
  /\ domains' = [d \in Domains |->
       [total |-> Governed[d], governed |-> Governed[d], unavailable |-> 0,
        reserved |-> 0, resident |-> 0, pinned |-> 0]]
  /\ residencies' = << >>
  /\ sets' = << >>
  /\ activeSet' = [m \in Models |-> 0]
  /\ modelGens' = [m \in Models |-> 1]
  /\ workers' = {}
  /\ call' = [t \in Threads |-> IdleCall]
  /\ mutex' = NoThread
  /\ heap' = {}
  /\ running' = FALSE
  /\ crashes' = crashes + 1
  /\ saving' = NoSave
  /\ UNCHANGED file

\* The program defines its models and domains anew and saved state is not used.
StartFresh ==
  /\ ~ running
  /\ running' = TRUE
  /\ UNCHANGED <<vars, crashes, file, saving>>

\* load_from on a fresh coordinator.
LoadFrom ==
  /\ ~ running
  /\ IsSnapshot(file) /\ decode_accepts(file)
  /\ domains' = [d \in Domains |-> dec_domain(file.domains[d])]
  /\ residencies' = [r \in DOMAIN file.residencies |-> Restored(file.residencies[r])]
  /\ sets' = [i \in DOMAIN file.sets |-> RestoredSet(file.sets[i])]
  /\ running' = TRUE
  /\ UNCHANGED <<activeSet, modelGens, workers, call, mutex, heap, crashes, file, saving>>

RecoveryNext ==
  \/ CoordinatorStep
  \/ SaveBegins \/ SaveOpens \/ SaveRefused \/ SaveEnds
  \/ Crash \/ StartFresh \/ LoadFrom

RecoverySpec == RecoveryInit /\ [][RecoveryNext]_recoveryVars

-----------------------------------------------------------------------------
(* Properties.                                                             *)

\* Whatever the coordinator was doing when save_to copied its state, the
\* snapshot passes every check of decode: a restart is never refused because
\* of when the save ran, and a second restart is not refused because of the first.
FileLoads ==
  \A s \in {file, saving.snapshot} : IsSnapshot(s) => decode_accepts(s)

\* When no save is going on, a file that exists can be loaded: metadata that
\* was made durable survives a crash or a failed save.
FileSurvives == saving.stage = "idle" => file # Torn

\* What load_from brings back serves nobody: every residency that still counts
\* as resident is provisional and not ready.
RestoredStep ==
  (~ running /\ running') =>
    \A r \in DOMAIN residencies' :
      is_resident_state(residencies'[r].lifecycle) =>
        /\ residencies'[r].authority = "Provisional"
        /\ residencies'[r].readiness = "NotReady"
RestoredIsProvisional == [][RestoredStep]_recoveryVars

\* A Ready residency has the buffer it serves from, also after a recovery, which
\* brings residencies back without one.
ReadyHasBuffer ==
  \A r \in Ids : residencies[r].lifecycle = "Ready" => residencies[r].handle \in heap
=============================================================================
