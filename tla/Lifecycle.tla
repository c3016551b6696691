----------------------------- MODULE Lifecycle -----------------------------
(***************************************************************************)
(* The guarded residency lifecycle (src/src/residency.cpp) and the pairing *)
(* of residency classes with memory-domain kinds (coordinator.cpp).  Only  *)
(* constant operators: the coordinator's modules extend this one.          *)
(***************************************************************************)
EXTENDS Naturals

LifecycleState ==
  {"Declared", "Planned", "Allocating", "Loading", "Validating", "Resident",
   "Ready", "Migrating", "Demoting", "Evicting", "Evicted", "Invalidated",
   "Failed", "Retired"}

\* The edges of the lifecycle: what Residency::transition_to accepts.
lifecycle_transition_allowed(from, to) ==
  \/ from = "Declared"   /\ to \in {"Planned", "Failed"}
  \/ from = "Planned"    /\ to \in {"Allocating", "Failed"}
  \/ from = "Allocating" /\ to \in {"Loading", "Failed"}
  \/ from = "Loading"    /\ to \in {"Validating", "Failed"}
  \/ from = "Validating" /\ to \in {"Resident", "Failed"}
  \/ from = "Resident"   /\ to \in {"Ready", "Migrating", "Demoting",
                                    "Evicting", "Invalidated", "Failed"}
  \/ from = "Ready"      /\ to \in {"Resident", "Migrating", "Demoting",
                                    "Evicting", "Invalidated", "Retired",
                                    "Failed"}
  \/ from = "Migrating"  /\ to \in {"Validating", "Resident", "Evicted",
                                    "Retired", "Failed"}
  \/ from = "Demoting"   /\ to \in {"Resident", "Evicted", "Retired", "Failed"}
  \/ from = "Evicting"   /\ to \in {"Evicted", "Failed"}
  \/ from \in {"Evicted", "Invalidated", "Failed"} /\ to = "Retired"

\* try { transition_to(to) } catch (const Error&) {}: a refused move is ignored.
try_transition(from, to) ==
  IF lifecycle_transition_allowed(from, to) THEN to ELSE from

\* Residency::is_resident_state: bytes of the residency sit in its domain.
ResidentState == {"Resident", "Ready", "Migrating", "Demoting", "Evicting"}
is_resident_state(s) == s \in ResidentState

TerminalState == {"Evicted", "Invalidated", "Failed", "Retired"}

\* A successful load or migration walks these states inside one critical
\* section, so that no other thread ever sees a state between the two ends.
MaterializePath ==
  <<"Declared", "Planned", "Allocating", "Loading", "Validating", "Resident">>

ASSUME MaterializePathAllowed ==
  \A i \in 1..5 :
    lifecycle_transition_allowed(MaterializePath[i], MaterializePath[i + 1])

-----------------------------------------------------------------------------
DomainKind ==
  {"Accelerator", "PinnedHost", "PageableHost", "PersistentStorage",
   "ProcessLocal", "SharedHost", "GenericBackend"}

\* kind_for_class and class_for_kind are inverse to each other, so one name
\* stands for a kind of domain and for the class of the residencies in it.
\* Only these two can execute.
residency_class_is_execution_ready(cls) == cls \in {"Accelerator", "ProcessLocal"}
=============================================================================
