-------------------------- MODULE MemoryDomainPool --------------------------
(***************************************************************************)
(* The pool of memory domains (src/src/capacity.cpp) under every sequence  *)
(* of calls its public interface accepts.  Calls that throw or return      *)
(* false leave the pool as it is and are not steps.                        *)
(***************************************************************************)
EXTENDS MemoryDomain

CONSTANT DomainIds

VARIABLE pool

vars == <<pool>>

\* What callers register: a new domain with its capacities, or one that
\* decode_snapshot took from a file and checked, counters included.  The pool
\* itself checks neither, so a domain that is not coherent is the caller's error.
Declaration == {d \in MemoryDomainRecord : verify_invariants(d)}

\* Overwriting keeps the accounting counters of the registered domain.
Overwritten(d, decl) ==
  [d EXCEPT !.total = decl.total, !.governed = decl.governed,
            !.unavailable = decl.unavailable]

\* Slip: an overwrite that looks for resident bytes only.
MayOverwriteIgnoringReserved(d) == d.resident = 0

MayOverwrite(d) == d.resident = 0 /\ d.reserved = 0

Init == pool = [id \in {} |-> 0]

\* register_domain of an id that is not there yet keeps the domain as it came.
RegisterNew(id, decl) ==
  /\ id \notin DOMAIN pool
  /\ pool' = [i \in DOMAIN pool \cup {id} |-> IF i = id THEN decl ELSE pool[i]]

\* register_domain of a known id takes the declared capacities only.
RegisterAgain(id) ==
  /\ MayOverwrite(pool[id])
  /\ \E decl \in Declaration : pool' = [pool EXCEPT ![id] = Overwritten(pool[id], decl)]

Reserve(id, n) ==
  can_reserve(pool[id], n) /\ pool' = [pool EXCEPT ![id] = reserve(pool[id], n)]

Commit(id, n) ==
  can_commit(pool[id], n) /\ pool' = [pool EXCEPT ![id] = commit(pool[id], n)]

Cancel(id, n) ==
  /\ can_cancel(pool[id], n)
  /\ pool' = [pool EXCEPT ![id] = cancel_reservation(pool[id], n)]

Release(id, n) ==
  can_release(pool[id], n) /\ pool' = [pool EXCEPT ![id] = release(pool[id], n)]

Pin(id, n) ==
  can_pin(pool[id], n) /\ pool' = [pool EXCEPT ![id] = pin(pool[id], n)]

Unpin(id, n) ==
  can_unpin(pool[id], n) /\ pool' = [pool EXCEPT ![id] = unpin(pool[id], n)]

SetUnavailable(id, n) ==
  /\ n <= pool[id].total
  /\ pool' = [pool EXCEPT ![id] = set_unavailable(pool[id], n)]

DomainStep(id, n) ==
  \/ Reserve(id, n)
  \/ Commit(id, n)
  \/ Cancel(id, n)
  \/ Release(id, n)
  \/ Pin(id, n)
  \/ Unpin(id, n)
  \/ SetUnavailable(id, n)

Next ==
  \/ \E id \in DomainIds, decl \in Declaration : RegisterNew(id, decl)
  \/ \E id \in DOMAIN pool : RegisterAgain(id)
  \/ \E id \in DOMAIN pool, n \in Bytes : DomainStep(id, n)

Spec == Init /\ [][Next]_vars

-----------------------------------------------------------------------------
\* Every counter is a word; only declared domains are registered.
TypeOK ==
  /\ DOMAIN pool \subseteq DomainIds
  /\ pool \in [DOMAIN pool -> MemoryDomainRecord]

\* MemoryDomain::verify_invariants never throws, whatever the calls were:
\* pinned bytes are resident, reserved plus resident bytes fit the governed
\* capacity, and the sum is never one that wrapped.
PoolCoherent == \A id \in DOMAIN pool : verify_invariants(pool[id])

\* A reservation is a promise: whatever part of the outstanding reservation is
\* committed later, commit's own capacity check (can_resident) lets it pass.
HoldsCanCommit ==
  \A id \in DOMAIN pool : \A n \in 0..pool[id].reserved : can_resident(pool[id], n)

GovernedFixedUnderBytes(id) ==
  pool'[id].governed # pool[id].governed =>
    pool[id].reserved = 0 /\ pool[id].resident = 0 /\ pool[id].pinned = 0

CapacityStep == \A id \in DOMAIN pool : GovernedFixedUnderBytes(id)

\* Neither re-registration nor set_unavailable ever changes the governed
\* capacity under bytes that are reserved, resident or pinned.
CapacityChangesOnlyWhenIdle == [][CapacityStep]_vars
=============================================================================
