------------------------- MODULE MemoryDomainProofs -------------------------
(***************************************************************************)
(* The invariants of the pool of memory domains, for every word size and   *)
(* every set of domains.                                                   *)
(***************************************************************************)
EXTENDS MemoryDomainPool, CapacityLemmas

\* The inductive invariant: the registered domains are declared ones, and each
\* of them is coherent.
PoolSound ==
  /\ DOMAIN pool \subseteq DomainIds
  /\ pool = [id \in DOMAIN pool |-> pool[id]]
  /\ \A id \in DOMAIN pool : Sound(pool[id])

\* Replacing the record of one domain by a sound one keeps the pool sound.
LEMMA UpdateSound ==
  ASSUME PoolSound, NEW id \in DOMAIN pool, NEW d, Sound(d),
         pool' = [pool EXCEPT ![id] = d]
  PROVE  PoolSound'
BY DEF PoolSound, Sound

\* A new domain keeps the pool sound.
LEMMA RegisterNewSound ==
  ASSUME PoolSound, NEW id \in DomainIds, NEW decl \in Declaration, RegisterNew(id, decl)
  PROVE  PoolSound'
<1>1. Sound(decl)
  BY DEF Sound, Declaration
<1>2. pool' = [i \in DOMAIN pool \cup {id} |-> IF i = id THEN decl ELSE pool[i]]
  BY DEF RegisterNew
<1> QED BY <1>1, <1>2 DEF PoolSound, Sound

\* An overwrite of a domain without accounting keeps the pool sound.
LEMMA RegisterAgainSound ==
  ASSUME PoolSound, NEW id \in DOMAIN pool, RegisterAgain(id)
  PROVE  PoolSound'
<1>1. PICK decl \in Declaration : pool' = [pool EXCEPT ![id] = Overwritten(pool[id], decl)]
  BY DEF RegisterAgain
<1>2. MayOverwrite(pool[id]) /\ Sound(pool[id]) /\ Sound(decl)
  BY DEF RegisterAgain, PoolSound, Sound, Declaration
<1>3. Overwritten(pool[id], decl) \in MemoryDomainRecord
  BY <1>2 DEF Sound, Overwritten, MemoryDomainRecord
<1>4. /\ Overwritten(pool[id], decl).total = decl.total
      /\ Overwritten(pool[id], decl).governed = decl.governed
      /\ Overwritten(pool[id], decl).unavailable = decl.unavailable
      /\ Overwritten(pool[id], decl).reserved = pool[id].reserved
      /\ Overwritten(pool[id], decl).resident = pool[id].resident
      /\ Overwritten(pool[id], decl).pinned = pool[id].pinned
  BY <1>2 DEF Sound, Overwritten, MemoryDomainRecord
<1>5. verify_invariants(Overwritten(pool[id], decl))
  BY <1>2, <1>4, WordAssumption
     DEF Sound, MayOverwrite, MemoryDomainRecord, verify_invariants, Bytes
<1> QED BY <1>1, <1>3, <1>5, UpdateSound DEF Sound

\* Every mutator of a registered domain keeps the pool sound.
LEMMA DomainStepSound ==
  ASSUME PoolSound, NEW id \in DOMAIN pool, NEW n \in Bytes, DomainStep(id, n)
  PROVE  PoolSound'
<1>0. Sound(pool[id])
  BY DEF PoolSound
<1>1. CASE Reserve(id, n)
  BY <1>0, <1>1, ReserveSound, UpdateSound DEF Reserve
<1>2. CASE Commit(id, n)
  BY <1>0, <1>2, CommitSound, UpdateSound DEF Commit
<1>3. CASE Cancel(id, n)
  BY <1>0, <1>3, CancelSound, UpdateSound DEF Cancel
<1>4. CASE Release(id, n)
  BY <1>0, <1>4, ReleaseSound, UpdateSound DEF Release
<1>5. CASE Pin(id, n)
  BY <1>0, <1>5, PinSound, UpdateSound DEF Pin
<1>6. CASE Unpin(id, n)
  BY <1>0, <1>6, UnpinSound, UpdateSound DEF Unpin
<1>7. CASE SetUnavailable(id, n)
  BY <1>0, <1>7, SetUnavailableSound, UpdateSound DEF SetUnavailable
<1> QED BY <1>1, <1>2, <1>3, <1>4, <1>5, <1>6, <1>7 DEF DomainStep

\* The strengthened invariant holds in every reachable state of the pool.
THEOREM PoolAlwaysSound == Spec => []PoolSound
<1>1. Init => PoolSound
  BY DEF Init, PoolSound
<1>2. PoolSound /\ [Next]_vars => PoolSound'
  <2> SUFFICES ASSUME PoolSound, [Next]_vars PROVE PoolSound'
    OBVIOUS
  <2>1. CASE \/ \E id \in DomainIds, decl \in Declaration : RegisterNew(id, decl)
             \/ \E id \in DOMAIN pool : RegisterAgain(id)
    BY <2>1, RegisterNewSound, RegisterAgainSound
  <2>2. CASE \E id \in DOMAIN pool, n \in Bytes : DomainStep(id, n)
    BY <2>2, DomainStepSound
  <2>3. CASE UNCHANGED vars
    BY <2>3 DEF vars, PoolSound, Sound
  <2> QED BY <2>1, <2>2, <2>3 DEF Next
<1> QED BY <1>1, <1>2, PTL DEF Spec

\* MemoryDomain::verify_invariants never throws, for every word size, every
\* set of domains and every sequence of calls.
THEOREM PoolCoherentTheorem == Spec => []PoolCoherent
<1>1. PoolSound => PoolCoherent
  BY DEF PoolSound, Sound, PoolCoherent
<1> QED BY <1>1, PoolAlwaysSound, PTL

\* Every counter stays a word: no operation underflows or wraps.
THEOREM PoolTypeTheorem == Spec => []TypeOK
<1>1. PoolSound => TypeOK
  BY DEF PoolSound, Sound, TypeOK
<1> QED BY <1>1, PoolAlwaysSound, PTL

\* commit never refuses, for lack of capacity, bytes that were reserved.
THEOREM HoldsCanCommitTheorem == Spec => []HoldsCanCommit
<1>1. PoolSound => HoldsCanCommit
  BY HoldFits DEF PoolSound, HoldsCanCommit
<1> QED BY <1>1, PoolAlwaysSound, PTL

\* The governed capacity never changes under bytes that are accounted for.
THEOREM CapacityChangesOnlyWhenIdleTheorem == Spec => CapacityChangesOnlyWhenIdle
<1>1. ASSUME PoolSound, NEW id \in DOMAIN pool, NEW n \in Bytes, DomainStep(id, n)
      PROVE  CapacityStep
  <2>1. ASSUME NEW d, pool' = [pool EXCEPT ![id] = d],
               d.governed = pool[id].governed \/ pool[id].governed = 0
        PROVE  CapacityStep
    <3> SUFFICES ASSUME NEW i \in DOMAIN pool PROVE GovernedFixedUnderBytes(i)
      BY DEF CapacityStep
    <3>1. CASE i # id
      BY <1>1, <2>1, <3>1 DEF PoolSound, GovernedFixedUnderBytes
    <3>2. CASE i = id
      BY <1>1, <2>1, <3>2, WordAssumption
         DEF PoolSound, Sound, GovernedFixedUnderBytes, MemoryDomainRecord, verify_invariants, Bytes
    <3> QED BY <3>1, <3>2
  <2>2. pool[id] \in MemoryDomainRecord
    BY <1>1 DEF PoolSound, Sound
  <2>3. CASE Reserve(id, n)
    BY <2>1, <2>2, <2>3 DEF Reserve, reserve, MemoryDomainRecord
  <2>4. CASE Commit(id, n)
    BY <2>1, <2>2, <2>4 DEF Commit, commit, MemoryDomainRecord
  <2>5. CASE Cancel(id, n)
    BY <2>1, <2>2, <2>5 DEF Cancel, cancel_reservation, MemoryDomainRecord
  <2>6. CASE Release(id, n)
    BY <2>1, <2>2, <2>6 DEF Release, release, MemoryDomainRecord
  <2>7. CASE Pin(id, n)
    BY <2>1, <2>2, <2>7 DEF Pin, pin, MemoryDomainRecord
  <2>8. CASE Unpin(id, n)
    BY <2>1, <2>2, <2>8 DEF Unpin, unpin, MemoryDomainRecord
  <2>9. CASE SetUnavailable(id, n)
    BY <2>1, <2>2, <2>9 DEF SetUnavailable, set_unavailable, MemoryDomainRecord
  <2> QED BY <1>1, <2>3, <2>4, <2>5, <2>6, <2>7, <2>8, <2>9 DEF DomainStep
<1>2. ASSUME PoolSound, NEW id \in DomainIds, NEW decl \in Declaration, RegisterNew(id, decl)
      PROVE  CapacityStep
  BY <1>2 DEF PoolSound, RegisterNew, CapacityStep, GovernedFixedUnderBytes
<1>3. ASSUME PoolSound, NEW id \in DOMAIN pool, RegisterAgain(id)
      PROVE  CapacityStep
  <2>1. PICK d : pool' = [pool EXCEPT ![id] = d]
    BY <1>3 DEF RegisterAgain
  <2>2. pool[id].reserved = 0 /\ pool[id].resident = 0 /\ pool[id].pinned = 0
    BY <1>3, WordAssumption
       DEF RegisterAgain, MayOverwrite, PoolSound, Sound, MemoryDomainRecord, verify_invariants, Bytes
  <2> QED BY <1>3, <2>1, <2>2 DEF PoolSound, CapacityStep, GovernedFixedUnderBytes
<1>4. PoolSound /\ [Next]_vars => [CapacityStep]_vars
  BY <1>1, <1>2, <1>3 DEF Next
<1> QED BY <1>4, PoolAlwaysSound, PTL DEF Spec, CapacityChangesOnlyWhenIdle
=============================================================================
