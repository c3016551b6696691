------------------------- MODULE CoordinatorProofs -------------------------
(***************************************************************************)
(* The coordinator's types and the coherence of its memory domains, for    *)
(* every number of threads, models, adapter sets, domains and workers,     *)
(* every capacity and footprint and every word size.  Then the same across *)
(* restarts: every snapshot that save_to takes can be loaded, and the      *)
(* coordinator that load_from makes of it is coherent, for every number of *)
(* crashes.                                                                *)
(***************************************************************************)
EXTENDS Recovery, CapacityLemmas, FiniteSetTheorems, FunctionTheorems, SequenceTheorems

\* The inductive invariant: no operation keeps the domains coherent unless the
\* bytes of the residencies and of the calls in flight are words, and their
\* domains registered ones.
Inv == TypeOK /\ DomainsCoherent

-----------------------------------------------------------------------------
(* Buffer names.                                                           *)

\* Enough names are free for every element of a finite set: the pigeonhole
\* argument behind NewBuffers.
LEMMA FreeNames ==
  ASSUME NEW H, IsFiniteSet(H), NEW S, IsFiniteSet(S)
  PROVE  \E f \in [S -> 1..(Cardinality(H) + Cardinality(S))] :
           \A x \in S : f[x] \notin H /\ \A y \in S \ {x} : f[x] # f[y]
<1> DEFINE n == Cardinality(H) + Cardinality(S)
           F == (1..n) \ H
<1>1. Cardinality(H) \in Nat /\ Cardinality(S) \in Nat /\ n \in Nat
  BY FS_CardinalityType
<1>2. IsFiniteSet(1..n) /\ Cardinality(1..n) = n
  BY <1>1, FS_Interval
<1>3. IsFiniteSet(F) /\ Cardinality(F) \in Nat
  BY <1>2, FS_Subset, FS_CardinalityType
<1>4. n <= Cardinality(F \cup H)
  <2>1. IsFiniteSet(F \cup H)
    BY <1>3, FS_Union
  <2>2. 1..n \in SUBSET (F \cup H)
    OBVIOUS
  <2> QED BY <1>2, <2>1, <2>2, FS_Subset
<1>5. Cardinality(F \cup H) = Cardinality(F) + Cardinality(H)
  <2>1. F \cap H = {}
    OBVIOUS
  <2>2. Cardinality(F \cup H) = Cardinality(F) + Cardinality(H) - Cardinality(F \cap H)
    BY <1>3, FS_Union
  <2>3. Cardinality(F \cap H) = 0
    BY <2>1, FS_EmptySet
  <2> HIDE DEF F
  <2> QED BY <1>1, <1>3, <2>2, <2>3
<1>6. Cardinality(S) <= Cardinality(F)
  BY <1>1, <1>3, <1>4, <1>5
<1>7. PICK g \in Bijection(1..Cardinality(F), F) : TRUE
  BY <1>3, FS_CardinalityType DEF ExistsBijection
<1>8. PICK h \in Bijection(S, 1..Cardinality(S)) : TRUE
  <2>1. ExistsBijection(S, 1..Cardinality(S))
    BY FS_CardinalityType, Fun_ExistsBijSymmetric
  <2> QED BY <2>1 DEF ExistsBijection
<1>9. /\ h \in [S -> 1..Cardinality(S)]
      /\ \A x, y \in S : h[x] = h[y] => x = y
  BY DEF Bijection, Injection, IsInjective
<1>10. /\ g \in [1..Cardinality(F) -> F]
       /\ \A x, y \in 1..Cardinality(F) : g[x] = g[y] => x = y
  BY DEF Bijection, Injection, IsInjective
<1>11. \A x \in S : h[x] \in 1..Cardinality(F)
  BY <1>1, <1>3, <1>6, <1>9
<1> DEFINE f == [x \in S |-> g[h[x]]]
<1>12. f \in [S -> 1..n]
  BY <1>10, <1>11
<1>13. \A x \in S : f[x] \notin H /\ \A y \in S \ {x} : f[x] # f[y]
  BY <1>9, <1>10, <1>11
<1> QED BY <1>12, <1>13

\* A sequence's positions, and every set of them, are finite.
LEMMA PositionsFinite ==
  ASSUME NEW S, NEW s \in Seq(S), NEW T \in SUBSET DOMAIN s
  PROVE  IsFiniteSet(T)
<1>1. DOMAIN s = 1..Len(s) /\ Len(s) \in Nat
  BY LenProperties
<1>2. IsFiniteSet(1..Len(s))
  BY <1>1, FS_Interval
<1> QED BY <1>1, <1>2, FS_Subset

\* The image of a finite set under a function is finite.
LEMMA ImageFinite ==
  ASSUME NEW S, IsFiniteSet(S), NEW f, S \subseteq DOMAIN f
  PROVE  IsFiniteSet({f[x] : x \in S})
<1> DEFINE T == {f[x] : x \in S}
           g == [x \in S |-> f[x]]
<1>1. g \in Surjection(S, T)
  BY DEF Surjection
<1> QED BY <1>1, FS_Surjection

\* The buffers a backend call makes have names no residency, no call and no
\* live buffer has.
LEMMA BuffersAreFresh ==
  ASSUME ResidenciesOK, CallsOK, OthersOK, NEW S, IsFiniteSet(S)
  PROVE  /\ NewBuffers(S) \in [S -> Nat \ {0}]
         /\ \A x \in S : NewBuffers(S)[x] \notin HandlesInUse
         /\ \A x \in S : \A y \in S \ {x} : NewBuffers(S)[x] # NewBuffers(S)[y]
<1>1. IsFiniteSet({residencies[r].handle : r \in Ids})
  <2> DEFINE f == [r \in Ids |-> residencies[r].handle]
  <2>1. IsFiniteSet(Ids)
    BY PositionsFinite DEF ResidenciesOK, Ids
  <2>2. IsFiniteSet({f[r] : r \in Ids})
    BY <2>1, ImageFinite
  <2> QED BY <2>2
<1>2. IsFiniteSet({call[t].handle : t \in Threads})
  <2> DEFINE f == [t \in Threads |-> call[t].handle]
  <2>1. IsFiniteSet(Threads)
    BY CoordinatorAssumption
  <2>2. IsFiniteSet({f[t] : t \in Threads})
    BY <2>1, ImageFinite
  <2> QED BY <2>2
<1>3. IsFiniteSet(HandlesInUse)
  BY <1>1, <1>2, FS_Union DEF HandlesInUse, OthersOK
<1>4. /\ NewBuffers(S) \in [S -> 1..(Cardinality(HandlesInUse) + Cardinality(S))]
      /\ \A x \in S : NewBuffers(S)[x] \notin HandlesInUse
      /\ \A x \in S : \A y \in S \ {x} : NewBuffers(S)[x] # NewBuffers(S)[y]
  <2> HIDE DEF HandlesInUse
  <2> QED BY <1>3, FreeNames DEF NewBuffers
<1>5. Cardinality(HandlesInUse) + Cardinality(S) \in Nat
  BY <1>3, FS_CardinalityType
<1> HIDE DEF HandlesInUse
<1> QED BY <1>4, <1>5

\* The buffer a move makes is neither live nor remembered, and is not nullptr.
LEMMA OneBuffer ==
  ASSUME ResidenciesOK, CallsOK, OthersOK
  PROVE  NewBuffer \in Nat \ {0} /\ NewBuffer \notin HandlesInUse
<1>1. IsFiniteSet({1})
  BY FS_Singleton
<1> QED BY <1>1, BuffersAreFresh DEF NewBuffer

-----------------------------------------------------------------------------
(* Residencies.                                                            *)

\* A function on 1..n is a sequence of length n.
LEMMA SequenceFromFunction ==
  ASSUME NEW S, NEW n \in Nat, NEW s \in [1..n -> S]
  PROVE  s \in Seq(S) /\ Len(s) = n /\ DOMAIN s = 1..n
<1>1. s \in Seq(S)
  BY SeqDef
<1> QED BY <1>1, LenProperties

\* The ids of residencies_ are the positions 1..Len, and each holds a residency.
LEMMA IdsOK ==
  ASSUME ResidenciesOK
  PROVE  /\ Ids = 1..Len(residencies) /\ Len(residencies) \in Nat
         /\ Ids \subseteq Nat
         /\ \A r \in Ids : residencies[r] \in Residency
BY LenProperties, ElementOfSeq DEF ResidenciesOK, Ids

\* A step that changes residencies in place keeps their number.
LEMMA InPlace ==
  ASSUME ResidenciesOK, NEW f \in [Ids -> Residency], residencies' = f
  PROVE  ResidenciesOK' /\ Ids' = Ids /\ Len(residencies') = Len(residencies)
<1>1. Ids = 1..Len(residencies) /\ Len(residencies) \in Nat
  BY IdsOK
<1>2. f \in Seq(Residency) /\ Len(f) = Len(residencies) /\ DOMAIN f = Ids
  BY <1>1, SequenceFromFunction
<1> QED BY <1>2 DEF ResidenciesOK, Ids, Residency

\* A step that changes one residency.
LEMMA OneInPlace ==
  ASSUME ResidenciesOK, NEW r \in Ids, NEW res \in Residency,
         residencies' = [residencies EXCEPT ![r] = res]
  PROVE  ResidenciesOK' /\ Ids' = Ids /\ Len(residencies') = Len(residencies)
<1>1. [residencies EXCEPT ![r] = res] \in [Ids -> Residency]
  BY IdsOK, LenProperties DEF ResidenciesOK, Ids
<1> QED BY <1>1, InPlace

\* A step that adds one residency.
LEMMA OneMore ==
  ASSUME ResidenciesOK, NEW f \in [Ids -> Residency], NEW res \in Residency,
         residencies' = Append(f, res)
  PROVE  ResidenciesOK' /\ Ids \subseteq Ids' /\ Len(residencies') = Len(residencies) + 1
<1>1. Ids = 1..Len(residencies) /\ Len(residencies) \in Nat
  BY IdsOK
<1>2. f \in Seq(Residency) /\ Len(f) = Len(residencies)
  BY <1>1, SequenceFromFunction
<1>3. Append(f, res) \in Seq(Residency) /\ Len(Append(f, res)) = Len(f) + 1
  BY <1>2, AppendProperties
<1>4. DOMAIN Append(f, res) = 1..(Len(residencies) + 1)
  BY <1>2, <1>3, LenProperties
<1> QED BY <1>1, <1>2, <1>3, <1>4 DEF ResidenciesOK, Ids, Residency

\* Every record an operation writes for a residency is a residency.
LEMMA WrittenResidencies ==
  ASSUME ResidenciesOK, NEW r \in Ids
  PROVE  /\ \A s \in {"Stale", "Failed"} : Stale(residencies[r], s) \in Residency
         /\ Evicted(r) \in Residency
         /\ \A s \in {"Stale", "Failed"} : Surrendered(r, s) \in Residency
         /\ Published(residencies[r]) \in Residency
         /\ FailedMember(r) \in Residency
         /\ Retired(r) \in Residency
<1>1. residencies[r] \in Residency
  BY IdsOK
<1>2. ASSUME NEW s \in {"Stale", "Failed"} PROVE Stale(residencies[r], s) \in Residency
  BY <1>1 DEF Stale, Residency
<1>3. Evicted(r) \in Residency
  BY <1>2 DEF Evicted, Residency, LifecycleState
<1>4. ASSUME NEW s \in {"Stale", "Failed"} PROVE Surrendered(r, s) \in Residency
  <2>1. Stale(residencies[r], s) \in Residency
    BY <1>2
  <2>2. try_transition(Stale(residencies[r], s).lifecycle, "Invalidated") \in LifecycleState
    BY <2>1 DEF try_transition, LifecycleState, Residency
  <2> QED BY <2>1, <2>2 DEF Surrendered, Residency
<1>5. Published(residencies[r]) \in Residency
  BY <1>1 DEF Published, Residency, LifecycleState
<1>6. FailedMember(r) \in Residency
  BY <1>2 DEF FailedMember, Residency, LifecycleState, try_transition
<1>7. Retired(r) \in Residency
  BY <1>2 DEF Retired, Residency, LifecycleState, try_transition
<1> QED BY <1>2, <1>3, <1>4, <1>5, <1>6, <1>7

-----------------------------------------------------------------------------
(* Domains, sets and calls.                                                *)

\* Every domain of the map f is coherent.
SoundMap(f) ==
  f \in [Domains -> MemoryDomainRecord] /\ \A d \in Domains : verify_invariants(f[d])

\* Type and coherence of the domains, as soundness of each record.
LEMMA SoundDomains ==
  /\ DomainsOK /\ DomainsCoherent <=> SoundMap(domains)
  /\ (DomainsOK /\ DomainsCoherent)' <=> SoundMap(domains')
BY DEF DomainsOK, DomainsCoherent, SoundMap, MemoryDomainRecord, Bytes, verify_invariants

\* Each domain of a sound map is sound.
LEMMA SoundAt ==
  ASSUME NEW f, SoundMap(f), NEW d \in Domains
  PROVE  Sound(f[d])
BY DEF SoundMap, Sound

\* Changing one domain by a sound mutator keeps the map sound.
LEMMA SoundUpdate ==
  ASSUME NEW f, SoundMap(f), NEW d \in Domains, NEW x, Sound(x)
  PROVE  SoundMap([f EXCEPT ![d] = x])
BY DEF SoundMap, Sound

\* What is within a domain's counter is a number of bytes.
LEMMA WithinCounters ==
  ASSUME NEW d, Sound(d)
  PROVE  /\ \A n \in 0..d.resident : n \in Bytes /\ can_release(d, n)
         /\ \A n \in 0..d.reserved : n \in Bytes /\ can_cancel(d, n) /\ can_commit(d, n)
<1>1. d.resident \in Bytes /\ d.reserved \in Bytes
  BY DEF Sound, MemoryDomainRecord
<1>2. \A n \in 0..d.reserved : can_resident(d, n)
  BY HoldFits
<1> QED BY <1>1, <1>2, WordAssumption DEF Bytes, can_release, can_cancel, can_commit

\* What load reserves, and what its members occupy, are words.
LEMMA AggregateIsBytes ==
  ASSUME NEW m \in Models, NEW a \in AdapterSets
  PROVE  AggregateBytes(m, a) \in Bytes /\ ComponentBytes(m, a) \in Seq(Bytes)
<1>1. /\ Required[m] \in Bytes /\ Aggregate[a] \in Bytes
      /\ ShardBytes[m] \in Seq(Bytes) /\ AdapterBytes[a] \in Seq(Bytes)
  BY CoordinatorAssumption
<1>2. AggregateBytes(m, a) \in Bytes
  BY <1>1, WordAssumption DEF AggregateBytes, WordPlus, Bytes
<1>3. ComponentBytes(m, a) \in Seq(Bytes)
  BY <1>1, ConcatProperties DEF ComponentBytes
<1> QED BY <1>2, <1>3

\* evict and invalidate give back bytes that are there.
LEMMA ReleaseOfOne ==
  ASSUME Inv, NEW r \in Ids, CanReleaseBytesOf(r)
  PROVE  SoundMap(ReleaseBytesOf(r))
<1>1. residencies[r].domain \in Domains /\ residencies[r].bytes \in Bytes
  BY IdsOK DEF Inv, TypeOK, Residency
<1>2. SoundMap(domains)
  BY SoundDomains DEF Inv, TypeOK
<1>3. Sound(release(domains[residencies[r].domain], residencies[r].bytes))
  BY <1>1, <1>2, SoundAt, ReleaseSound DEF CanReleaseBytesOf
<1> QED BY <1>1, <1>2, <1>3, SoundUpdate DEF ReleaseBytesOf

\* A loop that stops at the first release that throws leaves sound domains.
LEMMA ReleaseOfMany ==
  ASSUME Inv, NEW S, NEW P, ReleasedBeforeThrow(S, P)
  PROVE  SoundMap(Released(P))
<1>1. SoundMap(domains)
  BY SoundDomains DEF Inv, TypeOK
<1>2. ASSUME NEW d \in Domains PROVE Sound(release(domains[d], BytesIn(P, d)))
  <2>1. BytesIn(P, d) \in 0..domains[d].resident
    BY DEF ReleasedBeforeThrow
  <2>2. Sound(domains[d])
    BY <1>1, SoundAt
  <2> HIDE DEF BytesIn
  <2> QED BY <2>1, <2>2, WithinCounters, ReleaseSound
<1> HIDE DEF BytesIn
<1> QED BY <1>2 DEF Released, SoundMap, Sound

\* Sets that are changed in place, and no active set but an existing one.
LEMMA SetsInPlace ==
  ASSUME SetsOK, NEW f \in [DOMAIN sets -> SetRecord], sets' = f,
         activeSet' \in [Models -> 0..Len(sets)]
  PROVE  SetsOK' /\ DOMAIN sets' = DOMAIN sets
<1>1. DOMAIN sets = 1..Len(sets) /\ Len(sets) \in Nat
  BY LenProperties DEF SetsOK
<1>2. f \in Seq(SetRecord) /\ Len(f) = Len(sets) /\ DOMAIN f = DOMAIN sets
  BY <1>1, SequenceFromFunction
<1> QED BY <1>2 DEF SetsOK, SetRecord

\* Taking a member out of the sets keeps the sets well formed.
LEMMA MemberTaken ==
  ASSUME SetsOK, NEW r, sets' = WithoutMember(r), activeSet' = activeSet
  PROVE  SetsOK' /\ DOMAIN sets' = DOMAIN sets
<1>1. \A s \in DOMAIN sets : sets[s] \in SetRecord
  BY LenProperties, ElementOfSeq DEF SetsOK
<1>2. WithoutMember(r) \in [DOMAIN sets -> SetRecord]
  BY <1>1 DEF WithoutMember, SetRecord
<1> QED BY <1>2, SetsInPlace DEF SetsOK

\* A thread outside any call has a well-formed call record.
LEMMA IdleIsCall == IdleCall \in CallRecord
BY CoordinatorAssumption, WordAssumption DEF IdleCall, CallRecord, Bytes

\* What a call in flight remembers still exists while nothing is erased.
LEMMA CallsStay ==
  ASSUME CallsOK, Ids \subseteq Ids', DOMAIN sets \subseteq DOMAIN sets',
         call' = call
  PROVE  CallsOK'
BY DEF CallsOK, CallOK, CallRecord

\* A thread may remember any well-formed call whose ids exist.
LEMMA CallChanges ==
  ASSUME CallsOK, Ids \subseteq Ids', DOMAIN sets \subseteq DOMAIN sets',
         NEW t \in Threads, NEW c \in CallRecord, CallOK(c)',
         call' = [call EXCEPT ![t] = c]
  PROVE  CallsOK'
BY DEF CallsOK, CallOK, CallRecord

\* A call that returns leaves the others' memory well formed.
LEMMA CallReturns ==
  ASSUME CallsOK, Ids \subseteq Ids', DOMAIN sets \subseteq DOMAIN sets',
         NEW t \in Threads, Return(t)
  PROVE  CallsOK'
<1>1. CallOK(IdleCall)'
  BY DEF CallOK, IdleCall
<1> QED BY <1>1, IdleIsCall, CallChanges DEF Return

-----------------------------------------------------------------------------
(* Operations of one critical section.                                     *)

\* evict, wherever it is called from.
LEMMA EvictKeeps ==
  ASSUME Inv, NEW r \in Ids, EvictEffects(r), activeSet' = activeSet
  PROVE  /\ (DomainsOK /\ DomainsCoherent)'
         /\ ResidenciesOK' /\ Ids' = Ids
         /\ SetsOK' /\ DOMAIN sets' = DOMAIN sets
         /\ heap' \subseteq heap
<1>0. SoundMap(domains) /\ ResidenciesOK /\ SetsOK
  BY SoundDomains DEF Inv, TypeOK
<1>1. CASE CanReleaseBytesOf(r)
  <2>1. /\ domains' = ReleaseBytesOf(r)
        /\ residencies' = [residencies EXCEPT ![r] = Evicted(r)]
        /\ sets' = WithoutMember(r)
        /\ heap' \subseteq heap
    BY <1>1 DEF EvictEffects
  <2>2. SoundMap(domains')
    BY <1>1, <2>1, ReleaseOfOne
  <2>3. ResidenciesOK' /\ Ids' = Ids
    BY <1>0, <2>1, WrittenResidencies, OneInPlace
  <2> QED BY <1>0, <2>1, <2>2, <2>3, MemberTaken, SoundDomains
<1>2. CASE ~ CanReleaseBytesOf(r)
  <2>1. /\ residencies' = [residencies EXCEPT ![r] = [residencies[r] EXCEPT !.lifecycle = "Evicted"]]
        /\ domains' = domains /\ sets' = sets /\ heap' = heap
    BY <1>2 DEF EvictEffects
  <2>2. [residencies[r] EXCEPT !.lifecycle = "Evicted"] \in Residency
    BY <1>0, IdsOK DEF Residency, LifecycleState
  <2>3. ResidenciesOK' /\ Ids' = Ids
    BY <1>0, <2>1, <2>2, OneInPlace
  <2> QED BY <1>0, <2>1, <2>3, SoundDomains DEF SetsOK
<1> QED BY <1>1, <1>2

\* Freeing buffers keeps the remaining variables well formed.
LEMMA HeapShrinks ==
  ASSUME OthersOK, heap' \subseteq heap, workers' \subseteq Workers,
         modelGens' \in [Models -> Nat], mutex' \in Threads \cup {NoThread}
  PROVE  OthersOK'
<1>1. IsFiniteSet(heap')
  BY FS_Subset DEF OthersOK
<1> QED BY <1>1 DEF OthersOK

\* Coordinator::evict keeps the invariant.
LEMMA EvictStep ==
  ASSUME Inv, NEW r \in Ids, NEW force \in BOOLEAN, Evict(r, force)
  PROVE  Inv'
<1>1. EvictEffects(r) /\ UNCHANGED <<activeSet, modelGens, workers, call, mutex>>
  BY DEF Evict
<1>2. /\ (DomainsOK /\ DomainsCoherent)' /\ ResidenciesOK' /\ Ids' = Ids
      /\ SetsOK' /\ DOMAIN sets' = DOMAIN sets /\ heap' \subseteq heap
  BY <1>1, EvictKeeps
<1>3. CallsOK'
  BY <1>1, <1>2, CallsStay DEF Inv, TypeOK
<1>4. OthersOK'
  BY <1>1, <1>2, HeapShrinks DEF Inv, TypeOK, OthersOK
<1> QED BY <1>2, <1>3, <1>4 DEF Inv, TypeOK

\* pin, unpin and the references the embedding program sets.
LEMMA PinStep ==
  ASSUME Inv, NEW r \in Ids, Pin(r) \/ Unpin(r)
  PROVE  Inv'
<1> DEFINE d == residencies[r].domain
           n == residencies[r].bytes
<1>0. ResidenciesOK /\ SetsOK /\ CallsOK /\ OthersOK /\ SoundMap(domains)
  BY SoundDomains DEF Inv, TypeOK
<1>1. residencies[r] \in Residency /\ d \in Domains /\ n \in Bytes
  BY <1>0, IdsOK DEF Residency
<1>2. Sound(domains[d])
  BY <1>0, <1>1, SoundAt
<1>3. PICK x \in MemoryDomainRecord, b \in BOOLEAN :
        /\ Sound(x) /\ domains' = [domains EXCEPT ![d] = x]
        /\ residencies' = [residencies EXCEPT ![r] = [residencies[r] EXCEPT !.pinned = b]]
  <2>1. CASE Pin(r)
    <3>1. Sound(pin(domains[d], n))
      BY <1>1, <1>2, <2>1, PinSound DEF Pin
    <3> QED BY <2>1, <3>1 DEF Pin, Sound
  <2>2. CASE Unpin(r)
    <3>1. Sound(unpin(domains[d], n))
      BY <1>1, <1>2, <2>2, UnpinSound DEF Unpin
    <3> QED BY <2>2, <3>1 DEF Unpin, Sound
  <2> QED BY <2>1, <2>2
<1>4. SoundMap(domains')
  BY <1>0, <1>1, <1>3, SoundUpdate
<1>5. ResidenciesOK' /\ Ids' = Ids
  <2>1. [residencies[r] EXCEPT !.pinned = b] \in Residency
    BY <1>1 DEF Residency
  <2> QED BY <1>0, <1>3, <2>1, OneInPlace
<1>6. UNCHANGED <<sets, activeSet, modelGens, workers, call, mutex, heap>>
  BY DEF Pin, Unpin
<1>7. CallsOK'
  BY <1>0, <1>5, <1>6, CallsStay
<1> QED BY <1>0, <1>4, <1>5, <1>6, <1>7, SoundDomains DEF Inv, TypeOK, SetsOK, OthersOK

\* A step that touches nothing but one residency's record.
LEMMA RecordStep ==
  ASSUME Inv, NEW r \in Ids, NEW res \in Residency,
         residencies' = [residencies EXCEPT ![r] = res],
         UNCHANGED <<domains, sets, activeSet, modelGens, workers, call, mutex, heap>>
  PROVE  Inv'
<1>1. ResidenciesOK' /\ Ids' = Ids
  BY OneInPlace DEF Inv, TypeOK
<1>2. CallsOK'
  BY <1>1, CallsStay DEF Inv, TypeOK
<1> QED BY <1>1, <1>2 DEF Inv, TypeOK, DomainsOK, DomainsCoherent, SetsOK, OthersOK,
                          verify_invariants

\* publish_ready keeps the invariant.
LEMMA PublishStep ==
  ASSUME Inv, NEW r \in Ids, PublishReady(r)
  PROVE  Inv'
<1>1. Published(residencies[r]) \in Residency
  BY WrittenResidencies DEF Inv, TypeOK
<1> QED BY <1>1, RecordStep DEF PublishReady

\* A change of active_references keeps the invariant.
LEMMA ReferenceStep ==
  ASSUME Inv, NEW r \in Ids, Reference(r)
  PROVE  Inv'
<1>1. PICK n \in {0, 1} :
        residencies' = [residencies EXCEPT ![r] = [residencies[r] EXCEPT !.references = n]]
  BY DEF Reference
<1>2. residencies[r] \in Residency
  BY IdsOK DEF Inv, TypeOK
<1>3. [residencies[r] EXCEPT !.references = n] \in Residency
  BY <1>2 DEF Residency
<1> QED BY <1>1, <1>3, RecordStep DEF Reference

\* invalidate keeps the invariant, also when its last transition throws.
LEMMA InvalidateStep ==
  ASSUME Inv, NEW r \in Ids, Invalidate(r)
  PROVE  Inv'
<1>0. ResidenciesOK /\ SetsOK /\ CallsOK /\ OthersOK
  BY DEF Inv, TypeOK
<1>1. /\ CanReleaseBytesOf(r) /\ domains' = ReleaseBytesOf(r)
      /\ heap' \subseteq heap
      /\ residencies' = [residencies EXCEPT ![r] = Surrendered(r, "Stale")]
      /\ sets' = WithoutMember(r) \/ sets' = sets
      /\ UNCHANGED <<activeSet, modelGens, workers, call, mutex>>
  BY DEF Invalidate
<1>2. SoundMap(domains')
  BY <1>1, ReleaseOfOne
<1>3. ResidenciesOK' /\ Ids' = Ids
  <2>1. Surrendered(r, "Stale") \in Residency
    BY <1>0, WrittenResidencies
  <2> QED BY <1>0, <1>1, <2>1, OneInPlace
<1>4. SetsOK' /\ DOMAIN sets' = DOMAIN sets
  BY <1>0, <1>1, MemberTaken DEF SetsOK
<1>5. CallsOK'
  BY <1>0, <1>1, <1>3, <1>4, CallsStay
<1>6. OthersOK'
  BY <1>0, <1>1, HeapShrinks DEF OthersOK
<1> QED BY <1>2, <1>3, <1>4, <1>5, <1>6, SoundDomains DEF Inv, TypeOK

\* The loop that gives up the residencies of P.
LEMMA SurrenderKeeps ==
  ASSUME ResidenciesOK, NEW P, NEW s \in {"Stale", "Failed"},
         residencies' = [r \in Ids |-> IF r \in P THEN Surrendered(r, s) ELSE residencies[r]]
  PROVE  ResidenciesOK' /\ Ids' = Ids
<1>1. [r \in Ids |-> IF r \in P THEN Surrendered(r, s) ELSE residencies[r]]
        \in [Ids -> Residency]
  BY WrittenResidencies, IdsOK
<1> QED BY <1>1, InPlace

\* roll_model_generation keeps the invariant wherever its loop stops.
LEMMA RollStep ==
  ASSUME Inv, NEW m \in Models, RollModelGeneration(m)
  PROVE  Inv'
<1>0. ResidenciesOK /\ SetsOK /\ CallsOK /\ OthersOK
  BY DEF Inv, TypeOK
<1>1. PICK P : /\ ReleasedBeforeThrow(OldGeneration(m), P)
               /\ Surrender(P, "Stale")
               /\ \/ /\ activeSet[m] # 0
                     /\ sets' = [sets EXCEPT ![activeSet[m]].ready = FALSE,
                                             ![activeSet[m]].complete = FALSE]
                     /\ activeSet' = [activeSet EXCEPT ![m] = 0]
                  \/ UNCHANGED <<sets, activeSet>>
  BY DEF RollModelGeneration
<1>2. SoundMap(domains')
  BY <1>1, ReleaseOfMany DEF Surrender
<1>3. ResidenciesOK' /\ Ids' = Ids
  BY <1>0, <1>1, SurrenderKeeps DEF Surrender
<1>4. SetsOK' /\ DOMAIN sets' = DOMAIN sets
  <2>1. CASE UNCHANGED <<sets, activeSet>>
    BY <1>0, <2>1 DEF SetsOK
  <2>2. CASE /\ activeSet[m] # 0
             /\ sets' = [sets EXCEPT ![activeSet[m]].ready = FALSE,
                                     ![activeSet[m]].complete = FALSE]
             /\ activeSet' = [activeSet EXCEPT ![m] = 0]
    <3>1. DOMAIN sets = 1..Len(sets) /\ Len(sets) \in Nat
      BY <1>0, LenProperties DEF SetsOK
    <3>2. activeSet[m] \in DOMAIN sets
      BY <1>0, <2>2, <3>1 DEF SetsOK
    <3>3. \A s \in DOMAIN sets : sets[s] \in SetRecord
      BY <1>0, <3>1, ElementOfSeq DEF SetsOK
    <3>4. sets' \in [DOMAIN sets -> SetRecord]
      BY <1>0, <2>2, <3>1, <3>2, <3>3, LenProperties DEF SetRecord, SetsOK
    <3>5. activeSet' \in [Models -> 0..Len(sets)]
      BY <1>0, <2>2, <3>1 DEF SetsOK
    <3> QED BY <1>0, <3>4, <3>5, SetsInPlace
  <2> QED BY <1>1, <2>1, <2>2
<1>5. CallsOK'
  BY <1>0, <1>3, <1>4, CallsStay DEF RollModelGeneration
<1>6. OthersOK'
  BY <1>0, <1>1, HeapShrinks DEF OthersOK, RollModelGeneration, Surrender
<1> QED BY <1>2, <1>3, <1>4, <1>5, <1>6, SoundDomains DEF Inv, TypeOK

\* mark_worker_lost keeps the invariant wherever its loop stops.
LEMMA WorkerLostStep ==
  ASSUME Inv, NEW w \in Workers, MarkWorkerLost(w)
  PROVE  Inv'
<1>0. ResidenciesOK /\ SetsOK /\ CallsOK /\ OthersOK /\ SoundMap(domains)
  BY SoundDomains DEF Inv, TypeOK
<1>1. PICK P :
        /\ ReleasedBeforeThrow(OnWorker(w), P)
        /\ domains' = [d \in Domains |->
             IF P = OnWorker(w) /\ d \in WorkerDevices[w]
             THEN set_unavailable(Released(P)[d], domains[d].total)
             ELSE Released(P)[d]]
        /\ residencies' = [r \in Ids |-> IF r \in P THEN Surrendered(r, "Failed")
                                         ELSE residencies[r]]
        /\ heap' \subseteq heap
  BY DEF MarkWorkerLost
<1>2. SoundMap(Released(P))
  BY <1>1, ReleaseOfMany
<1>3. ASSUME NEW d \in Domains
      PROVE  Sound(set_unavailable(Released(P)[d], domains[d].total))
  <2>1. Sound(Released(P)[d])
    BY <1>2, SoundAt
  <2>2. domains[d] \in MemoryDomainRecord
    BY <1>0, SoundAt DEF Sound
  <2>3. Released(P)[d].total = domains[d].total
    BY <2>2 DEF Released, release, MemoryDomainRecord
  <2>4. domains[d].total \in Bytes /\ domains[d].total <= Released(P)[d].total
    BY <2>2, <2>3, WordAssumption DEF MemoryDomainRecord, Bytes
  <2> QED BY <2>1, <2>4, SetUnavailableSound
<1>4. SoundMap(domains')
  BY <1>1, <1>2, <1>3, SoundAt DEF SoundMap, Sound
<1>5. ResidenciesOK' /\ Ids' = Ids
  BY <1>0, <1>1, SurrenderKeeps
<1>6. UNCHANGED <<sets, activeSet, modelGens, workers, call, mutex>>
  BY DEF MarkWorkerLost
<1>7. CallsOK'
  BY <1>0, <1>5, <1>6, CallsStay
<1>8. OthersOK'
  BY <1>0, <1>1, <1>6, HeapShrinks DEF OthersOK
<1> QED BY <1>0, <1>4, <1>5, <1>6, <1>7, <1>8, SoundDomains DEF Inv, TypeOK, SetsOK

\* register_worker keeps the invariant.
LEMMA RegisterWorkerStep ==
  ASSUME Inv, NEW w \in Workers, RegisterWorker(w)
  PROVE  Inv'
<1>1. UNCHANGED <<domains, residencies, sets, activeSet, modelGens, call, mutex, heap>>
  BY DEF RegisterWorker
<1>2. CallsOK'
  BY <1>1, CallsStay DEF Inv, TypeOK, Ids
<1>3. OthersOK'
  BY <1>1 DEF RegisterWorker, Inv, TypeOK, OthersOK
<1> QED BY <1>1, <1>2, <1>3 DEF Inv, TypeOK, DomainsOK, DomainsCoherent, ResidenciesOK,
                                SetsOK, verify_invariants

-----------------------------------------------------------------------------
(* load.                                                                   *)

\* What admit's verdict lets load go on with is a call.
LEMMA VerdictIsCall ==
  ASSUME NEW doms, NEW ress, DOMAIN ress \subseteq Nat, NEW m \in Models,
         NEW a \in AdapterSets, NEW v \in Verdicts(doms, ress, m, a)
  PROVE  /\ v \in CallRecord
         /\ v.op \in {"reuse", "place", "evict"}
         /\ v.op # "reuse" => v.model \in Models /\ v.domain \in Domains
<1>1. CASE \E r \in Reusable(ress, m, a) :
             v = [IdleCall EXCEPT !.op = "reuse", !.residency = r]
  <2>1. PICK r \in Nat : v = [IdleCall EXCEPT !.op = "reuse", !.residency = r]
    BY <1>1 DEF Reusable
  <2> QED BY <2>1, IdleIsCall DEF CallRecord
<1>2. CASE \E d \in BestDomains(doms, ress, m, a) :
             v = [IdleCall EXCEPT !.op = IF Fits(doms, m, a, d) THEN "place" ELSE "evict",
                                  !.model = m, !.adapters = a, !.domain = d]
  <2>1. PICK d \in Domains, op \in {"place", "evict"} :
          v = [IdleCall EXCEPT !.op = op, !.model = m, !.adapters = a, !.domain = d]
    BY <1>2 DEF BestDomains
  <2>2. v \in CallRecord
    BY <2>1, IdleIsCall DEF CallRecord
  <2>3. v.op = op /\ v.model = m /\ v.domain = d
    BY <2>1, IdleIsCall DEF CallRecord
  <2> QED BY <2>2, <2>3
<1> HIDE DEF Reusable, BestDomains, Fits
<1> QED BY <1>1, <1>2 DEF Verdicts

\* load's first section keeps the invariant.
LEMMA LoadAdmitStep ==
  ASSUME Inv, NEW t \in Threads, NEW m \in Models, NEW a \in AdapterSets,
         LoadAdmit(t, m, a)
  PROVE  Inv'
<1>0. ResidenciesOK /\ CallsOK
  BY DEF Inv, TypeOK
<1>1. PICK v \in Verdicts(domains, residencies, m, a) : call' = [call EXCEPT ![t] = v]
  BY DEF LoadAdmit
<1>2. UNCHANGED <<domains, residencies, sets, activeSet, modelGens, workers, mutex, heap>>
  BY DEF LoadAdmit
<1>3. DOMAIN residencies \subseteq Nat
  BY <1>0, IdsOK DEF Ids
<1>4. /\ v \in CallRecord /\ v.op \in {"reuse", "place", "evict"}
      /\ v.op # "reuse" => v.model \in Models /\ v.domain \in Domains
  BY <1>1, <1>3, VerdictIsCall
<1>5. CallOK(v)'
  BY <1>4 DEF CallOK
<1>6. Ids' = Ids
  BY <1>2 DEF Ids
<1>7. CallsOK'
  BY <1>0, <1>1, <1>2, <1>4, <1>5, <1>6, CallChanges
<1> QED BY <1>2, <1>7 DEF Inv, TypeOK, DomainsOK, DomainsCoherent, ResidenciesOK,
                          SetsOK, OthersOK, verify_invariants

\* A call that ends, or blocks, and changes nothing else.
LEMMA QuietEnd ==
  ASSUME Inv, NEW t \in Threads, Return(t),
         UNCHANGED <<domains, residencies, sets, activeSet, modelGens, workers, mutex, heap>>
  PROVE  Inv'
<1>1. Ids' = Ids
  BY DEF Ids
<1>2. CallsOK'
  BY <1>1, CallReturns DEF Inv, TypeOK
<1> QED BY <1>2 DEF Inv, TypeOK, DomainsOK, DomainsCoherent, ResidenciesOK,
                    SetsOK, OthersOK, verify_invariants

\* Blocking on the mutex a second time keeps the invariant.
LEMMA RelockStep ==
  ASSUME Inv, NEW t \in Threads, LoadEvictRelocks(t)
  PROVE  Inv'
<1>0. CallsOK
  BY DEF Inv, TypeOK
<1>1. /\ call' = [call EXCEPT ![t] = [call[t] EXCEPT !.op = "blocked"]]
      /\ mutex' = t
      /\ UNCHANGED <<domains, residencies, sets, activeSet, modelGens, workers, heap>>
  BY DEF LoadEvictRelocks
<1> DEFINE c == [call[t] EXCEPT !.op = "blocked"]
<1>2. c \in CallRecord /\ c.op = "blocked"
  BY <1>0 DEF CallsOK, CallRecord
<1>3. CallOK(c)'
  BY <1>1, <1>2 DEF CallOK
<1>4. Ids' = Ids
  BY <1>1 DEF Ids
<1>5. CallsOK'
  <2> HIDE DEF c
  <2>1. call' = [call EXCEPT ![t] = c]
    BY <1>1 DEF c
  <2> QED BY <1>0, <1>1, <1>2, <1>3, <1>4, <2>1, CallChanges DEF CallsOK, CallOK, CallRecord
<1> QED BY <1>1, <1>5 DEF Inv, TypeOK, DomainsOK, DomainsCoherent, ResidenciesOK,
                          SetsOK, OthersOK, verify_invariants

\* One round of load's eviction loop keeps the invariant.
LEMMA EvictRoundStep ==
  ASSUME Inv, NEW t \in Threads, LoadEvictRound(t)
  PROVE  Inv'
<1> DEFINE m == call[t].model
           a == call[t].adapters
<1>0. ResidenciesOK /\ CallsOK /\ OthersOK
  BY DEF Inv, TypeOK
<1>1. PICK r \in Ids :
        /\ EvictEffects(r)
        /\ \/ Return(t)
           \/ \E v \in Verdicts(ReleaseBytesOf(r), [residencies EXCEPT ![r] = Evicted(r)], m, a) :
                call' = [call EXCEPT ![t] =
                   CASE v.op = "place" -> v
                     [] v.op = "evict" /\ call[t].evictions < 7 ->
                          [v EXCEPT !.evictions = call[t].evictions + 1]
                     [] OTHER -> IdleCall]
  BY DEF LoadEvictRound, Victims
<1>2. UNCHANGED <<activeSet, modelGens, workers, mutex>> /\ call[t].op = "evict"
  BY DEF LoadEvictRound
<1>3. /\ (DomainsOK /\ DomainsCoherent)' /\ ResidenciesOK' /\ Ids' = Ids
      /\ SetsOK' /\ DOMAIN sets' = DOMAIN sets /\ heap' \subseteq heap
  BY <1>1, <1>2, EvictKeeps
<1>4. m \in Models /\ a \in AdapterSets /\ call[t].evictions \in 0..7
  BY <1>0, <1>2 DEF CallsOK, CallOK, CallRecord
<1>5. CallsOK'
  <2>1. CASE Return(t)
    BY <1>0, <1>3, <2>1, CallReturns
  <2>2. CASE \E v \in Verdicts(ReleaseBytesOf(r), [residencies EXCEPT ![r] = Evicted(r)], m, a) :
                call' = [call EXCEPT ![t] =
                   CASE v.op = "place" -> v
                     [] v.op = "evict" /\ call[t].evictions < 7 ->
                          [v EXCEPT !.evictions = call[t].evictions + 1]
                     [] OTHER -> IdleCall]
    <3>1. PICK v \in Verdicts(ReleaseBytesOf(r), [residencies EXCEPT ![r] = Evicted(r)], m, a) :
                call' = [call EXCEPT ![t] =
                   CASE v.op = "place" -> v
                     [] v.op = "evict" /\ call[t].evictions < 7 ->
                          [v EXCEPT !.evictions = call[t].evictions + 1]
                     [] OTHER -> IdleCall]
      BY <2>2
    <3>2. DOMAIN [residencies EXCEPT ![r] = Evicted(r)] \subseteq Nat
      BY <1>0, IdsOK DEF Ids
    <3>3. /\ v \in CallRecord /\ v.op \in {"reuse", "place", "evict"}
          /\ v.op # "reuse" => v.model \in Models /\ v.domain \in Domains
      BY <1>4, <3>1, <3>2, VerdictIsCall
    <3>4. CASE v.op = "place"
      <4>1. call' = [call EXCEPT ![t] = v]
        BY <3>1, <3>4
      <4>2. CallOK(v)'
        BY <3>3, <3>4 DEF CallOK
      <4> QED BY <1>0, <1>3, <3>3, <4>1, <4>2, CallChanges
    <3>5. CASE v.op = "evict" /\ call[t].evictions < 7
      <4>1. PICK n \in 0..7 : n = call[t].evictions + 1
        BY <1>4, <3>5
      <4> DEFINE c == [v EXCEPT !.evictions = n]
      <4>2. call' = [call EXCEPT ![t] = c]
        BY <3>1, <3>5, <4>1
      <4>3. c \in CallRecord /\ c.op = v.op /\ c.model = v.model /\ c.domain = v.domain
        BY <3>3 DEF CallRecord
      <4>4. CallOK(c)'
        BY <3>3, <3>5, <4>3 DEF CallOK
      <4> HIDE DEF c
      <4> QED BY <1>0, <1>3, <4>2, <4>3, <4>4, CallChanges
    <3>6. CASE v.op # "place" /\ ~ (v.op = "evict" /\ call[t].evictions < 7)
      <4>1. Return(t)
        BY <3>1, <3>6 DEF Return
      <4> QED BY <1>0, <1>3, <4>1, CallReturns
    <3> QED BY <3>4, <3>5, <3>6
  <2> QED BY <1>1, <2>1, <2>2
<1>6. OthersOK'
  BY <1>0, <1>2, <1>3, HeapShrinks DEF OthersOK
<1> QED BY <1>3, <1>5, <1>6 DEF Inv, TypeOK

\* load's second section keeps the invariant, with and without the reservation.
LEMMA LoadBeginStep ==
  ASSUME Inv, NEW t \in Threads, LoadBegin(t)
  PROVE  Inv'
<1>0. ResidenciesOK /\ SetsOK /\ CallsOK /\ OthersOK /\ SoundMap(domains)
  BY SoundDomains DEF Inv, TypeOK
<1>1. PICK m \in Models, a \in AdapterSets, d \in Domains :
        m = call[t].model /\ a = call[t].adapters /\ d = call[t].domain
  BY <1>0 DEF LoadBegin, CallsOK, CallOK, CallRecord
<1>2. PICK bytes \in Seq(Bytes), total \in Bytes :
        bytes = ComponentBytes(m, a) /\ total = AggregateBytes(m, a)
  BY AggregateIsBytes
<1> DEFINE declared == [i \in 1..Len(bytes) |-> Declared(m, a, d, bytes[i])]
<1>3. PICK members : members = (Len(residencies) + 1)..(Len(residencies) + Len(bytes))
  OBVIOUS
<1>4. /\ residencies' = residencies \o declared
      /\ sets' = Append(sets, NewSet(m, members))
      /\ activeSet' = [activeSet EXCEPT ![m] = Len(sets) + 1]
      /\ UNCHANGED <<modelGens, workers, mutex, heap>>
  BY <1>1, <1>2, <1>3 DEF LoadBegin
<1>5. Len(bytes) \in Nat /\ \A i \in 1..Len(bytes) : bytes[i] \in Bytes
  BY LenProperties, ElementOfSeq
<1>6. declared \in [1..Len(bytes) -> Residency]
  <2>1. modelGens[m] \in Nat
    BY <1>0 DEF OthersOK
  <2>2. ASSUME NEW i \in 1..Len(bytes) PROVE Declared(m, a, d, bytes[i]) \in Residency
    BY <1>5, <2>1 DEF Declared, Residency, LifecycleState
  <2> QED BY <2>2
<1>7. declared \in Seq(Residency) /\ Len(declared) = Len(bytes)
  <2> HIDE DEF declared
  <2> QED BY <1>5, <1>6, SequenceFromFunction
<1>8. /\ ResidenciesOK' /\ Len(residencies') = Len(residencies) + Len(bytes)
      /\ Ids' = 1..(Len(residencies) + Len(bytes)) /\ Ids = 1..Len(residencies)
      /\ Len(residencies) \in Nat
  <2> HIDE DEF declared
  <2>1. residencies' \in Seq(Residency) /\ Len(residencies') = Len(residencies) + Len(bytes)
    <3>1. residencies \in Seq(Residency) /\ residencies' = residencies \o declared
      BY <1>0, <1>4 DEF ResidenciesOK
    <3>2. /\ residencies \o declared \in Seq(Residency)
          /\ Len(residencies \o declared) = Len(residencies) + Len(declared)
      BY <1>7, <3>1, ConcatProperties
    <3> QED BY <1>7, <3>1, <3>2
  <2>2. DOMAIN residencies' = 1..Len(residencies')
    BY <2>1, LenProperties
  <2> QED BY <1>0, <2>1, <2>2, IdsOK DEF ResidenciesOK, Ids, Residency
<1>9. Ids \subseteq Ids' /\ members \subseteq Ids' /\ members \subseteq Nat
  BY <1>3, <1>5, <1>8
<1>10. SetsOK' /\ DOMAIN sets' = 1..(Len(sets) + 1) /\ DOMAIN sets = 1..Len(sets)
       /\ Len(sets) \in Nat
  <2>1. NewSet(m, members) \in SetRecord
    BY <1>9 DEF NewSet, SetRecord
  <2>2. sets' \in Seq(SetRecord) /\ Len(sets') = Len(sets) + 1
    BY <1>0, <1>4, <2>1, AppendProperties DEF SetsOK
  <2>3. Len(sets) \in Nat /\ DOMAIN sets = 1..Len(sets) /\ DOMAIN sets' = 1..Len(sets')
    BY <1>0, <2>2, LenProperties DEF SetsOK
  <2>4. activeSet' \in [Models -> 0..Len(sets')]
    BY <1>0, <1>4, <2>2, <2>3 DEF SetsOK
  <2> QED BY <2>2, <2>3, <2>4 DEF SetsOK, SetRecord
<1>11. OthersOK'
  BY <1>0, <1>4 DEF OthersOK
<1>12. SoundMap(domains') /\ CallsOK'
  <2>1. CASE can_reserve(domains[d], total)
    <3>1. /\ domains' = [domains EXCEPT ![d] = reserve(domains[d], total)]
          /\ call' = [call EXCEPT ![t] =
               [IdleCall EXCEPT !.op = "loading", !.model = m, !.adapters = a,
                  !.domain = d, !.members = members, !.set = Len(sets) + 1,
                  !.bytes = total, !.modelGeneration = modelGens[m]]]
      BY <1>1, <1>2, <1>3, <2>1 DEF LoadBegin
    <3>2. SoundMap(domains')
      <4>1. Sound(reserve(domains[d], total))
        BY <1>0, <2>1, SoundAt, ReserveSound
      <4> QED BY <1>0, <3>1, <4>1, SoundUpdate
    <3>3. PICK n \in Nat, g \in Nat : n = Len(sets) + 1 /\ g = modelGens[m]
      BY <1>0, <1>10 DEF OthersOK
    <3> DEFINE c == [IdleCall EXCEPT !.op = "loading", !.model = m, !.adapters = a,
                       !.domain = d, !.members = members, !.set = n,
                       !.bytes = total, !.modelGeneration = g]
    <3>4. /\ c \in CallRecord /\ c.op = "loading" /\ c.model = m /\ c.domain = d
          /\ c.members = members /\ c.set = n
      BY <1>9, IdleIsCall DEF CallRecord
    <3>5. CallOK(c)'
      BY <1>9, <1>10, <3>3, <3>4 DEF CallOK
    <3>6. call' = [call EXCEPT ![t] = c]
      BY <3>1, <3>3
    <3> HIDE DEF c
    <3>7. DOMAIN sets \subseteq DOMAIN sets'
      BY <1>10
    <3>8. CallsOK'
      BY <1>0, <1>9, <3>4, <3>5, <3>6, <3>7, CallChanges
    <3> QED BY <3>2, <3>8
  <2>2. CASE ~ can_reserve(domains[d], total)
    <3>1. Return(t) /\ domains' = domains
      BY <1>1, <1>2, <2>2 DEF LoadBegin
    <3>2. DOMAIN sets \subseteq DOMAIN sets'
      BY <1>10
    <3> QED BY <1>0, <1>9, <3>1, <3>2, CallReturns
  <2> QED BY <2>1, <2>2
<1> QED BY <1>8, <1>10, <1>11, <1>12, SoundDomains DEF Inv, TypeOK

\* The buffers a load makes, and the members that get one.
LEMMA LoadedMembers ==
  ASSUME ResidenciesOK, CallsOK, OthersOK, NEW ok \in SUBSET Ids
  PROVE  /\ BuffersFor(ok) \subseteq Nat /\ IsFiniteSet(BuffersFor(ok))
         /\ \A r \in ok : Materialized(r, ok) \in Residency
         /\ \A r \in ok : Published(Materialized(r, ok)) \in Residency
<1>1. IsFiniteSet(ok)
  BY PositionsFinite DEF ResidenciesOK, Ids
<1>2. NewBuffers(ok) \in [ok -> Nat \ {0}]
  BY <1>1, BuffersAreFresh
<1>3. IsFiniteSet({NewBuffers(ok)[r] : r \in ok})
  <2>1. PICK f : f = NewBuffers(ok)
    OBVIOUS
  <2>2. f \in [ok -> Nat \ {0}]
    BY <1>2, <2>1
  <2>3. IsFiniteSet({f[r] : r \in ok})
    BY <1>1, <2>2, ImageFinite
  <2> QED BY <2>1, <2>3
<1>4. BuffersFor(ok) \subseteq Nat
  BY <1>2 DEF BuffersFor
<1>5. ASSUME NEW r \in ok PROVE Materialized(r, ok) \in Residency
  <2>1. residencies[r] \in Residency
    BY IdsOK
  <2>2. NewBuffers(ok)[r] \in Nat
    BY <1>2
  <2> QED BY <2>1, <2>2 DEF Materialized, Residency, LifecycleState
<1>6. ASSUME NEW r \in ok PROVE Published(Materialized(r, ok)) \in Residency
  <2>1. PICK x \in Residency : x = Materialized(r, ok)
    BY <1>5
  <2>2. "Ready" \in LifecycleState
    BY DEF LifecycleState
  <2>3. [x EXCEPT !.lifecycle = "Ready", !.readiness = "Ready", !.authority = "Authoritative"]
          \in Residency
    BY <2>2 DEF Residency
  <2> QED BY <2>1, <2>3 DEF Published
<1> QED BY <1>3, <1>4, <1>5, <1>6 DEF BuffersFor

\* Making finitely many buffers keeps the remaining variables well formed.
LEMMA HeapGrows ==
  ASSUME OthersOK, NEW B \in SUBSET Nat, IsFiniteSet(B), heap' \subseteq heap \cup B,
         UNCHANGED <<modelGens, workers, mutex>>
  PROVE  OthersOK'
<1>1. IsFiniteSet(heap \cup B)
  BY FS_Union DEF OthersOK
<1>2. IsFiniteSet(heap')
  BY <1>1, FS_Subset
<1> QED BY <1>2 DEF OthersOK

\* What a load in flight knows.
LEMMA LoadingKnows ==
  ASSUME CallsOK, NEW t \in Threads, call[t].op = "loading"
  PROVE  /\ call[t].domain \in Domains /\ call[t].bytes \in Bytes
         /\ call[t].members \subseteq Ids /\ call[t].set \in DOMAIN sets
BY DEF CallsOK, CallOK, CallRecord

\* A load that finds the generation moved keeps the invariant.
LEMMA LoadStaleStep ==
  ASSUME Inv, NEW t \in Threads, LoadStale(t)
  PROVE  Inv'
<1> DEFINE c == call[t]
<1>0. ResidenciesOK /\ SetsOK /\ CallsOK /\ OthersOK /\ SoundMap(domains)
  BY SoundDomains DEF Inv, TypeOK
<1>1. c.domain \in Domains /\ c.bytes \in Bytes /\ c.members \subseteq Ids
  BY <1>0, LoadingKnows DEF LoadStale
<1>2. PICK ok \in SUBSET c.members : heap' = heap \cup BuffersFor(ok)
  BY DEF LoadStale
<1>3. Return(t) /\ UNCHANGED <<sets, activeSet, modelGens, workers, mutex>>
  BY DEF LoadStale
<1>4. SoundMap(domains') /\ ResidenciesOK' /\ Ids' = Ids
  <2>1. CASE can_cancel(domains[c.domain], c.bytes)
    <3>1. /\ domains' = [domains EXCEPT ![c.domain] = cancel_reservation(domains[c.domain], c.bytes)]
          /\ residencies' = [r \in Ids |-> IF r \in c.members THEN FailedMember(r)
                                           ELSE residencies[r]]
      BY <2>1 DEF LoadStale
    <3>2. Sound(cancel_reservation(domains[c.domain], c.bytes))
      BY <1>0, <1>1, <2>1, SoundAt, CancelSound
    <3>3. SoundMap(domains')
      BY <1>0, <1>1, <3>1, <3>2, SoundUpdate
    <3>4. [r \in Ids |-> IF r \in c.members THEN FailedMember(r) ELSE residencies[r]]
            \in [Ids -> Residency]
      BY <1>0, WrittenResidencies, IdsOK
    <3> QED BY <1>0, <3>1, <3>3, <3>4, InPlace
  <2>2. CASE ~ can_cancel(domains[c.domain], c.bytes)
    <3>1. UNCHANGED <<domains, residencies>>
      BY <2>2 DEF LoadStale
    <3> QED BY <1>0, <3>1 DEF ResidenciesOK, Ids
  <2> QED BY <2>1, <2>2
<1>5. CallsOK'
  BY <1>0, <1>3, <1>4, CallReturns
<1>6. OthersOK'
  <2>1. BuffersFor(ok) \subseteq Nat /\ IsFiniteSet(BuffersFor(ok))
    BY <1>0, <1>1, <1>2, LoadedMembers
  <2> QED BY <1>0, <1>2, <1>3, <2>1, HeapGrows
<1> QED BY <1>0, <1>3, <1>4, <1>5, <1>6, SoundDomains DEF Inv, TypeOK, SetsOK

\* Committing bytes that fit the reservation keeps the domains sound.
LEMMA CommitFits ==
  ASSUME SoundMap(domains), NEW d \in Domains, NEW S, CommitsFit(d, S)
  PROVE  /\ Sound(commit(domains[d], BytesIn(S, d)))
         /\ SoundMap([domains EXCEPT ![d] = commit(domains[d], BytesIn(S, d))])
<1>1. Sound(domains[d])
  BY SoundAt
<1>2. BytesIn(S, d) \in 0..domains[d].reserved
  BY DEF CommitsFit
<1> HIDE DEF BytesIn
<1>3. Sound(commit(domains[d], BytesIn(S, d)))
  BY <1>1, <1>2, WithinCounters, CommitSound
<1> QED BY <1>3, SoundUpdate

\* A load that ends with some members loaded.
LEMMA LoadEnds ==
  ASSUME Inv, NEW t \in Threads, call[t].op = "loading",
         NEW ok \in SUBSET call[t].members,
         SoundMap(domains'), heap' = heap \cup BuffersFor(ok), Return(t),
         NEW f \in [Ids -> Residency], residencies' = f,
         SetsOK', DOMAIN sets' = DOMAIN sets,
         UNCHANGED <<modelGens, workers, mutex>>
  PROVE  Inv'
<1>0. ResidenciesOK /\ SetsOK /\ CallsOK /\ OthersOK
  BY DEF Inv, TypeOK
<1>1. ok \subseteq Ids
  BY <1>0, LoadingKnows
<1>2. ResidenciesOK' /\ Ids' = Ids
  BY <1>0, InPlace
<1>3. CallsOK'
  BY <1>0, <1>2, CallReturns
<1>4. OthersOK'
  BY <1>0, <1>1, LoadedMembers, HeapGrows
<1> QED BY <1>2, <1>3, <1>4, SoundDomains DEF Inv, TypeOK

\* Setting a set's complete and ready flags keeps the sets well formed.
LEMMA SetMarked ==
  ASSUME SetsOK, NEW i \in DOMAIN sets, NEW b1 \in BOOLEAN, NEW b2 \in BOOLEAN,
         sets' = [sets EXCEPT ![i] = [sets[i] EXCEPT !.complete = b1, !.ready = b2]],
         activeSet' = activeSet
  PROVE  SetsOK' /\ DOMAIN sets' = DOMAIN sets
<1>1. \A s \in DOMAIN sets : sets[s] \in SetRecord
  BY LenProperties, ElementOfSeq DEF SetsOK
<1>2. [sets[i] EXCEPT !.complete = b1, !.ready = b2] \in SetRecord
  BY <1>1 DEF SetRecord
<1>3. sets' \in [DOMAIN sets -> SetRecord]
  BY <1>1, <1>2, LenProperties DEF SetsOK
<1> QED BY <1>3, SetsInPlace DEF SetsOK

\* A load whose members all arrived keeps the invariant.
LEMMA LoadPublishStep ==
  ASSUME Inv, NEW t \in Threads, LoadPublish(t)
  PROVE  Inv'
<1> DEFINE c == call[t]
           f == [r \in Ids |-> IF r \in c.members THEN Published(Materialized(r, c.members))
                               ELSE residencies[r]]
<1>0. ResidenciesOK /\ SetsOK /\ CallsOK /\ OthersOK /\ SoundMap(domains)
  BY SoundDomains DEF Inv, TypeOK
<1>1. /\ c.op = "loading" /\ CommitsFit(c.domain, c.members)
      /\ domains' = [domains EXCEPT ![c.domain] =
                       commit(domains[c.domain], BytesIn(c.members, c.domain))]
      /\ residencies' = f
      /\ sets' = [sets EXCEPT ![c.set] = [sets[c.set] EXCEPT !.complete = TRUE, !.ready = TRUE]]
      /\ heap' = heap \cup BuffersFor(c.members)
      /\ Return(t) /\ UNCHANGED <<activeSet, modelGens, workers, mutex>>
  BY DEF LoadPublish
<1>2. c.domain \in Domains /\ c.members \subseteq Ids /\ c.set \in DOMAIN sets
  BY <1>0, <1>1, LoadingKnows
<1>3. SoundMap(domains')
  BY <1>0, <1>1, <1>2, CommitFits
<1>4. f \in [Ids -> Residency]
  BY <1>0, <1>2, LoadedMembers, IdsOK
<1>5. SetsOK' /\ DOMAIN sets' = DOMAIN sets
  BY <1>0, <1>1, <1>2, SetMarked
<1> HIDE DEF f
<1> QED BY <1>1, <1>3, <1>4, <1>5, LoadEnds

\* A load with missing members keeps the invariant, also when the cancellation of
\* the missing bytes throws.
LEMMA LoadPartialStep ==
  ASSUME Inv, NEW t \in Threads, LoadPartial(t)
  PROVE  Inv'
<1> DEFINE c == call[t]
<1>0. ResidenciesOK /\ SetsOK /\ CallsOK /\ OthersOK /\ SoundMap(domains)
  BY SoundDomains DEF Inv, TypeOK
<1>1. PICK ok \in SUBSET c.members :
        LET done   == Committable(c, ok)
            failed == c.members \ done
            after  == commit(domains[c.domain], BytesIn(done, c.domain))
            exact  == BytesIn(failed, c.domain) \in 0..after.reserved
        IN  /\ CommitsFit(c.domain, done)
            /\ domains' = [domains EXCEPT ![c.domain] =
                 IF exact THEN cancel_reservation(after, BytesIn(failed, c.domain))
                 ELSE after]
            /\ residencies' = [r \in Ids |->
                 CASE r \in done -> Materialized(r, ok)
                   [] r \in failed -> FailedMember(r)
                   [] OTHER -> residencies[r]]
            /\ sets' = IF exact
                       THEN [sets EXCEPT ![c.set].complete = recompute_complete(sets[c.set]),
                                         ![c.set].ready = FALSE]
                       ELSE sets
            /\ heap' = heap \cup BuffersFor(ok)
  BY DEF LoadPartial
<1>2. c.op = "loading" /\ Return(t) /\ UNCHANGED <<activeSet, modelGens, workers, mutex>>
  BY DEF LoadPartial
<1>3. c.domain \in Domains /\ c.members \subseteq Ids /\ c.set \in DOMAIN sets
  BY <1>0, <1>2, LoadingKnows
<1> DEFINE done   == Committable(c, ok)
           failed == c.members \ done
           after  == commit(domains[c.domain], BytesIn(done, c.domain))
           exact  == BytesIn(failed, c.domain) \in 0..after.reserved
           f == [r \in Ids |-> CASE r \in done -> Materialized(r, ok)
                                 [] r \in failed -> FailedMember(r)
                                 [] OTHER -> residencies[r]]
<1>4. SoundMap(domains')
  <2>1. domains' = [domains EXCEPT ![c.domain] =
                 IF exact THEN cancel_reservation(after, BytesIn(failed, c.domain))
                 ELSE after]
    BY <1>1
  <2>2. Sound(after)
    BY <1>0, <1>1, <1>3, CommitFits
  <2>3. exact => Sound(cancel_reservation(after, BytesIn(failed, c.domain)))
    <3> HIDE DEF after, failed
    <3> QED BY <2>2, WithinCounters, CancelSound
  <2> HIDE DEF after, exact, failed
  <2> QED BY <1>0, <1>3, <2>1, <2>2, <2>3, SoundUpdate
<1>5. residencies' = f
  BY <1>1
<1>6. f \in [Ids -> Residency]
  <2>1. done \subseteq ok /\ ok \in SUBSET Ids
    BY <1>3 DEF Committable
  <2>2. \A r \in ok : Materialized(r, ok) \in Residency
    BY <1>0, <2>1, LoadedMembers
  <2>3. \A r \in Ids : FailedMember(r) \in Residency /\ residencies[r] \in Residency
    BY <1>0, WrittenResidencies, IdsOK
  <2> HIDE DEF done, failed
  <2> QED BY <2>1, <2>2, <2>3
<1>7. SetsOK' /\ DOMAIN sets' = DOMAIN sets
  <2>1. CASE sets' = sets
    BY <1>0, <1>2, <2>1 DEF SetsOK
  <2>2. CASE sets' = [sets EXCEPT ![c.set] =
                [sets[c.set] EXCEPT !.complete = recompute_complete(sets[c.set]), !.ready = FALSE]]
    <3>1. recompute_complete(sets[c.set]) \in BOOLEAN
      BY DEF recompute_complete
    <3> QED BY <1>0, <1>2, <1>3, <2>2, <3>1, SetMarked
  <2> QED BY <1>1, <2>1, <2>2
<1> HIDE DEF f
<1> QED BY <1>1, <1>2, <1>4, <1>5, <1>6, <1>7, LoadEnds

\* A load cut short by a throwing commit keeps the invariant.
LEMMA LoadCommitThrowsStep ==
  ASSUME Inv, NEW t \in Threads, LoadCommitThrows(t)
  PROVE  Inv'
<1> DEFINE c == call[t]
<1>0. ResidenciesOK /\ SetsOK /\ CallsOK /\ OthersOK /\ SoundMap(domains)
  BY SoundDomains DEF Inv, TypeOK
<1>1. PICK ok \in SUBSET c.members, r \in c.members :
        LET before == {q \in Committable(c, ok) : q < r}
        IN  /\ r \in ok /\ CommitsFit(c.domain, before)
            /\ domains' = [domains EXCEPT ![c.domain] =
                             commit(domains[c.domain], BytesIn(before, c.domain))]
            /\ residencies' = [q \in Ids |->
                 CASE q \in before \cup {r} -> Materialized(q, ok)
                   [] q \in c.members \ before /\ q < r -> FailedMember(q)
                   [] OTHER -> residencies[q]]
            /\ heap' = heap \cup BuffersFor(ok)
  BY DEF LoadCommitThrows, Committable
<1>2. c.op = "loading" /\ Return(t) /\ UNCHANGED <<sets, activeSet, modelGens, workers, mutex>>
  BY DEF LoadCommitThrows
<1>3. c.domain \in Domains /\ c.members \subseteq Ids
  BY <1>0, <1>2, LoadingKnows
<1> DEFINE before == {q \in Committable(c, ok) : q < r}
           f == [q \in Ids |-> CASE q \in before \cup {r} -> Materialized(q, ok)
                                 [] q \in c.members \ before /\ q < r -> FailedMember(q)
                                 [] OTHER -> residencies[q]]
<1>4. SoundMap(domains')
  BY <1>0, <1>1, <1>3, CommitFits
<1>5. residencies' = f
  BY <1>1
<1>6. f \in [Ids -> Residency]
  <2>1. before \cup {r} \subseteq ok /\ ok \in SUBSET Ids
    BY <1>1, <1>3 DEF Committable
  <2>2. \A q \in ok : Materialized(q, ok) \in Residency
    BY <1>0, <2>1, LoadedMembers
  <2>3. \A q \in Ids : FailedMember(q) \in Residency /\ residencies[q] \in Residency
    BY <1>0, WrittenResidencies, IdsOK
  <2> HIDE DEF before
  <2> QED BY <2>1, <2>2, <2>3
<1>7. SetsOK' /\ DOMAIN sets' = DOMAIN sets
  BY <1>0, <1>2 DEF SetsOK
<1> HIDE DEF f
<1> QED BY <1>1, <1>2, <1>4, <1>5, <1>6, <1>7, LoadEnds

-----------------------------------------------------------------------------
(* migrate and demote.                                                     *)

\* The first section of a move keeps the invariant, also when the transition throws.
LEMMA MoveBeginStep ==
  ASSUME Inv, NEW t \in Threads, NEW op \in {"migrating", "demoting"},
         NEW state \in LifecycleState, NEW r \in Ids, NEW dest \in Domains,
         NEW node \in {Node[d] : d \in Domains}, MoveBegin(t, op, state, r, dest, node)
  PROVE  Inv'
<1>0. ResidenciesOK /\ SetsOK /\ CallsOK /\ OthersOK /\ SoundMap(domains)
  BY SoundDomains DEF Inv, TypeOK
<1>1. PICK res \in Residency : res = residencies[r]
  BY <1>0, IdsOK
<1>2. res.bytes \in Bytes /\ res.domain \in Domains
  BY DEF Residency
<1>3. SoundMap(domains')
  <2>1. Sound(reserve(domains[dest], res.bytes))
    BY <1>0, <1>1, <1>2, SoundAt, ReserveSound DEF MoveBegin
  <2> QED BY <1>0, <1>1, <2>1, SoundUpdate DEF MoveBegin
<1>4. UNCHANGED <<sets, activeSet, modelGens, workers, mutex, heap>>
  BY DEF MoveBegin
<1>5. CASE UNCHANGED <<residencies, call>>
  <2>1. Ids' = Ids
    BY <1>5 DEF Ids
  <2>2. CallsOK'
    BY <1>0, <1>4, <1>5, <2>1, CallsStay
  <2> QED BY <1>0, <1>3, <1>4, <1>5, <2>2, SoundDomains
             DEF Inv, TypeOK, ResidenciesOK, SetsOK, OthersOK
<1>6. CASE /\ residencies' = [residencies EXCEPT ![r] = [residencies[r] EXCEPT !.lifecycle = state]]
           /\ call' = [call EXCEPT ![t] = Moving(op, r, dest, node)]
  <2>1. [res EXCEPT !.lifecycle = state] \in Residency
    BY DEF Residency
  <2>2. ResidenciesOK' /\ Ids' = Ids
    BY <1>0, <1>1, <1>6, <2>1, OneInPlace
  <2>3. PICK c \in CallRecord :
          /\ c = Moving(op, r, dest, node) /\ c.op = op /\ c.model \in Models
          /\ c.domain = dest /\ c.source \in Domains /\ c.residency = r /\ c.node = node
    <3> DEFINE c == [IdleCall EXCEPT !.op = op, !.model = res.model, !.domain = dest,
                       !.residency = r, !.bytes = res.bytes, !.source = res.domain,
                       !.handle = res.handle, !.node = node,
                       !.modelGeneration = res.modelGeneration]
    <3>1. c = Moving(op, r, dest, node)
      BY <1>1 DEF Moving
    <3>2. r \in Nat
      BY <1>0, IdsOK
    <3>3. c \in CallRecord
      BY <3>2, IdleIsCall DEF CallRecord, Residency
    <3>4. c.op = op /\ c.model = res.model /\ c.domain = dest /\ c.source = res.domain
          /\ c.residency = r /\ c.node = node
      BY IdleIsCall DEF CallRecord
    <3> QED BY <1>2, <3>1, <3>3, <3>4 DEF Residency
  <2>4. CallOK(c)'
    BY <2>2, <2>3 DEF CallOK
  <2>5. CallsOK'
    BY <1>0, <1>4, <1>6, <2>2, <2>3, <2>4, CallChanges
  <2> QED BY <1>0, <1>3, <1>4, <2>2, <2>5, SoundDomains DEF Inv, TypeOK, SetsOK, OthersOK
<1> QED BY <1>5, <1>6 DEF MoveBegin

\* migrate's and demote's first sections keep the invariant.
LEMMA MigrateBeginStep ==
  ASSUME Inv, NEW t \in Threads, NEW r \in Ids, NEW dest \in Domains,
         MigrateBegin(t, r, dest) \/ DemoteBegin(t, r, dest)
  PROVE  Inv'
<1>1. residencies[r].node \in {Node[d] : d \in Domains}
  BY IdsOK DEF Inv, TypeOK, Residency
<1>2. "Migrating" \in LifecycleState /\ "Demoting" \in LifecycleState
  BY DEF LifecycleState
<1>3. CASE MigrateBegin(t, r, dest)
  BY <1>1, <1>2, <1>3, MoveBeginStep DEF MigrateBegin
<1>4. CASE DemoteBegin(t, r, dest)
  BY <1>2, <1>4, MoveBeginStep DEF DemoteBegin
<1> QED BY <1>3, <1>4

\* What a move in flight knows.
LEMMA MovingKnows ==
  ASSUME Inv, NEW t \in Threads, call[t].op \in {"migrating", "demoting"}
  PROVE  /\ call[t].domain \in Domains /\ call[t].source \in Domains
         /\ call[t].bytes \in Bytes /\ call[t].residency \in Ids
         /\ call[t].model \in Models /\ call[t].node \in {Node[d] : d \in Domains}
BY DEF Inv, TypeOK, CallsOK, CallOK, CallRecord

\* Calling a move off keeps the invariant.
LEMMA MoveRevertsStep ==
  ASSUME Inv, NEW t \in Threads, call[t].op \in {"migrating", "demoting"},
         NEW made \in BOOLEAN, MoveReverts(t, made)
  PROVE  Inv'
<1> DEFINE c == call[t]
<1>0. ResidenciesOK /\ SetsOK /\ CallsOK /\ OthersOK /\ SoundMap(domains)
  BY SoundDomains DEF Inv, TypeOK
<1>1. c.domain \in Domains /\ c.bytes \in Bytes /\ c.residency \in Ids
  BY MovingKnows
<1>2. Return(t) /\ UNCHANGED <<sets, activeSet, modelGens, workers, mutex>>
  BY DEF MoveReverts
<1>3. SoundMap(domains') /\ ResidenciesOK' /\ Ids' = Ids
  <2>1. CASE can_cancel(domains[c.domain], c.bytes)
    <3>1. /\ domains' = [domains EXCEPT ![c.domain] = cancel_reservation(domains[c.domain], c.bytes)]
          /\ residencies' = [residencies EXCEPT ![c.residency] =
               [residencies[c.residency] EXCEPT !.lifecycle =
                  try_transition(residencies[c.residency].lifecycle, "Resident")]]
      BY <2>1 DEF MoveReverts
    <3>2. Sound(cancel_reservation(domains[c.domain], c.bytes))
      BY <1>0, <1>1, <2>1, SoundAt, CancelSound
    <3>3. SoundMap(domains')
      BY <1>0, <1>1, <3>1, <3>2, SoundUpdate
    <3>4. PICK res \in Residency : res = residencies[c.residency]
      BY <1>0, <1>1, IdsOK
    <3>5. [res EXCEPT !.lifecycle = try_transition(res.lifecycle, "Resident")] \in Residency
      BY DEF Residency, LifecycleState, try_transition
    <3> QED BY <1>0, <1>1, <3>1, <3>3, <3>4, <3>5, OneInPlace
  <2>2. CASE ~ can_cancel(domains[c.domain], c.bytes)
    <3>1. UNCHANGED <<domains, residencies>>
      BY <2>2 DEF MoveReverts
    <3> QED BY <1>0, <3>1 DEF ResidenciesOK, Ids
  <2> QED BY <2>1, <2>2
<1>4. CallsOK'
  BY <1>0, <1>2, <1>3, CallReturns
<1>5. OthersOK'
  <2>1. {NewBuffer} \in SUBSET Nat /\ IsFiniteSet({NewBuffer})
    BY <1>0, OneBuffer, FS_Singleton
  <2>2. heap' \subseteq heap \cup {NewBuffer}
    BY DEF MoveReverts
  <2> QED BY <1>0, <1>2, <2>1, <2>2, HeapGrows
<1> QED BY <1>0, <1>2, <1>3, <1>4, <1>5, SoundDomains DEF Inv, TypeOK, SetsOK

\* What migrate and demote write for the moved residency is a residency.
LEMMA MovedResidencies ==
  ASSUME Inv, NEW t \in Threads, call[t].op \in {"migrating", "demoting"}
  PROVE  Migrated(call[t]) \in Residency /\ Demoted(call[t]) \in Residency
<1>1. PICK res \in Residency, d \in Domains, n \in {Node[e] : e \in Domains}, h \in Nat :
        /\ res = residencies[call[t].residency] /\ d = call[t].domain
        /\ n = call[t].node /\ h = NewBuffer
  <2>1. residencies[call[t].residency] \in Residency
    BY MovingKnows, IdsOK DEF Inv, TypeOK
  <2>2. NewBuffer \in Nat
    BY OneBuffer DEF Inv, TypeOK
  <2> QED BY <2>1, <2>2, MovingKnows
<1>2. Migrated(call[t]) \in Residency
  <2>1. PICK l \in LifecycleState, q \in {"Ready", "NotReady"},
             a \in {"Authoritative", "Provisional"} :
          Migrated(call[t]) =
            [res EXCEPT !.domain = d, !.node = n, !.references = 0, !.pinned = FALSE,
                        !.lifecycle = l, !.validation = "Valid", !.readiness = q,
                        !.authority = a, !.handle = h]
    <3>1. CASE residency_class_is_execution_ready(Kind[d])
      <4>1. "Ready" \in LifecycleState
        BY DEF LifecycleState
      <4> QED BY <1>1, <3>1, <4>1 DEF Migrated
    <3>2. CASE ~ residency_class_is_execution_ready(Kind[d])
      <4>1. "Resident" \in LifecycleState
        BY DEF LifecycleState
      <4> QED BY <1>1, <3>2, <4>1 DEF Migrated
    <3> QED BY <3>1, <3>2
  <2>2. PICK x \in Residency :
          x = [res EXCEPT !.domain = d, !.node = n, !.references = 0, !.pinned = FALSE]
    BY DEF Residency
  <2>3. [x EXCEPT !.lifecycle = l, !.validation = "Valid", !.readiness = q,
                  !.authority = a, !.handle = h] \in Residency
    BY DEF Residency
  <2> QED BY <2>1, <2>2, <2>3
<1>3. Demoted(call[t]) \in Residency
  <2>1. PICK q \in {"Ready", "NotReady"}, a \in {"Authoritative", "Provisional"} :
          Demoted(call[t]) =
            [res EXCEPT !.domain = d, !.node = n, !.lifecycle = "Resident",
                        !.validation = "Valid", !.readiness = q, !.authority = a,
                        !.handle = h]
    <3>1. CASE residency_class_is_execution_ready(Kind[d])
      BY <1>1, <3>1 DEF Demoted
    <3>2. CASE ~ residency_class_is_execution_ready(Kind[d])
      BY <1>1, <3>2 DEF Demoted
    <3> QED BY <3>1, <3>2
  <2>2. "Resident" \in LifecycleState
    BY DEF LifecycleState
  <2>3. PICK x \in Residency :
          x = [res EXCEPT !.domain = d, !.node = n, !.lifecycle = "Resident"]
    BY <2>2 DEF Residency
  <2>4. [x EXCEPT !.validation = "Valid", !.readiness = q, !.authority = a, !.handle = h]
          \in Residency
    BY DEF Residency
  <2> QED BY <2>1, <2>3, <2>4
<1> QED BY <1>2, <1>3

\* migrate's last section keeps the invariant, also when release throws.
LEMMA MigrateCommitStep ==
  ASSUME Inv, NEW t \in Threads, MigrateCommit(t)
  PROVE  Inv'
<1> DEFINE c == call[t]
           committed == [domains EXCEPT ![c.domain] = commit(domains[c.domain], c.bytes)]
<1>0. ResidenciesOK /\ SetsOK /\ CallsOK /\ OthersOK /\ SoundMap(domains)
  BY SoundDomains DEF Inv, TypeOK
<1>1. /\ c.op = "migrating" /\ can_commit(domains[c.domain], c.bytes)
      /\ Return(t) /\ UNCHANGED <<modelGens, workers, mutex>>
  BY DEF MigrateCommit
<1>2. /\ c.domain \in Domains /\ c.source \in Domains /\ c.bytes \in Bytes
      /\ c.residency \in Ids /\ c.model \in Models
  BY <1>1, MovingKnows
<1>3. SoundMap(committed)
  <2>1. Sound(commit(domains[c.domain], c.bytes))
    BY <1>0, <1>1, <1>2, SoundAt, CommitSound
  <2> QED BY <1>0, <1>2, <2>1, SoundUpdate
<1>4. SoundMap(domains')
  <2>1. CASE domains' = committed
    BY <1>3, <2>1
  <2>2. CASE /\ can_release(committed[c.source], c.bytes)
             /\ domains' = [committed EXCEPT ![c.source] = release(committed[c.source], c.bytes)]
    <3>1. Sound(release(committed[c.source], c.bytes))
      BY <1>2, <1>3, <2>2, SoundAt, ReleaseSound
    <3> HIDE DEF committed
    <3> QED BY <1>2, <1>3, <2>2, <3>1, SoundUpdate
  <2> QED BY <2>1, <2>2 DEF MigrateCommit
<1>5. ResidenciesOK' /\ Ids \subseteq Ids'
  <2>1. Migrated(c) \in Residency
    BY <1>1, MovedResidencies
  <2>2. Retired(c.residency) \in Residency
    BY <1>0, <1>2, WrittenResidencies
  <2>3. residencies \in [Ids -> Residency]
    BY <1>0, LenProperties, IdsOK DEF ResidenciesOK, Ids
  <2>4. PICK f \in [Ids -> Residency] : residencies' = Append(f, Migrated(c))
    <3>1. [residencies EXCEPT ![c.residency] = Retired(c.residency)] \in [Ids -> Residency]
      BY <1>2, <2>2, <2>3
    <3> QED BY <2>3, <3>1 DEF MigrateCommit
  <2> QED BY <1>0, <2>1, <2>4, OneMore
<1>6. SetsOK' /\ DOMAIN sets' = DOMAIN sets
  <2>1. CASE UNCHANGED <<sets, activeSet>>
    BY <1>0, <2>1 DEF SetsOK
  <2>2. CASE /\ sets' = [s \in DOMAIN sets |->
                  [sets[s] EXCEPT !.members = Renamed(@, c.residency, Len(residencies) + 1),
                                  !.required = Renamed(@, c.residency, Len(residencies) + 1)]]
             /\ \/ UNCHANGED activeSet
                \/ \E s \in DOMAIN sets : activeSet' = [activeSet EXCEPT ![c.model] = s]
    <3>1. /\ DOMAIN sets = 1..Len(sets) /\ Len(sets) \in Nat
          /\ \A s \in DOMAIN sets : sets[s] \in SetRecord
      BY <1>0, LenProperties, ElementOfSeq DEF SetsOK
    <3>2. PICK dst \in Nat : dst = Len(residencies) + 1
      BY <1>0, IdsOK
    <3>3. ASSUME NEW s \in DOMAIN sets
          PROVE  [sets[s] EXCEPT !.members = Renamed(@, c.residency, dst),
                                 !.required = Renamed(@, c.residency, dst)] \in SetRecord
      <4>1. PICK x \in SetRecord : x = sets[s]
        BY <3>1
      <4>2. /\ Renamed(x.members, c.residency, dst) \in SUBSET Nat
            /\ Renamed(x.required, c.residency, dst) \in SUBSET Nat
        BY DEF Renamed, SetRecord
      <4>3. [x EXCEPT !.members = Renamed(x.members, c.residency, dst),
                      !.required = Renamed(x.required, c.residency, dst)] \in SetRecord
        BY <4>2 DEF SetRecord
      <4> QED BY <4>1, <4>3 DEF SetRecord
    <3>4. sets' \in [DOMAIN sets -> SetRecord]
      BY <2>2, <3>2, <3>3
    <3>5. activeSet' \in [Models -> 0..Len(sets)]
      <4>1. activeSet \in [Models -> 0..Len(sets)]
        BY <1>0 DEF SetsOK
      <4>2. \A s \in DOMAIN sets : s \in 0..Len(sets)
        BY <3>1
      <4>3. CASE UNCHANGED activeSet
        BY <4>1, <4>3
      <4>4. CASE \E s \in DOMAIN sets : activeSet' = [activeSet EXCEPT ![c.model] = s]
        BY <1>2, <4>1, <4>2, <4>4
      <4> QED BY <2>2, <4>3, <4>4
    <3> QED BY <1>0, <3>4, <3>5, SetsInPlace
  <2> QED BY <2>1, <2>2 DEF MigrateCommit
<1>7. CallsOK'
  BY <1>0, <1>1, <1>5, <1>6, CallReturns
<1>8. OthersOK'
  <2>1. {NewBuffer} \in SUBSET Nat /\ IsFiniteSet({NewBuffer})
    BY <1>0, OneBuffer, FS_Singleton
  <2>2. heap' \subseteq heap \cup {NewBuffer}
    BY DEF MigrateCommit
  <2> QED BY <1>0, <1>1, <2>1, <2>2, HeapGrows
<1> QED BY <1>4, <1>5, <1>6, <1>7, <1>8, SoundDomains DEF Inv, TypeOK

\* demote's last section keeps the invariant, also when release throws.
LEMMA DemoteCommitStep ==
  ASSUME Inv, NEW t \in Threads, DemoteCommit(t)
  PROVE  Inv'
<1> DEFINE c == call[t]
           released == [domains EXCEPT ![c.source] = release(domains[c.source], c.bytes)]
<1>0. ResidenciesOK /\ SetsOK /\ CallsOK /\ OthersOK /\ SoundMap(domains)
  BY SoundDomains DEF Inv, TypeOK
<1>1. /\ c.op = "demoting"
      /\ Return(t) /\ UNCHANGED <<sets, activeSet, modelGens, workers, mutex>>
  BY DEF DemoteCommit
<1>2. /\ c.domain \in Domains /\ c.source \in Domains /\ c.bytes \in Bytes
      /\ c.residency \in Ids
  BY <1>1, MovingKnows
<1>3. SoundMap(domains') /\ ResidenciesOK' /\ Ids' = Ids
  <2>1. CASE UNCHANGED <<domains, residencies>>
    BY <1>0, <2>1 DEF ResidenciesOK, Ids
  <2>2. CASE /\ can_release(domains[c.source], c.bytes)
             /\ can_commit(released[c.domain], c.bytes)
             /\ domains' = [released EXCEPT ![c.domain] = commit(released[c.domain], c.bytes)]
             /\ residencies' = [residencies EXCEPT ![c.residency] = Demoted(c)]
    <3>1. Sound(release(domains[c.source], c.bytes))
      BY <1>0, <1>2, <2>2, SoundAt, ReleaseSound
    <3>2. SoundMap(released)
      BY <1>0, <1>2, <3>1, SoundUpdate
    <3>3. Sound(commit(released[c.domain], c.bytes))
      BY <1>2, <2>2, <3>2, SoundAt, CommitSound
    <3>4. SoundMap(domains')
      <4> HIDE DEF released
      <4> QED BY <1>2, <2>2, <3>2, <3>3, SoundUpdate
    <3>5. Demoted(c) \in Residency
      BY <1>1, MovedResidencies
    <3> QED BY <1>0, <1>2, <2>2, <3>4, <3>5, OneInPlace
  <2> QED BY <2>1, <2>2 DEF DemoteCommit
<1>4. CallsOK'
  BY <1>0, <1>1, <1>3, CallReturns
<1>5. OthersOK'
  <2>1. {NewBuffer} \in SUBSET Nat /\ IsFiniteSet({NewBuffer})
    BY <1>0, OneBuffer, FS_Singleton
  <2>2. heap' \subseteq heap \cup {NewBuffer}
    BY DEF DemoteCommit
  <2> QED BY <1>0, <1>1, <2>1, <2>2, HeapGrows
<1> QED BY <1>0, <1>1, <1>3, <1>4, <1>5, SoundDomains DEF Inv, TypeOK, SetsOK

\* A move cut short by a throwing commit keeps the invariant.
LEMMA MoveCommitThrowsStep ==
  ASSUME Inv, NEW t \in Threads, MigrateCommitThrows(t) \/ DemoteCommitThrows(t)
  PROVE  Inv'
<1> DEFINE c == call[t]
<1>0. ResidenciesOK /\ SetsOK /\ CallsOK /\ OthersOK /\ SoundMap(domains)
  BY SoundDomains DEF Inv, TypeOK
<1>1. /\ c.op \in {"migrating", "demoting"} /\ residencies' = residencies
      /\ Return(t) /\ UNCHANGED <<sets, activeSet, modelGens, workers, mutex>>
  BY DEF MigrateCommitThrows, DemoteCommitThrows
<1>2. c.source \in Domains /\ c.bytes \in Bytes
  BY <1>1, MovingKnows
<1>3. SoundMap(domains')
  <2>1. CASE UNCHANGED domains
    BY <1>0, <2>1
  <2>2. CASE /\ can_release(domains[c.source], c.bytes)
             /\ domains' = [domains EXCEPT ![c.source] = release(domains[c.source], c.bytes)]
    <3>1. Sound(release(domains[c.source], c.bytes))
      BY <1>0, <1>2, <2>2, SoundAt, ReleaseSound
    <3> QED BY <1>0, <1>2, <2>2, <3>1, SoundUpdate
  <2> QED BY <2>1, <2>2 DEF MigrateCommitThrows, DemoteCommitThrows
<1>4. ResidenciesOK' /\ Ids' = Ids
  BY <1>0, <1>1 DEF ResidenciesOK, Ids
<1>5. CallsOK'
  BY <1>0, <1>1, <1>4, CallReturns
<1>6. OthersOK'
  <2>1. {NewBuffer} \in SUBSET Nat /\ IsFiniteSet({NewBuffer})
    BY <1>0, OneBuffer, FS_Singleton
  <2>2. heap' \subseteq heap \cup {NewBuffer}
    BY DEF MigrateCommitThrows, DemoteCommitThrows
  <2> QED BY <1>0, <1>1, <2>1, <2>2, HeapGrows
<1> QED BY <1>0, <1>1, <1>3, <1>4, <1>5, <1>6, SoundDomains DEF Inv, TypeOK, SetsOK

-----------------------------------------------------------------------------
(* The theorems.                                                           *)

\* The invariant holds of a fresh coordinator with its domains registered.
LEMMA InitInv == Init => Inv
<1> SUFFICES ASSUME Init PROVE Inv
  OBVIOUS
<1>1. SoundMap(domains)
  <2>1. 0 \in Bytes /\ \A d \in Domains : Governed[d] \in Bytes
    BY CoordinatorAssumption, WordAssumption DEF Bytes
  <2>2. \A d \in Domains : Governed[d] \in Nat
    BY <2>1, WordAssumption DEF Bytes
  <2> QED BY <2>1, <2>2 DEF Init, SoundMap, MemoryDomainRecord, verify_invariants
<1>2. ResidenciesOK /\ SetsOK
  <2>1. Len(<< >>) = 0
    BY EmptySeq
  <2> QED BY <2>1, EmptySeq DEF Init, ResidenciesOK, SetsOK
<1>3. CallsOK
  BY IdleIsCall DEF Init, CallsOK, CallOK, IdleCall
<1>4. OthersOK
  BY FS_EmptySet DEF Init, OthersOK
<1> QED BY <1>1, <1>2, <1>3, <1>4, SoundDomains DEF Inv, TypeOK

\* Every later section of a call in flight keeps the invariant.
LEMMA ContinueInv ==
  ASSUME Inv, NEW t \in Threads, Continue(t)
  PROVE  Inv'
<1>1. CASE LoadReuse(t) \/ LoadEvictGivesUp(t) \/ LoadRefused(t)
  BY <1>1, QuietEnd DEF LoadReuse, LoadEvictGivesUp, LoadRefused
<1>2. CASE LoadEvictRelocks(t)
  BY <1>2, RelockStep
<1>3. CASE LoadEvictRound(t)
  BY <1>3, EvictRoundStep
<1>4. CASE LoadBegin(t)
  BY <1>4, LoadBeginStep
<1>5. CASE LoadStale(t)
  BY <1>5, LoadStaleStep
<1>6. CASE LoadPublish(t)
  BY <1>6, LoadPublishStep
<1>7. CASE LoadPartial(t)
  BY <1>7, LoadPartialStep
<1>8. CASE LoadCommitThrows(t)
  BY <1>8, LoadCommitThrowsStep
<1>9. CASE MigrateStale(t) \/ MigrateFails(t) \/ DemoteFails(t)
  BY <1>9, MoveRevertsStep DEF MigrateStale, MigrateFails, DemoteFails
<1>10. CASE MigrateCommit(t)
  BY <1>10, MigrateCommitStep
<1>11. CASE DemoteCommit(t)
  BY <1>11, DemoteCommitStep
<1>12. CASE MigrateCommitThrows(t) \/ DemoteCommitThrows(t)
  BY <1>12, MoveCommitThrowsStep
<1> QED
  BY <1>1, <1>2, <1>3, <1>4, <1>5, <1>6, <1>7, <1>8, <1>9, <1>10, <1>11, <1>12 DEF Continue

\* Every operation of one critical section keeps the invariant.
LEMMA AtomicCallInv ==
  ASSUME Inv, AtomicCall
  PROVE  Inv'
<1>1. CASE \E r \in Ids, force \in BOOLEAN : Evict(r, force)
  BY <1>1, EvictStep
<1>2. CASE \E r \in Ids : Pin(r) \/ Unpin(r)
  BY <1>2, PinStep
<1>3. CASE \E r \in Ids : Invalidate(r)
  BY <1>3, InvalidateStep
<1>4. CASE \E r \in Ids : PublishReady(r)
  BY <1>4, PublishStep
<1>5. CASE \E r \in Ids : Reference(r)
  BY <1>5, ReferenceStep
<1>6. CASE \E m \in Models : RollModelGeneration(m)
  BY <1>6, RollStep
<1>7. CASE \E w \in Workers : RegisterWorker(w)
  BY <1>7, RegisterWorkerStep
<1>8. CASE \E w \in Workers : MarkWorkerLost(w)
  BY <1>8, WorkerLostStep
<1> QED BY <1>1, <1>2, <1>3, <1>4, <1>5, <1>6, <1>7, <1>8 DEF AtomicCall

\* Every step of the coordinator keeps the invariant.
LEMMA NextInv ==
  ASSUME Inv, [Next]_vars
  PROVE  Inv'
<1>1. CASE \E t \in Threads : Begin(t)
  BY <1>1, LoadAdmitStep, MigrateBeginStep DEF Begin
<1>2. CASE \E t \in Threads : Continue(t)
  BY <1>2, ContinueInv
<1>3. CASE AtomicCall
  BY <1>3, AtomicCallInv
<1>4. CASE UNCHANGED vars
  <2>1. Ids' = Ids
    BY <1>4 DEF vars, Ids
  <2>2. CallsOK'
    BY <1>4, <2>1, CallsStay DEF vars, Inv, TypeOK
  <2> QED BY <1>4, <2>2 DEF vars, Inv, TypeOK, DomainsOK, DomainsCoherent,
                            ResidenciesOK, SetsOK, OthersOK, verify_invariants
<1> QED BY <1>1, <1>2, <1>3, <1>4 DEF Next, CallersStop

\* The inductive invariant holds in every reachable state.
THEOREM InvAlways == Spec => []Inv
<1>1. Inv /\ [Next]_vars => Inv'
  BY NextInv
<1> QED BY <1>1, InitInv, PTL DEF Spec

\* Every variable keeps its type, and what a call in flight remembers still
\* exists when the call has the mutex again.
THEOREM TypeTheorem == Spec => []TypeOK
<1>1. Inv => TypeOK
  BY DEF Inv
<1> QED BY <1>1, InvAlways, PTL

\* MemoryDomain::verify_invariants holds of every domain of the coordinator,
\* for every number of threads, however their critical sections interleave and
\* wherever an exception ends one of them: no capacity is over-allocated and no
\* counter wraps.
THEOREM DomainsCoherentTheorem == Spec => []DomainsCoherent
<1>1. Inv => DomainsCoherent
  BY DEF Inv
<1> QED BY <1>1, InvAlways, PTL

-----------------------------------------------------------------------------
(* Saving and loading.                                                     *)

\* A set lists only residencies that exist: what validate_snapshot asks of it.
SetsKnown ==
  \A s \in DOMAIN sets : sets[s].members \cup sets[s].required \subseteq Ids

\* A snapshot of a coordinator that satisfies its invariant.
GoodSnapshot(s) ==
  /\ SoundMap(s.domains)
  /\ s.residencies \in Seq(Residency)
  /\ \A r \in DOMAIN s.residencies : s.residencies[r].handle = 0
  /\ s.sets \in Seq(SetRecord)
  /\ \A i \in DOMAIN s.sets :
       s.sets[i].members \cup s.sets[i].required \subseteq DOMAIN s.residencies

FilesGood == \A s \in {file, saving.snapshot} : IsSnapshot(s) => GoodSnapshot(s)

\* While the process is down there is nothing in memory that load_from keeps.
DownIsFresh ==
  ~ running =>
    /\ activeSet = [m \in Models |-> 0]
    /\ call = [t \in Threads |-> IdleCall]

SavingOK == saving = [stage |-> saving.stage, snapshot |-> saving.snapshot]

\* The inductive invariant: the coordinator's own, for the state in memory and
\* for the states on disk.
RecoveryInv == Inv /\ SetsKnown /\ FilesGood /\ DownIsFresh /\ SavingOK

-----------------------------------------------------------------------------
(* The sets of the coordinator.                                            *)

\* Sets that change in place and gain no member keep the residencies known.
LEMMA KnownInPlace ==
  ASSUME SetsKnown, Ids \subseteq Ids', DOMAIN sets' = DOMAIN sets,
         \A s \in DOMAIN sets : /\ sets'[s].members \subseteq sets[s].members
                                /\ sets'[s].required \subseteq sets[s].required
  PROVE  SetsKnown'
BY DEF SetsKnown

\* Taking a member out, or leaving the sets alone, adds no member.
LEMMA KnownAfterTaking ==
  ASSUME Inv, SetsKnown, Ids \subseteq Ids',
         sets' = sets \/ \E r \in Ids : sets' = WithoutMember(r)
  PROVE  SetsKnown'
<1>1. \A s \in DOMAIN sets : sets[s] \in SetRecord
  BY LenProperties, ElementOfSeq DEF Inv, TypeOK, SetsOK
<1>2. CASE sets' = sets
  BY <1>2, KnownInPlace
<1>3. ASSUME NEW r \in Ids, sets' = WithoutMember(r) PROVE SetsKnown'
  <2>1. DOMAIN sets' = DOMAIN sets
    BY <1>3 DEF WithoutMember
  <2>2. \A s \in DOMAIN sets : /\ sets'[s].members \subseteq sets[s].members
                               /\ sets'[s].required \subseteq sets[s].required
    BY <1>1, <1>3 DEF WithoutMember, SetRecord
  <2> QED BY <2>1, <2>2, KnownInPlace
<1> QED BY <1>2, <1>3

\* Changing only the flags of a set adds no member.
LEMMA KnownAfterMarking ==
  ASSUME Inv, SetsKnown, Ids \subseteq Ids', NEW i \in DOMAIN sets, NEW b1, NEW b2,
         sets' = [sets EXCEPT ![i].complete = b1, ![i].ready = b2]
  PROVE  SetsKnown'
<1>1. \A s \in DOMAIN sets : sets[s] \in SetRecord
  BY LenProperties, ElementOfSeq DEF Inv, TypeOK, SetsOK
<1>2. DOMAIN sets' = DOMAIN sets
  OBVIOUS
<1>3. \A s \in DOMAIN sets : /\ sets'[s].members = sets[s].members
                             /\ sets'[s].required = sets[s].required
  BY <1>1 DEF SetRecord
<1> QED BY <1>2, <1>3, KnownInPlace

\* The new set of a load names the residencies it declares.
LEMMA KnownAfterLoadBegin ==
  ASSUME Inv, SetsKnown, NEW t \in Threads, LoadBegin(t)
  PROVE  SetsKnown'
<1> DEFINE m == call[t].model
           bytes == ComponentBytes(m, call[t].adapters)
           added == [i \in 1..Len(bytes) |-> Declared(m, call[t].adapters, call[t].domain, bytes[i])]
           members == (Len(residencies) + 1)..(Len(residencies) + Len(bytes))
<1>1. /\ residencies' = residencies \o added
      /\ sets' = Append(sets, NewSet(m, members))
  BY DEF LoadBegin
<1>2. /\ m \in Models /\ call[t].adapters \in AdapterSets
      /\ residencies \in Seq(Residency) /\ sets \in Seq(SetRecord)
  BY DEF Inv, TypeOK, CallsOK, CallOK, CallRecord, ResidenciesOK, SetsOK, LoadBegin
<1>3. bytes \in Seq(Bytes) /\ Len(bytes) \in Nat
  BY <1>2, AggregateIsBytes, LenProperties
<1>4. added \in Seq({added[i] : i \in 1..Len(bytes)}) /\ Len(added) = Len(bytes)
  <2>1. added \in [1..Len(bytes) -> {added[i] : i \in 1..Len(bytes)}]
    OBVIOUS
  <2> HIDE DEF added
  <2> QED BY <1>3, <2>1, SequenceFromFunction
<1>5. Ids' = 1..(Len(residencies) + Len(bytes)) /\ Ids = 1..Len(residencies)
      /\ Len(residencies) \in Nat
  <2> DEFINE T == Residency \cup {added[i] : i \in 1..Len(bytes)}
  <2> HIDE DEF added, bytes
  <2>1. residencies \in Seq(T) /\ added \in Seq(T)
    BY <1>2, <1>4, SeqDef
  <2>2. residencies \o added \in Seq(T)
        /\ Len(residencies \o added) = Len(residencies) + Len(added)
    BY <2>1, ConcatProperties
  <2> QED BY <1>1, <1>2, <1>4, <2>2, LenProperties DEF Ids
<1>6. DOMAIN sets = 1..Len(sets) /\ Len(sets) \in Nat
  BY <1>2, LenProperties
<1>7. /\ NewSet(m, members).members = members
      /\ NewSet(m, members).required = members
  BY DEF NewSet
<1> HIDE DEF bytes, added, members
<1>8. DOMAIN sets' = 1..(Len(sets) + 1) /\ \A s \in 1..(Len(sets) + 1) :
        sets'[s] = IF s <= Len(sets) THEN sets[s] ELSE NewSet(m, members)
  BY <1>1, <1>2, <1>6
<1>9. members \subseteq Ids' /\ Ids \subseteq Ids'
  BY <1>3, <1>5 DEF members
<1> QED BY <1>6, <1>7, <1>8, <1>9 DEF SetsKnown

\* The destination of a move replaces its source in the sets.
LEMMA KnownAfterMigrate ==
  ASSUME Inv, SetsKnown, NEW t \in Threads, MigrateCommit(t)
  PROVE  SetsKnown'
<1> DEFINE c == call[t]
           dst == Len(residencies) + 1
           f == [residencies EXCEPT ![c.residency] = Retired(c.residency)]
<1>1. residencies \in Seq(Residency) /\ Len(residencies) \in Nat
      /\ Ids = 1..Len(residencies)
  BY IdsOK DEF Inv, TypeOK, ResidenciesOK
<1>2. c.residency \in Ids
  BY MovingKnows DEF MigrateCommit
<1>3. f \in Seq(Residency) /\ Len(f) = Len(residencies)
  <2>1. Retired(c.residency) \in Residency
    BY <1>2, WrittenResidencies DEF Inv, TypeOK
  <2> QED BY <1>1, <1>2, <2>1, SequenceFromFunction DEF Ids
<1>4. Ids' = 1..dst
  <2>1. residencies' = Append(f, Migrated(c)) \/ residencies' = Append(residencies, Migrated(c))
    BY DEF MigrateCommit
  <2> HIDE DEF f
  <2>2. ASSUME NEW g \in Seq(Residency), Len(g) = Len(residencies), residencies' = Append(g, Migrated(c))
        PROVE  Ids' = 1..dst
    BY <1>1, <2>2 DEF Ids
  <2> QED BY <1>1, <1>3, <2>1, <2>2
<1>5. \A s \in DOMAIN sets : sets[s] \in SetRecord
  BY LenProperties, ElementOfSeq DEF Inv, TypeOK, SetsOK
<1>6. CASE sets' = sets
  BY <1>1, <1>4, <1>6 DEF SetsKnown
<1>7. CASE sets' = [s \in DOMAIN sets |->
             [sets[s] EXCEPT !.members = Renamed(@, c.residency, dst),
                             !.required = Renamed(@, c.residency, dst)]]
  <2>1. \A s \in DOMAIN sets :
          /\ sets'[s].members = Renamed(sets[s].members, c.residency, dst)
          /\ sets'[s].required = Renamed(sets[s].required, c.residency, dst)
    <3> HIDE DEF c, dst
    <3> QED BY <1>5, <1>7 DEF SetRecord
  <2>2. ASSUME NEW S \in SUBSET Ids PROVE Renamed(S, c.residency, dst) \subseteq Ids'
    <3>1. dst \in Ids' /\ Ids \subseteq Ids'
      BY <1>1, <1>4
    <3> HIDE DEF dst, c
    <3> QED BY <3>1 DEF Renamed
  <2>3. DOMAIN sets' = DOMAIN sets
    BY <1>7
  <2> HIDE DEF dst, c
  <2> QED BY <2>1, <2>2, <2>3 DEF SetsKnown
<1> QED BY <1>6, <1>7 DEF MigrateCommit


\* No operation of the coordinator makes a set name a residency that is not there.
LEMMA SetsKnownStep ==
  ASSUME Inv, SetsKnown, Next
  PROVE  SetsKnown'
<1>1. ASSUME UNCHANGED <<residencies, sets>> PROVE SetsKnown'
  BY <1>1 DEF SetsKnown, Ids
<1>2. ASSUME NEW t \in Threads, Begin(t) PROVE SetsKnown'
  BY <1>2, KnownAfterTaking DEF Begin, LoadAdmit, MigrateBegin, DemoteBegin, MoveBegin, Ids
<1>3. ASSUME NEW t \in Threads, Continue(t) PROVE SetsKnown'
  <2>1. CASE LoadReuse(t) \/ LoadEvictRelocks(t) \/ LoadEvictGivesUp(t) \/ LoadRefused(t)
    BY <1>1, <2>1 DEF LoadReuse, LoadEvictRelocks, LoadEvictGivesUp, LoadRefused
  <2>2. CASE LoadEvictRound(t)
    <3>1. PICK r \in Ids : EvictEffects(r)
      BY <2>2 DEF LoadEvictRound, Victims
    <3> QED BY <3>1, KnownAfterTaking DEF EvictEffects, Ids
  <2>3. CASE LoadBegin(t)
    BY <2>3, KnownAfterLoadBegin
  <2>4. CASE LoadStale(t) \/ LoadCommitThrows(t)
    BY <2>4, KnownAfterTaking DEF LoadStale, LoadCommitThrows, Ids
  <2>5. CASE LoadPublish(t)
    <3>1. Ids' = Ids /\ call[t].set \in DOMAIN sets
      BY <2>5, LoadingKnows DEF LoadPublish, Ids, Inv, TypeOK
    <3>2. sets' = [sets EXCEPT ![call[t].set].complete = TRUE, ![call[t].set].ready = TRUE]
      BY <2>5 DEF LoadPublish
    <3> QED BY <3>1, <3>2, KnownAfterMarking
  <2>6. CASE LoadPartial(t)
    <3>1. Ids' = Ids /\ call[t].set \in DOMAIN sets
      BY <2>6, LoadingKnows DEF LoadPartial, Ids, Inv, TypeOK
    <3>2. \/ sets' = sets
          \/ sets' = [sets EXCEPT ![call[t].set].complete = recompute_complete(sets[call[t].set]),
                                  ![call[t].set].ready = FALSE]
      BY <2>6 DEF LoadPartial
    <3> QED BY <3>1, <3>2, KnownAfterTaking, KnownAfterMarking
  <2>7. CASE MigrateStale(t) \/ MigrateFails(t) \/ DemoteFails(t) \/ DemoteCommit(t)
    BY <2>7, KnownAfterTaking
       DEF MigrateStale, MigrateFails, DemoteFails, MoveReverts, DemoteCommit, Ids
  <2>8. CASE MigrateCommit(t)
    BY <2>8, KnownAfterMigrate
  <2>9. CASE MigrateCommitThrows(t) \/ DemoteCommitThrows(t)
    BY <1>1, <2>9 DEF MigrateCommitThrows, DemoteCommitThrows
  <2> QED BY <1>3, <2>1, <2>2, <2>3, <2>4, <2>5, <2>6, <2>7, <2>8, <2>9 DEF Continue
<1>4. CASE AtomicCall
  <2>1. ASSUME NEW r \in Ids, \E force \in BOOLEAN : Evict(r, force) PROVE SetsKnown'
    BY <2>1, KnownAfterTaking DEF Evict, EvictEffects, Ids
  <2>2. ASSUME NEW r \in Ids, Pin(r) \/ Unpin(r) \/ PublishReady(r) \/ Reference(r) PROVE SetsKnown'
    BY <2>2, KnownAfterTaking DEF Pin, Unpin, PublishReady, Reference, Ids
  <2>3. ASSUME NEW r \in Ids, Invalidate(r) PROVE SetsKnown'
    BY <2>3, KnownAfterTaking DEF Invalidate, Ids
  <2>4. ASSUME NEW m \in Models, RollModelGeneration(m) PROVE SetsKnown'
    <3>1. Ids' = Ids
      BY <2>4 DEF RollModelGeneration, Surrender, Ids
    <3>2. activeSet[m] # 0 => activeSet[m] \in DOMAIN sets
      BY LenProperties DEF Inv, TypeOK, SetsOK
    <3>3. CASE sets' = sets
      BY <3>1, <3>3, KnownAfterTaking
    <3>4. CASE /\ activeSet[m] # 0
               /\ sets' = [sets EXCEPT ![activeSet[m]].ready = FALSE,
                                       ![activeSet[m]].complete = FALSE]
      <4>1. \A s \in DOMAIN sets : sets[s] \in SetRecord
        BY LenProperties, ElementOfSeq DEF Inv, TypeOK, SetsOK
      <4>2. DOMAIN sets' = DOMAIN sets
        BY <3>4
      <4>3. \A s \in DOMAIN sets : /\ sets'[s].members = sets[s].members
                                   /\ sets'[s].required = sets[s].required
        BY <3>2, <3>4, <4>1 DEF SetRecord
      <4> QED BY <3>1, <4>2, <4>3, KnownInPlace
    <3> QED BY <2>4, <3>3, <3>4 DEF RollModelGeneration
  <2>5. ASSUME NEW w \in Workers, RegisterWorker(w) \/ MarkWorkerLost(w) PROVE SetsKnown'
    BY <2>5, KnownAfterTaking DEF RegisterWorker, MarkWorkerLost, Ids
  <2> QED BY <1>4, <2>1, <2>2, <2>3, <2>4, <2>5 DEF AtomicCall
<1>5. CASE CallersStop
  BY <1>1, <1>5 DEF CallersStop, vars
<1> QED BY <1>2, <1>3, <1>4, <1>5 DEF Next

-----------------------------------------------------------------------------
(* Decoding.                                                               *)

\* The domain d with other books.
Ledger(d, reserved, resident, pinned) ==
  [total |-> d.total, governed |-> d.governed, unavailable |-> d.unavailable,
   reserved |-> reserved, resident |-> resident, pinned |-> pinned]

\* A domain is determined by its capacity and its books.
LEMMA LedgerDetermines ==
  ASSUME NEW d \in MemoryDomainRecord
  PROVE  d = Ledger(d, d.reserved, d.resident, d.pinned)
BY DEF Ledger, MemoryDomainRecord

\* dec_domain accepts a coherent domain and rebuilds it as it was.
LEMMA DecodeIsExact ==
  ASSUME NEW d, Sound(d)
  PROVE  dec_domain_accepts(d) /\ dec_domain(d) = d
<1>1. /\ d \in MemoryDomainRecord /\ 0 \in Bytes
      /\ d.reserved \in Bytes /\ d.resident \in Bytes /\ d.pinned \in Bytes
      /\ d.governed \in Bytes
      /\ d.reserved + d.resident <= d.governed /\ d.pinned <= d.resident
  BY WordAssumption DEF Sound, MemoryDomainRecord, verify_invariants, Bytes
<1>0. /\ 0 \in Int /\ d.reserved \in Int /\ d.resident \in Int /\ d.pinned \in Int
      /\ d.reserved + d.resident \in Int
  BY <1>1, WordAssumption DEF Bytes
<1>2. \A v, s \in Bytes : v + s <= d.governed => Sound(Ledger(d, v, s, 0))
  BY <1>1, WordAssumption
     DEF Sound, Ledger, MemoryDomainRecord, verify_invariants, Bytes
<1>3. \A v, s \in Bytes, n \in Bytes :
        v + s + n <= d.governed => can_reserve(Ledger(d, v, s, 0), n)
  <2> TAKE v, s \in Bytes, n \in Bytes
  <2> HAVE v + s + n <= d.governed
  <2>1. Sound(Ledger(d, v, s, 0))
    BY <1>1, <1>2, WordAssumption DEF Bytes
  <2> QED BY <2>1, CanReserveIsExact DEF Ledger
<1>4. WithReserved(d) = Ledger(d, d.reserved, 0, 0)
  <2>1. can_reserve(Ledger(d, 0, 0, 0), d.reserved)
    BY <1>1, <1>3, WordAssumption DEF Bytes
  <2>2. reserve(Ledger(d, 0, 0, 0), d.reserved) = Ledger(d, d.reserved, 0, 0)
    <3>1. reserve(Ledger(d, 0, 0, 0), d.reserved) = Ledger(d, 0 + d.reserved, 0, 0)
      BY <1>0 DEF Ledger, reserve
    <3>2. 0 + d.reserved = d.reserved
      BY <1>0
    <3> QED BY <3>1, <3>2
  <2>3. WithReserved(d) = reserve(Ledger(d, 0, 0, 0), d.reserved)
    BY <2>1 DEF WithReserved, Ledger
  <2> QED BY <2>2, <2>3
<1>5. can_reserve(WithReserved(d), d.resident)
  BY <1>1, <1>3, <1>4, WordAssumption DEF Bytes
<1>6. reserve(WithReserved(d), d.resident) = Ledger(d, d.reserved + d.resident, 0, 0)
  <2>1. reserve(Ledger(d, d.reserved, 0, 0), d.resident) = Ledger(d, d.reserved + d.resident, 0, 0)
    BY <1>0 DEF Ledger, reserve
  <2> QED BY <1>4, <2>1
<1>7. can_commit(reserve(WithReserved(d), d.resident), d.resident)
  <2>1. Sound(Ledger(d, d.reserved + d.resident, 0, 0))
    BY <1>1, <1>2, WordAssumption DEF Bytes
  <2>2. d.resident \in 0..Ledger(d, d.reserved + d.resident, 0, 0).reserved
    BY <1>1, WordAssumption DEF Ledger, Bytes
  <2> QED BY <1>6, <2>1, <2>2, WithinCounters
<1>8. WithResident(d) = Ledger(d, d.reserved, d.resident, 0)
  <2>1. ASSUME NEW v \in Int, NEW n \in Int
        PROVE  commit(Ledger(d, v, 0, 0), n) = Ledger(d, v - n, 0 + n, 0)
    <3>1. [Ledger(d, v, 0, 0) EXCEPT !.reserved = @ - n] = Ledger(d, v - n, 0, 0)
      BY DEF Ledger
    <3>2. [Ledger(d, v - n, 0, 0) EXCEPT !.resident = @ + n] = Ledger(d, v - n, 0 + n, 0)
      BY DEF Ledger
    <3> QED BY <3>1, <3>2 DEF commit
  <2>2. ASSUME NEW v \in Int, v = d.reserved + d.resident
        PROVE  commit(Ledger(d, v, 0, 0), d.resident) = Ledger(d, d.reserved, d.resident, 0)
    <3>1. v - d.resident = d.reserved /\ 0 + d.resident = d.resident
      BY <1>0, <2>2
    <3>2. commit(Ledger(d, v, 0, 0), d.resident) = Ledger(d, v - d.resident, 0 + d.resident, 0)
      BY <1>0, <2>1
    <3> QED BY <3>1, <3>2
  <2> QED BY <1>0, <1>6, <2>2 DEF WithResident
<1>9. can_pin(WithResident(d), d.pinned)
  BY <1>1, <1>8, WordAssumption DEF can_pin, WordMinus, Ledger, Bytes
<1>10. dec_domain(d) = d
  <2>1. 0 + d.pinned = d.pinned
    BY <1>1, WordAssumption DEF Bytes
  <2>2. pin(Ledger(d, d.reserved, d.resident, 0), d.pinned)
          = Ledger(d, d.reserved, d.resident, 0 + d.pinned)
    BY <1>0 DEF Ledger, pin
  <2>3. d = Ledger(d, d.reserved, d.resident, d.pinned)
    BY <1>1, LedgerDetermines
  <2> QED BY <1>8, <2>1, <2>2, <2>3 DEF dec_domain
<1> QED BY <1>5, <1>7, <1>9, <1>10 DEF dec_domain_accepts

\* decode accepts every snapshot of a coordinator that satisfies its invariant.
LEMMA GoodIsAccepted ==
  ASSUME NEW s, GoodSnapshot(s)
  PROVE  decode_accepts(s)
<1>1. \A d \in Domains : dec_domain_accepts(s.domains[d]) /\ dec_domain(s.domains[d]) = s.domains[d]
  BY SoundAt, DecodeIsExact DEF GoodSnapshot
<1>2. \A d \in Domains : verify_invariants(s.domains[d])
  BY DEF GoodSnapshot, SoundMap
<1> QED BY <1>1, <1>2 DEF decode_accepts, validate_snapshot, GoodSnapshot

\* The copy that save_to takes is such a snapshot.
LEMMA SnapshotIsGood ==
  ASSUME Inv, SetsKnown
  PROVE  GoodSnapshot(Snapshot)
<1> DEFINE f == [r \in Ids |-> [residencies[r] EXCEPT !.handle = 0]]
<1>1. Ids = 1..Len(residencies) /\ Len(residencies) \in Nat
      /\ \A r \in Ids : residencies[r] \in Residency
  BY IdsOK DEF Inv, TypeOK
<1>2. f \in [Ids -> Residency] /\ \A r \in Ids : f[r].handle = 0
  BY <1>1, SMTT(30) DEF Residency
<1>3. f \in Seq(Residency) /\ DOMAIN f = Ids
  <2> HIDE DEF f
  <2> QED BY <1>1, <1>2, SequenceFromFunction
<1>4. SoundMap(domains) /\ sets \in Seq(SetRecord)
  BY SoundDomains DEF Inv, TypeOK, SetsOK
<1>5. /\ Snapshot.domains = domains /\ Snapshot.residencies = f /\ Snapshot.sets = sets
  BY DEF Snapshot
<1> HIDE DEF f
<1> QED BY <1>2, <1>3, <1>4, <1>5 DEF GoodSnapshot, SetsKnown

\* load_from makes a coordinator that satisfies the invariant.
LEMMA LoadFromStep ==
  ASSUME RecoveryInv, LoadFrom
  PROVE  Inv' /\ SetsKnown'
<1>1. GoodSnapshot(file)
  BY DEF RecoveryInv, FilesGood, LoadFrom
<1>2. (DomainsOK /\ DomainsCoherent)'
  <2>1. \A d \in Domains : dec_domain(file.domains[d]) = file.domains[d]
    BY <1>1, SoundAt, DecodeIsExact DEF GoodSnapshot
  <2>2. SoundMap([d \in Domains |-> dec_domain(file.domains[d])])
    BY <1>1, <2>1 DEF GoodSnapshot, SoundMap
  <2> QED BY <2>2, SoundDomains DEF LoadFrom
<1> DEFINE n == Len(file.residencies)
           k == Len(file.sets)
<1>3. /\ n \in Nat /\ DOMAIN file.residencies = 1..n
      /\ \A r \in 1..n : file.residencies[r] \in Residency
      /\ k \in Nat /\ DOMAIN file.sets = 1..k
      /\ \A i \in 1..k : file.sets[i] \in SetRecord
  BY <1>1, LenProperties, ElementOfSeq DEF GoodSnapshot
<1>4. \A r \in 1..n : Restored(file.residencies[r]) \in Residency
  <2>1. ASSUME NEW res \in Residency PROVE Restored(res) \in Residency
    <3>1. [res EXCEPT !.handle = 0] \in Residency
      BY DEF Residency
    <3>2. [res EXCEPT !.lifecycle = "Resident", !.readiness = "NotReady",
                      !.authority = "Provisional", !.handle = 0] \in Residency
      BY DEF Residency, LifecycleState
    <3> QED BY <3>1, <3>2 DEF Restored
  <2> QED BY <1>3, <2>1
<1>5. \A i \in 1..k : /\ RestoredSet(file.sets[i]) \in SetRecord
                      /\ RestoredSet(file.sets[i]).members = file.sets[i].members
                      /\ RestoredSet(file.sets[i]).required = file.sets[i].required
  BY <1>3 DEF RestoredSet, SetRecord
<1>6. /\ residencies' = [r \in 1..n |-> Restored(file.residencies[r])]
      /\ sets' = [i \in 1..k |-> RestoredSet(file.sets[i])]
      /\ UNCHANGED <<activeSet, modelGens, workers, call, mutex, heap>>
  BY <1>3 DEF LoadFrom
<1> HIDE DEF n, k
<1>7. residencies' \in Seq(Residency) /\ Ids' = 1..n
  BY <1>3, <1>4, <1>6, SequenceFromFunction DEF Ids
<1>8. sets' \in Seq(SetRecord) /\ Len(sets') = k
  BY <1>3, <1>5, <1>6, SequenceFromFunction
<1>9. activeSet' = [m \in Models |-> 0] /\ call' = [t \in Threads |-> IdleCall]
  BY <1>6 DEF RecoveryInv, DownIsFresh, LoadFrom
<1>10. SetsOK'
  BY <1>3, <1>8, <1>9 DEF SetsOK, SetRecord
<1>11. CallsOK'
  BY <1>9, IdleIsCall DEF CallsOK, CallOK, IdleCall, CallRecord
<1>12. ResidenciesOK'
  BY <1>7 DEF ResidenciesOK, Residency
<1>13. OthersOK'
  BY <1>6 DEF OthersOK, RecoveryInv, Inv, TypeOK
<1>14. SetsKnown'
  <2>1. \A i \in 1..k : file.sets[i].members \cup file.sets[i].required \subseteq 1..n
    BY <1>1, <1>3 DEF GoodSnapshot
  <2> QED BY <1>5, <1>6, <1>7, <2>1 DEF SetsKnown
<1> QED BY <1>2, <1>10, <1>11, <1>12, <1>13, <1>14 DEF Inv, TypeOK

-----------------------------------------------------------------------------
(* The theorems.                                                           *)

\* The files stay good while nothing but a good snapshot is written to them.
LEMMA FilesStay ==
  ASSUME FilesGood,
         \A s \in {file', saving'.snapshot} :
           s \in {file, saving.snapshot, Absent, Torn} \/ GoodSnapshot(s)
  PROVE  FilesGood'
<1>1. \A s : GoodSnapshot(s)' <=> GoodSnapshot(s)
  BY DEF GoodSnapshot, SoundMap, Residency, SetRecord
<1> QED BY <1>1 DEF FilesGood, IsSnapshot

\* The process that dies leaves a fresh coordinator and the file behind.
LEMMA CrashStep ==
  ASSUME RecoveryInv, Crash
  PROVE  RecoveryInv'
<1>1. Init'
  BY DEF Crash, Init
<1>2. Inv'
  <2>1. Init' => Inv'
    BY InitInv, PTL
  <2> QED BY <1>1, <2>1
<1>3. SetsKnown'
  BY <1>1, EmptySeq DEF Init, SetsKnown
<1>4. FilesGood' /\ SavingOK'
  <2>1. file' = file /\ saving' = NoSave /\ saving'.snapshot = Absent
    BY DEF Crash, NoSave
  <2>2. FilesGood'
    BY <2>1, FilesStay DEF RecoveryInv
  <2>3. SavingOK'
    BY <2>1 DEF SavingOK, NoSave
  <2> QED BY <2>2, <2>3
<1>5. DownIsFresh'
  BY <1>1 DEF Init, DownIsFresh
<1> QED BY <1>2, <1>3, <1>4, <1>5 DEF RecoveryInv

\* A step that leaves the coordinator alone keeps what is known of it.
LEMMA MemoryStays ==
  ASSUME RecoveryInv, UNCHANGED vars
  PROVE  Inv' /\ SetsKnown'
<1>1. Inv'
  BY NextInv DEF RecoveryInv
<1>2. SetsKnown'
  BY DEF RecoveryInv, SetsKnown, Ids, vars
<1> QED BY <1>1, <1>2

\* Every stage of save_to keeps the invariant.
LEMMA SaveStep ==
  ASSUME RecoveryInv, SaveBegins \/ SaveOpens \/ SaveRefused \/ SaveEnds
  PROVE  RecoveryInv'
<1>1. Inv' /\ SetsKnown'
  BY MemoryStays DEF SaveBegins, SaveOpens, SaveRefused, SaveEnds
<1>2. DownIsFresh'
  BY DEF RecoveryInv, DownIsFresh, SaveBegins, SaveOpens, SaveRefused, SaveEnds
<1>3. SavingOK'
  BY DEF RecoveryInv, SavingOK, SaveBegins, SaveOpens, SaveRefused, SaveEnds, NoSave
<1>4. FilesGood'
  <2>1. CASE SaveBegins
    <3>1. GoodSnapshot(Snapshot)
      BY SnapshotIsGood DEF RecoveryInv
    <3>2. saving'.snapshot = Snapshot /\ file' = file
      BY <2>1 DEF SaveBegins
    <3> QED BY <3>1, <3>2, FilesStay DEF RecoveryInv
  <2>2. CASE SaveOpens
    <3>1. saving'.snapshot = saving.snapshot /\ file' = Torn
      BY <2>2 DEF SaveOpens, RecoveryInv, SavingOK
    <3> QED BY <3>1, FilesStay DEF RecoveryInv
  <2>3. CASE SaveRefused \/ SaveEnds
    <3>1. saving'.snapshot = Absent /\ file' \in {file, saving.snapshot, Torn}
      BY <2>3 DEF SaveRefused, SaveEnds, NoSave
    <3> QED BY <3>1, FilesStay DEF RecoveryInv
  <2> QED BY <2>1, <2>2, <2>3
<1> QED BY <1>1, <1>2, <1>3, <1>4 DEF RecoveryInv

\* The inductive invariant holds in every reachable state.
THEOREM RecoveryInvAlways == RecoverySpec => []RecoveryInv
<1>1. RecoveryInit => RecoveryInv
  <2> SUFFICES ASSUME RecoveryInit PROVE RecoveryInv
    OBVIOUS
  <2>1. Inv
    BY InitInv DEF RecoveryInit
  <2>2. SetsKnown
    BY EmptySeq DEF RecoveryInit, Init, SetsKnown
  <2> QED BY <2>1, <2>2
          DEF RecoveryInit, RecoveryInv, FilesGood, IsSnapshot, DownIsFresh, SavingOK, NoSave
<1>2. RecoveryInv /\ [RecoveryNext]_recoveryVars => RecoveryInv'
  <2> SUFFICES ASSUME RecoveryInv, [RecoveryNext]_recoveryVars PROVE RecoveryInv'
    OBVIOUS
  <2>1. ASSUME UNCHANGED <<file, saving>> PROVE FilesGood' /\ SavingOK'
    <3>1. FilesGood'
      BY <2>1, FilesStay DEF RecoveryInv
    <3> QED BY <2>1, <3>1 DEF RecoveryInv, SavingOK
  <2>2. CASE CoordinatorStep
    <3>1. Inv' /\ SetsKnown'
      BY <2>2, NextInv, SetsKnownStep DEF CoordinatorStep, RecoveryInv
    <3>2. DownIsFresh'
      BY <2>2 DEF CoordinatorStep, DownIsFresh
    <3> QED BY <2>1, <2>2, <3>1, <3>2 DEF CoordinatorStep, RecoveryInv
  <2>3. CASE SaveBegins \/ SaveOpens \/ SaveRefused \/ SaveEnds
    BY <2>3, SaveStep
  <2>4. CASE Crash
    BY <2>4, CrashStep
  <2>5. CASE StartFresh
    BY <2>1, <2>5, MemoryStays DEF StartFresh, DownIsFresh, RecoveryInv
  <2>6. CASE LoadFrom
    BY <2>1, <2>6, LoadFromStep DEF LoadFrom, DownIsFresh, RecoveryInv
  <2>7. CASE UNCHANGED recoveryVars
    BY <2>1, <2>7, MemoryStays DEF recoveryVars, vars, DownIsFresh, RecoveryInv
  <2> QED BY <2>2, <2>3, <2>4, <2>5, <2>6, <2>7 DEF RecoveryNext
<1> QED BY <1>1, <1>2, PTL DEF RecoverySpec

\* Whatever save_to interrupted and however often the process died, every
\* snapshot passes all checks of decode: load_from never refuses a file that
\* was written completely.
THEOREM FileLoadsTheorem == RecoverySpec => []FileLoads
<1>1. RecoveryInv => FileLoads
  BY GoodIsAccepted DEF RecoveryInv, FilesGood, FileLoads
<1> QED BY <1>1, RecoveryInvAlways, PTL

\* The domains stay coherent across crashes and recoveries.
THEOREM RecoveredCoherentTheorem == RecoverySpec => []DomainsCoherent
<1>1. RecoveryInv => DomainsCoherent
  BY DEF RecoveryInv, Inv
<1> QED BY <1>1, RecoveryInvAlways, PTL
=============================================================================
