--------------------------- MODULE CapacityLemmas ---------------------------
(***************************************************************************)
(* What the operators that account for bytes do, for every word size and   *)
(* every finite set: the mutators of a memory domain, and sums.            *)
(***************************************************************************)
EXTENDS MemoryDomain, Functions, FiniteSetTheorems, WellFoundedInduction, TLAPS

\* A domain whose counters are words and whose accounting is coherent.
Sound(d) == d \in MemoryDomainRecord /\ verify_invariants(d)

\* In a coherent domain can_reserve is the plain inequality: the sum of the
\* counters has not wrapped, so its overflow guard and its subtraction agree
\* with arithmetic on the naturals.
LEMMA CanReserveIsExact ==
  ASSUME NEW d, Sound(d), NEW n \in Bytes
  PROVE  can_reserve(d, n) <=> d.reserved + d.resident + n <= d.governed
BY WordAssumption DEF Sound, MemoryDomainRecord, verify_invariants, Bytes,
                      can_reserve, WordPlus, WordMinus

\* reserve keeps a domain coherent.
LEMMA ReserveSound ==
  ASSUME NEW d, Sound(d), NEW n \in Bytes, can_reserve(d, n)
  PROVE  Sound(reserve(d, n))
BY CanReserveIsExact, WordAssumption
   DEF Sound, MemoryDomainRecord, verify_invariants, Bytes, reserve

\* commit keeps a domain coherent.
LEMMA CommitSound ==
  ASSUME NEW d, Sound(d), NEW n \in Bytes, can_commit(d, n)
  PROVE  Sound(commit(d, n))
<1>1. d.reserved - n \in Bytes /\ d.resident + n \in Bytes
  BY WordAssumption
     DEF Sound, MemoryDomainRecord, verify_invariants, Bytes, can_commit
<1>2. commit(d, n) \in MemoryDomainRecord
  BY <1>1 DEF Sound, MemoryDomainRecord, commit
<1>3. /\ commit(d, n).reserved = d.reserved - n
      /\ commit(d, n).resident = d.resident + n
      /\ commit(d, n).pinned = d.pinned
      /\ commit(d, n).governed = d.governed
      /\ commit(d, n).total = d.total
      /\ commit(d, n).unavailable = d.unavailable
  BY DEF Sound, MemoryDomainRecord, commit
<1>4. verify_invariants(commit(d, n))
  BY <1>3, WordAssumption
     DEF Sound, MemoryDomainRecord, Bytes, verify_invariants, can_commit
<1> QED BY <1>2, <1>4 DEF Sound

\* cancel_reservation keeps a domain coherent.
LEMMA CancelSound ==
  ASSUME NEW d, Sound(d), NEW n \in Bytes, can_cancel(d, n)
  PROVE  Sound(cancel_reservation(d, n))
BY WordAssumption
   DEF Sound, MemoryDomainRecord, verify_invariants, Bytes, cancel_reservation,
       can_cancel

\* release keeps a domain coherent: it is why pins are given up with the bytes.
LEMMA ReleaseSound ==
  ASSUME NEW d, Sound(d), NEW n \in Bytes, can_release(d, n)
  PROVE  Sound(release(d, n))
<1>1. /\ d.resident - n \in Bytes
      /\ n <= d.pinned => d.pinned - n \in Bytes
      /\ 0 \in Bytes
  BY WordAssumption
     DEF Sound, MemoryDomainRecord, verify_invariants, Bytes, can_release
<1>2. release(d, n) \in MemoryDomainRecord
  BY <1>1 DEF Sound, MemoryDomainRecord, release
<1>3. /\ release(d, n).resident = d.resident - n
      /\ release(d, n).pinned = IF n <= d.pinned THEN d.pinned - n ELSE 0
      /\ release(d, n).reserved = d.reserved
      /\ release(d, n).governed = d.governed
      /\ release(d, n).total = d.total
      /\ release(d, n).unavailable = d.unavailable
  BY DEF Sound, MemoryDomainRecord, release
<1>4. verify_invariants(release(d, n))
  BY <1>3, WordAssumption
     DEF Sound, MemoryDomainRecord, Bytes, verify_invariants, can_release
<1> QED BY <1>2, <1>4 DEF Sound

\* pin keeps a domain coherent.
LEMMA PinSound ==
  ASSUME NEW d, Sound(d), NEW n \in Bytes, can_pin(d, n)
  PROVE  Sound(pin(d, n))
BY WordAssumption
   DEF Sound, MemoryDomainRecord, verify_invariants, Bytes, pin, can_pin, WordMinus

\* unpin keeps a domain coherent.
LEMMA UnpinSound ==
  ASSUME NEW d, Sound(d), NEW n \in Bytes, can_unpin(d, n)
  PROVE  Sound(unpin(d, n))
BY WordAssumption
   DEF Sound, MemoryDomainRecord, verify_invariants, Bytes, unpin, can_unpin

\* set_unavailable keeps a domain coherent.
LEMMA SetUnavailableSound ==
  ASSUME NEW d, Sound(d), NEW n \in Bytes, n <= d.total
  PROVE  Sound(set_unavailable(d, n))
<1>1. d.total - n \in Bytes
  BY WordAssumption
     DEF Sound, MemoryDomainRecord, verify_invariants, Bytes
<1>2. set_unavailable(d, n) \in MemoryDomainRecord
  BY <1>1 DEF Sound, MemoryDomainRecord, set_unavailable
<1>3. /\ set_unavailable(d, n).unavailable = n
      /\ set_unavailable(d, n).governed = IF d.governed = 0 THEN d.total - n ELSE d.governed
      /\ set_unavailable(d, n).reserved = d.reserved
      /\ set_unavailable(d, n).resident = d.resident
      /\ set_unavailable(d, n).pinned = d.pinned
      /\ set_unavailable(d, n).total = d.total
  BY DEF Sound, MemoryDomainRecord, set_unavailable
<1>4. verify_invariants(set_unavailable(d, n))
  BY <1>3, WordAssumption
     DEF Sound, MemoryDomainRecord, Bytes, verify_invariants
<1> QED BY <1>2, <1>4 DEF Sound

\* In a coherent domain commit's capacity check passes for any part of the
\* outstanding reservation.
LEMMA HoldFits ==
  ASSUME NEW d, Sound(d), NEW n \in 0..d.reserved
  PROVE  can_resident(d, n)
BY WordAssumption
   DEF Sound, MemoryDomainRecord, verify_invariants, Bytes, can_resident, WordMinus

-----------------------------------------------------------------------------
(* Sums of bytes.                                                          *)

\* Induction over the naturals, stated with a set so that it can be cited.
LEMMA NaturalsBySteps ==
  ASSUME NEW N \in SUBSET Nat, 0 \in N, \A n \in N : n + 1 \in N
  PROVE  N = Nat
<1> DEFINE less == {ss \in Nat \X Nat : ss[1] < ss[2]}
           rest == Nat \ N
<1>1. IsWellFoundedOn(less, Nat)
  BY NatLessThanWellFounded DEF OpToRel
<1>2. SUFFICES ASSUME rest # {} PROVE FALSE
  OBVIOUS
<1>3. PICK x \in rest : \A y \in rest : ~ (<<y, x>> \in less)
  <2> HIDE DEF less
  <2> QED BY <1>1, <1>2, WFMin
<1>4. x - 1 \in Nat /\ <<x - 1, x>> \in less
  OBVIOUS
<1>5. x - 1 \in N
  BY <1>3, <1>4
<1> QED BY <1>3, <1>5

\* The member a sum takes first, and the recursive function on the subsets of S
\* that the library's sum is an application of.
Pick(s) == CHOOSE x \in s : TRUE
Summed(f, g, s) == IF s = {} THEN 0 ELSE f[Pick(s)] + g[s \ {Pick(s)}]
Sums(f, S, g) == g = [s \in SUBSET S |-> Summed(f, g, s)]
SumRec(f, S) == CHOOSE g : Sums(f, S, g)

\* The library's sum of f over S, as that recursive function.
LEMMA SumIsRec ==
  ASSUME NEW f, NEW S
  PROVE  SumFunctionOnSet(f, S) = SumRec(f, S)[S]
BY DEF SumFunctionOnSet, FoldFunctionOnSet, MapThenFoldSet, SumRec, Sums, Pick, Summed

\* The member picked is a member.
LEMMA PickIn ==
  ASSUME NEW s, s # {}
  PROVE  Pick(s) \in s
BY DEF Pick

\* A finite set without one of its members is one smaller.
LEMMA OneLess ==
  ASSUME NEW S, IsFiniteSet(S), NEW s \in SUBSET S, NEW x \in s, NEW n \in Nat,
         Cardinality(s) <= n + 1
  PROVE  s \ {x} \in SUBSET S /\ Cardinality(s \ {x}) <= n
<1>1. IsFiniteSet(s)
  BY FS_Subset
<1>2. Cardinality(s) \in Nat
  BY <1>1, FS_CardinalityType
<1>3. Cardinality(s \ {x}) = Cardinality(s) - 1
  BY <1>1, FS_RemoveElement
<1> QED BY <1>2, <1>3

\* A part with no member.
LEMMA NoneLeft ==
  ASSUME NEW S, IsFiniteSet(S), NEW s \in SUBSET S, Cardinality(s) <= 0
  PROVE  s = {}
<1>1. IsFiniteSet(s) /\ Cardinality(s) \in Nat
  BY FS_Subset, FS_CardinalityType
<1> QED BY <1>1, FS_EmptySet

\* The function that sums exists.
LEMMA SumExists ==
  ASSUME NEW S, IsFiniteSet(S), NEW f, \A x \in S : f[x] \in Nat
  PROVE  \E g : Sums(f, S, g)
<1> DEFINE Small(n) == {s \in SUBSET S : Cardinality(s) <= n}
           N == {n \in Nat : \E g \in [Small(n) -> Nat] :
                               \A s \in Small(n) : g[s] = Summed(f, g, s)}
<1>0. \A s \in SUBSET S : IsFiniteSet(s) /\ Cardinality(s) \in Nat
  BY FS_Subset, FS_CardinalityType
<1>1. 0 \in N
  <2>1. Small(0) = {{}}
    <3>1. \A s \in SUBSET S : Cardinality(s) <= 0 <=> s = {}
      BY <1>0, FS_EmptySet
    <3> QED BY <3>1
  <2> DEFINE g == [s \in Small(0) |-> 0]
  <2>2. g \in [Small(0) -> Nat] /\ \A s \in Small(0) : g[s] = Summed(f, g, s)
    BY <2>1 DEF Summed
  <2> QED BY <2>2
<1>2. ASSUME NEW n \in N PROVE n + 1 \in N
  <2>1. PICK g \in [Small(n) -> Nat] : \A s \in Small(n) : g[s] = Summed(f, g, s)
    OBVIOUS
  <2> DEFINE h == [s \in Small(n + 1) |-> IF s \in Small(n) THEN g[s] ELSE Summed(f, g, s)]
  <2>2. ASSUME NEW s \in Small(n + 1), s # {}
        PROVE  Pick(s) \in S /\ s \ {Pick(s)} \in Small(n)
    BY <2>2, PickIn, OneLess
  <2>3. Small(n) \subseteq Small(n + 1)
    BY <1>0
  <2>4. \A s \in Small(n + 1) : Summed(f, g, s) \in Nat
    BY <2>2 DEF Summed
  <2>5. h \in [Small(n + 1) -> Nat]
    BY <2>4
  <2>6. ASSUME NEW s \in Small(n + 1) PROVE h[s] = Summed(f, h, s)
    <3>1. h[s] = Summed(f, g, s)
      BY <2>1
    <3>2. s # {} => h[s \ {Pick(s)}] = g[s \ {Pick(s)}]
      BY <2>2, <2>3
    <3> QED BY <3>1, <3>2 DEF Summed
  <2> HIDE DEF h, Small
  <2> QED BY <2>5, <2>6
<1>3. N = Nat
  <2> HIDE DEF N
  <2>1. N \in SUBSET Nat
    BY DEF N
  <2> QED BY <1>1, <1>2, <2>1, NaturalsBySteps
<1>4. Cardinality(S) \in Nat /\ Small(Cardinality(S)) = SUBSET S
  BY <1>0, FS_Subset, FS_CardinalityType
<1>5. PICK g \in [SUBSET S -> Nat] : \A s \in SUBSET S : g[s] = Summed(f, g, s)
  <2>1. Cardinality(S) \in N
    BY <1>3, <1>4
  <2> QED BY <1>4, <2>1
<1>6. Sums(f, S, g)
  BY <1>5 DEF Sums
<1> QED BY <1>6

\* What the function is at every subset.
LEMMA SumRecIs ==
  ASSUME NEW S, IsFiniteSet(S), NEW f, \A x \in S : f[x] \in Nat
  PROVE  \A s \in SUBSET S : SumRec(f, S)[s] = Summed(f, SumRec(f, S), s)
<1>1. Sums(f, S, SumRec(f, S))
  BY SumExists DEF SumRec
<1>2. PICK g : g = SumRec(f, S)
  OBVIOUS
<1>3. g = [s \in SUBSET S |-> Summed(f, g, s)]
  BY <1>1, <1>2 DEF Sums
<1>4. \A s \in SUBSET S : g[s] = Summed(f, g, s)
  BY <1>3
<1> QED BY <1>2, <1>4

\* Sums are natural numbers, and the sum of a part does not depend on the whole.
LEMMA SumOfPart ==
  ASSUME NEW S, IsFiniteSet(S), NEW f, \A x \in S : f[x] \in Nat, NEW T \in SUBSET S
  PROVE  /\ SumRec(f, S)[T] \in Nat
         /\ SumRec(f, T)[T] = SumRec(f, S)[T]
<1> DEFINE G == SumRec(f, S)
           H == SumRec(f, T)
           N == {n \in Nat : \A s \in SUBSET T : Cardinality(s) <= n => G[s] \in Nat /\ G[s] = H[s]}
<1>0. /\ IsFiniteSet(T) /\ Cardinality(T) \in Nat
      /\ \A s \in SUBSET T : IsFiniteSet(s) /\ Cardinality(s) \in Nat
  BY FS_Subset, FS_CardinalityType
<1>1. \A s \in SUBSET T : G[s] = Summed(f, G, s) /\ H[s] = Summed(f, H, s)
  BY <1>0, SumRecIs
<1> HIDE DEF G, H
<1>2. 0 \in N
  <2>1. \A s \in SUBSET T : Cardinality(s) <= 0 => s = {}
    BY <1>0, NoneLeft
  <2>2. {} \in SUBSET T /\ Summed(f, G, {}) = 0 /\ Summed(f, H, {}) = 0
    BY DEF Summed
  <2>3. G[{}] = 0 /\ H[{}] = 0
    BY <1>1, <2>2
  <2> QED BY <2>1, <2>3
<1>3. ASSUME NEW n \in N PROVE n + 1 \in N
  <2>1. SUFFICES ASSUME NEW s \in SUBSET T, Cardinality(s) <= n + 1
                 PROVE  G[s] \in Nat /\ G[s] = H[s]
    OBVIOUS
  <2>2. CASE s = {}
    BY <1>1, <2>2 DEF Summed
  <2>3. CASE s # {}
    <3>1. Pick(s) \in s
      BY <2>3, PickIn
    <3>2. s \ {Pick(s)} \in SUBSET T /\ Cardinality(s \ {Pick(s)}) <= n
      BY <1>0, <2>1, <3>1, OneLess
    <3> QED BY <1>1, <2>3, <3>1, <3>2 DEF Summed
  <2> QED BY <2>2, <2>3
<1>4. N = Nat
  <2> HIDE DEF N
  <2>1. N \in SUBSET Nat
    BY DEF N
  <2> QED BY <1>2, <1>3, <2>1, NaturalsBySteps
<1>5. Cardinality(T) \in N
  BY <1>0, <1>4
<1>6. G[T] \in Nat /\ G[T] = H[T]
  BY <1>0, <1>5
<1> QED BY <1>6 DEF G, H

\* A sum is a natural number, nothing sums to zero, and a sum is its first
\* member and the rest.
LEMMA SumByPick ==
  ASSUME NEW S, IsFiniteSet(S), NEW f, \A x \in S : f[x] \in Nat
  PROVE  /\ SumFunctionOnSet(f, S) \in Nat
         /\ S = {} => SumFunctionOnSet(f, S) = 0
         /\ S # {} => SumFunctionOnSet(f, S) =
                        f[Pick(S)] + SumFunctionOnSet(f, S \ {Pick(S)})
<1>1. SumFunctionOnSet(f, S) = SumRec(f, S)[S] /\ SumRec(f, S)[S] \in Nat
  BY SumIsRec, SumOfPart
<1>2. SumRec(f, S)[S] = Summed(f, SumRec(f, S), S)
  BY SumRecIs
<1>3. CASE S = {}
  BY <1>1, <1>2, <1>3 DEF Summed
<1>4. CASE S # {}
  <2>1. S \ {Pick(S)} \in SUBSET S
    OBVIOUS
  <2>2. SumFunctionOnSet(f, S \ {Pick(S)}) = SumRec(f, S)[S \ {Pick(S)}]
    BY <2>1, SumIsRec, SumOfPart
  <2> QED BY <1>1, <1>2, <1>4, <2>2 DEF Summed
<1> QED BY <1>1, <1>3, <1>4

\* The sum of a set is any of its members and the sum of the others.
LEMMA SumWithout ==
  ASSUME NEW S, IsFiniteSet(S), NEW f, \A x \in S : f[x] \in Nat, NEW x \in S
  PROVE  SumFunctionOnSet(f, S) = f[x] + SumFunctionOnSet(f, S \ {x})
<1> DEFINE sum(T) == SumFunctionOnSet(f, T)
           N == {n \in Nat : \A s \in SUBSET S : Cardinality(s) <= n =>
                               \A y \in s : sum(s) = f[y] + sum(s \ {y})}
<1>0. \A s \in SUBSET S : IsFiniteSet(s) /\ Cardinality(s) \in Nat
  BY FS_Subset, FS_CardinalityType
<1>1. \A s \in SUBSET S : /\ sum(s) \in Nat
                          /\ s # {} => sum(s) = f[Pick(s)] + sum(s \ {Pick(s)})
  BY <1>0, SumByPick
<1> HIDE DEF sum
<1>2. 0 \in N
  <2>1. \A s \in SUBSET S : Cardinality(s) <= 0 => s = {}
    BY NoneLeft
  <2> QED BY <2>1
<1>3. ASSUME NEW n \in N PROVE n + 1 \in N
  <2>1. SUFFICES ASSUME NEW s \in SUBSET S, Cardinality(s) <= n + 1, NEW y \in s
                 PROVE  sum(s) = f[y] + sum(s \ {y})
    OBVIOUS
  <2>2. PICK p \in s : sum(s) = f[p] + sum(s \ {p})
    BY <1>1, PickIn
  <2>3. CASE y = p
    BY <2>2, <2>3
  <2>4. CASE y # p
    <3>1. /\ s \ {p} \in SUBSET S /\ Cardinality(s \ {p}) <= n
          /\ s \ {y} \in SUBSET S /\ Cardinality(s \ {y}) <= n
      BY <2>1, OneLess
    <3>2. sum(s \ {p}) = f[y] + sum((s \ {p}) \ {y})
      BY <2>4, <3>1
    <3>3. sum(s \ {y}) = f[p] + sum((s \ {y}) \ {p})
      BY <2>4, <3>1
    <3>4. PICK rest \in SUBSET S : rest = (s \ {p}) \ {y} /\ rest = (s \ {y}) \ {p}
      OBVIOUS
    <3>5. f[p] \in Nat /\ f[y] \in Nat /\ sum(rest) \in Nat
      BY <1>1
    <3> QED BY <2>2, <3>2, <3>3, <3>4, <3>5
  <2> QED BY <2>3, <2>4
<1>4. N = Nat
  <2> HIDE DEF N
  <2>1. N \in SUBSET Nat
    BY DEF N
  <2> QED BY <1>2, <1>3, <2>1, NaturalsBySteps
<1>5. Cardinality(S) \in N
  BY <1>0, <1>4
<1>6. sum(S) = f[x] + sum(S \ {x})
  BY <1>0, <1>5
<1> QED BY <1>6 DEF sum

\* Two functions that agree on a set have the same sum over it.
LEMMA SumAgrees ==
  ASSUME NEW S, IsFiniteSet(S), NEW f, NEW g, \A x \in S : f[x] \in Nat /\ g[x] = f[x]
  PROVE  SumFunctionOnSet(g, S) = SumFunctionOnSet(f, S)
<1> DEFINE N == {n \in Nat : \A s \in SUBSET S : Cardinality(s) <= n =>
                               SumFunctionOnSet(g, s) = SumFunctionOnSet(f, s)}
<1>0. \A s \in SUBSET S : IsFiniteSet(s) /\ Cardinality(s) \in Nat
  BY FS_Subset, FS_CardinalityType
<1>1. 0 \in N
  <2>1. \A s \in SUBSET S : Cardinality(s) <= 0 => s = {}
    BY NoneLeft
  <2>2. SumFunctionOnSet(g, {}) = 0 /\ SumFunctionOnSet(f, {}) = 0
    BY FS_EmptySet, SumByPick
  <2> QED BY <2>1, <2>2
<1>2. ASSUME NEW n \in N PROVE n + 1 \in N
  <2>1. SUFFICES ASSUME NEW s \in SUBSET S, Cardinality(s) <= n + 1
                 PROVE  SumFunctionOnSet(g, s) = SumFunctionOnSet(f, s)
    OBVIOUS
  <2>2. CASE s = {}
    BY <2>2, FS_EmptySet, SumByPick
  <2>3. CASE s # {}
    <3>1. PICK y : y \in s
      BY <2>3
    <3>2. s \ {y} \in SUBSET S /\ Cardinality(s \ {y}) <= n
      BY <2>1, <3>1, OneLess
    <3>3. SumFunctionOnSet(g, s \ {y}) = SumFunctionOnSet(f, s \ {y})
      BY <3>2
    <3>4. /\ SumFunctionOnSet(f, s) = f[y] + SumFunctionOnSet(f, s \ {y})
          /\ SumFunctionOnSet(g, s) = g[y] + SumFunctionOnSet(g, s \ {y})
      BY <1>0, <3>1, SumWithout
    <3> QED BY <3>1, <3>3, <3>4
  <2> QED BY <2>2, <2>3
<1>3. N = Nat
  <2> HIDE DEF N
  <2>1. N \in SUBSET Nat
    BY DEF N
  <2> QED BY <1>1, <1>2, <2>1, NaturalsBySteps
<1>4. Cardinality(S) \in N
  BY <1>0, <1>3
<1> QED BY <1>0, <1>4

\* The sum of two disjoint sets.
LEMMA SumOfUnion ==
  ASSUME NEW S, IsFiniteSet(S), NEW T, IsFiniteSet(T), S \cap T = {},
         NEW f, \A x \in S \cup T : f[x] \in Nat
  PROVE  SumFunctionOnSet(f, S \cup T) = SumFunctionOnSet(f, S) + SumFunctionOnSet(f, T)
<1> DEFINE sum(U) == SumFunctionOnSet(f, U)
           N == {n \in Nat : \A s \in SUBSET S : Cardinality(s) <= n =>
                               sum(s \cup T) = sum(s) + sum(T)}
<1>0. \A s \in SUBSET S : IsFiniteSet(s) /\ Cardinality(s) \in Nat /\ IsFiniteSet(s \cup T)
  BY FS_Subset, FS_CardinalityType, FS_Union
<1>1. sum(T) \in Nat /\ \A s \in SUBSET S : sum(s) \in Nat
  BY <1>0, SumByPick
<1>2. sum({}) = 0
  BY FS_EmptySet, SumByPick
<1>3. ASSUME NEW s \in SUBSET S, NEW y \in s
      PROVE  /\ sum(s) = f[y] + sum(s \ {y})
             /\ sum(s \cup T) = f[y] + sum((s \ {y}) \cup T)
  <2>1. sum(s) = f[y] + sum(s \ {y})
    BY <1>0, SumWithout
  <2>2. (s \cup T) \ {y} = (s \ {y}) \cup T
    OBVIOUS
  <2>3. sum(s \cup T) = f[y] + sum((s \cup T) \ {y})
    BY <1>0, SumWithout
  <2> HIDE DEF sum
  <2> QED BY <2>1, <2>2, <2>3
<1> HIDE DEF sum
<1>4. 0 \in N
  <2>1. \A s \in SUBSET S : Cardinality(s) <= 0 => s = {}
    BY NoneLeft
  <2>2. {} \cup T = T
    OBVIOUS
  <2> QED BY <1>1, <1>2, <2>1, <2>2
<1>5. ASSUME NEW n \in N PROVE n + 1 \in N
  <2>1. SUFFICES ASSUME NEW s \in SUBSET S, Cardinality(s) <= n + 1
                 PROVE  sum(s \cup T) = sum(s) + sum(T)
    OBVIOUS
  <2>2. CASE s = {}
    BY <1>1, <1>2, <2>2
  <2>3. CASE s # {}
    <3>1. PICK y : y \in s
      BY <2>3
    <3>2. s \ {y} \in SUBSET S /\ Cardinality(s \ {y}) <= n
      BY <2>1, <3>1, OneLess
    <3>3. sum((s \ {y}) \cup T) = sum(s \ {y}) + sum(T)
      BY <3>2
    <3>4. f[y] \in Nat /\ sum(s \ {y}) \in Nat
      BY <1>1, <3>1
    <3>5. sum(s) = f[y] + sum(s \ {y}) /\ sum(s \cup T) = f[y] + sum((s \ {y}) \cup T)
      BY <1>3, <3>1
    <3> QED BY <1>1, <3>3, <3>4, <3>5
  <2> QED BY <2>2, <2>3
<1>6. N = Nat
  <2> HIDE DEF N
  <2>1. N \in SUBSET Nat
    BY DEF N
  <2> QED BY <1>4, <1>5, <2>1, NaturalsBySteps
<1>7. Cardinality(S) \in N
  BY <1>0, <1>6
<1>8. sum(S \cup T) = sum(S) + sum(T)
  BY <1>0, <1>7
<1> QED BY <1>8 DEF sum

\* The sum of a part and of what is left.
LEMMA SumSplits ==
  ASSUME NEW S, IsFiniteSet(S), NEW T \in SUBSET S, NEW f, \A x \in S : f[x] \in Nat
  PROVE  /\ SumFunctionOnSet(f, T) \in Nat /\ SumFunctionOnSet(f, S \ T) \in Nat
         /\ SumFunctionOnSet(f, S) = SumFunctionOnSet(f, T) + SumFunctionOnSet(f, S \ T)
<1>1. IsFiniteSet(T) /\ IsFiniteSet(S \ T)
  BY FS_Subset
<1>2. T \cup (S \ T) = S /\ T \cap (S \ T) = {}
  OBVIOUS
<1>3. SumFunctionOnSet(f, T \cup (S \ T)) = SumFunctionOnSet(f, T) + SumFunctionOnSet(f, S \ T)
  BY <1>1, <1>2, SumOfUnion
<1>4. SumFunctionOnSet(f, T) \in Nat /\ SumFunctionOnSet(f, S \ T) \in Nat
  BY <1>1, SumByPick
<1> QED BY <1>2, <1>3, <1>4

\* The sum of one member, and of one member more.
LEMMA SumOfOne ==
  ASSUME NEW f, NEW x, f[x] \in Nat
  PROVE  SumFunctionOnSet(f, {x}) = f[x]
<1>1. IsFiniteSet({x}) /\ {x} \ {x} = {}
  BY FS_Singleton
<1>2. SumFunctionOnSet(f, {x}) = f[x] + SumFunctionOnSet(f, {x} \ {x})
  BY <1>1, SumWithout
<1>3. SumFunctionOnSet(f, {}) = 0
  BY FS_EmptySet, SumByPick
<1> QED BY <1>1, <1>2, <1>3

\* f has after position k what g has in its first n positions.
Shifted(f, g, k, n) == \A i \in 1..n : g[i] \in Nat /\ f[k + i] = g[i]

\* A sum over consecutive positions does not depend on where they begin.
LEMMA SumShifted ==
  ASSUME NEW k \in Nat, NEW n \in Nat, NEW f, NEW g, Shifted(f, g, k, n)
  PROVE  SumFunctionOnSet(f, (k + 1)..(k + n)) = SumFunctionOnSet(g, 1..n)
<1> USE DEF Shifted
<1> DEFINE N == {m \in Nat : m <= n => SumFunctionOnSet(f, (k + 1)..(k + m)) =
                                         SumFunctionOnSet(g, 1..m)}
<1>1. 0 \in N
  <2>1. (k + 1)..(k + 0) = {} /\ 1..0 = {}
    OBVIOUS
  <2>2. SumFunctionOnSet(g, {}) = 0 /\ SumFunctionOnSet(f, {}) = 0
    BY FS_EmptySet, SumByPick
  <2> QED BY <2>1, <2>2
<1>2. ASSUME NEW m \in N PROVE m + 1 \in N
  <2>1. SUFFICES ASSUME m + 1 <= n
                 PROVE  SumFunctionOnSet(f, (k + 1)..(k + (m + 1))) =
                          SumFunctionOnSet(g, 1..(m + 1))
    OBVIOUS
  <2>2. /\ ((k + 1)..(k + (m + 1))) \ {k + (m + 1)} = (k + 1)..(k + m)
        /\ (1..(m + 1)) \ {m + 1} = 1..m
    OBVIOUS
  <2>3. IsFiniteSet((k + 1)..(k + (m + 1))) /\ IsFiniteSet(1..(m + 1))
    BY FS_Interval
  <2>4. \A x \in (k + 1)..(k + (m + 1)) : f[x] \in Nat
    <3>1. ASSUME NEW x \in (k + 1)..(k + (m + 1)) PROVE f[x] \in Nat
      <4>1. x - k \in 1..n /\ k + (x - k) = x
        BY <2>1
      <4> QED BY <4>1
    <3> QED BY <3>1
  <2>5. \A x \in 1..(m + 1) : g[x] \in Nat
    BY <2>1
  <2>6. SumFunctionOnSet(f, (k + 1)..(k + (m + 1))) =
          f[k + (m + 1)] + SumFunctionOnSet(f, (k + 1)..(k + m))
    <3>1. PICK R, z : R = (k + 1)..(k + (m + 1)) /\ z = k + (m + 1)
      OBVIOUS
    <3>2. z \in R
      BY <3>1
    <3>3. IsFiniteSet(R) /\ \A x \in R : f[x] \in Nat
      BY <2>3, <2>4, <3>1
    <3>4. SumFunctionOnSet(f, R) = f[z] + SumFunctionOnSet(f, R \ {z})
      BY <3>2, <3>3, SumWithout
    <3>5. R \ {z} = (k + 1)..(k + m)
      BY <2>2, <3>1
    <3> QED BY <3>1, <3>4, <3>5
  <2>7. SumFunctionOnSet(g, 1..(m + 1)) = g[m + 1] + SumFunctionOnSet(g, 1..m)
    <3>1. m + 1 \in 1..(m + 1)
      OBVIOUS
    <3> QED BY <2>2, <2>3, <2>5, <3>1, SumWithout
  <2>8. f[k + (m + 1)] = g[m + 1]
    BY <2>1
  <2>9. SumFunctionOnSet(f, (k + 1)..(k + m)) = SumFunctionOnSet(g, 1..m)
    BY <2>1
  <2> QED BY <2>6, <2>7, <2>8, <2>9
<1>3. N = Nat
  <2> HIDE DEF N
  <2>1. N \in SUBSET Nat
    BY DEF N
  <2> QED BY <1>1, <1>2, <2>1, NaturalsBySteps
<1>4. n \in N
  BY <1>3
<1> QED BY <1>4

\* Two sums that differ in one member only.
LEMMA SumOneChanges ==
  ASSUME NEW A, IsFiniteSet(A), NEW f, \A x \in A : f[x] \in Nat,
         NEW B, NEW g, \A x \in B : g[x] \in Nat,
         NEW z, A \ {z} = B \ {z}, \A x \in A \ {z} : g[x] = f[x]
  PROVE  \E others \in Nat :
           /\ SumFunctionOnSet(f, A) = others + (IF z \in A THEN f[z] ELSE 0)
           /\ SumFunctionOnSet(g, B) = others + (IF z \in B THEN g[z] ELSE 0)
<1>1. IsFiniteSet(A \ {z})
  BY FS_Subset
<1>2. IsFiniteSet(B)
  <2>1. IsFiniteSet((A \ {z}) \cup {z})
    BY <1>1, FS_AddElement
  <2>2. B \in SUBSET ((A \ {z}) \cup {z})
    OBVIOUS
  <2> QED BY <2>1, <2>2, FS_Subset
<1> DEFINE others == SumFunctionOnSet(f, A \ {z})
<1>3. others \in Nat /\ SumFunctionOnSet(g, B \ {z}) = others
  <2>1. PICK C : C = A \ {z} /\ C = B \ {z}
    OBVIOUS
  <2>2. IsFiniteSet(C) /\ \A x \in C : f[x] \in Nat /\ g[x] = f[x]
    BY <1>1, <2>1
  <2>3. SumFunctionOnSet(f, C) \in Nat
    BY <2>2, SumByPick
  <2>4. SumFunctionOnSet(g, C) = SumFunctionOnSet(f, C)
    BY <2>2, SumAgrees
  <2> QED BY <2>1, <2>3, <2>4
<1>4. SumFunctionOnSet(f, A) = others + (IF z \in A THEN f[z] ELSE 0)
  <2>1. CASE z \in A
    <3>1. SumFunctionOnSet(f, A) = f[z] + SumFunctionOnSet(f, A \ {z})
      BY <2>1, SumWithout
    <3>2. f[z] \in Nat
      BY <2>1
    <3> QED BY <1>3, <2>1, <3>1, <3>2
  <2>2. CASE z \notin A
    <3>1. A \ {z} = A
      BY <2>2
    <3>2. SumFunctionOnSet(f, A) = others
      BY <3>1
    <3> QED BY <1>3, <2>2, <3>2
  <2> QED BY <2>1, <2>2
<1>5. SumFunctionOnSet(g, B) = others + (IF z \in B THEN g[z] ELSE 0)
  <2>1. CASE z \in B
    <3>1. SumFunctionOnSet(g, B) = g[z] + SumFunctionOnSet(g, B \ {z})
      BY <1>2, <2>1, SumWithout
    <3>2. g[z] \in Nat
      BY <2>1
    <3> QED BY <1>3, <2>1, <3>1, <3>2
  <2>2. CASE z \notin B
    <3>1. B \ {z} = B
      BY <2>2
    <3>2. SumFunctionOnSet(g, B) = others
      BY <1>3, <3>1
    <3> QED BY <1>3, <2>2, <3>2
  <2> QED BY <2>1, <2>2
<1> HIDE DEF others
<1> QED BY <1>3, <1>4, <1>5
=============================================================================
