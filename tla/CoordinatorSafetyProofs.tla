----------------------- MODULE CoordinatorSafetyProofs -----------------------
(***************************************************************************)
(* What the calls of several threads cannot do to each other, for every    *)
(* number of threads, models, domains and workers.  The residencies a call *)
(* works on while it has given up the mutex stay as it left them; end      *)
(* states are final; the reservations a call counts on are still there;    *)
(* where no move can be overtaken, reservations, resident bytes and        *)
(* buffers are exactly those of the calls and residencies there are; and   *)
(* resident bytes stay so when the process dies and recovers.              *)
(***************************************************************************)
EXTENDS CoordinatorProofs

\* The residencies a call has in hand while the backend moves their bytes: the
\* members of a load, the source of a migrate or demote.
InHand(c) ==
  CASE c.op = "loading" -> c.members
    [] c.op \in {"migrating", "demoting"} -> {c.residency}
    [] OTHER -> {}

\* The state the call left them in, and the domain they are in.
HandState(c) ==
  CASE c.op = "loading" -> "Declared"
    [] c.op = "migrating" -> "Migrating"
    [] OTHER -> "Demoting"

HandDomain(c) == IF c.op = "loading" THEN c.domain ELSE c.source

\* A residency is as the call that has it in hand remembers it.
AsLeft(res, c) ==
  /\ res.lifecycle = HandState(c) /\ res.domain = HandDomain(c)
  /\ res.model = c.model /\ res.modelGeneration = c.modelGeneration
  /\ c.op \in {"migrating", "demoting"} => res.bytes = c.bytes

\* No two calls have the same residency in hand, and what a call has in hand
\* is as it left it.
HandsApart ==
  \A t, u \in Threads : t # u => InHand(call[t]) \cap InHand(call[u]) = {}
HandsKept ==
  \A t \in Threads : \A r \in InHand(call[t]) : AsLeft(residencies[r], call[t])
Hands == HandsApart /\ HandsKept

\* A residency keeps its identity, and its place.
SameModel(new, old) ==
  /\ new.model = old.model /\ new.modelGeneration = old.modelGeneration
  /\ new.bytes = old.bytes
SamePlace(new, old) == new.lifecycle = old.lifecycle /\ new.domain = old.domain

\* What a step of thread t may do: every residency keeps its identity, and only
\* those that are Resident or Ready, or that t has in hand, change place.
Turn(t) ==
  /\ Ids \subseteq Ids' /\ Len(residencies) <= Len(residencies')
  /\ \A u \in Threads \ {t} : call'[u] = call[u]
  /\ \A r \in Ids :
       /\ SameModel(residencies'[r], residencies[r])
       /\ \/ SamePlace(residencies'[r], residencies[r])
          \/ residencies[r].lifecycle \in {"Resident", "Ready"}
          \/ r \in InHand(call[t])

-----------------------------------------------------------------------------
(* Hands.                                                                  *)

\* The three kinds of calls.
LEMMA HandCases ==
  ASSUME NEW c
  PROVE  /\ c.op = "loading" =>
              InHand(c) = c.members /\ HandState(c) = "Declared" /\ HandDomain(c) = c.domain
         /\ c.op = "migrating" =>
              /\ InHand(c) = {c.residency} /\ HandState(c) = "Migrating"
              /\ HandDomain(c) = c.source
         /\ c.op = "demoting" =>
              /\ InHand(c) = {c.residency} /\ HandState(c) = "Demoting"
              /\ HandDomain(c) = c.source
         /\ c.op \notin {"loading", "migrating", "demoting"} => InHand(c) = {}
         /\ HandState(c) \in {"Declared", "Migrating", "Demoting"}
BY DEF InHand, HandState, HandDomain

\* What is in hand exists.
LEMMA HandsExist ==
  ASSUME CallsOK, NEW t \in Threads
  PROVE  InHand(call[t]) \subseteq Ids
<1>1. CASE call[t].op = "loading"
  BY <1>1, HandCases DEF CallsOK, CallOK
<1>2. CASE call[t].op \in {"migrating", "demoting"}
  BY <1>2, HandCases DEF CallsOK, CallOK
<1>3. CASE call[t].op \notin {"loading", "migrating", "demoting"}
  BY <1>3, HandCases
<1> QED BY <1>1, <1>2, <1>3

\* A thread outside any call has nothing in hand.
LEMMA IdleHands == InHand(IdleCall) = {}
<1>1. IdleCall.op = "idle"
  BY DEF IdleCall
<1> QED BY <1>1, HandCases

\* What other threads have in hand keeps its place in a step of t.
LEMMA OthersHands ==
  ASSUME CallsOK, Hands, NEW t \in Threads, Turn(t), NEW u \in Threads \ {t},
         NEW r \in InHand(call[u])
  PROVE  /\ r \in Ids /\ call'[u] = call[u]
         /\ SameModel(residencies'[r], residencies[r])
         /\ SamePlace(residencies'[r], residencies[r])
<1>1. r \in Ids
  BY HandsExist
<1>2. r \notin InHand(call[t])
  BY DEF Hands, HandsApart
<1>3. residencies[r].lifecycle \notin {"Resident", "Ready"}
  <2>1. residencies[r].lifecycle = HandState(call[u])
    BY DEF Hands, HandsKept, AsLeft
  <2> QED BY <2>1, HandCases
<1> QED BY <1>1, <1>2, <1>3 DEF Turn

\* A step of t keeps the hands when what t then has in hand was in nobody
\* else's, and is as t remembers it.
LEMMA HandsStay ==
  ASSUME CallsOK, Hands, NEW t \in Threads, Turn(t),
         \A u \in Threads \ {t} : InHand(call'[t]) \cap InHand(call[u]) = {},
         \A r \in InHand(call'[t]) : AsLeft(residencies'[r], call'[t])
  PROVE  Hands'
<1>1. HandsApart'
  <2>1. \A u \in Threads \ {t} : call'[u] = call[u]
    BY DEF Turn
  <2> QED BY <2>1 DEF Hands, HandsApart
<1>2. HandsKept'
  <2>1. ASSUME NEW u \in Threads, NEW r \in InHand(call'[u])
        PROVE  AsLeft(residencies'[r], call'[u])
    <3>1. CASE u = t
      BY <3>1
    <3>2. CASE u # t
      <4>1. call'[u] = call[u] /\ r \in InHand(call[u])
        BY <3>2 DEF Turn
      <4>2. /\ SameModel(residencies'[r], residencies[r])
            /\ SamePlace(residencies'[r], residencies[r])
        BY <3>2, <4>1, OthersHands
      <4>3. AsLeft(residencies[r], call[u])
        BY <4>1 DEF Hands, HandsKept
      <4> QED BY <4>1, <4>2, <4>3 DEF AsLeft, SameModel, SamePlace
    <3> QED BY <3>1, <3>2
  <2> QED BY <2>1 DEF HandsKept
<1> QED BY <1>1, <1>2 DEF Hands

\* A step after which t has nothing in hand.
LEMMA HandsEmptied ==
  ASSUME CallsOK, Hands, NEW t \in Threads, Turn(t), InHand(call'[t]) = {}
  PROVE  Hands'
BY HandsStay

\* In a turn the end states are final and identities are kept.
LEMMA TurnIsTerminal ==
  ASSUME ResidenciesOK, Hands, NEW t \in Threads, Turn(t)
  PROVE  TerminalStep
<1>1. ASSUME NEW r \in Ids, residencies[r].lifecycle \in TerminalState
      PROVE  residencies'[r].lifecycle = residencies[r].lifecycle
  <2>1. residencies[r].lifecycle \notin {"Resident", "Ready"}
    BY <1>1 DEF TerminalState
  <2>2. r \notin InHand(call[t])
    <3>1. SUFFICES ASSUME r \in InHand(call[t]) PROVE FALSE
      OBVIOUS
    <3>2. residencies[r].lifecycle = HandState(call[t])
      BY <3>1 DEF Hands, HandsKept, AsLeft
    <3> QED BY <1>1, <3>2, HandCases DEF TerminalState
  <2> QED BY <2>1, <2>2 DEF Turn, SamePlace
<1> QED BY <1>1 DEF TerminalStep, Turn, SameModel

-----------------------------------------------------------------------------
(* Turns of the operations of one critical section.                        *)

\* What each operation writes for a residency keeps its identity and its
\* domain; the lifecycle it writes.
LEMMA Writes ==
  ASSUME ResidenciesOK, NEW r \in Ids
  PROVE  LET old == residencies[r]
             Kept(new) == SameModel(new, old) /\ new.domain = old.domain
         IN  /\ Kept(Evicted(r))
             /\ \A s : /\ Kept(Surrendered(r, s))
                       /\ Surrendered(r, s).lifecycle = try_transition(old.lifecycle, "Invalidated")
             /\ Kept(Published(old))
             /\ Kept(FailedMember(r))
             /\ Kept(Retired(r))
<1>1. PICK old \in Residency : old = residencies[r]
  BY IdsOK
<1>2. \A s : /\ Stale(old, s).model = old.model /\ Stale(old, s).bytes = old.bytes
             /\ Stale(old, s).modelGeneration = old.modelGeneration
             /\ Stale(old, s).domain = old.domain /\ Stale(old, s).lifecycle = old.lifecycle
             /\ DOMAIN Stale(old, s) = DOMAIN old
  BY DEF Stale, Residency
<1>3. "lifecycle" \in DOMAIN old /\ "handle" \in DOMAIN old
  BY DEF Residency
<1>4. \A s : /\ SameModel(Surrendered(r, s), old) /\ Surrendered(r, s).domain = old.domain
             /\ Surrendered(r, s).lifecycle = try_transition(old.lifecycle, "Invalidated")
  BY <1>1, <1>2, <1>3 DEF Surrendered, SameModel
<1>5. SameModel(Evicted(r), old) /\ Evicted(r).domain = old.domain
  BY <1>1, <1>2, <1>3 DEF Evicted, SameModel
<1>6. SameModel(Published(old), old) /\ Published(old).domain = old.domain
  BY DEF Published, SameModel, Residency
<1>7. SameModel(FailedMember(r), old) /\ FailedMember(r).domain = old.domain
  BY <1>1, <1>2, <1>3 DEF FailedMember, SameModel
<1>8. SameModel(Retired(r), old) /\ Retired(r).domain = old.domain
  BY <1>1, <1>2, <1>3 DEF Retired, SameModel
<1> QED BY <1>1, <1>4, <1>5, <1>6, <1>7, <1>8

\* A step of t that rewrites residencies in place is a turn of t.
LEMMA RewriteTurn ==
  ASSUME ResidenciesOK, NEW t \in Threads, NEW f \in [Ids -> Residency], residencies' = f,
         \A u \in Threads \ {t} : call'[u] = call[u],
         \A r \in Ids :
           /\ SameModel(f[r], residencies[r])
           /\ \/ SamePlace(f[r], residencies[r])
              \/ residencies[r].lifecycle \in {"Resident", "Ready"}
              \/ r \in InHand(call[t])
  PROVE  Turn(t)
<1>1. Ids' = Ids /\ Len(residencies') = Len(residencies) /\ Len(residencies) \in Nat
  BY InPlace, IdsOK
<1> QED BY <1>1 DEF Turn

\* A step of t that rewrites one residency is a turn of t.
LEMMA RewriteOneTurn ==
  ASSUME ResidenciesOK, NEW t \in Threads, NEW r \in Ids, NEW res \in Residency,
         residencies' = [residencies EXCEPT ![r] = res],
         \A u \in Threads \ {t} : call'[u] = call[u],
         SameModel(res, residencies[r]),
         \/ SamePlace(res, residencies[r])
         \/ residencies[r].lifecycle \in {"Resident", "Ready"}
         \/ r \in InHand(call[t])
  PROVE  Turn(t)
<1> DEFINE f == [residencies EXCEPT ![r] = res]
<1>1. residencies \in [Ids -> Residency]
  BY LenProperties, IdsOK DEF ResidenciesOK, Ids
<1>2. f \in [Ids -> Residency]
  BY <1>1
<1>3. ASSUME NEW q \in Ids
      PROVE  /\ SameModel(f[q], residencies[q])
             /\ \/ SamePlace(f[q], residencies[q])
                \/ residencies[q].lifecycle \in {"Resident", "Ready"}
                \/ q \in InHand(call[t])
  <2>1. CASE q = r
    BY <1>1, <2>1
  <2>2. CASE q # r
    BY <1>1, <2>2 DEF SameModel, SamePlace
  <2> QED BY <2>1, <2>2
<1> HIDE DEF f
<1>4. residencies' = f
  BY DEF f
<1> QED BY <1>2, <1>3, <1>4, RewriteTurn

\* A step of t that leaves the residencies alone is a turn of t.
LEMMA QuietTurn ==
  ASSUME ResidenciesOK, NEW t \in Threads, residencies' = residencies,
         \A u \in Threads \ {t} : call'[u] = call[u]
  PROVE  Turn(t)
<1>1. Len(residencies) \in Nat /\ Ids' = Ids
  BY IdsOK DEF Ids
<1> QED BY <1>1 DEF Turn, SameModel, SamePlace

\* Where a transition leads from: the states evict and the moves start in, and
\* the states that are not left for Invalidated.
LEMMA LifecycleEdges ==
  ASSUME NEW s
  PROVE  /\ \A to \in {"Evicting", "Migrating", "Demoting"} :
              lifecycle_transition_allowed(s, to) => s \in {"Resident", "Ready"}
         /\ s \notin {"Resident", "Ready"} => try_transition(s, "Invalidated") = s
         /\ try_transition("Migrating", "Retired") = "Retired"
         /\ try_transition("Declared", "Failed") = "Failed"
         /\ \A m \in {"Migrating", "Demoting"} : try_transition(m, "Resident") = "Resident"
         /\ \A r \in {"Resident", "Ready"} : try_transition(r, "Invalidated") = "Invalidated"
BY DEF lifecycle_transition_allowed, try_transition

\* evict, wherever it is called from.
LEMMA EvictTurn ==
  ASSUME Inv, NEW t \in Threads, NEW r \in Ids, NEW force, MayEvict(r, force),
         EvictEffects(r), \A u \in Threads \ {t} : call'[u] = call[u]
  PROVE  Turn(t)
<1>0. ResidenciesOK
  BY DEF Inv, TypeOK
<1>1. residencies[r].lifecycle \in {"Resident", "Ready"}
  BY LifecycleEdges DEF MayEvict
<1>2. PICK res \in Residency :
        /\ residencies' = [residencies EXCEPT ![r] = res]
        /\ SameModel(res, residencies[r])
  <2>1. CASE residencies' = [residencies EXCEPT ![r] = Evicted(r)]
    BY <1>0, <2>1, WrittenResidencies, Writes
  <2>2. CASE residencies' = [residencies EXCEPT ![r] = [residencies[r] EXCEPT !.lifecycle = "Evicted"]]
    <3>1. PICK old \in Residency : old = residencies[r]
      BY <1>0, IdsOK
    <3>2. /\ [old EXCEPT !.lifecycle = "Evicted"] \in Residency
          /\ SameModel([old EXCEPT !.lifecycle = "Evicted"], old)
      BY DEF Residency, LifecycleState, SameModel
    <3> QED BY <2>2, <3>1, <3>2
  <2> QED BY <2>1, <2>2 DEF EvictEffects
<1> QED BY <1>0, <1>1, <1>2, RewriteOneTurn

\* pin, unpin and a change of references.
LEMMA FlagTurn ==
  ASSUME Inv, NEW t \in Threads, NEW r \in Ids, Pin(r) \/ Unpin(r) \/ Reference(r)
  PROVE  Turn(t)
<1>0. ResidenciesOK /\ call' = call
  BY DEF Inv, TypeOK, Pin, Unpin, Reference
<1>1. PICK old \in Residency : old = residencies[r]
  BY <1>0, IdsOK
<1>2. PICK res \in Residency :
        /\ residencies' = [residencies EXCEPT ![r] = res]
        /\ SameModel(res, old) /\ SamePlace(res, old)
  <2>1. CASE Pin(r) \/ Unpin(r)
    <3>1. PICK b \in BOOLEAN :
            residencies' = [residencies EXCEPT ![r] = [residencies[r] EXCEPT !.pinned = b]]
      BY <2>1 DEF Pin, Unpin
    <3>2. /\ [old EXCEPT !.pinned = b] \in Residency
          /\ SameModel([old EXCEPT !.pinned = b], old)
          /\ SamePlace([old EXCEPT !.pinned = b], old)
      BY DEF Residency, SameModel, SamePlace
    <3> QED BY <1>1, <3>1, <3>2
  <2>2. CASE Reference(r)
    <3>1. PICK n \in {0, 1} :
            residencies' = [residencies EXCEPT ![r] = [residencies[r] EXCEPT !.references = n]]
      BY <2>2 DEF Reference
    <3>2. /\ [old EXCEPT !.references = n] \in Residency
          /\ SameModel([old EXCEPT !.references = n], old)
          /\ SamePlace([old EXCEPT !.references = n], old)
      BY DEF Residency, SameModel, SamePlace
    <3> QED BY <1>1, <3>1, <3>2
  <2> QED BY <2>1, <2>2
<1> QED BY <1>0, <1>1, <1>2, RewriteOneTurn

\* publish_ready.
LEMMA PublishTurn ==
  ASSUME Inv, NEW t \in Threads, NEW r \in Ids, PublishReady(r)
  PROVE  Turn(t)
<1>0. ResidenciesOK /\ call' = call /\ residencies[r].lifecycle = "Resident"
      /\ residencies' = [residencies EXCEPT ![r] = Published(residencies[r])]
  BY DEF Inv, TypeOK, PublishReady
<1>1. Published(residencies[r]) \in Residency /\ SameModel(Published(residencies[r]), residencies[r])
  BY <1>0, WrittenResidencies, Writes
<1> QED BY <1>0, <1>1, RewriteOneTurn

\* Giving up a residency: one that is moving keeps its place.
LEMMA SurrenderedTurn ==
  ASSUME ResidenciesOK, NEW r \in Ids, NEW s \in {"Stale", "Failed"}
  PROVE  /\ Surrendered(r, s) \in Residency
         /\ SameModel(Surrendered(r, s), residencies[r])
         /\ \/ SamePlace(Surrendered(r, s), residencies[r])
            \/ residencies[r].lifecycle \in {"Resident", "Ready"}
<1>1. Surrendered(r, s) \in Residency
  BY WrittenResidencies
<1>2. /\ SameModel(Surrendered(r, s), residencies[r])
      /\ Surrendered(r, s).domain = residencies[r].domain
      /\ Surrendered(r, s).lifecycle = try_transition(residencies[r].lifecycle, "Invalidated")
  BY Writes
<1> QED BY <1>1, <1>2, LifecycleEdges DEF SamePlace

\* invalidate.
LEMMA InvalidateTurn ==
  ASSUME Inv, NEW t \in Threads, NEW r \in Ids, Invalidate(r)
  PROVE  Turn(t)
<1>0. ResidenciesOK /\ call' = call
      /\ residencies' = [residencies EXCEPT ![r] = Surrendered(r, "Stale")]
  BY DEF Inv, TypeOK, Invalidate
<1> QED BY <1>0, SurrenderedTurn, RewriteOneTurn

\* The loop that gives up the residencies of P.
LEMMA SurrenderTurn ==
  ASSUME ResidenciesOK, NEW t \in Threads, call' = call, NEW P, NEW s \in {"Stale", "Failed"},
         residencies' = [r \in Ids |-> IF r \in P THEN Surrendered(r, s) ELSE residencies[r]]
  PROVE  Turn(t)
<1> DEFINE f == [r \in Ids |-> IF r \in P THEN Surrendered(r, s) ELSE residencies[r]]
<1>1. \A r \in Ids : residencies[r] \in Residency
  BY IdsOK
<1>2. f \in [Ids -> Residency]
  BY <1>1, SurrenderedTurn
<1>3. ASSUME NEW r \in Ids
      PROVE  /\ SameModel(f[r], residencies[r])
             /\ \/ SamePlace(f[r], residencies[r])
                \/ residencies[r].lifecycle \in {"Resident", "Ready"}
  <2>1. CASE r \in P
    BY <2>1, SurrenderedTurn
  <2>2. CASE r \notin P
    BY <2>2 DEF SameModel, SamePlace
  <2> QED BY <2>1, <2>2
<1> HIDE DEF f
<1>4. residencies' = f
  BY DEF f
<1> QED BY <1>2, <1>3, <1>4, RewriteTurn

\* Every operation of one critical section is a turn of the thread that makes
\* the call, which has nothing in hand before and after it.
LEMMA AtomicTurn ==
  ASSUME Inv, AtomicCall
  PROVE  \E t \in Threads : Turn(t) /\ Idle(t) /\ InHand(call[t]) = {} /\ call' = call
<1>0. ResidenciesOK
  BY DEF Inv, TypeOK
<1>1. PICK t \in Threads : Idle(t)
  BY DEF AtomicCall, Evict, Pin, Unpin, Invalidate, PublishReady, Reference,
         RollModelGeneration, RegisterWorker, MarkWorkerLost, Caller
<1>2. InHand(call[t]) = {}
  BY <1>1, HandCases DEF Idle
<1>3. call' = call
  BY DEF AtomicCall, Evict, Pin, Unpin, Invalidate, PublishReady, Reference,
         RollModelGeneration, RegisterWorker, MarkWorkerLost
<1>4. CASE \E r \in Ids, force \in BOOLEAN : Evict(r, force)
  BY <1>1, <1>2, <1>3, <1>4, EvictTurn DEF Evict
<1>5. CASE \E r \in Ids : Pin(r) \/ Unpin(r) \/ Reference(r)
  BY <1>1, <1>2, <1>3, <1>5, FlagTurn
<1>6. CASE \E r \in Ids : Invalidate(r)
  BY <1>1, <1>2, <1>3, <1>6, InvalidateTurn
<1>7. CASE \E r \in Ids : PublishReady(r)
  BY <1>1, <1>2, <1>3, <1>7, PublishTurn
<1>8. CASE \E m \in Models : RollModelGeneration(m)
  BY <1>0, <1>1, <1>2, <1>3, <1>8, SurrenderTurn DEF RollModelGeneration, Surrender
<1>9. CASE \E w \in Workers : RegisterWorker(w)
  BY <1>0, <1>1, <1>2, <1>3, <1>9, QuietTurn DEF RegisterWorker
<1>10. CASE \E w \in Workers : MarkWorkerLost(w)
  BY <1>0, <1>1, <1>2, <1>3, <1>10, SurrenderTurn DEF MarkWorkerLost
<1> QED BY <1>4, <1>5, <1>6, <1>7, <1>8, <1>9, <1>10 DEF AtomicCall

-----------------------------------------------------------------------------
(* Turns of load, migrate and demote.                                      *)

\* A call that returns has nothing in hand, and no other call changes.
LEMMA ReturnedHands ==
  ASSUME CallsOK, NEW t \in Threads, Return(t)
  PROVE  InHand(call'[t]) = {} /\ \A u \in Threads \ {t} : call'[u] = call[u]
<1>1. call'[t] = IdleCall /\ \A u \in Threads \ {t} : call'[u] = call[u]
  BY DEF CallsOK, Return
<1> QED BY <1>1, IdleHands

\* One round of load's eviction loop: the call goes on with nothing in hand.
LEMMA EvictRoundTurn ==
  ASSUME Inv, NEW t \in Threads, LoadEvictRound(t)
  PROVE  /\ Turn(t) /\ InHand(call'[t]) = {}
         /\ call'[t].op \in {"place", "evict", "idle"}
<1>0. ResidenciesOK /\ CallsOK /\ call[t].op = "evict"
  BY DEF Inv, TypeOK, LoadEvictRound
<1>1. call[t].model \in Models /\ call[t].adapters \in AdapterSets /\ call[t].evictions \in 0..7
  BY <1>0 DEF CallsOK, CallOK, CallRecord
<1>2. PICK r \in Ids :
        /\ MayEvict(r, FALSE) /\ EvictEffects(r)
        /\ \/ Return(t)
           \/ \E v \in Verdicts(ReleaseBytesOf(r), [residencies EXCEPT ![r] = Evicted(r)],
                                call[t].model, call[t].adapters) :
                call' = [call EXCEPT ![t] =
                   CASE v.op = "place" -> v
                     [] v.op = "evict" /\ call[t].evictions < 7 ->
                          [v EXCEPT !.evictions = call[t].evictions + 1]
                     [] OTHER -> IdleCall]
  BY DEF LoadEvictRound, Victims
<1>3. /\ call'[t].op \in {"place", "evict", "idle"}
      /\ \A u \in Threads \ {t} : call'[u] = call[u]
  <2>1. CASE Return(t)
    <3>1. call'[t] = IdleCall /\ \A u \in Threads \ {t} : call'[u] = call[u]
      BY <1>0, <2>1 DEF CallsOK, Return
    <3> QED BY <3>1 DEF IdleCall
  <2>2. CASE ~ Return(t)
    <3>1. PICK v \in Verdicts(ReleaseBytesOf(r), [residencies EXCEPT ![r] = Evicted(r)],
                              call[t].model, call[t].adapters) :
                call' = [call EXCEPT ![t] =
                   CASE v.op = "place" -> v
                     [] v.op = "evict" /\ call[t].evictions < 7 ->
                          [v EXCEPT !.evictions = call[t].evictions + 1]
                     [] OTHER -> IdleCall]
      BY <1>2, <2>2
    <3>2. DOMAIN [residencies EXCEPT ![r] = Evicted(r)] \subseteq Nat
      BY <1>0, IdsOK DEF Ids
    <3>3. v \in CallRecord /\ v.op \in {"reuse", "place", "evict"}
      BY <1>1, <3>1, <3>2, VerdictIsCall
    <3>4. PICK c : call' = [call EXCEPT ![t] = c] /\ c.op \in {"place", "evict", "idle"}
      <4>1. CASE v.op = "place"
        BY <3>1, <4>1
      <4>2. CASE v.op = "evict" /\ call[t].evictions < 7
        <5>1. [v EXCEPT !.evictions = call[t].evictions + 1].op = v.op
          BY <3>3 DEF CallRecord
        <5> QED BY <3>1, <4>2, <5>1
      <4>3. CASE v.op # "place" /\ ~ (v.op = "evict" /\ call[t].evictions < 7)
        <5>1. call' = [call EXCEPT ![t] = IdleCall]
          BY <3>1, <4>3
        <5>2. IdleCall.op = "idle"
          BY DEF IdleCall
        <5> QED BY <5>1, <5>2
      <4> QED BY <4>1, <4>2, <4>3
    <3>5. call'[t] = c /\ \A u \in Threads \ {t} : call'[u] = call[u]
      BY <1>0, <3>4 DEF CallsOK
    <3> QED BY <3>4, <3>5
  <2> QED BY <2>1, <2>2
<1> QED BY <1>2, <1>3, EvictTurn, HandCases

\* load's second section appends the members it declares, k after the n there
\* were; with room for the aggregate the call goes on with them in hand,
\* otherwise it returns.
Begun(t, m, a, d, bytes, n, k, c) ==
  /\ bytes = ComponentBytes(m, a) /\ n = Len(residencies) /\ k = Len(bytes)
  /\ Ids = 1..n /\ Ids' = 1..(n + k) /\ Len(residencies') = n + k
  /\ \A r \in Ids : residencies'[r] = residencies[r]
  /\ \A i \in 1..k : residencies'[n + i] = Declared(m, a, d, bytes[i])
  /\ call'[t] = c /\ \A u \in Threads \ {t} : call'[u] = call[u]
  /\ \/ c = IdleCall /\ domains' = domains
     \/ /\ c.op = "loading" /\ c.members = (n + 1)..(n + k) /\ c.domain = d
        /\ c.model = m /\ c.modelGeneration = modelGens[m]
        /\ c.bytes = AggregateBytes(m, a) /\ c.handle = 0
        /\ can_reserve(domains[d], c.bytes)
        /\ domains' = [domains EXCEPT ![d] = reserve(domains[d], c.bytes)]

\* load's second section.
LEMMA LoadBeginAdds ==
  ASSUME Inv, NEW t \in Threads, LoadBegin(t)
  PROVE  \E m \in Models, a \in AdapterSets, d \in Domains, bytes \in Seq(Bytes),
           n \in Nat, k \in Nat : \E c : Begun(t, m, a, d, bytes, n, k, c)
<1>0. ResidenciesOK /\ CallsOK /\ OthersOK
  BY DEF Inv, TypeOK
<1>1. PICK m \in Models, a \in AdapterSets, d \in Domains :
        m = call[t].model /\ a = call[t].adapters /\ d = call[t].domain
  BY <1>0 DEF LoadBegin, CallsOK, CallOK, CallRecord
<1>2. PICK bytes \in Seq(Bytes) : bytes = ComponentBytes(m, a)
  BY AggregateIsBytes
<1>3. PICK n \in Nat, k \in Nat : n = Len(residencies) /\ k = Len(bytes)
  BY <1>0, IdsOK, LenProperties
<1> DEFINE declared == [i \in 1..k |-> Declared(m, a, d, bytes[i])]
           members == (n + 1)..(n + k)
<1>4. residencies' = residencies \o declared
  BY <1>1, <1>2, <1>3 DEF LoadBegin
<1>5. \A i \in 1..k : Declared(m, a, d, bytes[i]) \in Residency
  <2>1. modelGens[m] \in Nat
    BY <1>0 DEF OthersOK
  <2>2. \A i \in 1..k : bytes[i] \in Bytes
    BY <1>3, ElementOfSeq
  <2> QED BY <2>1, <2>2 DEF Declared, Residency, LifecycleState
<1>6. declared \in Seq(Residency) /\ Len(declared) = k
  <2>1. declared \in [1..k -> Residency]
    BY <1>5
  <2> HIDE DEF declared
  <2> QED BY <2>1, SequenceFromFunction
<1>7. /\ residencies' \in Seq(Residency) /\ Len(residencies') = n + k
      /\ \A r \in 1..(n + k) : residencies'[r] =
           IF r <= n THEN residencies[r] ELSE declared[r - n]
  <2> HIDE DEF declared
  <2>1. PICK old \in Seq(Residency), new \in Seq(Residency) :
          old = residencies /\ new = declared /\ Len(old) = n /\ Len(new) = k
    BY <1>0, <1>3, <1>6 DEF ResidenciesOK
  <2>2. /\ old \o new \in Seq(Residency) /\ Len(old \o new) = n + k
        /\ \A r \in 1..(n + k) : (old \o new)[r] = IF r <= n THEN old[r] ELSE new[r - n]
    <3>1. /\ old \o new \in Seq(Residency) /\ Len(old \o new) = Len(old) + Len(new)
          /\ \A r \in 1..Len(old) + Len(new) : (old \o new)[r] =
               IF r <= Len(old) THEN old[r] ELSE new[r - Len(old)]
      BY ConcatProperties
    <3> QED BY <2>1, <3>1
  <2>3. residencies' = old \o new
    BY <1>4, <2>1
  <2> QED BY <2>1, <2>2, <2>3
<1>8. Ids = 1..n /\ Ids' = 1..(n + k)
  <2>1. DOMAIN residencies' = 1..(n + k)
    BY <1>7, LenProperties
  <2> QED BY <1>0, <1>3, <2>1, IdsOK DEF Ids
<1>9. \A r \in Ids : residencies'[r] = residencies[r]
  <2>1. \A r \in 1..n : r \in 1..(n + k) /\ r <= n
    OBVIOUS
  <2> HIDE DEF declared
  <2> QED BY <1>7, <1>8, <2>1
<1>10. \A i \in 1..k : residencies'[n + i] = Declared(m, a, d, bytes[i])
  <2>1. ASSUME NEW i \in 1..k PROVE residencies'[n + i] = declared[i]
    <3>1. n + i \in 1..(n + k) /\ ~ (n + i <= n) /\ (n + i) - n = i
      OBVIOUS
    <3> HIDE DEF declared
    <3> QED BY <1>7, <3>1
  <2> QED BY <2>1
<1>11. PICK c : /\ call' = [call EXCEPT ![t] = c]
                /\ \/ c = IdleCall /\ domains' = domains
                   \/ /\ c.op = "loading" /\ c.members = members /\ c.domain = d
                      /\ c.model = m /\ c.modelGeneration = modelGens[m]
                      /\ c.bytes = AggregateBytes(m, a) /\ c.handle = 0
                      /\ can_reserve(domains[d], c.bytes)
                      /\ domains' = [domains EXCEPT ![d] = reserve(domains[d], c.bytes)]
  <2>1. CASE ~ can_reserve(domains[d], AggregateBytes(m, a))
    BY <1>1, <2>1 DEF LoadBegin, Return
  <2>2. CASE can_reserve(domains[d], AggregateBytes(m, a))
    <3>1. /\ call' = [call EXCEPT ![t] =
               [IdleCall EXCEPT !.op = "loading", !.model = m, !.adapters = a,
                  !.domain = d, !.members = members, !.set = Len(sets) + 1,
                  !.bytes = AggregateBytes(m, a), !.modelGeneration = modelGens[m]]]
          /\ domains' = [domains EXCEPT ![d] = reserve(domains[d], AggregateBytes(m, a))]
      BY <1>1, <1>2, <1>3, <2>2 DEF LoadBegin
    <3>2. PICK c : c = [IdleCall EXCEPT !.op = "loading", !.model = m, !.adapters = a,
                          !.domain = d, !.members = members, !.set = Len(sets) + 1,
                          !.bytes = AggregateBytes(m, a), !.modelGeneration = modelGens[m]]
      OBVIOUS
    <3>3. IdleCall.handle = 0
      BY DEF IdleCall
    <3>4. /\ c.op = "loading" /\ c.members = members /\ c.domain = d
          /\ c.model = m /\ c.modelGeneration = modelGens[m]
          /\ c.bytes = AggregateBytes(m, a) /\ c.handle = 0
      <4> HIDE DEF members
      <4> QED BY <3>2, <3>3, IdleIsCall DEF CallRecord
    <3> HIDE DEF members
    <3> QED BY <2>2, <3>1, <3>2, <3>4
  <2> QED BY <2>1, <2>2
<1>12. call'[t] = c /\ \A u \in Threads \ {t} : call'[u] = call[u]
  BY <1>0, <1>11 DEF CallsOK
<1>13. Begun(t, m, a, d, bytes, n, k, c)
  <2> HIDE DEF declared
  <2> QED BY <1>2, <1>3, <1>7, <1>8, <1>9, <1>10, <1>11, <1>12 DEF Begun
<1> QED BY <1>13

\* load's second section takes members in hand that did not exist before.
LEMMA LoadBeginTurn ==
  ASSUME Inv, Hands, NEW t \in Threads, LoadBegin(t)
  PROVE  Turn(t) /\ Hands'
<1>0. ResidenciesOK /\ CallsOK
  BY DEF Inv, TypeOK
<1>begun. PICK m \in Models, a \in AdapterSets, d \in Domains, bytes \in Seq(Bytes),
               n \in Nat, k \in Nat : \E c : Begun(t, m, a, d, bytes, n, k, c)
  BY LoadBeginAdds
<1>1. PICK c : Begun(t, m, a, d, bytes, n, k, c)
  BY <1>begun
<1>2. /\ n = Len(residencies)
      /\ Ids = 1..n /\ Ids' = 1..(n + k) /\ Len(residencies') = n + k
      /\ \A r \in Ids : residencies'[r] = residencies[r]
      /\ \A i \in 1..k : residencies'[n + i] = Declared(m, a, d, bytes[i])
      /\ call'[t] = c /\ \A u \in Threads \ {t} : call'[u] = call[u]
      /\ \/ c = IdleCall
         \/ /\ c.op = "loading" /\ c.members = (n + 1)..(n + k) /\ c.domain = d
            /\ c.model = m /\ c.modelGeneration = modelGens[m]
  BY <1>1 DEF Begun
<1>3. Turn(t)
  BY <1>2 DEF Turn, SameModel, SamePlace
<1>4. CASE c = IdleCall
  BY <1>0, <1>2, <1>3, <1>4, IdleHands, HandsEmptied
<1>5. CASE /\ c.op = "loading" /\ c.members = (n + 1)..(n + k) /\ c.domain = d
           /\ c.model = m /\ c.modelGeneration = modelGens[m]
  <2>1. PICK members : members = (n + 1)..(n + k) /\ InHand(c) = members
    BY <1>5, HandCases
  <2>2. HandState(c) = "Declared" /\ HandDomain(c) = d /\ members \cap Ids = {}
    BY <1>2, <1>5, <2>1, HandCases
  <2>3. \A u \in Threads \ {t} : InHand(call'[t]) \cap InHand(call[u]) = {}
    BY <1>0, <1>2, <2>1, <2>2, HandsExist
  <2>4. ASSUME NEW r \in members PROVE AsLeft(residencies'[r], c)
    <3>1. r - n \in 1..k /\ n + (r - n) = r
      BY <2>1
    <3>2. residencies'[r] = Declared(m, a, d, bytes[r - n])
      BY <1>2, <3>1
    <3> QED BY <1>5, <2>2, <3>2 DEF AsLeft, Declared
  <2> QED BY <1>0, <1>2, <1>3, <2>1, <2>3, <2>4, HandsStay
<1> QED BY <1>2, <1>3, <1>4, <1>5

\* What a load writes for a member keeps its identity.
LEMMA MemberWrites ==
  ASSUME ResidenciesOK, NEW r \in Ids, NEW ok
  PROVE  /\ SameModel(Materialized(r, ok), residencies[r])
         /\ SameModel(Published(Materialized(r, ok)), residencies[r])
         /\ Materialized(r, ok).domain = residencies[r].domain
         /\ Published(Materialized(r, ok)).domain = residencies[r].domain
         /\ Materialized(r, ok).lifecycle = "Resident"
         /\ Published(Materialized(r, ok)).lifecycle = "Ready"
<1>1. PICK old \in Residency, h \in {NewBuffers(ok)[r]} : old = residencies[r] /\ h = NewBuffers(ok)[r]
  BY IdsOK
<1>2. PICK new : new = [old EXCEPT !.lifecycle = "Resident", !.validation = "Valid",
                          !.readiness = "Loading", !.authority = "Provisional", !.handle = h]
  OBVIOUS
<1>3. new = Materialized(r, ok)
  BY <1>1, <1>2 DEF Materialized
<1>4. /\ SameModel(new, old) /\ new.domain = old.domain /\ new.lifecycle = "Resident"
      /\ DOMAIN new = DOMAIN old
  BY <1>2 DEF SameModel, Residency
<1>5. /\ SameModel(Published(new), old) /\ Published(new).domain = old.domain
      /\ Published(new).lifecycle = "Ready"
  BY <1>4 DEF Published, SameModel, Residency
<1> QED BY <1>1, <1>3, <1>4, <1>5

\* The end of a load, whatever it writes for its members.
LEMMA LoadEndTurn ==
  ASSUME Inv, NEW t \in Threads, call[t].op = "loading", Return(t),
         NEW f \in [Ids -> Residency], residencies' = f,
         \A r \in Ids : /\ SameModel(f[r], residencies[r])
                        /\ r \notin call[t].members => f[r] = residencies[r]
  PROVE  Turn(t) /\ InHand(call'[t]) = {}
<1>0. ResidenciesOK /\ CallsOK
  BY DEF Inv, TypeOK
<1>1. InHand(call[t]) = call[t].members
  BY HandCases
<1>2. InHand(call'[t]) = {} /\ \A u \in Threads \ {t} : call'[u] = call[u]
  BY <1>0, ReturnedHands
<1> QED BY <1>0, <1>1, <1>2, RewriteTurn DEF SamePlace

\* load's last section, in each of its four outcomes.
LEMMA LoadTurn ==
  ASSUME Inv, NEW t \in Threads,
         LoadStale(t) \/ LoadPublish(t) \/ LoadPartial(t) \/ LoadCommitThrows(t)
  PROVE  Turn(t) /\ InHand(call'[t]) = {}
<1> DEFINE c == call[t]
<1>0. ResidenciesOK /\ CallsOK /\ OthersOK
  BY DEF Inv, TypeOK
<1>1. c.op = "loading" /\ Return(t)
  BY DEF LoadStale, LoadPublish, LoadPartial, LoadCommitThrows
<1>2. c.members \subseteq Ids
  BY <1>0, <1>1, LoadingKnows
<1>3. \A r \in Ids : /\ residencies[r] \in Residency /\ FailedMember(r) \in Residency
                     /\ SameModel(residencies[r], residencies[r])
                     /\ SameModel(FailedMember(r), residencies[r])
  BY <1>0, IdsOK, WrittenResidencies, Writes DEF SameModel
<1>4. ASSUME NEW ok \in SUBSET c.members, NEW r \in ok
      PROVE  /\ Materialized(r, ok) \in Residency /\ SameModel(Materialized(r, ok), residencies[r])
             /\ Published(Materialized(r, ok)) \in Residency
             /\ SameModel(Published(Materialized(r, ok)), residencies[r])
  BY <1>0, <1>2, LoadedMembers, MemberWrites
<1>5. CASE LoadStale(t)
  <2> DEFINE f == [r \in Ids |-> IF r \in c.members THEN FailedMember(r) ELSE residencies[r]]
  <2>1. CASE residencies' = f
    <3>1. /\ f \in [Ids -> Residency]
          /\ \A r \in Ids : /\ SameModel(f[r], residencies[r])
                            /\ r \notin c.members => f[r] = residencies[r]
      BY <1>3
    <3> HIDE DEF f
    <3> QED BY <1>1, <2>1, <3>1, LoadEndTurn
  <2>2. CASE residencies' = residencies
    BY <1>0, <1>1, <2>2, ReturnedHands, QuietTurn
  <2> QED BY <1>5, <2>1, <2>2 DEF LoadStale
<1>6. CASE LoadPublish(t)
  <2> DEFINE f == [r \in Ids |-> IF r \in c.members THEN Published(Materialized(r, c.members))
                                 ELSE residencies[r]]
  <2>1. residencies' = f
    BY <1>6 DEF LoadPublish
  <2>2. /\ f \in [Ids -> Residency]
        /\ \A r \in Ids : /\ SameModel(f[r], residencies[r])
                          /\ r \notin c.members => f[r] = residencies[r]
    BY <1>3, <1>4
  <2> HIDE DEF f
  <2> QED BY <1>1, <2>1, <2>2, LoadEndTurn
<1>7. CASE LoadPartial(t)
  <2>1. PICK ok \in SUBSET c.members :
          residencies' = [r \in Ids |->
            CASE r \in Committable(c, ok) -> Materialized(r, ok)
              [] r \in c.members \ Committable(c, ok) -> FailedMember(r)
              [] OTHER -> residencies[r]]
    BY <1>7 DEF LoadPartial
  <2>2. PICK done \in SUBSET ok : done = Committable(c, ok)
    BY DEF Committable
  <2> DEFINE f == [r \in Ids |-> CASE r \in done -> Materialized(r, ok)
                                   [] r \in c.members \ done -> FailedMember(r)
                                   [] OTHER -> residencies[r]]
  <2>3. residencies' = f
    BY <2>1, <2>2
  <2>4. ASSUME NEW r \in Ids
        PROVE  /\ f[r] \in Residency /\ SameModel(f[r], residencies[r])
               /\ r \notin c.members => f[r] = residencies[r]
    <3>1. CASE r \in done
      <4>1. r \in ok /\ f[r] = Materialized(r, ok)
        BY <3>1
      <4> QED BY <1>4, <4>1
    <3>2. CASE r \notin done /\ r \in c.members
      <4>1. f[r] = FailedMember(r)
        BY <3>2
      <4> QED BY <1>3, <3>2, <4>1
    <3>3. CASE r \notin c.members
      <4>1. f[r] = residencies[r]
        BY <3>3
      <4> QED BY <1>3, <4>1
    <3> QED BY <3>1, <3>2, <3>3
  <2>5. f \in [Ids -> Residency]
    BY <2>4
  <2> HIDE DEF f
  <2> QED BY <1>1, <2>3, <2>4, <2>5, LoadEndTurn
<1>8. CASE LoadCommitThrows(t)
  <2>1. PICK ok \in SUBSET c.members, r \in c.members :
          /\ r \in Committable(c, ok)
          /\ residencies' = [q \in Ids |->
               CASE q \in {p \in Committable(c, ok) : p < r} \cup {r} -> Materialized(q, ok)
                 [] q \in c.members \ {p \in Committable(c, ok) : p < r} /\ q < r -> FailedMember(q)
                 [] OTHER -> residencies[q]]
    BY <1>8 DEF LoadCommitThrows, Committable
  <2>2. PICK done \in SUBSET ok, failed \in SUBSET c.members :
          /\ done = {p \in Committable(c, ok) : p < r} \cup {r}
          /\ failed = {q \in c.members \ {p \in Committable(c, ok) : p < r} : q < r} \ done
    BY <2>1 DEF Committable
  <2> DEFINE f == [q \in Ids |-> CASE q \in done -> Materialized(q, ok)
                                   [] q \in failed -> FailedMember(q)
                                   [] OTHER -> residencies[q]]
  <2>3. residencies' = f
    BY <2>1, <2>2
  <2>4. ASSUME NEW q \in Ids
        PROVE  /\ f[q] \in Residency /\ SameModel(f[q], residencies[q])
               /\ q \notin c.members => f[q] = residencies[q]
    <3>1. CASE q \in done
      <4>1. q \in ok /\ f[q] = Materialized(q, ok)
        BY <2>2, <3>1
      <4> QED BY <1>4, <4>1
    <3>2. CASE q \notin done /\ q \in failed
      <4>1. f[q] = FailedMember(q)
        BY <3>2
      <4> QED BY <1>3, <3>2, <4>1
    <3>3. CASE q \notin done /\ q \notin failed
      <4>1. f[q] = residencies[q]
        BY <3>3
      <4> QED BY <1>3, <4>1
    <3> QED BY <3>1, <3>2, <3>3
  <2>5. f \in [Ids -> Residency]
    BY <2>4
  <2> HIDE DEF f
  <2> QED BY <1>1, <2>3, <2>4, <2>5, LoadEndTurn
<1> QED BY <1>5, <1>6, <1>7, <1>8

\* The first section of a move takes in hand a residency that was Resident or
\* Ready, so nobody else had it.
LEMMA MoveBeginTurn ==
  ASSUME Inv, Hands, NEW t \in Threads, NEW r \in Ids, NEW dest \in Domains,
         MigrateBegin(t, r, dest) \/ DemoteBegin(t, r, dest)
  PROVE  Turn(t) /\ Hands'
<1>0. ResidenciesOK /\ CallsOK
  BY DEF Inv, TypeOK
<1>1. PICK op \in {"migrating", "demoting"}, state \in {"Migrating", "Demoting"},
           node \in {residencies[r].node, Node[dest]} :
        /\ state = IF op = "migrating" THEN "Migrating" ELSE "Demoting"
        /\ MoveBegin(t, op, state, r, dest, node)
  BY DEF MigrateBegin, DemoteBegin
<1>2. InHand(call[t]) = {}
  BY <1>1, HandCases DEF MoveBegin, Idle
<1>3. CASE UNCHANGED <<residencies, call>>
  BY <1>0, <1>2, <1>3, QuietTurn, HandsEmptied
<1>4. CASE /\ lifecycle_transition_allowed(residencies[r].lifecycle, state)
           /\ residencies' = [residencies EXCEPT ![r] = [residencies[r] EXCEPT !.lifecycle = state]]
           /\ call' = [call EXCEPT ![t] = Moving(op, r, dest, node)]
  <2>1. residencies[r].lifecycle \in {"Resident", "Ready"}
    BY <1>1, <1>4, LifecycleEdges
  <2>2. PICK old \in Residency : old = residencies[r]
    BY <1>0, IdsOK
  <2>3. PICK new : new = [old EXCEPT !.lifecycle = state]
    OBVIOUS
  <2>4. /\ new \in Residency /\ SameModel(new, old)
        /\ new.lifecycle = state /\ new.domain = old.domain
    BY <1>1, <2>3 DEF Residency, LifecycleState, SameModel
  <2>5. call'[t] = Moving(op, r, dest, node) /\ \A u \in Threads \ {t} : call'[u] = call[u]
    BY <1>0, <1>4 DEF CallsOK
  <2>6. Turn(t)
    BY <1>0, <1>4, <2>1, <2>2, <2>3, <2>4, <2>5, RewriteOneTurn
  <2>7. PICK c : /\ c = call'[t] /\ c.op = op /\ c.residency = r /\ c.source = old.domain
                 /\ c.model = old.model /\ c.modelGeneration = old.modelGeneration
                 /\ c.bytes = old.bytes
    <3>1. PICK c : c = [IdleCall EXCEPT !.op = op, !.model = old.model, !.domain = dest,
                          !.residency = r, !.bytes = old.bytes, !.source = old.domain,
                          !.handle = old.handle, !.node = node,
                          !.modelGeneration = old.modelGeneration]
      OBVIOUS
    <3>2. c = call'[t]
      BY <2>2, <2>5, <3>1 DEF Moving
    <3>3. /\ c.op = op /\ c.residency = r /\ c.source = old.domain
          /\ c.model = old.model /\ c.modelGeneration = old.modelGeneration
          /\ c.bytes = old.bytes
      BY <3>1, IdleIsCall DEF CallRecord
    <3> QED BY <3>2, <3>3
  <2>8. InHand(c) = {r} /\ HandState(c) = state /\ HandDomain(c) = old.domain
    BY <1>1, <2>7, HandCases
  <2>9. ASSUME NEW u \in Threads \ {t} PROVE InHand(call'[t]) \cap InHand(call[u]) = {}
    <3>1. SUFFICES ASSUME r \in InHand(call[u]) PROVE FALSE
      BY <2>7, <2>8
    <3>2. residencies[r].lifecycle = HandState(call[u])
      BY <3>1 DEF Hands, HandsKept, AsLeft
    <3> QED BY <2>1, <3>2, HandCases
  <2>10. residencies'[r] = new
    <3>1. residencies \in [Ids -> Residency]
      BY <1>0, LenProperties, IdsOK DEF ResidenciesOK, Ids
    <3> QED BY <1>4, <2>2, <2>3, <3>1
  <2>11. \A q \in InHand(call'[t]) : AsLeft(residencies'[q], call'[t])
    BY <2>4, <2>7, <2>8, <2>10 DEF AsLeft, SameModel
  <2> QED BY <1>0, <2>6, <2>9, <2>11, HandsStay
<1> QED BY <1>1, <1>3, <1>4 DEF MoveBegin

\* What a move writes for the residency it has in hand keeps its identity.
LEMMA MoveWrites ==
  ASSUME Inv, NEW t \in Threads, call[t].op \in {"migrating", "demoting"}
  PROVE  LET old == residencies[call[t].residency]
         IN  /\ SameModel(Demoted(call[t]), old)
             /\ Demoted(call[t]).domain = call[t].domain
             /\ Demoted(call[t]).lifecycle = "Resident"
<1>1. PICK old \in Residency : old = residencies[call[t].residency]
  BY MovingKnows, IdsOK DEF Inv, TypeOK
<1>2. PICK c, q, a, h :
        Demoted(call[t]) = [old EXCEPT !.domain = call[t].domain, !.node = c, !.lifecycle = "Resident",
                              !.validation = "Valid", !.readiness = q, !.authority = a, !.handle = h]
  BY <1>1 DEF Demoted
<1>3. /\ SameModel(Demoted(call[t]), old) /\ Demoted(call[t]).domain = call[t].domain
      /\ Demoted(call[t]).lifecycle = "Resident"
  BY <1>2 DEF SameModel, Residency
<1> QED BY <1>1, <1>3

\* The end of a move: called off, or committed.
LEMMA MoveEndTurn ==
  ASSUME Inv, NEW t \in Threads,
         \/ MigrateStale(t) \/ MigrateFails(t) \/ DemoteFails(t)
         \/ MigrateCommit(t) \/ DemoteCommit(t)
  PROVE  Turn(t) /\ InHand(call'[t]) = {}
<1> DEFINE c == call[t]
<1>0. ResidenciesOK /\ CallsOK
  BY DEF Inv, TypeOK
<1>1. c.op \in {"migrating", "demoting"} /\ Return(t)
  BY DEF MigrateStale, MigrateFails, DemoteFails, MigrateCommit, DemoteCommit, MoveReverts
<1>2. c.residency \in Ids /\ InHand(c) = {c.residency}
  BY <1>1, MovingKnows, HandCases
<1>3. InHand(call'[t]) = {} /\ \A u \in Threads \ {t} : call'[u] = call[u]
  BY <1>0, <1>1, ReturnedHands
<1>4. PICK old \in Residency : old = residencies[c.residency]
  BY <1>0, <1>2, IdsOK
<1>5. CASE residencies' = residencies
  BY <1>0, <1>3, <1>5, QuietTurn
<1>6. CASE \E s \in LifecycleState :
             residencies' = [residencies EXCEPT ![c.residency] =
                               [residencies[c.residency] EXCEPT !.lifecycle = s]]
  <2>0. PICK s \in LifecycleState :
          residencies' = [residencies EXCEPT ![c.residency] = [old EXCEPT !.lifecycle = s]]
    BY <1>4, <1>6
  <2>1. PICK new :
          /\ residencies' = [residencies EXCEPT ![c.residency] = new]
          /\ new = [old EXCEPT !.lifecycle = s]
    BY <2>0
  <2>2. new \in Residency /\ SameModel(new, old)
    BY <2>1 DEF Residency, SameModel
  <2> QED BY <1>0, <1>2, <1>3, <1>4, <2>1, <2>2, RewriteOneTurn
<1>7. CASE residencies' = [residencies EXCEPT ![c.residency] = Demoted(c)]
  <2>1. Demoted(c) \in Residency /\ SameModel(Demoted(c), residencies[c.residency])
    BY <1>1, MovedResidencies, MoveWrites
  <2> QED BY <1>0, <1>2, <1>3, <1>7, <2>1, RewriteOneTurn
<1>8. CASE MigrateCommit(t)
  <2>1. Migrated(c) \in Residency
    BY <1>1, MovedResidencies
  <2>2. Retired(c.residency) \in Residency /\ SameModel(Retired(c.residency), old)
    BY <1>0, <1>2, <1>4, WrittenResidencies, Writes
  <2>3. residencies \in [Ids -> Residency]
    BY <1>0, LenProperties, IdsOK DEF ResidenciesOK, Ids
  <2>4. PICK f \in [Ids -> Residency] :
          /\ residencies' = Append(f, Migrated(c))
          /\ \A r \in Ids : /\ SameModel(f[r], residencies[r])
                            /\ r # c.residency => f[r] = residencies[r]
    <3>1. CASE residencies' = Append(residencies, Migrated(c))
      BY <2>3, <3>1 DEF SameModel
    <3>2. CASE residencies' = Append([residencies EXCEPT ![c.residency] = Retired(c.residency)],
                                     Migrated(c))
      <4> DEFINE f == [residencies EXCEPT ![c.residency] = Retired(c.residency)]
      <4>1. f \in [Ids -> Residency]
        BY <2>2, <2>3
      <4>2. \A r \in Ids : /\ SameModel(f[r], residencies[r])
                           /\ r # c.residency => f[r] = residencies[r]
        BY <1>2, <1>4, <2>2, <2>3 DEF SameModel
      <4> HIDE DEF f
      <4>3. residencies' = Append(f, Migrated(c))
        BY <3>2 DEF f
      <4> QED BY <4>1, <4>2, <4>3
    <3> QED BY <1>8, <3>1, <3>2 DEF MigrateCommit
  <2>5. Ids \subseteq Ids' /\ Len(residencies') = Len(residencies) + 1 /\ Len(residencies) \in Nat
    BY <1>0, <2>1, <2>4, OneMore, IdsOK
  <2>6. \A r \in Ids : residencies'[r] = f[r]
    <3>1. Ids = 1..Len(residencies) /\ Len(residencies) \in Nat
      BY <1>0, IdsOK
    <3>2. f \in Seq(Residency) /\ Len(f) = Len(residencies)
      BY <3>1, SequenceFromFunction
    <3>3. \A i \in 1..Len(f) : Append(f, Migrated(c))[i] = f[i]
      BY <2>1, <3>2, AppendProperties
    <3> QED BY <2>4, <3>1, <3>2, <3>3
  <2>7. Turn(t)
    BY <1>2, <1>3, <2>4, <2>5, <2>6 DEF Turn, SamePlace
  <2> QED BY <1>3, <2>7
<1>9. CASE \E made \in BOOLEAN : MoveReverts(t, made)
  <2>1. CASE residencies' = [residencies EXCEPT ![c.residency] =
               [residencies[c.residency] EXCEPT !.lifecycle =
                  try_transition(residencies[c.residency].lifecycle, "Resident")]]
    <3>1. try_transition(residencies[c.residency].lifecycle, "Resident") \in LifecycleState
      BY <1>4 DEF try_transition, LifecycleState, Residency
    <3> QED BY <1>6, <2>1, <3>1
  <2> QED BY <1>5, <1>9, <2>1 DEF MoveReverts
<1>10. CASE DemoteCommit(t)
  BY <1>5, <1>7, <1>10 DEF DemoteCommit
<1> QED BY <1>8, <1>9, <1>10 DEF MigrateStale, MigrateFails, DemoteFails

-----------------------------------------------------------------------------
(* Every step is a turn.                                                   *)

\* Every later section of a call is a turn of its thread.
LEMMA ContinueTurn ==
  ASSUME Inv, Hands, NEW t \in Threads, Continue(t)
  PROVE  Turn(t) /\ Hands'
<1>0. ResidenciesOK /\ CallsOK
  BY DEF Inv, TypeOK
<1>1. CASE LoadReuse(t) \/ LoadEvictGivesUp(t) \/ LoadRefused(t)
  <2>1. Return(t) /\ residencies' = residencies
    BY <1>1 DEF LoadReuse, LoadEvictGivesUp, LoadRefused
  <2> QED BY <1>0, <2>1, ReturnedHands, QuietTurn, HandsEmptied
<1>2. CASE LoadEvictRelocks(t)
  <2>1. /\ residencies' = residencies
        /\ call' = [call EXCEPT ![t] = [call[t] EXCEPT !.op = "blocked"]]
    BY <1>2 DEF LoadEvictRelocks
  <2>2. call'[t].op = "blocked" /\ \A u \in Threads \ {t} : call'[u] = call[u]
    BY <1>0, <2>1 DEF CallsOK, CallRecord
  <2>3. InHand(call'[t]) = {}
    BY <2>2, HandCases
  <2> QED BY <1>0, <2>1, <2>2, <2>3, QuietTurn, HandsEmptied
<1>3. CASE LoadEvictRound(t)
  BY <1>0, <1>3, EvictRoundTurn, HandsEmptied
<1>4. CASE LoadBegin(t)
  BY <1>4, LoadBeginTurn
<1>5. CASE LoadStale(t) \/ LoadPublish(t) \/ LoadPartial(t) \/ LoadCommitThrows(t)
  BY <1>0, <1>5, LoadTurn, HandsEmptied
<1>6. CASE \/ MigrateStale(t) \/ MigrateFails(t) \/ DemoteFails(t)
           \/ MigrateCommit(t) \/ DemoteCommit(t)
  BY <1>0, <1>6, MoveEndTurn, HandsEmptied
<1>7. CASE MigrateCommitThrows(t) \/ DemoteCommitThrows(t)
  <2>1. Return(t) /\ residencies' = residencies
    BY <1>7 DEF MigrateCommitThrows, DemoteCommitThrows
  <2> QED BY <1>0, <2>1, ReturnedHands, QuietTurn, HandsEmptied
<1> QED BY <1>1, <1>2, <1>3, <1>4, <1>5, <1>6, <1>7 DEF Continue

\* The first section of a call is a turn of its thread.
LEMMA BeginTurn ==
  ASSUME Inv, Hands, NEW t \in Threads, Begin(t)
  PROVE  Turn(t) /\ Hands'
<1>0. ResidenciesOK /\ CallsOK
  BY DEF Inv, TypeOK
<1>1. CASE \E m \in Models, a \in AdapterSets : LoadAdmit(t, m, a)
  <2>0. PICK m \in Models, a \in AdapterSets : LoadAdmit(t, m, a)
    BY <1>1
  <2>1. PICK v \in Verdicts(domains, residencies, m, a) :
          call' = [call EXCEPT ![t] = v] /\ residencies' = residencies
    BY <2>0 DEF LoadAdmit
  <2>2. v.op \in {"reuse", "place", "evict"}
    <3>1. DOMAIN residencies \subseteq Nat
      BY <1>0, IdsOK DEF Ids
    <3> QED BY <2>1, <3>1, VerdictIsCall
  <2>3. call'[t] = v /\ \A u \in Threads \ {t} : call'[u] = call[u]
    BY <1>0, <2>1 DEF CallsOK
  <2>4. InHand(call'[t]) = {}
    BY <2>2, <2>3, HandCases
  <2> QED BY <1>0, <2>1, <2>3, <2>4, QuietTurn, HandsEmptied
<1>2. CASE \E r \in Ids, dest \in Domains : MigrateBegin(t, r, dest) \/ DemoteBegin(t, r, dest)
  BY <1>2, MoveBeginTurn
<1> QED BY <1>1, <1>2 DEF Begin

\* Every step that changes something is a turn of some thread.
LEMMA NextTurn ==
  ASSUME Inv, Hands, Next, ~ UNCHANGED vars
  PROVE  Hands' /\ \E t \in Threads : Turn(t)
<1>0. CallsOK
  BY DEF Inv, TypeOK
<1>1. CASE \E t \in Threads : Begin(t)
  BY <1>1, BeginTurn
<1>2. CASE \E t \in Threads : Continue(t)
  BY <1>2, ContinueTurn
<1>3. CASE AtomicCall
  BY <1>0, <1>3, AtomicTurn, HandsEmptied
<1> QED BY <1>1, <1>2, <1>3 DEF Next, CallersStop

\* A fresh coordinator has no call in flight.
LEMMA InitHands == Init => Hands
<1> SUFFICES ASSUME Init PROVE Hands
  OBVIOUS
<1>1. \A t \in Threads : InHand(call[t]) = {}
  BY IdleHands DEF Init
<1> QED BY <1>1 DEF Hands, HandsApart, HandsKept

\* What a call has in hand while it has given up the mutex stays as it left it,
\* and in no other call's hands, whatever the other threads do.
THEOREM HandsAlways == Spec => [](Inv /\ Hands)
<1>1. Init => Inv /\ Hands
  BY InitInv, InitHands
<1>2. Inv /\ Hands /\ [Next]_vars => (Inv /\ Hands)'
  <2> SUFFICES ASSUME Inv, Hands, [Next]_vars PROVE Inv' /\ Hands'
    OBVIOUS
  <2>1. Inv'
    BY NextInv
  <2>2. CASE UNCHANGED vars
    <3>1. call' = call /\ residencies' = residencies
      BY <2>2 DEF vars
    <3>2. Hands'
      BY <3>1 DEF Hands, HandsApart, HandsKept
    <3> QED BY <2>1, <3>2
  <2>3. CASE Next /\ ~ UNCHANGED vars
    BY <2>1, <2>3, NextTurn
  <2> QED BY <2>2, <2>3
<1> QED BY <1>1, <1>2, PTL DEF Spec

\* The end states of the lifecycle are final: no interleaving of loads, moves,
\* evictions, rollovers and worker losses brings an evicted, invalidated, failed
\* or retired residency back, erases a residency, or gives it another model or
\* generation.
THEOREM TerminalIsFinalTheorem == Spec => TerminalIsFinal
<1>1. Inv /\ Hands /\ [Next]_vars => [TerminalStep]_vars
  <2> SUFFICES ASSUME Inv, Hands, Next, ~ UNCHANGED vars PROVE TerminalStep
    OBVIOUS
  <2>1. PICK t \in Threads : Turn(t)
    BY NextTurn
  <2> QED BY <2>1, TurnIsTerminal DEF Inv, TypeOK
<1> QED BY <1>1, HandsAlways, PTL DEF Spec, TerminalIsFinal

-----------------------------------------------------------------------------
(* Reservations.                                                           *)

\* Bytes that a call holds reserved in domain d.
Holding(c, d) ==
  IF c.op \in {"loading", "migrating", "demoting"} /\ c.domain = d THEN c.bytes ELSE 0

\* Held and BytesIn as functions of the state they read.
HeldIn(calls, d) ==
  SumFunctionOnSet([t \in Threads |-> calls[t].bytes],
                   {t \in Threads : calls[t].op \in {"loading", "migrating", "demoting"}
                                    /\ calls[t].domain = d})
BytesOf(ress, S, d) ==
  SumFunctionOnSet([r \in DOMAIN ress |-> ress[r].bytes], {r \in S : ress[r].domain = d})

\* The members of a load take no more than the call reserved for them.
MembersFit ==
  \A t \in Threads : call[t].op = "loading" =>
    BytesIn(call[t].members, call[t].domain) <= call[t].bytes

\* What the components of a model and its adapters take.
Footprint(m, a) ==
  SumFunctionOnSet(ComponentBytes(m, a), 1..Len(ComponentBytes(m, a)))

\* The components take no more than the aggregate that load reserves: what the
\* definitions given to define_model and register_adapter_set say of their
\* parts.  Nothing in the code compares them.
FootprintsCover ==
  \A m \in Models, a \in AdapterSets : Footprint(m, a) <= AggregateBytes(m, a)

\* What t's step takes from a domain's reservations is no more than t itself
\* stops holding there.
Pays(t) ==
  \A d \in Domains :
    domains[d].reserved + Holding(call'[t], d) <= domains'[d].reserved + Holding(call[t], d)

\* What it takes is just that.
PaysExactly(t) ==
  \A d \in Domains :
    domains[d].reserved + Holding(call'[t], d) = domains'[d].reserved + Holding(call[t], d)

\* The two ways to say it.
LEMMA HeldAndBytes ==
  /\ \A d : Held(d) = HeldIn(call, d) /\ Held(d)' = HeldIn(call', d)
  /\ \A S, d : BytesIn(S, d) = BytesOf(residencies, S, d)
BY DEF Held, HeldIn, BytesIn, BytesOf, Ids

\* A step of t changes what t holds, and no other hold.
LEMMA HeldChanges ==
  ASSUME CallsOK, CallsOK', NEW t \in Threads,
         \A u \in Threads \ {t} : call'[u] = call[u], NEW d
  PROVE  \E others \in Nat : /\ Held(d) = others + Holding(call[t], d)
                             /\ Held(d)' = others + Holding(call'[t], d)
<1> DEFINE Holds(c) == c.op \in {"loading", "migrating", "demoting"} /\ c.domain = d
           A == {u \in Threads : Holds(call[u])}
           B == {u \in Threads : Holds(call'[u])}
           f == [u \in Threads |-> call[u].bytes]
           g == [u \in Threads |-> call'[u].bytes]
<1>1. IsFiniteSet(A)
  BY CoordinatorAssumption, FS_Subset
<1>2. \A x \in Threads : f[x] \in Nat /\ g[x] \in Nat
  <2>1. Bytes \subseteq Nat
    BY DEF Bytes
  <2> QED BY <2>1 DEF CallsOK, CallRecord
<1>3. A \ {t} = B \ {t} /\ \A x \in A \ {t} : g[x] = f[x]
  OBVIOUS
<1>4. \A x \in A : f[x] \in Nat
  BY <1>2
<1>5. \A x \in B : g[x] \in Nat
  BY <1>2
<1>6. /\ Held(d) = SumFunctionOnSet(f, A) /\ Held(d)' = SumFunctionOnSet(g, B)
      /\ (IF t \in A THEN f[t] ELSE 0) = Holding(call[t], d)
      /\ (IF t \in B THEN g[t] ELSE 0) = Holding(call'[t], d)
  BY HeldAndBytes DEF HeldIn, Holding
<1> HIDE DEF A, B, f, g
<1>7. \E others \in Nat :
        /\ SumFunctionOnSet(f, A) = others + (IF t \in A THEN f[t] ELSE 0)
        /\ SumFunctionOnSet(g, B) = others + (IF t \in B THEN g[t] ELSE 0)
  BY <1>1, <1>3, <1>4, <1>5, SumOneChanges
<1> QED BY <1>6, <1>7

\* Every call's hold is one of those added up.
LEMMA HoldIsHeld ==
  ASSUME CallsOK, NEW t \in Threads, NEW d
  PROVE  /\ Held(d) \in Nat /\ Holding(call[t], d) \in Nat
         /\ Holding(call[t], d) <= Held(d)
<1> DEFINE Holds(c) == c.op \in {"loading", "migrating", "demoting"} /\ c.domain = d
           A == {u \in Threads : Holds(call[u])}
           f == [u \in Threads |-> call[u].bytes]
<1>1. IsFiniteSet(A)
  BY CoordinatorAssumption, FS_Subset
<1>2. \A x \in Threads : f[x] \in Nat
  <2>1. Bytes \subseteq Nat
    BY DEF Bytes
  <2> QED BY <2>1 DEF CallsOK, CallRecord
<1>3. Held(d) = SumFunctionOnSet(f, A)
  BY HeldAndBytes DEF HeldIn
<1>4. \A x \in A : f[x] \in Nat
  BY <1>2
<1>5. t \in A => Holding(call[t], d) = f[t]
  BY DEF Holding
<1>6. t \notin A => Holding(call[t], d) = 0
  BY DEF Holding
<1> HIDE DEF A, f
<1>7. Held(d) \in Nat
  BY <1>1, <1>3, <1>4, SumByPick
<1>8. CASE t \in A
  <2>1. IsFiniteSet(A \ {t}) /\ \A x \in A \ {t} : f[x] \in Nat
    BY <1>1, <1>4, FS_Subset
  <2>2. SumFunctionOnSet(f, A \ {t}) \in Nat
    BY <2>1, SumByPick
  <2>3. SumFunctionOnSet(f, A) = f[t] + SumFunctionOnSet(f, A \ {t})
    BY <1>1, <1>4, <1>8, SumWithout
  <2> QED BY <1>3, <1>4, <1>5, <1>7, <1>8, <2>2, <2>3
<1> QED BY <1>6, <1>7, <1>8

\* The reservation counters, and what their owners hold of them.
LEMMA CoveredStays ==
  ASSUME Inv, Inv', HoldsCovered, NEW t \in Threads,
         \A u \in Threads \ {t} : call'[u] = call[u], Pays(t)
  PROVE  HoldsCovered'
<1>0. CallsOK /\ CallsOK'
  BY DEF Inv, TypeOK
<1>1. ASSUME NEW d \in Domains PROVE Held(d)' <= domains'[d].reserved
  <2>1. PICK others \in Nat : /\ Held(d) = others + Holding(call[t], d)
                              /\ Held(d)' = others + Holding(call'[t], d)
    BY <1>0, HeldChanges
  <2>2. domains[d].reserved \in Nat /\ domains'[d].reserved \in Nat
    BY DEF Inv, TypeOK, DomainsOK, MemoryDomainRecord, Bytes
  <2>3. Holding(call[t], d) \in Nat
    BY <1>0, HoldIsHeld
  <2>4. Holding(call'[t], d) \in Nat
    <3>1. call'[t] \in CallRecord
      BY <1>0 DEF CallsOK
    <3> QED BY <3>1 DEF Holding, CallRecord, Bytes
  <2>5. /\ Held(d) <= domains[d].reserved
        /\ domains[d].reserved + Holding(call'[t], d) <= domains'[d].reserved + Holding(call[t], d)
    BY DEF HoldsCovered, Pays
  <2> QED BY <2>1, <2>2, <2>3, <2>4, <2>5
<1> QED BY <1>1 DEF HoldsCovered

\* Bytes of residencies that keep their size and domain.
LEMMA BytesAgree ==
  ASSUME NEW f, NEW g, NEW S, IsFiniteSet(S), NEW d,
         \A r \in S : /\ r \in DOMAIN f /\ r \in DOMAIN g /\ f[r].bytes \in Nat
                      /\ g[r].bytes = f[r].bytes /\ g[r].domain = f[r].domain
  PROVE  BytesOf(g, S, d) = BytesOf(f, S, d)
<1>1. PICK T \in SUBSET S : T = {r \in S : f[r].domain = d} /\ T = {r \in S : g[r].domain = d}
  OBVIOUS
<1> DEFINE F == [r \in DOMAIN f |-> f[r].bytes]
           G == [r \in DOMAIN g |-> g[r].bytes]
<1>2. IsFiniteSet(T)
  BY FS_Subset
<1>3. \A r \in T : F[r] \in Nat /\ G[r] = F[r]
  OBVIOUS
<1>4. BytesOf(f, S, d) = SumFunctionOnSet(F, T) /\ BytesOf(g, S, d) = SumFunctionOnSet(G, T)
  BY <1>1 DEF BytesOf
<1> HIDE DEF F, G
<1> QED BY <1>2, <1>3, <1>4, SumAgrees

\* Residencies of a sequence.
LEMMA SequenceOfResidencies ==
  ASSUME NEW ress \in Seq(Residency)
  PROVE  \A x \in DOMAIN ress : ress[x] \in Residency /\ ress[x].bytes \in Nat
<1>1. DOMAIN ress = 1..Len(ress)
  BY LenProperties
<1>2. \A x \in DOMAIN ress : ress[x] \in Residency
  BY <1>1, ElementOfSeq
<1> QED BY <1>2 DEF Residency, Bytes

\* The bytes of S are those of its part T and of the rest.
Parts(ress, S, T, d) ==
  /\ BytesOf(ress, S, d) \in Nat /\ BytesOf(ress, T, d) \in Nat
  /\ BytesOf(ress, S \ T, d) \in Nat
  /\ BytesOf(ress, S, d) = BytesOf(ress, T, d) + BytesOf(ress, S \ T, d)

\* Bytes of residencies, part by part.
LEMMA BytesParts ==
  ASSUME NEW ress, ress \in Seq(Residency), NEW S, S \subseteq DOMAIN ress, NEW T, T \subseteq S, NEW d
  PROVE  Parts(ress, S, T, d)
<1> DEFINE f == [r \in DOMAIN ress |-> ress[r].bytes]
           A == {r \in S : ress[r].domain = d}
           B == {r \in T : ress[r].domain = d}
<1>1. IsFiniteSet(A)
  BY PositionsFinite
<1>2. \A x \in A : f[x] \in Nat
  BY SequenceOfResidencies
<1>3. B \in SUBSET A /\ A \ B = {r \in S \ T : ress[r].domain = d}
  OBVIOUS
<1>4. /\ BytesOf(ress, S, d) = SumFunctionOnSet(f, A) /\ BytesOf(ress, T, d) = SumFunctionOnSet(f, B)
      /\ BytesOf(ress, S \ T, d) = SumFunctionOnSet(f, A \ B)
  BY <1>3 DEF BytesOf
<1> HIDE DEF f, A, B
<1>5. /\ SumFunctionOnSet(f, B) \in Nat /\ SumFunctionOnSet(f, A \ B) \in Nat
      /\ SumFunctionOnSet(f, A) = SumFunctionOnSet(f, B) + SumFunctionOnSet(f, A \ B)
  BY <1>1, <1>2, <1>3, SumSplits
<1> QED BY <1>4, <1>5 DEF Parts

\* The reserved and resident counters after each mutator.
LEMMA CountersAfter ==
  ASSUME NEW x, {"reserved", "resident", "pinned", "unavailable", "governed"} \subseteq DOMAIN x, NEW n
  PROVE  /\ reserve(x, n).reserved = x.reserved + n /\ reserve(x, n).resident = x.resident
         /\ commit(x, n).reserved = x.reserved - n /\ commit(x, n).resident = x.resident + n
         /\ cancel_reservation(x, n).reserved = x.reserved - n
         /\ cancel_reservation(x, n).resident = x.resident
         /\ release(x, n).reserved = x.reserved /\ release(x, n).resident = x.resident - n
         /\ pin(x, n).reserved = x.reserved /\ pin(x, n).resident = x.resident
         /\ unpin(x, n).reserved = x.reserved /\ unpin(x, n).resident = x.resident
         /\ set_unavailable(x, n).reserved = x.reserved
         /\ set_unavailable(x, n).resident = x.resident
         /\ DOMAIN commit(x, n) = DOMAIN x /\ DOMAIN release(x, n) = DOMAIN x
BY DEF reserve, commit, cancel_reservation, release, pin, unpin, set_unavailable

\* The counters of a domain of the coordinator are natural numbers.
LEMMA CountersAt ==
  ASSUME Inv, NEW d \in Domains
  PROVE  /\ domains[d].reserved \in Nat /\ domains[d].resident \in Nat
         /\ {"reserved", "resident", "pinned", "unavailable", "governed"} \subseteq DOMAIN domains[d]
         /\ Sound(domains[d])
<1>1. domains[d] \in MemoryDomainRecord
  BY DEF Inv, TypeOK, DomainsOK
<1>2. Sound(domains[d])
  BY <1>1 DEF Inv, DomainsCoherent, Sound
<1> QED BY <1>1, <1>2 DEF MemoryDomainRecord, Bytes

\* An update of one domain.
LEMMA OneDomain ==
  ASSUME Inv, NEW d \in Domains, NEW x, domains' = [domains EXCEPT ![d] = x]
  PROVE  \A e \in Domains : domains'[e] = IF e = d THEN x ELSE domains[e]
BY DEF Inv, TypeOK, DomainsOK

\* What a call holds: nothing when it returns.
LEMMA HoldingCases ==
  ASSUME NEW c, NEW d
  PROVE  /\ c.op \notin {"loading", "migrating", "demoting"} => Holding(c, d) = 0
         /\ c.op \in {"loading", "migrating", "demoting"} =>
              Holding(c, d) = IF d = c.domain THEN c.bytes ELSE 0
BY DEF Holding

\* A call that returns holds nothing.
LEMMA ReturnedHolds ==
  ASSUME CallsOK, NEW t \in Threads, Return(t)
  PROVE  /\ \A d : Holding(call'[t], d) = 0
         /\ \A u \in Threads \ {t} : call'[u] = call[u]
<1>1. call'[t] = IdleCall /\ \A u \in Threads \ {t} : call'[u] = call[u]
  BY DEF CallsOK, Return
<1>2. IdleCall.op = "idle"
  BY DEF IdleCall
<1> QED BY <1>1, <1>2, HoldingCases

\* The reservation of a call in flight is there, with room to make it resident.
LEMMA HoldIsThere ==
  ASSUME Inv, HoldsCovered, NEW t \in Threads,
         call[t].op \in {"loading", "migrating", "demoting"}
  PROVE  /\ call[t].domain \in Domains /\ call[t].bytes \in Nat
         /\ call[t].bytes <= domains[call[t].domain].reserved
         /\ \A n \in 0..call[t].bytes :
              /\ can_cancel(domains[call[t].domain], n)
              /\ can_commit(domains[call[t].domain], n)
<1> DEFINE d == call[t].domain
<1>0. CallsOK
  BY DEF Inv, TypeOK
<1>1. d \in Domains /\ call[t].bytes \in Nat
  BY <1>0 DEF CallsOK, CallOK, CallRecord, Bytes
<1>2. Holding(call[t], d) = call[t].bytes
  BY HoldingCases
<1>3. call[t].bytes <= Held(d) /\ Held(d) \in Nat
  BY <1>0, <1>2, HoldIsHeld
<1>4. domains[d].reserved \in Nat /\ Sound(domains[d])
  BY <1>1, CountersAt
<1>5. call[t].bytes <= domains[d].reserved
  BY <1>1, <1>3, <1>4 DEF HoldsCovered
<1>6. ASSUME NEW n \in 0..call[t].bytes PROVE can_cancel(domains[d], n) /\ can_commit(domains[d], n)
  <2>1. n \in 0..domains[d].reserved
    BY <1>1, <1>4, <1>5
  <2> QED BY <1>4, <2>1, WithinCounters
<1> QED BY <1>1, <1>5, <1>6

\* A step of t leaves the members of the other loads where they are.
LEMMA OthersMembers ==
  ASSUME Inv, Hands, NEW t \in Threads, Turn(t), NEW u \in Threads \ {t}, call[u].op = "loading"
  PROVE  /\ call'[u] = call[u]
         /\ BytesOf(residencies', call[u].members, call[u].domain) =
              BytesOf(residencies, call[u].members, call[u].domain)
<1>0. ResidenciesOK /\ CallsOK
  BY DEF Inv, TypeOK
<1>1. call'[u] = call[u] /\ Ids \subseteq Ids'
  BY DEF Turn
<1>2. PICK S \in SUBSET Ids, d \in {call[u].domain} :
        S = call[u].members /\ S = InHand(call[u]) /\ d = call[u].domain
  BY <1>0, LoadingKnows, HandCases
<1>3. IsFiniteSet(S)
  BY <1>0, PositionsFinite DEF ResidenciesOK, Ids
<1>4. ASSUME NEW r \in S
      PROVE  /\ r \in DOMAIN residencies /\ r \in DOMAIN residencies'
             /\ residencies[r].bytes \in Nat
             /\ residencies'[r].bytes = residencies[r].bytes
             /\ residencies'[r].domain = residencies[r].domain
  <2>1. /\ SameModel(residencies'[r], residencies[r])
        /\ SamePlace(residencies'[r], residencies[r])
    BY <1>0, <1>2, OthersHands
  <2>2. r \in Ids /\ r \in Ids'
    BY <1>1, <1>2
  <2>3. residencies[r].bytes \in Nat
    BY <1>0, <2>2, IdsOK DEF Residency, Bytes
  <2> QED BY <2>1, <2>2, <2>3 DEF SameModel, SamePlace, Ids
<1>5. BytesOf(residencies', S, d) = BytesOf(residencies, S, d)
  BY <1>3, <1>4, BytesAgree
<1> QED BY <1>1, <1>2, <1>5

\* A step of t keeps the members of the other loads within their reservations.
LEMMA MembersStay ==
  ASSUME Inv, Hands, MembersFit, NEW t \in Threads, Turn(t),
         call'[t].op = "loading" =>
           BytesOf(residencies', call'[t].members, call'[t].domain) <= call'[t].bytes
  PROVE  MembersFit'
<1>1. ASSUME NEW u \in Threads, call'[u].op = "loading"
      PROVE  BytesOf(residencies', call'[u].members, call'[u].domain) <= call'[u].bytes
  <2>1. CASE u = t
    BY <1>1, <2>1
  <2>2. CASE u # t
    <3>1. call'[u] = call[u]
      BY <2>2 DEF Turn
    <3>2. BytesOf(residencies, call[u].members, call[u].domain) <= call[u].bytes
      BY <1>1, <3>1, HeldAndBytes DEF MembersFit
    <3> QED BY <1>1, <2>2, <3>1, <3>2, OthersMembers
  <2> QED BY <2>1, <2>2
<1>2. \A S, d : BytesIn(S, d)' = BytesOf(residencies', S, d)
  BY DEF BytesIn, BytesOf, Ids
<1> QED BY <1>1, <1>2 DEF MembersFit

-----------------------------------------------------------------------------
(* Every step pays for what it takes.                                      *)

\* A step that leaves the reservations and its own hold alone.
LEMMA NothingTaken ==
  ASSUME Inv, NEW t \in Threads,
         \A d \in Domains : domains'[d].reserved = domains[d].reserved,
         \A d \in Domains : Holding(call'[t], d) = Holding(call[t], d)
  PROVE  Pays(t)
<1>1. \A d \in Domains : domains[d].reserved \in Nat /\ Holding(call[t], d) \in Nat
  BY CountersAt, HoldIsHeld DEF Inv, TypeOK
<1> QED BY <1>1 DEF Pays

\* evict gives back resident bytes, not reserved ones.
LEMMA EvictReserves ==
  ASSUME Inv, NEW r \in Ids, EvictEffects(r)
  PROVE  \A d \in Domains : domains'[d].reserved = domains[d].reserved
<1>0. residencies[r].domain \in Domains
  BY IdsOK DEF Inv, TypeOK, Residency
<1>1. PICK e \in Domains, n \in {residencies[r].bytes} :
          e = residencies[r].domain /\ n = residencies[r].bytes
  BY <1>0
<1>2. CASE domains' = ReleaseBytesOf(r)
  <2>1. domains' = [domains EXCEPT ![e] = release(domains[e], n)]
    BY <1>1, <1>2 DEF ReleaseBytesOf
  <2>2. release(domains[e], n).reserved = domains[e].reserved
    BY CountersAt, CountersAfter
  <2> QED BY <2>1, <2>2, OneDomain
<1> QED BY <1>2 DEF EvictEffects

\* No operation of one critical section touches a reservation.
LEMMA AtomicReserves ==
  ASSUME Inv, AtomicCall
  PROVE  \A d \in Domains : domains'[d].reserved = domains[d].reserved
<1>0. \A d \in Domains : \A n :
        /\ release(domains[d], n).reserved = domains[d].reserved
        /\ pin(domains[d], n).reserved = domains[d].reserved
        /\ unpin(domains[d], n).reserved = domains[d].reserved
  BY CountersAt, CountersAfter
<1>1. \A r \in Ids : residencies[r].domain \in Domains
  BY IdsOK DEF Inv, TypeOK, Residency
<1>2. CASE \E r \in Ids, force \in BOOLEAN : Evict(r, force)
  BY <1>2, EvictReserves DEF Evict
<1>3. ASSUME NEW r \in Ids, Pin(r) \/ Unpin(r) \/ Invalidate(r)
      PROVE  \A d \in Domains : domains'[d].reserved = domains[d].reserved
  <2>1. PICK e \in Domains, n \in {residencies[r].bytes} :
          e = residencies[r].domain /\ n = residencies[r].bytes
    BY <1>1
  <2>2. PICK x : domains' = [domains EXCEPT ![e] = x] /\ x.reserved = domains[e].reserved
    <3>1. \/ domains' = [domains EXCEPT ![e] = pin(domains[e], n)]
          \/ domains' = [domains EXCEPT ![e] = unpin(domains[e], n)]
          \/ domains' = [domains EXCEPT ![e] = release(domains[e], n)]
      BY <1>3, <2>1 DEF Pin, Unpin, Invalidate, ReleaseBytesOf
    <3> QED BY <1>0, <3>1
  <2> QED BY <2>2, OneDomain
<1>4. \A P : \A d \in Domains : Released(P)[d].reserved = domains[d].reserved
  BY <1>0 DEF Released
<1>5. CASE \E m \in Models : RollModelGeneration(m)
  BY <1>4, <1>5 DEF RollModelGeneration, Surrender
<1>6. ASSUME NEW w \in Workers, MarkWorkerLost(w)
      PROVE  \A d \in Domains : domains'[d].reserved = domains[d].reserved
  <2>1. PICK P \in SUBSET OnWorker(w) : domains' = [d \in Domains |->
            IF P = OnWorker(w) /\ d \in WorkerDevices[w]
            THEN set_unavailable(Released(P)[d], domains[d].total)
            ELSE Released(P)[d]]
    BY <1>6 DEF MarkWorkerLost
  <2>2. ASSUME NEW d \in Domains
        PROVE  set_unavailable(Released(P)[d], domains[d].total).reserved = domains[d].reserved
    <3>1. PICK n : Released(P)[d] = release(domains[d], n)
      BY DEF Released
    <3>2. DOMAIN release(domains[d], n) = DOMAIN domains[d]
      BY CountersAt, CountersAfter
    <3>3. set_unavailable(release(domains[d], n), domains[d].total).reserved =
            release(domains[d], n).reserved
      BY <3>2, CountersAt, CountersAfter
    <3> QED BY <1>0, <3>1, <3>3
  <2> QED BY <1>4, <2>1, <2>2
<1>7. CASE \/ \E r \in Ids : PublishReady(r) \/ Reference(r)
           \/ \E w \in Workers : RegisterWorker(w)
  BY <1>7 DEF PublishReady, Reference, RegisterWorker
<1> QED BY <1>2, <1>3, <1>5, <1>6, <1>7 DEF AtomicCall

\* load's second section reserves what the call then holds, for members that take
\* what the components of the model and its adapters take.
LEMMA LoadBeginReserves ==
  ASSUME Inv, NEW t \in Threads, LoadBegin(t)
  PROVE  /\ PaysExactly(t)
         /\ call'[t].op = "loading" =>
              \E m \in Models, a \in AdapterSets :
                /\ BytesOf(residencies', call'[t].members, call'[t].domain) = Footprint(m, a)
                /\ call'[t].bytes = AggregateBytes(m, a)
<1>0. call[t].op = "place"
  BY DEF LoadBegin
<1>begun. PICK m \in Models, a \in AdapterSets, d \in Domains, bytes \in Seq(Bytes),
               n \in Nat, k \in Nat : \E c : Begun(t, m, a, d, bytes, n, k, c)
  BY LoadBeginAdds
<1>1. PICK c : Begun(t, m, a, d, bytes, n, k, c)
  BY <1>begun
<1>2. \A e : Holding(call[t], e) = 0
  BY <1>0, HoldingCases
<1>3. CASE c = IdleCall /\ domains' = domains
  <2>1. call'[t].op = "idle"
    BY <1>1, <1>3 DEF Begun, IdleCall
  <2>2. \A e : Holding(call'[t], e) = 0
    BY <2>1, HoldingCases
  <2> QED BY <1>2, <1>3, <2>1, <2>2 DEF PaysExactly
<1>4. CASE /\ c.op = "loading" /\ c.members = (n + 1)..(n + k) /\ c.domain = d
           /\ c.bytes = AggregateBytes(m, a)
           /\ domains' = [domains EXCEPT ![d] = reserve(domains[d], c.bytes)]
  <2>0. call'[t] = c
    BY <1>1 DEF Begun
  <2>1. PICK x : /\ domains' = [domains EXCEPT ![d] = x]
                 /\ x.reserved = domains[d].reserved + c.bytes
    <3>1. reserve(domains[d], c.bytes).reserved = domains[d].reserved + c.bytes
      BY CountersAt, CountersAfter
    <3> QED BY <1>4, <3>1
  <2>2. \A e \in Domains : Holding(call'[t], e) = IF e = d THEN c.bytes ELSE 0
    BY <1>4, <2>0, HoldingCases
  <2>3. c.bytes \in Nat
    BY <1>4, AggregateIsBytes DEF Bytes
  <2>4. ASSUME NEW e \in Domains
        PROVE  domains[e].reserved + Holding(call'[t], e) =
                 domains'[e].reserved + Holding(call[t], e)
    <3>1. domains[e].reserved \in Nat
      BY CountersAt
    <3>2. domains'[e].reserved = domains[e].reserved + (IF e = d THEN c.bytes ELSE 0)
      <4>1. domains'[e] = IF e = d THEN x ELSE domains[e]
        BY <2>1, OneDomain
      <4> QED BY <2>1, <3>1, <4>1
    <3> QED BY <1>2, <2>2, <2>3, <3>1, <3>2
  <2>5. BytesOf(residencies', c.members, d) = Footprint(m, a)
    <3> DEFINE f == [r \in DOMAIN residencies' |-> residencies'[r].bytes]
    <3>1. ASSUME NEW i \in 1..k
          PROVE  /\ n + i \in DOMAIN residencies'
                 /\ residencies'[n + i].domain = d /\ residencies'[n + i].bytes = bytes[i]
                 /\ bytes[i] \in Nat
      <4>1. bytes[i] \in Bytes
        BY <1>1, ElementOfSeq DEF Begun
      <4>2. residencies'[n + i] = Declared(m, a, d, bytes[i]) /\ DOMAIN residencies' = 1..(n + k)
        BY <1>1 DEF Begun, Ids
      <4> QED BY <4>1, <4>2 DEF Declared, Bytes
    <3>2. \A i \in 1..k : bytes[i] \in Nat /\ f[n + i] = bytes[i]
      BY <3>1
    <3>3. {r \in c.members : residencies'[r].domain = d} = (n + 1)..(n + k)
      <4>1. ASSUME NEW r \in (n + 1)..(n + k) PROVE residencies'[r].domain = d
        <5>1. r - n \in 1..k /\ n + (r - n) = r
          OBVIOUS
        <5> QED BY <3>1, <5>1
      <4> QED BY <1>4, <4>1
    <3>4. BytesOf(residencies', c.members, d) = SumFunctionOnSet(f, (n + 1)..(n + k))
      BY <3>3 DEF BytesOf
    <3> HIDE DEF f
    <3>5. SumFunctionOnSet(f, (n + 1)..(n + k)) = SumFunctionOnSet(bytes, 1..k)
      <4>1. Shifted(f, bytes, n, k)
        BY <3>2 DEF Shifted
      <4> QED BY <4>1, SumShifted
    <3>6. SumFunctionOnSet(bytes, 1..k) = Footprint(m, a)
      BY <1>1 DEF Begun, Footprint
    <3> QED BY <1>4, <3>4, <3>5, <3>6
  <2> QED BY <1>4, <2>0, <2>4, <2>5 DEF PaysExactly
<1> QED BY <1>1, <1>3, <1>4 DEF Begun

\* Where the footprints are covered the members fit.
LEMMA LoadBeginPays ==
  ASSUME Inv, Inv', NEW t \in Threads, LoadBegin(t), FootprintsCover
  PROVE  /\ Pays(t)
         /\ call'[t].op = "loading" =>
              BytesOf(residencies', call'[t].members, call'[t].domain) <= call'[t].bytes
<1>1. ASSUME NEW d \in Domains
      PROVE  domains[d].reserved \in Nat /\ Holding(call'[t], d) \in Nat
  <2>1. call'[t] \in CallRecord
    BY DEF Inv, TypeOK, CallsOK
  <2> QED BY <2>1, CountersAt DEF Holding, CallRecord, Bytes
<1>2. Pays(t)
  BY <1>1, LoadBeginReserves DEF Pays, PaysExactly
<1> QED BY <1>2, LoadBeginReserves DEF FootprintsCover

\* A step that writes x for domain d, and leaves the others alone.
Rewrites(d, x) == domains' = [domains EXCEPT ![d] = x]

\* A step that takes n from the reservations of one domain.
LEMMA OneReserved ==
  ASSUME Inv, NEW d \in Domains, NEW x, Rewrites(d, x),
         NEW n \in Nat, x.reserved = domains[d].reserved - n
  PROVE  \A e \in Domains :
           domains[e].reserved = domains'[e].reserved + (IF e = d THEN n ELSE 0)
<1>1. ASSUME NEW e \in Domains
      PROVE  domains[e].reserved = domains'[e].reserved + (IF e = d THEN n ELSE 0)
  <2>1. domains'[e] = IF e = d THEN x ELSE domains[e]
    BY OneDomain DEF Rewrites
  <2>2. domains[e].reserved \in Nat
    BY CountersAt
  <2> QED BY <2>1, <2>2
<1> QED BY <1>1

\* What the members of a load take, and what some of them take.
LEMMA MembersTake ==
  ASSUME Inv, HoldsCovered, MembersFit, NEW t \in Threads, call[t].op = "loading"
  PROVE  LET c == call[t] IN
         /\ c.domain \in Domains /\ c.bytes \in Nat /\ c.members \subseteq Ids
         /\ BytesIn(c.members, c.domain) \in 0..c.bytes
         /\ \A S \in SUBSET c.members :
              /\ BytesIn(S, c.domain) \in 0..BytesIn(c.members, c.domain)
              /\ BytesIn(c.members \ S, c.domain) =
                   BytesIn(c.members, c.domain) - BytesIn(S, c.domain)
              /\ CommitsFit(c.domain, S)
<1> DEFINE c == call[t]
           total == BytesIn(c.members, c.domain)
<1>0. ResidenciesOK /\ CallsOK
  BY DEF Inv, TypeOK
<1>1. c.members \subseteq Ids
  BY <1>0, LoadingKnows
<1>2. /\ c.domain \in Domains /\ c.bytes \in Nat /\ c.bytes <= domains[c.domain].reserved
      /\ \A n \in 0..c.bytes : can_commit(domains[c.domain], n)
  BY HoldIsThere
<1>3. ASSUME NEW S \in SUBSET c.members
      PROVE  /\ total \in Nat /\ BytesIn(S, c.domain) \in Nat
             /\ BytesIn(c.members \ S, c.domain) \in Nat
             /\ total = BytesIn(S, c.domain) + BytesIn(c.members \ S, c.domain)
  <2>1. PICK M \in SUBSET Ids, e \in {c.domain} : M = c.members /\ e = c.domain
    BY <1>1
  <2>2. S \in SUBSET M
    BY <2>1
  <2>3. /\ BytesIn(M, e) \in Nat /\ BytesIn(S, e) \in Nat /\ BytesIn(M \ S, e) \in Nat
        /\ BytesIn(M, e) = BytesIn(S, e) + BytesIn(M \ S, e)
    <3>1. residencies \in Seq(Residency) /\ M \subseteq DOMAIN residencies /\ S \subseteq M
      BY <1>0, <2>2 DEF ResidenciesOK, Ids
    <3>2. Parts(residencies, M, S, e)
      BY <3>1, BytesParts, Zenon
    <3> QED BY <3>2, HeldAndBytes, Zenon DEF Parts
  <2> QED BY <2>1, <2>3
<1>4. total \in 0..c.bytes
  <2>1. total \in Nat
    BY <1>3
  <2>2. total <= c.bytes
    BY DEF MembersFit
  <2> HIDE DEF total
  <2> QED BY <1>2, <2>1, <2>2
<1>5. ASSUME NEW S \in SUBSET c.members
      PROVE  /\ BytesIn(S, c.domain) \in 0..total
             /\ BytesIn(c.members \ S, c.domain) = total - BytesIn(S, c.domain)
             /\ CommitsFit(c.domain, S)
  <2>1. PICK b \in Nat : b = BytesIn(S, c.domain)
    BY <1>3
  <2>2. b \in 0..total /\ BytesIn(c.members \ S, c.domain) = total - b
    <3> HIDE DEF total
    <3> QED BY <1>3, <2>1
  <2>3. domains[c.domain].reserved \in Nat
    BY <1>2, CountersAt
  <2>4. b \in 0..c.bytes /\ b \in 0..domains[c.domain].reserved
    <3> HIDE DEF total
    <3> QED BY <1>2, <1>4, <2>2, <2>3
  <2>5. can_resident(domains[c.domain], b)
    BY <1>2, <2>4 DEF can_commit
  <2> QED BY <2>1, <2>2, <2>4, <2>5 DEF CommitsFit
<1>6. \A S \in SUBSET c.members :
        /\ BytesIn(S, c.domain) \in 0..total
        /\ BytesIn(c.members \ S, c.domain) = total - BytesIn(S, c.domain)
        /\ CommitsFit(c.domain, S)
  BY <1>5
<1> QED BY <1>1, <1>2, <1>4, <1>6, Zenon

\* The end of a load gives back its reservation, or spends on its members what
\* they take; in either case no more than it held.
LEMMA LoadSpends ==
  ASSUME Inv, HoldsCovered, MembersFit, NEW t \in Threads,
         LoadStale(t) \/ LoadPublish(t) \/ LoadPartial(t) \/ LoadCommitThrows(t)
  PROVE  \E n \in {call[t].bytes, BytesIn(call[t].members, call[t].domain)} :
           /\ n \in 0..call[t].bytes
           /\ \A d \in Domains : domains[d].reserved =
                domains'[d].reserved + (IF d = call[t].domain THEN n ELSE 0)
<1> DEFINE c == call[t]
<1>1. c.op = "loading"
  BY DEF LoadStale, LoadPublish, LoadPartial, LoadCommitThrows
<1>2. PICK dom \in Domains, total \in Nat, bytes \in Nat :
        /\ dom = c.domain /\ total = BytesIn(c.members, c.domain) /\ bytes = c.bytes
        /\ total \in 0..bytes
        /\ \A S \in SUBSET c.members :
             /\ BytesIn(S, dom) \in 0..total
             /\ BytesIn(c.members \ S, dom) = total - BytesIn(S, dom)
             /\ CommitsFit(dom, S)
  <2>1. /\ c.domain \in Domains /\ c.bytes \in Nat
        /\ BytesIn(c.members, c.domain) \in 0..c.bytes
        /\ \A S \in SUBSET c.members :
             /\ BytesIn(S, c.domain) \in 0..BytesIn(c.members, c.domain)
             /\ BytesIn(c.members \ S, c.domain) =
                  BytesIn(c.members, c.domain) - BytesIn(S, c.domain)
             /\ CommitsFit(c.domain, S)
    BY <1>1, MembersTake
  <2>2. PICK total : total = BytesIn(c.members, c.domain)
    OBVIOUS
  <2>3. total \in Nat
    BY <2>1, <2>2
  <2> QED BY <2>1, <2>2, <2>3
<1>3. domains[dom].reserved \in Nat /\ bytes <= domains[dom].reserved
  BY <1>1, <1>2, CountersAt, HoldIsThere
<1>4. SUFFICES \E n \in {bytes, total} :
                 \A d \in Domains : domains[d].reserved =
                   domains'[d].reserved + (IF d = dom THEN n ELSE 0)
  <2>1. bytes \in 0..bytes
    OBVIOUS
  <2> QED BY <1>2, <2>1
<1>5. SUFFICES \E n \in {bytes, total} : \E x :
                 /\ Rewrites(dom, x)
                 /\ x.reserved = domains[dom].reserved - n
  <2>1. ASSUME NEW n \in {bytes, total}, NEW x, Rewrites(dom, x),
               x.reserved = domains[dom].reserved - n
        PROVE  \A d \in Domains : domains[d].reserved =
                 domains'[d].reserved + (IF d = dom THEN n ELSE 0)
    <3>1. n \in Nat
      OBVIOUS
    <3> QED BY <2>1, <3>1, OneReserved
  <2> QED BY <2>1
<1>6. \A n : /\ commit(domains[dom], n).reserved = domains[dom].reserved - n
             /\ cancel_reservation(domains[dom], n).reserved = domains[dom].reserved - n
             /\ DOMAIN commit(domains[dom], n) = DOMAIN domains[dom]
  BY CountersAt, CountersAfter
<1>7. CASE LoadStale(t)
  <2>1. can_cancel(domains[dom], bytes)
    BY <1>3 DEF can_cancel
  <2>2. domains' = [domains EXCEPT ![dom] = cancel_reservation(domains[dom], bytes)]
    BY <1>2, <1>7, <2>1 DEF LoadStale
  <2> QED BY <1>6, <2>2 DEF Rewrites
<1>8. CASE LoadPublish(t)
  <2>1. domains' = [domains EXCEPT ![dom] = commit(domains[dom], total)]
    BY <1>2, <1>8 DEF LoadPublish
  <2> QED BY <1>6, <2>1 DEF Rewrites
<1>9. CASE LoadPartial(t)
  <2>0. PICK ok \in SUBSET c.members : \E done, after :
          /\ done = Committable(c, ok)
          /\ after = commit(domains[c.domain], BytesIn(done, c.domain))
          /\ domains' = [domains EXCEPT ![c.domain] =
                IF BytesIn(c.members \ done, c.domain) \in 0..after.reserved
                THEN cancel_reservation(after, BytesIn(c.members \ done, c.domain))
                ELSE after]
    BY <1>9 DEF LoadPartial
  <2>1. PICK done, after :
          /\ done = Committable(c, ok)
          /\ after = commit(domains[c.domain], BytesIn(done, c.domain))
          /\ domains' = [domains EXCEPT ![c.domain] =
                IF BytesIn(c.members \ done, c.domain) \in 0..after.reserved
                THEN cancel_reservation(after, BytesIn(c.members \ done, c.domain))
                ELSE after]
    BY <2>0
  <2>2. done \in SUBSET c.members
    BY <2>1 DEF Committable
  <2>3. PICK b : /\ b = BytesIn(done, dom) /\ b \in 0..total
                 /\ BytesIn(c.members \ done, dom) = total - b
    BY <1>2, <2>2
  <2>4. after = commit(domains[dom], b) /\ after.reserved = domains[dom].reserved - b
    BY <1>2, <1>6, <2>1, <2>3
  <2>5. total - b \in 0..after.reserved
    BY <1>2, <1>3, <2>3, <2>4
  <2>6. domains' = [domains EXCEPT ![dom] = cancel_reservation(after, total - b)]
    BY <1>2, <2>1, <2>3, <2>5
  <2>7. cancel_reservation(after, total - b).reserved = after.reserved - (total - b)
    <3>1. {"reserved", "resident", "pinned", "unavailable", "governed"} \subseteq DOMAIN after
      BY <1>6, <2>4, CountersAt
    <3> QED BY ONLY <3>1, CountersAfter
  <2>8. cancel_reservation(after, total - b).reserved = domains[dom].reserved - total
    BY <1>3, <2>3, <2>4, <2>7
  <2> QED BY <2>6, <2>8 DEF Rewrites
<1>10. CASE LoadCommitThrows(t)
  <2>1. PICK ok \in SUBSET c.members, r \in c.members, before \in SUBSET c.members :
          /\ r \in Committable(c, ok) /\ before = {q \in Committable(c, ok) : q < r}
          /\ ~ CommitsFit(c.domain, before \cup {r})
    BY <1>10 DEF LoadCommitThrows, Committable
  <2>2. before \cup {r} \in SUBSET c.members
    BY <2>1 DEF Committable
  <2> QED BY <1>2, <2>1, <2>2
<1> QED BY <1>7, <1>8, <1>9, <1>10

\* The end of a load.
LEMMA LoadPays ==
  ASSUME Inv, Inv', HoldsCovered, MembersFit, NEW t \in Threads,
         LoadStale(t) \/ LoadPublish(t) \/ LoadPartial(t) \/ LoadCommitThrows(t)
  PROVE  Pays(t)
<1>1. call[t].op = "loading" /\ Return(t)
  BY DEF LoadStale, LoadPublish, LoadPartial, LoadCommitThrows
<1>2. PICK n : /\ n \in 0..call[t].bytes
               /\ \A d \in Domains : domains[d].reserved =
                    domains'[d].reserved + (IF d = call[t].domain THEN n ELSE 0)
  BY LoadSpends
<1>3. ASSUME NEW d \in Domains
      PROVE  domains[d].reserved + Holding(call'[t], d) <=
               domains'[d].reserved + Holding(call[t], d)
  <2>1. Holding(call'[t], d) = 0
    BY <1>1, ReturnedHolds DEF Inv, TypeOK
  <2>2. Holding(call[t], d) = IF d = call[t].domain THEN call[t].bytes ELSE 0
    BY <1>1, HoldingCases
  <2>3. call[t].bytes \in Nat
    BY <1>1, HoldIsThere
  <2>4. domains[d].reserved \in Nat
    BY CountersAt
  <2>5. domains[d].reserved = domains'[d].reserved + (IF d = call[t].domain THEN n ELSE 0)
    BY <1>2
  <2>6. domains'[d].reserved \in Int
    BY DEF Inv, TypeOK, DomainsOK, MemoryDomainRecord, Bytes
  <2> QED BY <1>2, <2>1, <2>2, <2>3, <2>4, <2>5, <2>6
<1> QED BY <1>3 DEF Pays

\* The first section of a move reserves what the call then holds, unless the
\* transition of the source throws: then the reservation is nobody's.
LEMMA MoveBeginReserves ==
  ASSUME Inv, NEW t \in Threads, NEW r \in Ids, NEW dest \in Domains,
         MigrateBegin(t, r, dest) \/ DemoteBegin(t, r, dest)
  PROVE  /\ \A d \in Domains : Holding(call[t], d) = 0
         /\ \E n \in Nat : \A d \in Domains :
              domains'[d].reserved = domains[d].reserved + (IF d = dest THEN n ELSE 0)
         /\ \/ /\ call' = call /\ residencies' = residencies
               /\ is_resident_state(residencies[r].lifecycle)
               /\ residencies[r].lifecycle \notin {"Resident", "Ready"}
            \/ \A d \in Domains :
                 domains'[d].reserved = domains[d].reserved + Holding(call'[t], d)
<1>0. ResidenciesOK /\ CallsOK
  BY DEF Inv, TypeOK
<1>1. PICK op \in {"migrating", "demoting"}, state \in {"Migrating", "Demoting"},
           node \in {residencies[r].node, Node[dest]} :
        MoveBegin(t, op, state, r, dest, node)
  BY DEF MigrateBegin, DemoteBegin
<1>2. \A d : Holding(call[t], d) = 0
  BY <1>1, HoldingCases DEF MoveBegin, Idle
<1>3. PICK n \in Nat : n = residencies[r].bytes
  BY <1>0, IdsOK DEF Residency, Bytes
<1>4. PICK x : Rewrites(dest, x) /\ x.reserved = domains[dest].reserved + n
  <2>1. Rewrites(dest, reserve(domains[dest], n))
    BY <1>1, <1>3 DEF MoveBegin, Rewrites
  <2>2. reserve(domains[dest], n).reserved = domains[dest].reserved + n
    BY CountersAt, CountersAfter
  <2> QED BY <2>1, <2>2
<1>5. ASSUME NEW d \in Domains
      PROVE  domains'[d].reserved = domains[d].reserved + (IF d = dest THEN n ELSE 0)
  <2>1. domains'[d] = IF d = dest THEN x ELSE domains[d]
    BY <1>4, OneDomain DEF Rewrites
  <2>2. domains[d].reserved \in Nat
    BY CountersAt
  <2> QED BY <1>4, <2>1, <2>2
<1>6. CASE ~ lifecycle_transition_allowed(residencies[r].lifecycle, state)
  <2>1. /\ call' = call /\ residencies' = residencies
        /\ is_resident_state(residencies[r].lifecycle)
    BY <1>1, <1>6 DEF MoveBegin
  <2>2. residencies[r].lifecycle \notin {"Resident", "Ready"}
    BY <1>6 DEF lifecycle_transition_allowed
  <2> QED BY <1>2, <1>5, <2>1, <2>2
<1>7. CASE lifecycle_transition_allowed(residencies[r].lifecycle, state)
  <2>1. PICK c : c = [IdleCall EXCEPT !.op = op, !.model = residencies[r].model, !.domain = dest,
                        !.residency = r, !.bytes = residencies[r].bytes,
                        !.source = residencies[r].domain, !.handle = residencies[r].handle,
                        !.node = node, !.modelGeneration = residencies[r].modelGeneration]
    OBVIOUS
  <2>2. call'[t] = c
    BY <1>0, <1>1, <1>7, <2>1 DEF MoveBegin, Moving, CallsOK
  <2>3. c.op = op /\ c.domain = dest /\ c.bytes = n
    BY <1>3, <2>1, IdleIsCall DEF CallRecord
  <2>4. \A d \in Domains : Holding(call'[t], d) = IF d = dest THEN n ELSE 0
    BY <1>1, <2>2, <2>3, HoldingCases
  <2> QED BY <1>2, <1>5, <2>4
<1> QED BY <1>6, <1>7

\* The commit of a move does not throw while its hold is there.
LEMMA NoMoveThrows ==
  ASSUME Inv, HoldsCovered, NEW t \in Threads
  PROVE  ~ MigrateCommitThrows(t) /\ ~ DemoteCommitThrows(t)
<1>1. SUFFICES ASSUME MigrateCommitThrows(t) \/ DemoteCommitThrows(t) PROVE FALSE
  OBVIOUS
<1>2. call[t].op \in {"migrating", "demoting"}
  BY <1>1 DEF MigrateCommitThrows, DemoteCommitThrows
<1>3. PICK dom \in Domains, src \in Domains, n \in Nat :
        /\ dom = call[t].domain /\ src = call[t].source /\ n = call[t].bytes
        /\ n \in Bytes /\ n <= domains[dom].reserved /\ can_commit(domains[dom], n)
  <2>1. call[t].bytes \in 0..call[t].bytes
    BY <1>2, HoldIsThere
  <2> QED BY <1>2, <2>1, HoldIsThere, MovingKnows
<1>4. DemoteCommitThrows(t)
  BY <1>1, <1>3 DEF MigrateCommitThrows
<1> DEFINE f == [domains EXCEPT ![src] = release(domains[src], n)]
<1>5. can_release(domains[src], n) /\ ~ can_commit(f[dom], n)
  BY <1>3, <1>4 DEF DemoteCommitThrows
<1>6. f[dom] = IF dom = src THEN release(domains[dom], n) ELSE domains[dom]
  BY DEF Inv, TypeOK, DomainsOK
<1> HIDE DEF f
<1>7. dom = src
  BY <1>3, <1>5, <1>6
<1>8. Sound(release(domains[dom], n)) /\ release(domains[dom], n).reserved = domains[dom].reserved
  BY <1>3, <1>5, <1>7, CountersAt, CountersAfter, ReleaseSound
<1>9. n \in 0..release(domains[dom], n).reserved
  BY <1>3, <1>8, CountersAt
<1>10. can_commit(release(domains[dom], n), n)
  BY <1>8, <1>9, WithinCounters
<1> QED BY <1>5, <1>6, <1>7, <1>10

\* The end of a move gives back or spends what it held, unless the release of
\* a demote's source throws.
LEMMA MoveSpends ==
  ASSUME Inv, HoldsCovered, NEW t \in Threads,
         \/ MigrateStale(t) \/ MigrateFails(t) \/ DemoteFails(t)
         \/ MigrateCommit(t) \/ DemoteCommit(t)
  PROVE  \/ /\ DemoteCommit(t) /\ domains' = domains /\ residencies' = residencies
            /\ ~ can_release(domains[call[t].source], call[t].bytes)
         \/ \A d \in Domains :
              domains[d].reserved = domains'[d].reserved + Holding(call[t], d)
<1>1. call[t].op \in {"migrating", "demoting"}
  BY DEF MigrateStale, MigrateFails, DemoteFails, MigrateCommit, DemoteCommit
<1>2. PICK dom \in Domains, src \in Domains, n \in Nat :
        /\ dom = call[t].domain /\ src = call[t].source /\ n = call[t].bytes
        /\ can_cancel(domains[dom], n) /\ can_commit(domains[dom], n)
  <2>1. call[t].bytes \in 0..call[t].bytes
    BY <1>1, HoldIsThere
  <2> QED BY <1>1, <2>1, HoldIsThere, MovingKnows
<1>3. \A d \in Domains : Holding(call[t], d) = IF d = dom THEN n ELSE 0
  BY <1>1, <1>2, HoldingCases
<1>4. /\ commit(domains[dom], n).reserved = domains[dom].reserved - n
      /\ cancel_reservation(domains[dom], n).reserved = domains[dom].reserved - n
  BY CountersAt, CountersAfter
<1>5. ASSUME NEW x, Rewrites(dom, x), x.reserved = domains[dom].reserved - n
      PROVE  \A d \in Domains : domains[d].reserved = domains'[d].reserved + Holding(call[t], d)
  BY <1>3, <1>5, OneReserved
<1>6. ASSUME NEW made, MoveReverts(t, made)
      PROVE  \A d \in Domains : domains[d].reserved = domains'[d].reserved + Holding(call[t], d)
  <2>1. Rewrites(dom, cancel_reservation(domains[dom], n))
    BY <1>2, <1>6 DEF MoveReverts, Rewrites
  <2> QED BY <1>4, <1>5, <2>1
<1>7. ASSUME NEW f, \A d \in Domains :
               /\ f[d].reserved = IF d = dom THEN domains[d].reserved - n ELSE domains[d].reserved
               /\ domains'[d].reserved = f[d].reserved
      PROVE  \A d \in Domains : domains[d].reserved = domains'[d].reserved + Holding(call[t], d)
  <2>1. \A d \in Domains : domains[d].reserved \in Nat
    BY CountersAt
  <2> QED BY <1>3, <1>7, <2>1
<1>8. CASE MigrateCommit(t)
  <2> DEFINE f == [domains EXCEPT ![dom] = commit(domains[dom], n)]
  <2>1. ASSUME NEW d \in Domains
        PROVE  /\ f[d].reserved = IF d = dom THEN domains[d].reserved - n ELSE domains[d].reserved
               /\ DOMAIN f[d] = DOMAIN domains[d]
    <3>1. f[d] = IF d = dom THEN commit(domains[dom], n) ELSE domains[d]
      BY DEF Inv, TypeOK, DomainsOK
    <3>2. DOMAIN commit(domains[dom], n) = DOMAIN domains[dom]
      BY CountersAt, CountersAfter
    <3> HIDE DEF f
    <3> QED BY <1>4, <3>1, <3>2
  <2>2. f \in [Domains -> {f[d] : d \in Domains}]
    BY DEF Inv, TypeOK, DomainsOK
  <2>3. domains' = f \/ domains' = [f EXCEPT ![src] = release(f[src], n)]
    BY <1>2, <1>8 DEF MigrateCommit
  <2> HIDE DEF f
  <2>4. release(f[src], n).reserved = f[src].reserved
    BY <2>1, CountersAt, CountersAfter
  <2>5. \A d \in Domains : domains'[d].reserved = f[d].reserved
    BY <2>2, <2>3, <2>4
  <2> QED BY <1>7, <2>1, <2>5
<1>9. CASE DemoteCommit(t)
  <2>1. CASE can_release(domains[src], n)
    <3> DEFINE f == [domains EXCEPT ![src] = release(domains[src], n)]
    <3>1. ASSUME NEW d \in Domains
          PROVE  f[d].reserved = domains[d].reserved /\ DOMAIN f[d] = DOMAIN domains[d]
      <4>1. f[d] = IF d = src THEN release(domains[src], n) ELSE domains[d]
        BY DEF Inv, TypeOK, DomainsOK
      <4>2. /\ DOMAIN release(domains[src], n) = DOMAIN domains[src]
            /\ release(domains[src], n).reserved = domains[src].reserved
        BY CountersAt, CountersAfter
      <4> HIDE DEF f
      <4> QED BY <4>1, <4>2
    <3>2. f \in [Domains -> {f[d] : d \in Domains}]
      BY DEF Inv, TypeOK, DomainsOK
    <3>3. domains' = [f EXCEPT ![dom] = commit(f[dom], n)]
      BY <1>2, <1>9, <2>1 DEF DemoteCommit
    <3> HIDE DEF f
    <3>4. commit(f[dom], n).reserved = domains[dom].reserved - n
      BY <3>1, CountersAt, CountersAfter
    <3>5. \A d \in Domains : domains'[d].reserved =
            IF d = dom THEN domains[d].reserved - n ELSE domains[d].reserved
      BY <3>1, <3>2, <3>3, <3>4
    <3> QED BY <1>7, <3>5
  <2>2. CASE ~ can_release(domains[src], n)
    BY <1>2, <1>9, <2>2 DEF DemoteCommit
  <2> QED BY <2>1, <2>2
<1> QED BY <1>6, <1>8, <1>9 DEF MigrateStale, MigrateFails, DemoteFails

\* The first and the last section of a move.
LEMMA MovePays ==
  ASSUME Inv, Inv', HoldsCovered, NEW t \in Threads,
         \/ \E r \in Ids, dest \in Domains : MigrateBegin(t, r, dest) \/ DemoteBegin(t, r, dest)
         \/ MigrateStale(t) \/ MigrateFails(t) \/ DemoteFails(t)
         \/ MigrateCommit(t) \/ DemoteCommit(t)
  PROVE  Pays(t)
<1>0. \A d \in Domains : domains[d].reserved \in Nat /\ Holding(call[t], d) \in Nat
  BY CountersAt, HoldIsHeld DEF Inv, TypeOK
<1>1. ASSUME NEW r \in Ids, NEW dest \in Domains, MigrateBegin(t, r, dest) \/ DemoteBegin(t, r, dest)
      PROVE  Pays(t)
  <2>1. CASE call' = call
    <3>1. PICK n \in Nat : \A d \in Domains :
            domains'[d].reserved = domains[d].reserved + (IF d = dest THEN n ELSE 0)
      BY <1>1, MoveBeginReserves
    <3> QED BY <1>0, <2>1, <3>1 DEF Pays
  <2>2. CASE call' # call
    <3>1. \A d \in Domains : /\ domains'[d].reserved = domains[d].reserved + Holding(call'[t], d)
                             /\ Holding(call[t], d) = 0
      BY <1>1, <2>2, MoveBeginReserves
    <3>2. \A d \in Domains : domains'[d].reserved \in Nat
      BY DEF Inv, TypeOK, DomainsOK, MemoryDomainRecord, Bytes
    <3> QED BY <1>0, <3>1, <3>2 DEF Pays
  <2> QED BY <2>1, <2>2
<1>2. CASE \/ MigrateStale(t) \/ MigrateFails(t) \/ DemoteFails(t)
           \/ MigrateCommit(t) \/ DemoteCommit(t)
  <2>1. Return(t)
    BY <1>2 DEF MigrateStale, MigrateFails, DemoteFails, MigrateCommit, DemoteCommit, MoveReverts
  <2>2. \A d \in Domains : Holding(call'[t], d) = 0
    BY <2>1, ReturnedHolds DEF Inv, TypeOK
  <2>3. \A d \in Domains : domains'[d].reserved \in Nat
    BY DEF Inv, TypeOK, DomainsOK, MemoryDomainRecord, Bytes
  <2>4. CASE domains' = domains
    BY <1>0, <2>2, <2>4 DEF Pays
  <2>5. CASE \A d \in Domains : domains[d].reserved = domains'[d].reserved + Holding(call[t], d)
    BY <1>0, <2>2, <2>3, <2>5 DEF Pays
  <2> QED BY <1>2, <2>4, <2>5, MoveSpends
<1> QED BY <1>1, <1>2

\* Every step pays for what it takes, and the members of a load fit.
LEMMA NextPays ==
  ASSUME Inv, Inv', Hands, HoldsCovered, MembersFit, FootprintsCover, Next, ~ UNCHANGED vars
  PROVE  /\ HoldsCovered' /\ MembersFit'
         /\ \E t \in Threads : Turn(t) /\ Pays(t)
<1>0. ResidenciesOK /\ CallsOK
  BY DEF Inv, TypeOK
<1>1. SUFFICES \E t \in Threads :
                 /\ Turn(t) /\ Pays(t)
                 /\ call'[t].op = "loading" =>
                      BytesOf(residencies', call'[t].members, call'[t].domain) <= call'[t].bytes
  <2>1. ASSUME NEW t \in Threads, Turn(t), Pays(t),
               call'[t].op = "loading" =>
                 BytesOf(residencies', call'[t].members, call'[t].domain) <= call'[t].bytes
        PROVE  HoldsCovered' /\ MembersFit'
    <3>1. MembersFit'
      BY <2>1, MembersStay
    <3>2. \A u \in Threads \ {t} : call'[u] = call[u]
      BY <2>1 DEF Turn
    <3>3. HoldsCovered'
      BY <2>1, <3>2, CoveredStays
    <3> QED BY <3>1, <3>3
  <2> QED BY <2>1
<1>2. ASSUME NEW t \in Threads, Begin(t)
      PROVE  Turn(t) /\ Pays(t) /\ call'[t].op # "loading"
  <2>1. Turn(t)
    BY <1>2, BeginTurn
  <2>2. CASE \E m \in Models, a \in AdapterSets : LoadAdmit(t, m, a)
    <3>1. PICK m \in Models, a \in AdapterSets : LoadAdmit(t, m, a)
      BY <2>2
    <3>2. PICK v \in Verdicts(domains, residencies, m, a) :
            call' = [call EXCEPT ![t] = v] /\ domains' = domains
      BY <3>1 DEF LoadAdmit
    <3>3. v.op \in {"reuse", "place", "evict"}
      <4>1. DOMAIN residencies \subseteq Nat
        BY <1>0, IdsOK DEF Ids
      <4> QED BY <3>2, <4>1, VerdictIsCall
    <3>4. call'[t] = v
      BY <1>0, <3>2 DEF CallsOK
    <3>5. call[t].op = "idle"
      BY <3>1 DEF LoadAdmit, Idle
    <3>6. \A d : Holding(call'[t], d) = 0 /\ Holding(call[t], d) = 0
      BY <3>3, <3>4, <3>5, HoldingCases
    <3>7. Pays(t)
      BY <3>2, <3>6, NothingTaken
    <3> QED BY <2>1, <3>3, <3>4, <3>7
  <2>3. CASE \E r \in Ids, dest \in Domains : MigrateBegin(t, r, dest) \/ DemoteBegin(t, r, dest)
    <3>1. Pays(t)
      BY <2>3, MovePays
    <3>2. call'[t].op # "loading"
      <4>0. PICK r \in Ids, dest \in Domains : MigrateBegin(t, r, dest) \/ DemoteBegin(t, r, dest)
        BY <2>3
      <4>1. PICK op \in {"migrating", "demoting"}, state \in {"Migrating", "Demoting"},
                 node \in {residencies[r].node, Node[dest]} :
              MoveBegin(t, op, state, r, dest, node)
        BY <4>0 DEF MigrateBegin, DemoteBegin
      <4>2. CASE call' = call
        BY <4>1, <4>2 DEF MoveBegin, Idle
      <4>3. CASE call' = [call EXCEPT ![t] = Moving(op, r, dest, node)]
        <5>1. call'[t] = Moving(op, r, dest, node)
          BY <1>0, <4>3 DEF CallsOK
        <5>2. Moving(op, r, dest, node).op = op
          BY IdleIsCall DEF Moving, CallRecord
        <5> QED BY <5>1, <5>2
      <4> QED BY <4>1, <4>2, <4>3 DEF MoveBegin
    <3> QED BY <2>1, <3>1, <3>2
  <2> QED BY <1>2, <2>2, <2>3 DEF Begin
<1>3. ASSUME NEW t \in Threads, Continue(t)
      PROVE  /\ Turn(t) /\ Pays(t)
             /\ call'[t].op = "loading" =>
                  BytesOf(residencies', call'[t].members, call'[t].domain) <= call'[t].bytes
  <2>1. Turn(t)
    BY <1>3, ContinueTurn
  <2>2. CASE /\ call[t].op \notin {"loading", "migrating", "demoting"}
             /\ call'[t].op \notin {"loading", "migrating", "demoting"}
             /\ \A d \in Domains : domains'[d].reserved = domains[d].reserved
    <3>1. \A d : Holding(call'[t], d) = 0 /\ Holding(call[t], d) = 0
      BY <2>2, HoldingCases
    <3> QED BY <2>1, <2>2, <3>1, NothingTaken
  <2>3. Return(t) => call'[t].op = "idle"
    BY <1>0 DEF Return, IdleCall, CallsOK
  <2>4. CASE LoadReuse(t) \/ LoadEvictGivesUp(t) \/ LoadRefused(t)
    BY <2>2, <2>3, <2>4 DEF LoadReuse, LoadEvictGivesUp, LoadRefused
  <2>5. CASE LoadEvictRelocks(t)
    <3>1. /\ call' = [call EXCEPT ![t] = [call[t] EXCEPT !.op = "blocked"]]
          /\ domains' = domains /\ call[t].op = "evict"
      BY <2>5 DEF LoadEvictRelocks
    <3>2. call'[t].op = "blocked"
      BY <1>0, <3>1 DEF CallsOK, CallRecord
    <3> QED BY <2>2, <3>1, <3>2
  <2>6. CASE LoadEvictRound(t)
    <3>1. call[t].op = "evict" /\ call'[t].op \in {"place", "evict", "idle"}
      BY <2>6, EvictRoundTurn DEF LoadEvictRound
    <3>2. \A d \in Domains : domains'[d].reserved = domains[d].reserved
      BY <2>6, EvictReserves DEF LoadEvictRound, Victims
    <3> QED BY <2>2, <3>1, <3>2
  <2>7. CASE LoadBegin(t)
    BY <2>1, <2>7, LoadBeginPays
  <2>8. CASE LoadStale(t) \/ LoadPublish(t) \/ LoadPartial(t) \/ LoadCommitThrows(t)
    <3>1. Return(t)
      BY <2>8 DEF LoadStale, LoadPublish, LoadPartial, LoadCommitThrows
    <3> QED BY <2>1, <2>3, <2>8, <3>1, LoadPays
  <2>9. CASE \/ MigrateStale(t) \/ MigrateFails(t) \/ DemoteFails(t)
             \/ MigrateCommit(t) \/ DemoteCommit(t)
    <3>1. Return(t)
      BY <2>9 DEF MigrateStale, MigrateFails, DemoteFails, MigrateCommit, DemoteCommit, MoveReverts
    <3> QED BY <2>1, <2>3, <2>9, <3>1, MovePays
  <2>10. CASE MigrateCommitThrows(t) \/ DemoteCommitThrows(t)
    BY <2>10, NoMoveThrows
  <2> QED BY <1>3, <2>4, <2>5, <2>6, <2>7, <2>8, <2>9, <2>10 DEF Continue
<1>4. CASE AtomicCall
  <2>1. PICK t \in Threads : Turn(t) /\ Idle(t) /\ call' = call
    BY <1>4, AtomicTurn
  <2>2. Pays(t)
    BY <1>4, <2>1, AtomicReserves, NothingTaken
  <2>3. call'[t].op # "loading"
    BY <2>1 DEF Idle
  <2> QED BY <2>1, <2>2, <2>3
<1> QED BY <1>1, <1>2, <1>3, <1>4 DEF Next, CallersStop

\* The call states in which nothing is held.
LEMMA InitCovered == Init => HoldsCovered /\ MembersFit
<1> SUFFICES ASSUME Init PROVE HoldsCovered /\ MembersFit
  OBVIOUS
<1>1. \A t \in Threads : call[t].op = "idle"
  BY DEF Init, IdleCall
<1>2. MembersFit
  BY <1>1 DEF MembersFit
<1>3. ASSUME NEW d \in Domains PROVE Held(d) <= domains[d].reserved
  <2>1. {t \in Threads : call[t].op \in {"loading", "migrating", "demoting"}
                         /\ call[t].domain = d} = {}
    BY <1>1
  <2>2. Held(d) = SumFunctionOnSet([t \in Threads |-> call[t].bytes], {})
    BY <2>1 DEF Held
  <2>3. Held(d) = 0
    BY <2>2, FS_EmptySet, SumByPick
  <2>4. domains[d].reserved = 0
    BY DEF Init
  <2> QED BY <2>3, <2>4
<1> QED BY <1>2, <1>3 DEF HoldsCovered

\* No call spends what another holds, so the last section of a load, migrate or
\* demote always finds its reservation and neither its commit nor its cancel
\* throws: for models whose components fit the aggregate that load reserves.
THEOREM HoldsCoveredTheorem ==
  ASSUME FootprintsCover
  PROVE  Spec => []HoldsCovered
<1>1. Init => Inv /\ Hands /\ HoldsCovered /\ MembersFit
  BY InitInv, InitHands, InitCovered
<1>2. Inv /\ Hands /\ HoldsCovered /\ MembersFit /\ [Next]_vars
        => (Inv /\ Hands /\ HoldsCovered /\ MembersFit)'
  <2> SUFFICES ASSUME Inv, Hands, HoldsCovered, MembersFit, [Next]_vars
               PROVE  Inv' /\ Hands' /\ HoldsCovered' /\ MembersFit'
    OBVIOUS
  <2>1. Inv'
    BY NextInv
  <2>2. CASE UNCHANGED vars
    <3>1. UNCHANGED <<call, residencies, domains>>
      BY <2>2 DEF vars
    <3>2. Hands'
      BY <3>1 DEF Hands, HandsApart, HandsKept
    <3>3. HoldsCovered' /\ MembersFit'
      BY <3>1 DEF HoldsCovered, Held, MembersFit, BytesIn, Ids
    <3> QED BY <2>1, <3>2, <3>3
  <2>3. CASE Next /\ ~ UNCHANGED vars
    BY <2>1, <2>3, NextTurn, NextPays
  <2> QED BY <2>2, <2>3
<1> QED BY <1>1, <1>2, PTL DEF Spec

-----------------------------------------------------------------------------
(* Exact books.                                                            *)

\* The components of a model and its adapters take exactly the aggregate.
FootprintsExact ==
  \A m \in Models, a \in AdapterSets : Footprint(m, a) = AggregateBytes(m, a)

\* Nothing gives up or moves a residency while a move has it in hand: either one
\* thread makes all calls, or the callers leave out demote and do not use both
\* migrate and the operations that give up residencies whatever state they are in.
Unraced ==
  \/ \A t, u \in Threads : t = u
  \/ /\ "demote" \notin Ops
     /\ "migrate" \notin Ops \/ Ops \cap {"invalidate", "roll", "worker"} = {}

\* A residency whose bytes are in its domain.  None is ever left Evicting.
Residing(res) == res.lifecycle \in {"Resident", "Ready", "Migrating", "Demoting"}

\* The states a residency is ever left in.
Known(res) == res.lifecycle = "Declared" \/ Residing(res) \/ res.lifecycle \in TerminalState
AllKnown == \A r \in Ids : Known(residencies[r])

\* Authority is stale in the end states only, and what resides has a buffer.
Proper(res) ==
  /\ res.lifecycle = "Declared" \/ Residing(res) \/ res.lifecycle \in TerminalState
  /\ res.authority = "Stale" <=> res.lifecycle \in TerminalState
  /\ res.handle # 0 <=> Residing(res)
AllProper == \A r \in Ids : Proper(residencies[r])

\* The buffers of what resides are live and distinct.
BuffersKept ==
  /\ 0 \notin heap
  /\ \A r \in Ids : Residing(residencies[r]) =>
       /\ residencies[r].handle \in heap
       /\ \A q \in Ids \ {r} : residencies[q].handle # residencies[r].handle

\* A move remembers the buffer of its source; no other call remembers one.
CallHandles ==
  \A t \in Threads : call[t].handle =
    IF call[t].op \in {"migrating", "demoting"} THEN residencies[call[t].residency].handle ELSE 0

\* What is moving is in some call's hands, and calls are of the operations used.
MovesInHand ==
  \A r \in Ids : residencies[r].lifecycle \in {"Migrating", "Demoting"} =>
    \E t \in Threads : r \in InHand(call[t])
OpsUsed ==
  \A t \in Threads :
    /\ call[t].op = "migrating" => "migrate" \in Ops
    /\ call[t].op = "demoting" => "demote" \in Ops

\* What resides is of the model's current generation.
ResidentIsCurrent ==
  \A r \in Ids : Residing(residencies[r]) =>
    residencies[r].modelGeneration = modelGens[residencies[r].model]

\* The members of a load take what the call reserved for them.
MembersExact ==
  \A t \in Threads : call[t].op = "loading" =>
    BytesIn(call[t].members, call[t].domain) = call[t].bytes

\* Every call in flight is of the current generation of its model.
CallsCurrent ==
  \A t \in Threads : call[t].op \in {"loading", "migrating"} => StillCurrent(call[t])

\* The residencies of ress that reside.
ResidingIn(ress) == {r \in DOMAIN ress : Residing(ress[r])}

\* What a step does to the residencies: those of gone leave, or are about to
\* arrive again elsewhere; those of come arrive; the others stay as they are.
Exchange(gone, come) ==
  /\ gone \in SUBSET Ids /\ come \in SUBSET Ids' /\ Ids \subseteq Ids'
  /\ \A r \in gone : Residing(residencies[r])
  /\ \A r \in come :
       /\ residencies'[r].lifecycle \in {"Resident", "Ready"}
       /\ residencies'[r].modelGeneration = modelGens'[residencies'[r].model]
       /\ r \in Ids => r \in gone \/ ~ Residing(residencies[r])
  /\ \A r \in Ids' \ come :
       Residing(residencies'[r]) <=> r \in Ids \ gone /\ Residing(residencies[r])
  /\ \A r \in Ids \ (gone \cup come) : Residing(residencies[r]) =>
       /\ residencies'[r].domain = residencies[r].domain
       /\ residencies'[r].handle = residencies[r].handle
       /\ modelGens'[residencies[r].model] = modelGens[residencies[r].model]
  /\ \A r \in Ids' : Proper(residencies'[r])

\* The same, of the residencies' places only.
Trades(gone, come) ==
  /\ gone \in SUBSET Ids /\ come \in SUBSET Ids' /\ Ids \subseteq Ids'
  /\ \A r \in gone : Residing(residencies[r])
  /\ \A r \in come : /\ Residing(residencies'[r])
                     /\ r \in Ids => r \in gone \/ ~ Residing(residencies[r])
  /\ \A r \in Ids' \ come :
       Residing(residencies'[r]) <=> r \in Ids \ gone /\ Residing(residencies[r])
  /\ \A r \in Ids \ (gone \cup come) : Residing(residencies[r]) =>
       residencies'[r].domain = residencies[r].domain
  /\ \A r \in Ids' : Known(residencies'[r])

\* The domains account for what leaves and arrives.
Accounted(gone, come) ==
  \A d \in Domains : domains'[d].resident + BytesOf(residencies, gone, d) =
                       domains[d].resident + BytesOf(residencies', come, d)

\* The buffers of what leaves are freed, what arrives has new ones, and nobody
\* has those that leak.
Buffered(gone, come, leaked) ==
  /\ heap' = (heap \ {residencies[r].handle : r \in gone})
               \cup {residencies'[r].handle : r \in come} \cup leaked
  /\ 0 \notin leaked
  /\ \A r \in come : /\ residencies'[r].handle \notin heap
                     /\ \A q \in come \ {r} : residencies'[q].handle # residencies'[r].handle

\* What the call of t remembers afterwards, and what it leaves moving.
Leaves(t) ==
  /\ call'[t].handle = IF call'[t].op \in {"migrating", "demoting"}
                       THEN residencies'[call'[t].residency].handle ELSE 0
  /\ call'[t].op = "migrating" => "migrate" \in Ops
  /\ call'[t].op = "demoting" => "demote" \in Ops
  /\ \A r \in Ids' : residencies'[r].lifecycle \in {"Migrating", "Demoting"} =>
       \/ r \in InHand(call'[t])
       \/ /\ r \in Ids /\ residencies[r].lifecycle \in {"Migrating", "Demoting"}
          /\ r \notin InHand(call[t])

\* Bytes of none and of one residency.
LEMMA BytesOfFew ==
  ASSUME NEW ress \in Seq(Residency), NEW d
  PROVE  /\ BytesOf(ress, {}, d) = 0
         /\ \A r \in DOMAIN ress :
              BytesOf(ress, {r}, d) = IF ress[r].domain = d THEN ress[r].bytes ELSE 0
<1> DEFINE f == [r \in DOMAIN ress |-> ress[r].bytes]
<1>1. \A x \in DOMAIN ress : f[x] \in Nat /\ f[x] = ress[x].bytes
  BY SequenceOfResidencies
<1>2. \A S, T : T = {r \in S : ress[r].domain = d} => BytesOf(ress, S, d) = SumFunctionOnSet(f, T)
  BY DEF BytesOf
<1> HIDE DEF f
<1>3. SumFunctionOnSet(f, {}) = 0
  BY FS_EmptySet, SumByPick
<1>4. ASSUME NEW r \in DOMAIN ress
      PROVE  BytesOf(ress, {r}, d) = IF ress[r].domain = d THEN ress[r].bytes ELSE 0
  <2>1. CASE ress[r].domain = d
    <3>1. {r} = {x \in {r} : ress[x].domain = d}
      BY <2>1
    <3>2. BytesOf(ress, {r}, d) = SumFunctionOnSet(f, {r})
      BY <1>2, <3>1
    <3> QED BY <1>1, <2>1, <3>2, SumOfOne
  <2>2. CASE ress[r].domain # d
    <3>1. {} = {x \in {r} : ress[x].domain = d}
      BY <2>2
    <3>2. BytesOf(ress, {r}, d) = SumFunctionOnSet(f, {})
      BY <1>2, <3>1
    <3> QED BY <1>3, <2>2, <3>2
  <2> QED BY <2>1, <2>2
<1>5. BytesOf(ress, {}, d) = 0
  <2>1. {} = {x \in {} : ress[x].domain = d}
    OBVIOUS
  <2> QED BY <1>2, <1>3, <2>1
<1> QED BY <1>4, <1>5

\* A residency resides exactly in the states the code calls resident.
LEMMA KnownStates ==
  ASSUME NEW res, Known(res)
  PROVE  is_resident_state(res.lifecycle) <=> Residing(res)
BY DEF Known, Residing, is_resident_state, ResidentState, TerminalState

\* What is proper is in such a state.
LEMMA ResidingStates ==
  ASSUME NEW res, Proper(res)
  PROVE  Known(res) /\ (is_resident_state(res.lifecycle) <=> Residing(res))
<1>1. Known(res)
  BY DEF Proper, Known
<1> QED BY <1>1, KnownStates

\* The resident bytes of the domains, with the residencies.
LEMMA ResidenceSays ==
  ASSUME AllKnown
  PROVE  ExactResidence <=>
           \A d \in Domains : domains[d].resident = BytesOf(residencies, ResidingIn(residencies), d)
<1>1. {r \in Ids : is_resident_state(residencies[r].lifecycle)} = ResidingIn(residencies)
  BY KnownStates DEF AllKnown, ResidingIn, Ids
<1> QED BY <1>1, HeldAndBytes DEF ExactResidence

\* The same of the next state.
LEMMA ResidenceSaysNext ==
  ASSUME \A r \in Ids' : Known(residencies'[r])
  PROVE  ExactResidence' <=>
           \A d \in Domains : domains'[d].resident = BytesOf(residencies', ResidingIn(residencies'), d)
<1>1. {r \in Ids' : is_resident_state(residencies'[r].lifecycle)} = ResidingIn(residencies')
  BY KnownStates DEF ResidingIn, Ids
<1>2. \A S, d : BytesIn(S, d)' = BytesOf(residencies', S, d)
  BY DEF BytesIn, BytesOf, Ids
<1> QED BY <1>1, <1>2 DEF ExactResidence

\* An exchange trades places.
LEMMA ExchangeTrades ==
  ASSUME NEW gone, NEW come, Exchange(gone, come)
  PROVE  Trades(gone, come)
<1>1. \A r \in come : Residing(residencies'[r])
  BY DEF Exchange, Residing
<1>2. \A r \in Ids' : Known(residencies'[r])
  BY DEF Exchange, Proper, Known
<1> QED BY <1>1, <1>2 DEF Exchange, Trades

\* Resident counters stay exact in a trade that is accounted for.
LEMMA ResidenceStays ==
  ASSUME Inv, Inv', AllKnown, ExactResidence, NEW t \in Threads, Turn(t),
         NEW gone, NEW come, Trades(gone, come), Accounted(gone, come)
  PROVE  ExactResidence'
<1>0. residencies \in Seq(Residency) /\ residencies' \in Seq(Residency)
  BY DEF Inv, TypeOK, ResidenciesOK
<1>1. PICK old \in Seq(Residency), new \in Seq(Residency) : old = residencies /\ new = residencies'
  BY <1>0
<1>2. DOMAIN old = Ids /\ DOMAIN new = Ids'
  BY <1>1 DEF Ids
<1>3. PICK R \in SUBSET DOMAIN old, N \in SUBSET DOMAIN new : R = ResidingIn(old) /\ N = ResidingIn(new)
  BY DEF ResidingIn
<1>4. gone \in SUBSET R /\ come \in SUBSET N /\ N \ come = R \ gone
  <2>1. \A r \in gone : r \in R
    BY <1>1, <1>2, <1>3 DEF Trades, ResidingIn
  <2>2. \A r \in come : r \in N
    BY <1>1, <1>2, <1>3 DEF Trades, ResidingIn
  <2>3. ASSUME NEW r \in N \ come PROVE r \in R \ gone
    BY <1>1, <1>2, <1>3 DEF Trades, ResidingIn
  <2>4. ASSUME NEW r \in R \ gone PROVE r \in N \ come
    <3>1. r \in Ids /\ Residing(residencies[r]) /\ r \in Ids'
      BY <1>1, <1>2, <1>3 DEF Trades, ResidingIn
    <3>2. r \notin come
      BY <3>1 DEF Trades
    <3>3. Residing(residencies'[r])
      BY <3>1, <3>2 DEF Trades
    <3> QED BY <1>1, <1>2, <1>3, <3>1, <3>2, <3>3 DEF ResidingIn
  <2> QED BY <2>1, <2>2, <2>3, <2>4
<1>5. \A r \in Ids' : Known(residencies'[r])
  BY DEF Trades
<1>6. ASSUME NEW d \in Domains PROVE domains'[d].resident = BytesOf(new, N, d)
  <2>1. Parts(old, R, gone, d)
    <3>1. gone \subseteq R /\ R \subseteq DOMAIN old /\ old \in Seq(Residency)
      BY <1>4
    <3> QED BY <3>1, BytesParts, Zenon
  <2>2. Parts(new, N, come, d)
    <3>1. come \subseteq N /\ N \subseteq DOMAIN new /\ new \in Seq(Residency)
      BY <1>4
    <3> QED BY <3>1, BytesParts, Zenon
  <2>3. BytesOf(new, R \ gone, d) = BytesOf(old, R \ gone, d)
    <3>1. IsFiniteSet(R \ gone)
      BY PositionsFinite
    <3>2. ASSUME NEW r \in R \ gone
          PROVE  /\ r \in DOMAIN old /\ r \in DOMAIN new /\ old[r].bytes \in Nat
                 /\ new[r].bytes = old[r].bytes /\ new[r].domain = old[r].domain
      <4>1. r \in DOMAIN old /\ r \in DOMAIN new /\ r \notin come /\ r \in Ids
        BY <1>2, <1>4
      <4>2. Residing(residencies[r])
        BY <1>1, <1>3 DEF ResidingIn
      <4>3. residencies'[r].domain = residencies[r].domain
        BY <4>1, <4>2 DEF Trades
      <4>4. SameModel(residencies'[r], residencies[r])
        BY <4>1 DEF Turn
      <4> QED BY <1>1, <4>1, <4>3, <4>4, SequenceOfResidencies DEF SameModel
    <3> QED BY <3>1, <3>2, BytesAgree
  <2>4. domains[d].resident = BytesOf(old, R, d)
    BY <1>1, <1>3, ResidenceSays
  <2>5. domains'[d].resident + BytesOf(old, gone, d) = domains[d].resident + BytesOf(new, come, d)
    BY <1>1 DEF Accounted
  <2>6. domains'[d].resident \in Nat
    BY DEF Inv, TypeOK, DomainsOK, MemoryDomainRecord, Bytes
  <2>7. BytesOf(new, N \ come, d) = BytesOf(old, R \ gone, d)
    BY <1>4, <2>3
  <2> QED BY <2>1, <2>2, <2>4, <2>5, <2>6, <2>7 DEF Parts
<1> QED BY <1>1, <1>3, <1>5, <1>6, ResidenceSaysNext

\* What resides keeps live buffers of its own.
LEMMA BuffersStay ==
  ASSUME AllProper, BuffersKept, NEW gone, NEW come, NEW leaked,
         Exchange(gone, come), Buffered(gone, come, leaked)
  PROVE  BuffersKept'
<1>1. 0 \notin heap'
  <2>1. \A r \in come : residencies'[r].handle # 0
    BY DEF Exchange, Proper, Residing
  <2> QED BY <2>1 DEF Buffered, BuffersKept
<1>2. ASSUME NEW r \in Ids', Residing(residencies'[r]), r \notin come
      PROVE  /\ r \in Ids \ gone /\ Residing(residencies[r])
             /\ residencies'[r].handle = residencies[r].handle
  BY <1>2 DEF Exchange
<1>3. ASSUME NEW r \in Ids', Residing(residencies'[r])
      PROVE  residencies'[r].handle \in heap'
  <2>1. CASE r \in come
    BY <2>1 DEF Buffered
  <2>2. CASE r \notin come
    <3>1. residencies[r].handle \in heap
      BY <1>2, <1>3, <2>2 DEF BuffersKept
    <3>2. \A q \in gone : residencies[q].handle # residencies[r].handle
      BY <1>2, <1>3, <2>2 DEF BuffersKept, Exchange
    <3> QED BY <1>2, <1>3, <2>2, <3>1, <3>2 DEF Buffered
  <2> QED BY <2>1, <2>2
<1>4. ASSUME NEW r \in Ids', Residing(residencies'[r]), NEW q \in Ids' \ {r}
      PROVE  residencies'[q].handle # residencies'[r].handle
  <2>1. CASE ~ Residing(residencies'[q])
    BY <1>4, <2>1 DEF Exchange, Proper
  <2>2. CASE Residing(residencies'[q]) /\ r \in come /\ q \in come
    BY <2>2 DEF Buffered
  <2>3. CASE Residing(residencies'[q]) /\ r \in come /\ q \notin come
    <3>1. residencies'[q].handle \in heap
      BY <1>2, <2>3 DEF BuffersKept
    <3> QED BY <2>3, <3>1 DEF Buffered
  <2>4. CASE Residing(residencies'[q]) /\ r \notin come /\ q \in come
    <3>1. residencies'[r].handle \in heap
      BY <1>2, <1>4, <2>4 DEF BuffersKept
    <3> QED BY <2>4, <3>1 DEF Buffered
  <2>5. CASE Residing(residencies'[q]) /\ r \notin come /\ q \notin come
    <3>1. /\ r \in Ids /\ q \in Ids /\ Residing(residencies[r])
          /\ residencies'[r].handle = residencies[r].handle
          /\ residencies'[q].handle = residencies[q].handle
      BY <1>2, <1>4, <2>5
    <3> QED BY <3>1 DEF BuffersKept
  <2> QED BY <2>1, <2>2, <2>3, <2>4, <2>5
<1> QED BY <1>1, <1>3, <1>4 DEF BuffersKept

\* What resides stays of the current generation.
LEMMA CurrentStays ==
  ASSUME ResidentIsCurrent, NEW t \in Threads, Turn(t), NEW gone, NEW come, Exchange(gone, come)
  PROVE  ResidentIsCurrent'
<1>1. ASSUME NEW r \in Ids', Residing(residencies'[r])
      PROVE  residencies'[r].modelGeneration = modelGens'[residencies'[r].model]
  <2>1. CASE r \in come
    BY <2>1 DEF Exchange
  <2>2. CASE r \notin come
    <3>1. r \in Ids \ gone /\ Residing(residencies[r])
      BY <1>1, <2>2 DEF Exchange
    <3>2. modelGens'[residencies[r].model] = modelGens[residencies[r].model]
      BY <2>2, <3>1 DEF Exchange
    <3>3. SameModel(residencies'[r], residencies[r])
      BY <3>1 DEF Turn
    <3> QED BY <3>1, <3>2, <3>3 DEF SameModel, ResidentIsCurrent
  <2> QED BY <2>1, <2>2
<1> QED BY <1>1 DEF ResidentIsCurrent

\* Calls remember the right buffers, what moves is in hand, and calls are of the
\* operations used.
LEMMA CallsStayExact ==
  ASSUME Inv, Hands, CallHandles, MovesInHand, OpsUsed, NEW t \in Threads, Turn(t),
         Leaves(t), NEW gone, NEW come, Exchange(gone, come)
  PROVE  CallHandles' /\ MovesInHand' /\ OpsUsed'
<1>0. CallsOK
  BY DEF Inv, TypeOK
<1>1. ASSUME NEW u \in Threads
      PROVE  call'[u].handle = IF call'[u].op \in {"migrating", "demoting"}
                               THEN residencies'[call'[u].residency].handle ELSE 0
  <2>1. CASE u = t
    BY <2>1 DEF Leaves
  <2>2. CASE u # t /\ call[u].op \in {"migrating", "demoting"}
    <3>1. PICK r \in InHand(call[u]) : r = call[u].residency
      BY <2>2, HandCases
    <3>2. /\ r \in Ids /\ call'[u] = call[u]
          /\ SamePlace(residencies'[r], residencies[r])
      BY <1>0, <2>2, OthersHands
    <3>3. residencies[r].lifecycle \in {"Migrating", "Demoting"}
      BY <2>2, <3>1, HandCases DEF Hands, HandsKept, AsLeft
    <3>4. r \in Ids' /\ residencies'[r].lifecycle \in {"Migrating", "Demoting"}
      BY <3>2, <3>3 DEF SamePlace, Exchange
    <3>5. r \notin come
      BY <3>4 DEF Exchange
    <3>6. Residing(residencies'[r]) /\ Residing(residencies[r])
      BY <3>3, <3>4 DEF Residing
    <3>7. r \notin gone
      BY <3>4, <3>5, <3>6 DEF Exchange
    <3>8. residencies'[r].handle = residencies[r].handle
      BY <3>2, <3>5, <3>6, <3>7 DEF Exchange
    <3> QED BY <2>2, <3>1, <3>2, <3>8 DEF CallHandles
  <2>3. CASE u # t /\ call[u].op \notin {"migrating", "demoting"}
    BY <2>3 DEF Turn, CallHandles
  <2> QED BY <2>1, <2>2, <2>3
<1>2. ASSUME NEW r \in Ids', residencies'[r].lifecycle \in {"Migrating", "Demoting"}
      PROVE  \E u \in Threads : r \in InHand(call'[u])
  <2>1. CASE r \in Ids /\ residencies[r].lifecycle \in {"Migrating", "Demoting"}
             /\ r \notin InHand(call[t])
    <3>1. PICK u \in Threads : r \in InHand(call[u])
      BY <2>1 DEF MovesInHand
    <3>2. call'[u] = call[u]
      BY <2>1, <3>1 DEF Turn
    <3> QED BY <3>1, <3>2
  <2> QED BY <1>2, <2>1 DEF Leaves
<1>3. OpsUsed'
  BY DEF OpsUsed, Turn, Leaves
<1>4. MovesInHand'
  BY <1>2 DEF MovesInHand
<1> QED BY <1>1, <1>3, <1>4 DEF CallHandles

\* The members of every load take exactly what it reserved, still.
LEMMA MembersStayExact ==
  ASSUME Inv, Hands, MembersExact, NEW t \in Threads, Turn(t),
         call'[t].op = "loading" =>
           BytesOf(residencies', call'[t].members, call'[t].domain) = call'[t].bytes
  PROVE  MembersExact'
<1>1. ASSUME NEW u \in Threads, call'[u].op = "loading"
      PROVE  BytesOf(residencies', call'[u].members, call'[u].domain) = call'[u].bytes
  <2>1. CASE u = t
    BY <1>1, <2>1
  <2>2. CASE u # t
    <3>1. call'[u] = call[u]
      BY <2>2 DEF Turn
    <3>2. BytesOf(residencies, call[u].members, call[u].domain) = call[u].bytes
      BY <1>1, <3>1, HeldAndBytes DEF MembersExact
    <3> QED BY <1>1, <2>2, <3>1, <3>2, OthersMembers
  <2> QED BY <2>1, <2>2
<1>2. \A S, d : BytesIn(S, d)' = BytesOf(residencies', S, d)
  BY DEF BytesIn, BytesOf, Ids
<1> QED BY <1>1, <1>2 DEF MembersExact

\* Reservations stay exact when a step takes what its thread stops holding.
LEMMA ReservationsStay ==
  ASSUME Inv, Inv', ExactReservations, NEW t \in Threads,
         \A u \in Threads \ {t} : call'[u] = call[u], PaysExactly(t)
  PROVE  ExactReservations'
<1>0. CallsOK /\ CallsOK'
  BY DEF Inv, TypeOK
<1>1. ASSUME NEW d \in Domains PROVE domains'[d].reserved = Held(d)'
  <2>1. PICK others \in Nat : /\ Held(d) = others + Holding(call[t], d)
                              /\ Held(d)' = others + Holding(call'[t], d)
    BY <1>0, HeldChanges
  <2>2. domains[d].reserved \in Nat /\ domains'[d].reserved \in Nat
    BY DEF Inv, TypeOK, DomainsOK, MemoryDomainRecord, Bytes
  <2>3. Holding(call[t], d) \in Nat
    BY <1>0, HoldIsHeld
  <2>4. Holding(call'[t], d) \in Nat
    <3>1. call'[t] \in CallRecord
      BY <1>0 DEF CallsOK
    <3> QED BY <3>1 DEF Holding, CallRecord, Bytes
  <2>5. /\ domains[d].reserved = Held(d)
        /\ domains[d].reserved + Holding(call'[t], d) = domains'[d].reserved + Holding(call[t], d)
    BY DEF ExactReservations, PaysExactly
  <2> QED BY <2>1, <2>2, <2>3, <2>4, <2>5
<1> QED BY <1>1 DEF ExactReservations

\* Exact books cover the holds and the members.
LEMMA ExactCovers ==
  ASSUME Inv, ExactReservations, MembersExact
  PROVE  HoldsCovered /\ MembersFit
<1>1. ASSUME NEW d \in Domains PROVE Held(d) <= domains[d].reserved
  <2>1. domains[d].reserved \in Nat
    BY CountersAt
  <2> QED BY <2>1 DEF ExactReservations
<1>2. ASSUME NEW t \in Threads, call[t].op = "loading"
      PROVE  BytesIn(call[t].members, call[t].domain) <= call[t].bytes
  <2>1. call[t].bytes \in Nat
    BY DEF Inv, TypeOK, CallsOK, CallRecord, Bytes
  <2> QED BY <1>2, <2>1 DEF MembersExact
<1> QED BY <1>1, <1>2 DEF HoldsCovered, MembersFit

\* The inductive invariant.
Books ==
  /\ Inv /\ Hands
  /\ ExactReservations /\ MembersExact /\ ExactResidence /\ ResidentIsCurrent
  /\ AllProper /\ BuffersKept /\ CallHandles /\ MovesInHand /\ OpsUsed

\* The part of it that a restart does not lose.
Residence == Inv /\ Hands /\ HoldsCovered /\ MembersFit /\ ExactResidence /\ AllKnown

\* Exact books include it.
LEMMA BooksReside ==
  ASSUME Books
  PROVE  Residence
<1>1. HoldsCovered /\ MembersFit
  BY ExactCovers DEF Books
<1>2. AllKnown
  BY ResidingStates DEF Books, AllProper, AllKnown
<1> QED BY <1>1, <1>2 DEF Books, Residence

\* What leaves and arrives is accounted for, its buffers too, and a buffer leaks
\* only when a call in flight is of an old generation.
Settles ==
  \E gone, come, leaked :
    /\ Exchange(gone, come) /\ Accounted(gone, come) /\ Buffered(gone, come, leaked)
    /\ CallsCurrent => leaked = {}

\* A step of t that keeps the books.
KeepsBooks(t) ==
  /\ Turn(t) /\ PaysExactly(t) /\ Leaves(t)
  /\ call'[t].op = "loading" =>
       /\ BytesOf(residencies', call'[t].members, call'[t].domain) = call'[t].bytes
       /\ modelGens'[call'[t].model] = call'[t].modelGeneration
  /\ Settles

\* Such a step preserves the invariant.
LEMMA BooksStay ==
  ASSUME Books, Inv', Hands', NEW t \in Threads, KeepsBooks(t)
  PROVE  Books'
<1>1. PICK gone, come, leaked :
        Exchange(gone, come) /\ Accounted(gone, come) /\ Buffered(gone, come, leaked)
  BY DEF KeepsBooks, Settles
<1>2. \A u \in Threads \ {t} : call'[u] = call[u]
  BY DEF KeepsBooks, Turn
<1>3. ExactReservations'
  BY <1>2, ReservationsStay DEF Books, KeepsBooks
<1>4. MembersExact'
  BY MembersStayExact DEF Books, KeepsBooks
<1>5. ExactResidence'
  BY <1>1, ExchangeTrades, BooksReside, ResidenceStays DEF Residence, KeepsBooks
<1>6. ResidentIsCurrent'
  BY <1>1, CurrentStays DEF Books, KeepsBooks
<1>7. AllProper'
  BY <1>1 DEF Exchange, AllProper
<1>8. BuffersKept'
  BY <1>1, BuffersStay DEF Books
<1>9. CallHandles' /\ MovesInHand' /\ OpsUsed'
  BY <1>1, CallsStayExact DEF Books, KeepsBooks
<1> QED BY <1>3, <1>4, <1>5, <1>6, <1>7, <1>8, <1>9 DEF Books

\* When a thread that is outside any call gives up residencies, none is moving.
LEMMA NobodyMoves ==
  ASSUME Books, Unraced, Caller, Ops \cap {"invalidate", "roll", "worker"} # {}
  PROVE  \A r \in Ids : residencies[r].lifecycle \notin {"Migrating", "Demoting"}
<1> SUFFICES ASSUME NEW r \in Ids, residencies[r].lifecycle \in {"Migrating", "Demoting"}
             PROVE  FALSE
  OBVIOUS
<1>1. PICK u \in Threads : r \in InHand(call[u])
  BY DEF Books, MovesInHand
<1>2. residencies[r].lifecycle = HandState(call[u])
  BY <1>1 DEF Books, Hands, HandsKept, AsLeft
<1>3. call[u].op \in {"migrating", "demoting"}
  BY <1>1, <1>2, HandCases
<1>4. PICK t \in Threads : call[t].op = "idle"
  BY DEF Caller, Idle
<1> QED BY <1>3, <1>4 DEF Unraced, Books, OpsUsed

\* A move never begins with a residency that is already moving: the transition
\* of the source does not throw.
LEMMA MovesBegin ==
  ASSUME Books, Unraced, NEW t \in Threads, NEW r \in Ids, NEW dest \in Domains,
         MigrateBegin(t, r, dest) \/ DemoteBegin(t, r, dest)
  PROVE  residencies[r].lifecycle \in {"Resident", "Ready"}
<1>1. /\ call[t].op = "idle" /\ is_resident_state(residencies[r].lifecycle)
      /\ "demote" \in Ops \/ residencies[r].lifecycle # "Migrating"
  BY DEF MigrateBegin, DemoteBegin, MoveBegin, Idle
<1>2. Residing(residencies[r])
  BY <1>1, ResidingStates DEF Books, AllProper
<1>3. SUFFICES ASSUME residencies[r].lifecycle \in {"Migrating", "Demoting"} PROVE FALSE
  BY <1>2 DEF Residing
<1>4. PICK u \in Threads : r \in InHand(call[u])
  BY <1>3 DEF Books, MovesInHand
<1>5. residencies[r].lifecycle = HandState(call[u])
  BY <1>4 DEF Books, Hands, HandsKept, AsLeft
<1>6. \/ call[u].op = "migrating" /\ residencies[r].lifecycle = "Migrating"
      \/ call[u].op = "demoting"
  BY <1>3, <1>4, <1>5, HandCases
<1> QED BY <1>1, <1>6 DEF Unraced, Books, OpsUsed

\* What resides can be released: no release throws.
LEMMA ReleasesFit ==
  ASSUME Residence, NEW P \in SUBSET ResidingIn(residencies), NEW d \in Domains
  PROVE  BytesIn(P, d) \in 0..domains[d].resident /\ can_release(domains[d], BytesIn(P, d))
<1>1. PICK ress, R : ress = residencies /\ R = ResidingIn(residencies)
  OBVIOUS
<1>2. Parts(ress, R, P, d)
  <2>1. P \subseteq R /\ R \subseteq DOMAIN ress /\ ress \in Seq(Residency)
    BY <1>1 DEF Residence, Inv, TypeOK, ResidenciesOK, ResidingIn
  <2> QED BY <2>1, BytesParts, Zenon
<1>3. domains[d].resident = BytesOf(ress, R, d)
  BY <1>1, ResidenceSays DEF Residence
<1>4. BytesIn(P, d) = BytesOf(ress, P, d)
  BY <1>1, HeldAndBytes
<1> QED BY <1>2, <1>3, <1>4 DEF Parts, can_release


\* The buffers a call makes are live nowhere yet, and one for each member.
LEMMA BuffersApart ==
  ASSUME Inv, NEW S \in SUBSET Ids
  PROVE  /\ \A x \in S : NewBuffers(S)[x] \in Nat \ {0} /\ NewBuffers(S)[x] \notin heap
         /\ \A x, y \in S : x # y => NewBuffers(S)[x] # NewBuffers(S)[y]
<1>0. ResidenciesOK /\ CallsOK /\ OthersOK
  BY DEF Inv, TypeOK
<1>1. IsFiniteSet(S)
  BY <1>0, PositionsFinite DEF ResidenciesOK, Ids
<1>2. /\ NewBuffers(S) \in [S -> Nat \ {0}]
      /\ \A x \in S : NewBuffers(S)[x] \notin HandlesInUse
      /\ \A x \in S : \A y \in S \ {x} : NewBuffers(S)[x] # NewBuffers(S)[y]
  BY <1>0, <1>1, BuffersAreFresh
<1> QED BY <1>2 DEF HandlesInUse

\* A step in which nothing arrives or leaves.
LEMMA Undisturbed ==
  ASSUME Inv, Inv', Ids \subseteq Ids', modelGens' = modelGens,
         \A d \in Domains : domains'[d].resident = domains[d].resident,
         \A r \in Ids' : Proper(residencies'[r]),
         \A r \in Ids :
           /\ Residing(residencies'[r]) <=> Residing(residencies[r])
           /\ residencies'[r].domain = residencies[r].domain
           /\ residencies'[r].handle = residencies[r].handle,
         \A r \in Ids' \ Ids : ~ Residing(residencies'[r]),
         NEW leaked, heap' = heap \cup leaked, 0 \notin leaked
  PROVE  Exchange({}, {}) /\ Accounted({}, {}) /\ Buffered({}, {}, leaked)
<1>1. Exchange({}, {})
  BY DEF Exchange
<1>2. Accounted({}, {})
  <2>1. ASSUME NEW d \in Domains
        PROVE BytesOf(residencies, {}, d) = 0 /\ BytesOf(residencies', {}, d) = 0
    <3>1. residencies \in Seq(Residency) /\ residencies' \in Seq(Residency)
      BY DEF Inv, TypeOK, ResidenciesOK
    <3>2. PICK old \in Seq(Residency), new \in Seq(Residency) :
            old = residencies /\ new = residencies'
      BY <3>1
    <3> QED BY <3>2, BytesOfFew
  <2> QED BY <2>1 DEF Accounted
<1>3. Buffered({}, {}, leaked)
  BY DEF Buffered
<1> QED BY <1>1, <1>2, <1>3

\* A step after which t holds no move.
LEMMA LeavesNothing ==
  ASSUME NEW t \in Threads, call'[t].op \notin {"migrating", "demoting"}, call'[t].handle = 0,
         \A r \in Ids' : residencies'[r].lifecycle \in {"Migrating", "Demoting"} =>
           /\ r \in Ids /\ residencies[r].lifecycle \in {"Migrating", "Demoting"}
           /\ r \notin InHand(call[t])
  PROVE  Leaves(t)
BY DEF Leaves

\* A call that returned.
LEMMA ReturnedCall ==
  ASSUME Inv, NEW t \in Threads, Return(t)
  PROVE  call'[t].op = "idle" /\ call'[t].handle = 0
BY DEF Inv, TypeOK, CallsOK, Return, IdleCall


\* Only what was moving is moving still.
NoneSetOff ==
  \A r \in Ids' : residencies'[r].lifecycle \in {"Migrating", "Demoting"} =>
    r \in Ids /\ residencies[r].lifecycle \in {"Migrating", "Demoting"}

\* A residency that ended.
GivenUp(res) == res.lifecycle \in TerminalState /\ res.authority = "Stale" /\ res.handle = 0

\* A step in which the residencies of P end.
LEMMA Departs ==
  ASSUME Books, Inv', NEW P \in SUBSET ResidingIn(residencies), Ids' = Ids,
         \A r \in P : GivenUp(residencies'[r]),
         \A r \in Ids \ P : residencies'[r] = residencies[r],
         \A r \in Ids \ P : Residing(residencies[r]) =>
           modelGens'[residencies[r].model] = modelGens[residencies[r].model],
         \A d \in Domains : domains'[d].resident = domains[d].resident - BytesIn(P, d),
         heap' = heap \ {residencies[r].handle : r \in P}
  PROVE  Settles /\ NoneSetOff
<1>1. \A r \in P : r \in Ids /\ Residing(residencies[r])
  BY DEF ResidingIn, Ids
<1>2. \A r \in P : ~ Residing(residencies'[r]) /\ Proper(residencies'[r])
  BY DEF GivenUp, Residing, Proper, TerminalState
<1>3. \A r \in Ids : Proper(residencies[r])
  BY DEF Books, AllProper
<1>4. Exchange(P, {})
  BY <1>1, <1>2, <1>3 DEF Exchange
<1>5. ASSUME NEW d \in Domains
      PROVE  domains'[d].resident + BytesOf(residencies, P, d) =
               domains[d].resident + BytesOf(residencies', {}, d)
  <2>1. BytesOf(residencies', {}, d) = 0
    <3>1. PICK new \in Seq(Residency) : new = residencies'
      BY DEF Inv, TypeOK, ResidenciesOK
    <3> QED BY <3>1, BytesOfFew
  <2>2. BytesIn(P, d) \in 0..domains[d].resident
    BY BooksReside, ReleasesFit
  <2>3. BytesIn(P, d) = BytesOf(residencies, P, d) /\ domains[d].resident \in Nat
    BY HeldAndBytes, CountersAt DEF Books
  <2> QED BY <2>1, <2>2, <2>3
<1>6. Accounted(P, {})
  BY <1>5 DEF Accounted
<1>7. Buffered(P, {}, {})
  BY DEF Buffered
<1>8. NoneSetOff
  BY <1>2 DEF NoneSetOff, Residing
<1> QED BY <1>4, <1>6, <1>7, <1>8 DEF Settles

\* A step that rewrites one residency, which stays where it is.
LEMMA Rewritten ==
  ASSUME Books, Inv', NEW r \in Ids, NEW res \in Residency,
         residencies' = [residencies EXCEPT ![r] = res], modelGens' = modelGens, heap' = heap,
         \A d \in Domains : domains'[d].resident = domains[d].resident,
         Proper(res), Residing(res) <=> Residing(residencies[r]),
         res.domain = residencies[r].domain, res.handle = residencies[r].handle
  PROVE  /\ Exchange({}, {}) /\ Accounted({}, {}) /\ Buffered({}, {}, {})
         /\ Settles
<1>0. ResidenciesOK /\ Inv
  BY DEF Books, Inv, TypeOK
<1>1. Ids' = Ids /\ \A q \in Ids : residencies'[q] = IF q = r THEN res ELSE residencies[q]
  BY <1>0, OneInPlace DEF ResidenciesOK, Ids
<1>2. \A q \in Ids' : Proper(residencies'[q])
  BY <1>1 DEF Books, AllProper
<1>3. \A q \in Ids :
        /\ Residing(residencies'[q]) <=> Residing(residencies[q])
        /\ residencies'[q].domain = residencies[q].domain
        /\ residencies'[q].handle = residencies[q].handle
  BY <1>1
<1>4. heap' = heap \cup {} /\ 0 \notin {}
  OBVIOUS
<1>5. PICK leaked : leaked = {}
  OBVIOUS
<1>6. Exchange({}, {}) /\ Accounted({}, {}) /\ Buffered({}, {}, leaked)
  BY <1>0, <1>1, <1>2, <1>3, <1>4, <1>5, Undisturbed
<1> QED BY <1>5, <1>6 DEF Settles

\* Pins, references and publication.
LEMMA FlagBooks ==
  ASSUME Books, Inv', NEW r \in Ids,
         Pin(r) \/ Unpin(r) \/ Reference(r) \/ PublishReady(r)
  PROVE  Settles /\ NoneSetOff
<1>0. ResidenciesOK /\ Inv /\ residencies[r] \in Residency
  BY IdsOK DEF Books, Inv, TypeOK
<1>1. PICK res \in Residency :
        /\ residencies' = [residencies EXCEPT ![r] = res]
        /\ Proper(res) /\ (Residing(res) <=> Residing(residencies[r]))
        /\ res.domain = residencies[r].domain /\ res.handle = residencies[r].handle
        /\ res.lifecycle \in {"Migrating", "Demoting"} => res.lifecycle = residencies[r].lifecycle
  <2>0. Proper(residencies[r])
    BY DEF Books, AllProper
  <2>1. CASE Pin(r) \/ Unpin(r) \/ Reference(r)
    <3>1. PICK res : /\ residencies' = [residencies EXCEPT ![r] = res]
                     /\ \/ \E b \in BOOLEAN : res = [residencies[r] EXCEPT !.pinned = b]
                        \/ \E n \in Nat : res = [residencies[r] EXCEPT !.references = n]
      BY <2>1 DEF Pin, Unpin, Reference
    <3>2. /\ res \in Residency /\ res.lifecycle = residencies[r].lifecycle
          /\ res.authority = residencies[r].authority /\ res.handle = residencies[r].handle
          /\ res.domain = residencies[r].domain
      BY <1>0, <3>1 DEF Residency
    <3> QED BY <2>0, <3>1, <3>2 DEF Proper, Residing
  <2>2. CASE PublishReady(r)
    <3>1. /\ residencies' = [residencies EXCEPT ![r] = Published(residencies[r])]
          /\ residencies[r].lifecycle = "Resident"
      BY <2>2 DEF PublishReady
    <3>2. /\ Published(residencies[r]) \in Residency
          /\ Published(residencies[r]).lifecycle = "Ready"
          /\ Published(residencies[r]).authority = "Authoritative"
          /\ Published(residencies[r]).handle = residencies[r].handle
          /\ Published(residencies[r]).domain = residencies[r].domain
      BY <1>0 DEF Published, Residency, LifecycleState
    <3> QED BY <2>0, <3>1, <3>2 DEF Proper, Residing, TerminalState
  <2> QED BY <2>1, <2>2
<1>2. modelGens' = modelGens /\ heap' = heap
  BY DEF Pin, Unpin, Reference, PublishReady
<1>3. \A d \in Domains : domains'[d].resident = domains[d].resident
  <2>1. CASE Pin(r) \/ Unpin(r)
    <3>1. PICK d \in Domains, n \in Nat :
            \/ domains' = [domains EXCEPT ![d] = pin(domains[d], n)]
            \/ domains' = [domains EXCEPT ![d] = unpin(domains[d], n)]
      BY <1>0, <2>1 DEF Pin, Unpin, Residency, Bytes
    <3>2. /\ pin(domains[d], n).resident = domains[d].resident
          /\ unpin(domains[d], n).resident = domains[d].resident
      BY <1>0, CountersAt, CountersAfter
    <3>3. PICK x : domains' = [domains EXCEPT ![d] = x] /\ x.resident = domains[d].resident
      BY <3>1, <3>2
    <3> QED BY <1>0, <3>3, OneDomain
  <2> QED BY <2>1 DEF Reference, PublishReady
<1>4. Settles
  BY <1>1, <1>2, <1>3, Rewritten
<1>5. Ids' = Ids /\ \A q \in Ids : residencies'[q] = IF q = r THEN res ELSE residencies[q]
  BY <1>0, <1>1, OneInPlace DEF ResidenciesOK, Ids
<1>6. NoneSetOff
  BY <1>1, <1>5 DEF NoneSetOff
<1> QED BY <1>4, <1>6


\* The bytes of one residency.
LEMMA OneBytes ==
  ASSUME ResidenciesOK, NEW r \in Ids, NEW d
  PROVE  BytesIn({r}, d) = IF residencies[r].domain = d THEN residencies[r].bytes ELSE 0
<1>1. PICK ress \in Seq(Residency) : ress = residencies
  BY DEF ResidenciesOK
<1>2. r \in DOMAIN ress
  BY <1>1 DEF Ids
<1>3. BytesOf(ress, {r}, d) = IF ress[r].domain = d THEN ress[r].bytes ELSE 0
  BY <1>2, BytesOfFew
<1> QED BY <1>1, <1>3, HeldAndBytes

\* The release of one residency's bytes does not throw, and takes just them.
LEMMA OneReleased ==
  ASSUME Residence, NEW r \in Ids, Residing(residencies[r])
  PROVE  /\ CanReleaseBytesOf(r)
         /\ \A d \in Domains :
              ReleaseBytesOf(r)[d].resident = domains[d].resident - BytesIn({r}, d)
<1>0. ResidenciesOK /\ Inv
  BY DEF Residence, Inv, TypeOK
<1>1. PICK e \in Domains, n \in Nat : e = residencies[r].domain /\ n = residencies[r].bytes
  BY <1>0, IdsOK DEF Residency, Bytes
<1>2. \A d \in Domains : BytesIn({r}, d) = IF e = d THEN n ELSE 0
  BY <1>0, <1>1, OneBytes
<1>3. {r} \in SUBSET ResidingIn(residencies)
  BY DEF ResidingIn, Ids
<1>4. can_release(domains[e], n)
  <2>1. can_release(domains[e], BytesIn({r}, e)) /\ BytesIn({r}, e) = n
    BY <1>2, <1>3, ReleasesFit
  <2> QED BY <2>1
<1>5. release(domains[e], n).resident = domains[e].resident - n
  BY <1>0, CountersAt, CountersAfter
<1>6. ASSUME NEW d \in Domains
      PROVE  ReleaseBytesOf(r)[d].resident = domains[d].resident - BytesIn({r}, d)
  <2>1. ReleaseBytesOf(r) = [domains EXCEPT ![e] = release(domains[e], n)]
    BY <1>1 DEF ReleaseBytesOf
  <2>2. ReleaseBytesOf(r)[d] = IF d = e THEN release(domains[e], n) ELSE domains[d]
    BY <1>0, <2>1 DEF Inv, TypeOK, DomainsOK
  <2>3. domains[d].resident \in Nat
    BY <1>0, CountersAt
  <2>4. CASE d = e
    <3>1. ReleaseBytesOf(r)[d] = release(domains[e], n) /\ BytesIn({r}, d) = n
      BY <1>2, <2>2, <2>4
    <3> QED BY <1>5, <2>4, <3>1, Zenon
  <2>5. CASE d # e
    <3>1. ReleaseBytesOf(r)[d] = domains[d] /\ BytesIn({r}, d) = 0
      BY <1>2, <2>2, <2>5
    <3>2. ReleaseBytesOf(r)[d].resident = domains[d].resident
      BY <3>1
    <3>3. ASSUME NEW x \in Nat PROVE x = x - 0
      OBVIOUS
    <3> QED BY <2>3, <3>1, <3>2, <3>3, Zenon
  <2> QED BY <2>4, <2>5
<1> QED BY <1>1, <1>4, <1>6 DEF CanReleaseBytesOf

\* evict, by a caller or in load's loop.
LEMMA EvictBooks ==
  ASSUME Books, Inv', NEW r \in Ids, NEW force, MayEvict(r, force), EvictEffects(r),
         modelGens' = modelGens
  PROVE  Settles /\ NoneSetOff /\ CanReleaseBytesOf(r)
<1>0. ResidenciesOK /\ residencies[r] \in Residency
  BY IdsOK DEF Books, Inv, TypeOK
<1>1. residencies[r].lifecycle \in {"Resident", "Ready"}
  BY LifecycleEdges DEF MayEvict
<1>2. Residing(residencies[r])
  BY <1>1 DEF Residing
<1>3. /\ CanReleaseBytesOf(r)
      /\ \A d \in Domains : ReleaseBytesOf(r)[d].resident = domains[d].resident - BytesIn({r}, d)
  BY <1>2, BooksReside, OneReleased
<1>4. /\ domains' = ReleaseBytesOf(r) /\ heap' = heap \ {residencies[r].handle}
      /\ residencies' = [residencies EXCEPT ![r] = Evicted(r)]
  BY <1>3 DEF EvictEffects
<1>5. Evicted(r) \in Residency /\ GivenUp(Evicted(r))
  <2>1. Evicted(r) \in Residency
    BY <1>0, WrittenResidencies
  <2>2. GivenUp(Evicted(r))
    BY <1>0 DEF Evicted, Stale, GivenUp, Residency, TerminalState
  <2> QED BY <2>1, <2>2
<1>6. Ids' = Ids /\ \A q \in Ids : residencies'[q] = IF q = r THEN Evicted(r) ELSE residencies[q]
  BY <1>0, <1>4, <1>5, OneInPlace DEF ResidenciesOK, Ids
<1>7. PICK P \in SUBSET ResidingIn(residencies) : P = {r}
  BY <1>2 DEF ResidingIn, Ids
<1>8. /\ \A q \in P : GivenUp(residencies'[q])
      /\ \A q \in Ids \ P : residencies'[q] = residencies[q]
      /\ heap' = heap \ {residencies[q].handle : q \in P}
      /\ \A d \in Domains : domains'[d].resident = domains[d].resident - BytesIn(P, d)
  BY <1>3, <1>4, <1>5, <1>6, <1>7
<1>9. Settles /\ NoneSetOff
  BY <1>6, <1>8, Departs
<1> QED BY <1>3, <1>9

\* A residency at rest that is surrendered ends.
LEMMA SurrenderEnds ==
  ASSUME ResidenciesOK, NEW r \in Ids, residencies[r].lifecycle \in {"Resident", "Ready"}, NEW s
  PROVE  GivenUp(Surrendered(r, s))
<1>1. residencies[r] \in Residency
  BY IdsOK
<1>2. Surrendered(r, s).lifecycle = "Invalidated"
  BY Writes, LifecycleEdges
<1>3. Surrendered(r, s).authority = "Stale" /\ Surrendered(r, s).handle = 0
  BY <1>1 DEF Surrendered, Stale, Residency
<1> QED BY <1>2, <1>3 DEF GivenUp, TerminalState

\* invalidate, of a residency that nobody moves.
LEMMA InvalidateBooks ==
  ASSUME Books, Unraced, Inv', NEW r \in Ids, Invalidate(r)
  PROVE  Settles /\ NoneSetOff
<1>0. ResidenciesOK /\ residencies[r] \in Residency
  BY IdsOK DEF Books, Inv, TypeOK
<1>1. /\ Caller /\ "invalidate" \in Ops /\ is_resident_state(residencies[r].lifecycle)
      /\ domains' = ReleaseBytesOf(r) /\ heap' = heap \ {residencies[r].handle}
      /\ residencies' = [residencies EXCEPT ![r] = Surrendered(r, "Stale")]
      /\ modelGens' = modelGens
  BY DEF Invalidate
<1>2. Residing(residencies[r])
  BY <1>1, ResidingStates DEF Books, AllProper
<1>3. residencies[r].lifecycle \in {"Resident", "Ready"}
  BY <1>1, <1>2, NobodyMoves DEF Residing
<1>4. \A d \in Domains : ReleaseBytesOf(r)[d].resident = domains[d].resident - BytesIn({r}, d)
  BY <1>2, BooksReside, OneReleased
<1>5. PICK res \in Residency : res = Surrendered(r, "Stale") /\ GivenUp(res)
  BY <1>0, <1>3, SurrenderEnds, WrittenResidencies
<1>6. Ids' = Ids /\ \A q \in Ids : residencies'[q] = IF q = r THEN res ELSE residencies[q]
  BY <1>0, <1>1, <1>5, OneInPlace DEF ResidenciesOK, Ids
<1>7. PICK P \in SUBSET ResidingIn(residencies) : P = {r}
  BY <1>2 DEF ResidingIn, Ids
<1>8. /\ \A q \in P : GivenUp(residencies'[q])
      /\ \A q \in Ids \ P : residencies'[q] = residencies[q]
      /\ heap' = heap \ {residencies[q].handle : q \in P}
      /\ \A d \in Domains : domains'[d].resident = domains[d].resident - BytesIn(P, d)
  BY <1>1, <1>4, <1>5, <1>6, <1>7
<1> QED BY <1>1, <1>6, <1>8, Departs

\* A loop that gives up residencies gets to its end.
LEMMA LoopEnds ==
  ASSUME Residence, NEW S \in SUBSET ResidingIn(residencies), NEW P, ReleasedBeforeThrow(S, P)
  PROVE  P = S
<1> SUFFICES ASSUME P # S PROVE FALSE
  OBVIOUS
<1>1. PICK r \in S \ P : ~ can_release(domains[residencies[r].domain],
                                       BytesIn(P \cup {r}, residencies[r].domain))
  BY DEF ReleasedBeforeThrow
<1>2. P \cup {r} \in SUBSET ResidingIn(residencies)
  BY <1>1 DEF ReleasedBeforeThrow
<1>3. residencies[r].domain \in Domains
  BY <1>1, IdsOK DEF Residence, Inv, TypeOK, ResidingIn, Ids, Residency
<1>4. PICK Q \in SUBSET ResidingIn(residencies), d \in Domains :
        Q = P \cup {r} /\ d = residencies[r].domain
  BY <1>2, <1>3
<1>5. can_release(domains[d], BytesIn(Q, d))
  BY ReleasesFit
<1> QED BY <1>1, <1>4, <1>5

\* What such a loop does.
LEMMA LoopBooks ==
  ASSUME Books, Unraced, Inv', Caller, Ops \cap {"invalidate", "roll", "worker"} # {},
         NEW P \in SUBSET ResidingIn(residencies), NEW s \in {"Stale", "Failed"},
         residencies' = [r \in Ids |-> IF r \in P THEN Surrendered(r, s) ELSE residencies[r]],
         heap' = heap \ {residencies[r].handle : r \in P},
         \A d \in Domains : domains'[d].resident = release(domains[d], BytesIn(P, d)).resident,
         \A r \in Ids \ P : Residing(residencies[r]) =>
           modelGens'[residencies[r].model] = modelGens[residencies[r].model]
  PROVE  Settles /\ NoneSetOff
<1>0. ResidenciesOK /\ Inv
  BY DEF Books, Inv, TypeOK
<1>1. Ids' = Ids
  BY <1>0, SurrenderKeeps
<1>2. ASSUME NEW r \in P PROVE r \in Ids /\ GivenUp(Surrendered(r, s))
  <2>1. r \in Ids /\ Residing(residencies[r])
    BY DEF ResidingIn, Ids
  <2>2. residencies[r].lifecycle \in {"Resident", "Ready"}
    BY <2>1, NobodyMoves DEF Residing
  <2> QED BY <1>0, <2>1, <2>2, SurrenderEnds
<1>3. /\ \A r \in P : GivenUp(residencies'[r])
      /\ \A r \in Ids \ P : residencies'[r] = residencies[r]
  BY <1>2
<1>4. ASSUME NEW d \in Domains PROVE domains'[d].resident = domains[d].resident - BytesIn(P, d)
  <2>1. PICK n : n = BytesIn(P, d)
    OBVIOUS
  <2>2. release(domains[d], n).resident = domains[d].resident - n
    BY <1>0, CountersAt, CountersAfter
  <2> QED BY <2>1, <2>2
<1> QED BY <1>1, <1>3, <1>4, Departs

\* roll_model_generation leaves nothing of the old generation resident.
LEMMA RollBooks ==
  ASSUME Books, Unraced, Inv', NEW m \in Models, RollModelGeneration(m)
  PROVE  Settles /\ NoneSetOff
<1>0. ResidenciesOK /\ Inv /\ modelGens \in [Models -> Nat]
  BY DEF Books, Inv, TypeOK, OthersOK
<1>1. PICK P : /\ ReleasedBeforeThrow(OldGeneration(m), P) /\ Surrender(P, "Stale")
  BY DEF RollModelGeneration
<1>2. Caller /\ "roll" \in Ops /\ modelGens' = [modelGens EXCEPT ![m] = @ + 1]
  BY DEF RollModelGeneration
<1>3. OldGeneration(m) \in SUBSET ResidingIn(residencies)
  BY ResidingStates DEF Books, AllProper, OldGeneration, ResidingIn, Ids
<1>4. P = OldGeneration(m)
  BY <1>1, <1>3, BooksReside, LoopEnds
<1>5. ASSUME NEW r \in Ids \ P, Residing(residencies[r])
      PROVE  modelGens'[residencies[r].model] = modelGens[residencies[r].model]
  <2>1. residencies[r].model \in Models
    BY <1>0, IdsOK DEF Residency
  <2>2. residencies[r].modelGeneration = modelGens[residencies[r].model]
    BY <1>5 DEF Books, ResidentIsCurrent
  <2>3. is_resident_state(residencies[r].lifecycle)
    BY <1>5, ResidingStates DEF Books, AllProper
  <2>4. residencies[r].model # m
    <3>1. modelGens[m] # modelGens[m] + 1
      BY <1>0
    <3> QED BY <1>4, <2>2, <2>3, <3>1 DEF OldGeneration
  <2> QED BY <1>0, <1>2, <2>1, <2>4
<1>6. /\ residencies' = [r \in Ids |-> IF r \in P THEN Surrendered(r, "Stale") ELSE residencies[r]]
      /\ heap' = heap \ {residencies[r].handle : r \in P}
      /\ \A d \in Domains : domains'[d].resident = release(domains[d], BytesIn(P, d)).resident
  BY <1>1 DEF Surrender, Released
<1> QED BY <1>2, <1>3, <1>4, <1>5, <1>6, LoopBooks

\* mark_worker_lost.
LEMMA WorkerLostBooks ==
  ASSUME Books, Unraced, Inv', NEW w \in Workers, MarkWorkerLost(w)
  PROVE  Settles /\ NoneSetOff
<1>0. Inv
  BY DEF Books
<1>1. PICK P :
       /\ ReleasedBeforeThrow(OnWorker(w), P)
       /\ domains' = [d \in Domains |->
            IF P = OnWorker(w) /\ d \in WorkerDevices[w]
            THEN set_unavailable(Released(P)[d], domains[d].total)
            ELSE Released(P)[d]]
       /\ residencies' = [r \in Ids |-> IF r \in P THEN Surrendered(r, "Failed")
                                        ELSE residencies[r]]
       /\ heap' = heap \ {residencies[r].handle : r \in P}
  BY DEF MarkWorkerLost
<1>2. Caller /\ "worker" \in Ops /\ modelGens' = modelGens
  BY DEF MarkWorkerLost
<1>3. OnWorker(w) \in SUBSET ResidingIn(residencies)
  BY ResidingStates DEF Books, AllProper, OnWorker, ResidingIn, Ids
<1>4. P \in SUBSET ResidingIn(residencies)
  BY <1>1, <1>3 DEF ReleasedBeforeThrow
<1>5. ASSUME NEW d \in Domains
      PROVE  domains'[d].resident = release(domains[d], BytesIn(P, d)).resident
  <2>1. PICK x, n : x = release(domains[d], n) /\ n = BytesIn(P, d) /\ Released(P)[d] = x
    BY DEF Released
  <2>2. DOMAIN x = DOMAIN domains[d]
    BY <1>0, <2>1, CountersAt, CountersAfter
  <2>3. set_unavailable(x, domains[d].total).resident = x.resident
    BY <1>0, <2>2, CountersAt, CountersAfter
  <2>4. domains'[d] = x \/ domains'[d] = set_unavailable(x, domains[d].total)
    BY <1>1, <2>1
  <2> QED BY <2>1, <2>3, <2>4
<1> QED BY <1>1, <1>2, <1>4, <1>5, LoopBooks


\* A step that leaves the residencies and what is kept for them alone.
LEMMA QuietBooks ==
  ASSUME Books, Inv', UNCHANGED <<domains, residencies, modelGens, heap>>
  PROVE  Settles /\ NoneSetOff
<1>0. Inv /\ Ids' = Ids /\ residencies' = residencies /\ heap' = heap /\ domains' = domains
  BY DEF Books, Ids
<1>1. \A r \in Ids : Proper(residencies[r])
  BY DEF Books, AllProper
<1>2. PICK leaked : leaked = {}
  OBVIOUS
<1>3. Exchange({}, {}) /\ Accounted({}, {}) /\ Buffered({}, {}, leaked)
  BY <1>0, <1>1, <1>2, Undisturbed
<1>4. NoneSetOff
  BY <1>0 DEF NoneSetOff
<1> QED BY <1>2, <1>3, <1>4 DEF Settles

\* The operations of one critical section keep the books.
LEMMA AtomicBooks ==
  ASSUME Books, Unraced, Inv', AtomicCall
  PROVE  \E t \in Threads : KeepsBooks(t)
<1>1. Settles /\ NoneSetOff
  <2>1. CASE \E r \in Ids : \E force \in BOOLEAN : Evict(r, force)
    BY <2>1, EvictBooks DEF Evict
  <2>2. CASE \E r \in Ids : Pin(r) \/ Unpin(r) \/ PublishReady(r) \/ Reference(r)
    BY <2>2, FlagBooks
  <2>3. CASE \E r \in Ids : Invalidate(r)
    BY <2>3, InvalidateBooks
  <2>4. CASE \E m \in Models : RollModelGeneration(m)
    BY <2>4, RollBooks
  <2>5. CASE \E w \in Workers : MarkWorkerLost(w)
    BY <2>5, WorkerLostBooks
  <2>6. CASE \E w \in Workers : RegisterWorker(w)
    BY <2>6, QuietBooks DEF RegisterWorker
  <2> QED BY <2>1, <2>2, <2>3, <2>4, <2>5, <2>6 DEF AtomicCall
<1>2. PICK t \in Threads : Turn(t) /\ Idle(t) /\ InHand(call[t]) = {} /\ call' = call
  BY AtomicTurn DEF Books
<1>3. PaysExactly(t)
  BY <1>2, AtomicReserves DEF Books, PaysExactly
<1>4. call'[t].op = "idle" /\ call'[t].handle = 0
  BY <1>2 DEF Idle, Books, CallHandles
<1>5. Leaves(t)
  BY <1>1, <1>2, <1>4, LeavesNothing DEF NoneSetOff
<1> QED BY <1>1, <1>2, <1>3, <1>4, <1>5 DEF KeepsBooks

\* A step that begins or goes on with a call that holds nothing before or after.
LEMMA EmptyHandedBooks ==
  ASSUME Books, NEW t \in Threads, Turn(t), Settles, NoneSetOff,
         call[t].op \notin {"loading", "migrating", "demoting"},
         call'[t].op \notin {"loading", "migrating", "demoting"}, call'[t].handle = 0,
         \A d \in Domains : domains'[d].reserved = domains[d].reserved
  PROVE  KeepsBooks(t)
<1>1. InHand(call[t]) = {}
  BY HandCases
<1>2. \A d : Holding(call'[t], d) = 0 /\ Holding(call[t], d) = 0
  BY HoldingCases
<1>3. PaysExactly(t)
  BY <1>2 DEF PaysExactly
<1>4. Leaves(t)
  BY <1>1, LeavesNothing DEF NoneSetOff
<1> QED BY <1>3, <1>4 DEF KeepsBooks

\* A verdict remembers no buffer.
LEMMA VerdictHandle ==
  ASSUME NEW doms, NEW ress, NEW m, NEW a, NEW v \in Verdicts(doms, ress, m, a)
  PROVE  v.handle = 0
<1>1. \/ \E r : v = [IdleCall EXCEPT !.op = "reuse", !.residency = r]
      \/ \E op, d : v = [IdleCall EXCEPT !.op = op, !.model = m, !.adapters = a, !.domain = d]
  BY DEF Verdicts
<1>2. IdleCall \in CallRecord /\ IdleCall.handle = 0
  BY IdleIsCall DEF IdleCall
<1> QED BY <1>1, <1>2 DEF CallRecord

\* load before it holds anything.
LEMMA LoadStartBooks ==
  ASSUME Books, Inv', NEW t \in Threads, Turn(t),
         \/ \E m \in Models, a \in AdapterSets : LoadAdmit(t, m, a)
         \/ LoadReuse(t) \/ LoadEvictRelocks(t) \/ LoadEvictGivesUp(t) \/ LoadRefused(t)
  PROVE  KeepsBooks(t)
<1>0. Inv /\ CallsOK /\ ResidenciesOK
  BY DEF Books, Inv, TypeOK
<1>1. /\ UNCHANGED <<domains, residencies, modelGens, heap>>
      /\ call[t].op \in {"idle", "reuse", "evict", "place"}
  BY DEF LoadAdmit, LoadReuse, LoadEvictRelocks, LoadEvictGivesUp, LoadRefused, Idle
<1>2. Settles /\ NoneSetOff
  BY <1>1, QuietBooks
<1>3. call'[t].op \notin {"loading", "migrating", "demoting"} /\ call'[t].handle = 0
  <2>1. CASE \E m \in Models, a \in AdapterSets : LoadAdmit(t, m, a)
    <3>1. PICK m \in Models, a \in AdapterSets : LoadAdmit(t, m, a)
      BY <2>1
    <3>2. PICK v \in Verdicts(domains, residencies, m, a) : call' = [call EXCEPT ![t] = v]
      BY <3>1 DEF LoadAdmit
    <3>3. v.op \in {"reuse", "place", "evict"} /\ v.handle = 0
      <4>1. DOMAIN residencies \subseteq Nat
        BY <1>0, IdsOK DEF Ids
      <4> QED BY <3>2, <4>1, VerdictIsCall, VerdictHandle
    <3> QED BY <1>0, <3>2, <3>3 DEF CallsOK
  <2>2. CASE LoadReuse(t) \/ LoadEvictGivesUp(t) \/ LoadRefused(t)
    <3>1. Return(t)
      BY <2>2 DEF LoadReuse, LoadEvictGivesUp, LoadRefused
    <3> QED BY <1>0, <3>1, ReturnedCall
  <2>3. CASE LoadEvictRelocks(t)
    <3>1. /\ call' = [call EXCEPT ![t] = [call[t] EXCEPT !.op = "blocked"]]
          /\ call[t].op = "evict"
      BY <2>3 DEF LoadEvictRelocks
    <3>2. call'[t].op = "blocked" /\ call'[t].handle = call[t].handle
      BY <1>0, <3>1 DEF CallsOK, CallRecord
    <3>3. call[t].handle = 0
      BY <3>1 DEF Books, CallHandles
    <3> QED BY <3>2, <3>3
  <2> QED BY <2>1, <2>2, <2>3
<1> QED BY <1>1, <1>2, <1>3, EmptyHandedBooks

\* One round of load's eviction loop.
LEMMA EvictRoundBooks ==
  ASSUME Books, Inv', NEW t \in Threads, LoadEvictRound(t)
  PROVE  KeepsBooks(t)
<1>0. Inv /\ CallsOK /\ ResidenciesOK
  BY DEF Books, Inv, TypeOK
<1>1. Turn(t) /\ call'[t].op \in {"place", "evict", "idle"} /\ call[t].op = "evict"
  BY <1>0, EvictRoundTurn DEF LoadEvictRound
<1>2. PICK r \in Ids :
        /\ MayEvict(r, FALSE) /\ EvictEffects(r) /\ modelGens' = modelGens
        /\ CanReleaseBytesOf(r) =>
             \E v \in Verdicts(ReleaseBytesOf(r), [residencies EXCEPT ![r] = Evicted(r)],
                               call[t].model, call[t].adapters) :
               call' = [call EXCEPT ![t] =
                   CASE v.op = "place" -> v
                     [] v.op = "evict" /\ call[t].evictions < 7 ->
                          [v EXCEPT !.evictions = call[t].evictions + 1]
                     [] OTHER -> IdleCall]
  BY DEF LoadEvictRound, Victims
<1>3. Settles /\ NoneSetOff /\ CanReleaseBytesOf(r)
  BY <1>2, EvictBooks
<1>4. \A d \in Domains : domains'[d].reserved = domains[d].reserved
  BY <1>0, <1>2, EvictReserves
<1>5. call'[t].handle = 0
  <2>1. PICK doms, ress : doms = ReleaseBytesOf(r) /\ ress = [residencies EXCEPT ![r] = Evicted(r)]
    OBVIOUS
  <2>2. PICK v \in Verdicts(doms, ress, call[t].model, call[t].adapters) :
               call' = [call EXCEPT ![t] =
                   CASE v.op = "place" -> v
                     [] v.op = "evict" /\ call[t].evictions < 7 ->
                          [v EXCEPT !.evictions = call[t].evictions + 1]
                     [] OTHER -> IdleCall]
    BY <1>2, <1>3, <2>1
  <2>3. v.handle = 0
    BY VerdictHandle
  <2>4. DOMAIN ress \subseteq Nat /\ call[t].model \in Models /\ call[t].adapters \in AdapterSets
    <3>1. DOMAIN ress = Ids
      BY <1>0, <2>1 DEF Ids, ResidenciesOK
    <3>2. call[t] \in CallRecord /\ CallOK(call[t])
      BY <1>0 DEF CallsOK
    <3> QED BY <1>0, <1>1, <3>1, <3>2, IdsOK DEF CallOK, CallRecord
  <2>5. v \in CallRecord
    BY <2>4, VerdictIsCall
  <2>6. \/ call'[t] = v \/ call'[t] = IdleCall
        \/ call'[t] = [v EXCEPT !.evictions = call[t].evictions + 1]
    BY <1>0, <2>2 DEF CallsOK
  <2>7. [v EXCEPT !.evictions = call[t].evictions + 1].handle = v.handle
    BY <2>5 DEF CallRecord
  <2>8. IdleCall.handle = 0
    BY DEF IdleCall
  <2> QED BY <2>3, <2>6, <2>7, <2>8
<1> QED BY <1>1, <1>3, <1>4, <1>5, EmptyHandedBooks


\* load's second section: the members it declares are not resident yet.
LEMMA LoadBeginBooks ==
  ASSUME Books, FootprintsExact, Inv', NEW t \in Threads, LoadBegin(t), Turn(t)
  PROVE  KeepsBooks(t)
<1>0. Inv /\ ResidenciesOK
  BY DEF Books, Inv, TypeOK
<1>begun. PICK m \in Models, a \in AdapterSets, d \in Domains, bytes \in Seq(Bytes),
               n \in Nat, k \in Nat : \E c : Begun(t, m, a, d, bytes, n, k, c)
  BY <1>0, LoadBeginAdds
<1>1. PICK c : Begun(t, m, a, d, bytes, n, k, c)
  BY <1>begun
<1>2. modelGens' = modelGens /\ heap' = heap /\ call[t].op = "place"
  BY DEF LoadBegin
<1>3. /\ Ids = 1..n /\ Ids' = 1..(n + k) /\ Ids \subseteq Ids'
      /\ \A r \in Ids : residencies'[r] = residencies[r]
  BY <1>1 DEF Begun
<1>4. ASSUME NEW r \in Ids' \ Ids
      PROVE  /\ ~ Residing(residencies'[r]) /\ Proper(residencies'[r])
             /\ residencies'[r].lifecycle = "Declared"
  <2>1. r - n \in 1..k /\ n + (r - n) = r
    BY <1>3
  <2>2. residencies'[n + (r - n)] = Declared(m, a, d, bytes[r - n])
    BY ONLY <1>1, <2>1 DEF Begun
  <2>3. PICK b : residencies'[r] = Declared(m, a, d, b)
    BY ONLY <2>1, <2>2
  <2> QED BY <2>3 DEF Declared, Proper, Residing, TerminalState
<1>5. \A r \in Ids' : Proper(residencies'[r])
  BY <1>3, <1>4 DEF Books, AllProper
<1>6. \A e \in Domains : domains'[e].resident = domains[e].resident
  <2>1. CASE domains' = domains
    BY <2>1
  <2>2. CASE domains' = [domains EXCEPT ![d] = reserve(domains[d], c.bytes)]
    <3>1. reserve(domains[d], c.bytes).resident = domains[d].resident
      BY <1>0, CountersAt, CountersAfter
    <3>2. PICK x : domains' = [domains EXCEPT ![d] = x] /\ x.resident = domains[d].resident
      BY <2>2, <3>1
    <3> QED BY <1>0, <3>2, OneDomain
  <2> QED BY <1>1, <2>1, <2>2 DEF Begun
<1>7. Settles
  <2>1. PICK leaked : leaked = {}
    OBVIOUS
  <2>2. \A r \in Ids' \ Ids : ~ Residing(residencies'[r])
    BY <1>4
  <2>3. Exchange({}, {}) /\ Accounted({}, {}) /\ Buffered({}, {}, leaked)
    BY <1>0, <1>2, <1>3, <1>5, <1>6, <2>1, <2>2, Undisturbed, SMTT(30)
  <2> QED BY <2>1, <2>3 DEF Settles
<1>8. call'[t].op \in {"idle", "loading"} /\ call'[t].handle = 0
  BY <1>1 DEF Begun, IdleCall
<1>9. Leaves(t)
  <2>1. InHand(call[t]) = {}
    BY <1>2, HandCases
  <2> QED BY <1>3, <1>4, <1>8, <2>1, LeavesNothing
<1>10. /\ PaysExactly(t)
       /\ call'[t].op = "loading" =>
            BytesOf(residencies', call'[t].members, call'[t].domain) = call'[t].bytes
  BY <1>0, LoadBeginReserves DEF FootprintsExact
<1>11. call'[t].op = "loading" => modelGens'[call'[t].model] = call'[t].modelGeneration
  BY <1>1, <1>2 DEF Begun, IdleCall
<1> QED BY <1>7, <1>9, <1>10, <1>11 DEF KeepsBooks


\* Residencies that are elsewhere take nothing here.
LEMMA BytesElsewhere ==
  ASSUME NEW ress \in Seq(Residency), NEW S \in SUBSET DOMAIN ress, NEW d,
         \A r \in S : ress[r].domain # d
  PROVE  BytesOf(ress, S, d) = 0
<1>1. {r \in S : ress[r].domain = d} = {r \in {} : ress[r].domain = d}
  OBVIOUS
<1>2. BytesOf(ress, S, d) = BytesOf(ress, {}, d)
  BY <1>1 DEF BytesOf
<1> QED BY <1>2, BytesOfFew

\* What the members of come are when they arrive.
Arrived(r, come) ==
  /\ residencies'[r].lifecycle \in {"Resident", "Ready"} /\ residencies'[r].authority # "Stale"
  /\ residencies'[r].handle = NewBuffers(come)[r]

\* What the others are.
Missed(r) ==
  /\ residencies'[r].lifecycle = "Failed" /\ residencies'[r].authority = "Stale"
  /\ residencies'[r].handle = residencies[r].handle

\* The last section of a load, of whose members those of come arrive.
LEMMA LoadEndBooks ==
  ASSUME Books, Inv', NEW t \in Threads, Turn(t), Return(t), call[t].op = "loading",
         Ids' = Ids, modelGens' = modelGens,
         NEW come \in SUBSET call[t].members, come = {} \/ StillCurrent(call[t]),
         NEW leaked, 0 \notin leaked, CallsCurrent => leaked = {},
         heap' = heap \cup BuffersFor(come) \cup leaked,
         \A r \in call[t].members : residencies'[r].domain = residencies[r].domain,
         \A r \in come : Arrived(r, come),
         \A r \in call[t].members \ come : Missed(r),
         \A r \in Ids \ call[t].members : residencies'[r] = residencies[r],
         \A d \in Domains : domains'[d].resident = domains[d].resident +
           (IF d = call[t].domain THEN BytesIn(come, d) ELSE 0)
  PROVE  Settles /\ Leaves(t)
<1>0. Inv /\ CallsOK /\ ResidenciesOK
  BY DEF Books, Inv, TypeOK
<1>1. PICK M \in SUBSET Ids, dom \in Domains :
        M = call[t].members /\ M = InHand(call[t]) /\ dom = call[t].domain
  BY <1>0, LoadingKnows, HandCases
<1>2. ASSUME NEW r \in M
      PROVE  /\ residencies[r].lifecycle = "Declared" /\ residencies[r].domain = dom
             /\ residencies[r].model = call[t].model /\ ~ Residing(residencies[r])
             /\ residencies[r].modelGeneration = call[t].modelGeneration
             /\ residencies[r].handle = 0
  <2>1. AsLeft(residencies[r], call[t])
    BY <1>1 DEF Books, Hands, HandsKept
  <2>2. residencies[r].lifecycle = "Declared" /\ residencies[r].domain = dom
    BY <1>1, <2>1, HandCases DEF AsLeft
  <2>3. ~ Residing(residencies[r]) /\ Proper(residencies[r])
    BY <2>2 DEF Residing, Books, AllProper
  <2> QED BY <2>1, <2>2, <2>3 DEF AsLeft, Proper
<1>3. ASSUME NEW r \in M PROVE SameModel(residencies'[r], residencies[r])
  BY DEF Turn
<1>4. ASSUME NEW r \in come
      PROVE  NewBuffers(come)[r] \in Nat \ {0} /\ NewBuffers(come)[r] \notin heap
  <2>1. come \in SUBSET Ids
    BY <1>1
  <2> QED BY <1>0, <2>1, BuffersApart
<1>5. ASSUME NEW r \in come
      PROVE  /\ Proper(residencies'[r]) /\ Residing(residencies'[r])
             /\ residencies'[r].modelGeneration = modelGens'[residencies'[r].model]
  <2>1. Proper(residencies'[r]) /\ Residing(residencies'[r])
    BY <1>4 DEF Arrived, Proper, Residing, TerminalState
  <2>2. StillCurrent(call[t])
    OBVIOUS
  <2> QED BY <1>1, <1>2, <1>3, <2>1, <2>2 DEF SameModel, StillCurrent
<1>6. ASSUME NEW r \in M \ come PROVE Proper(residencies'[r]) /\ ~ Residing(residencies'[r])
  BY <1>1, <1>2 DEF Missed, Proper, Residing, TerminalState
<1>7. \A r \in Ids \ M : Proper(residencies'[r]) /\ residencies'[r] = residencies[r]
  BY <1>1 DEF Books, AllProper
<1>8. Exchange({}, come)
  <2>1. come \in SUBSET Ids'
    BY <1>1
  <2>2. \A r \in come :
          /\ residencies'[r].lifecycle \in {"Resident", "Ready"}
          /\ residencies'[r].modelGeneration = modelGens'[residencies'[r].model]
          /\ r \in Ids => r \in {} \/ ~ Residing(residencies[r])
    BY <1>1, <1>2, <1>5 DEF Arrived
  <2>3. ASSUME NEW r \in Ids' \ come
        PROVE  Residing(residencies'[r]) <=> r \in Ids \ {} /\ Residing(residencies[r])
    <3>1. CASE r \in M
      BY <1>2, <1>6, <3>1
    <3>2. CASE r \notin M
      BY <1>7, <3>2
    <3> QED BY <3>1, <3>2
  <2>4. ASSUME NEW r \in Ids \ ({} \cup come), Residing(residencies[r])
        PROVE  /\ residencies'[r].domain = residencies[r].domain
               /\ residencies'[r].handle = residencies[r].handle
               /\ modelGens'[residencies[r].model] = modelGens[residencies[r].model]
    BY <1>2, <1>7, <2>4
  <2>5. \A r \in Ids' : Proper(residencies'[r])
    BY <1>5, <1>6, <1>7
  <2> QED BY <2>1, <2>2, <2>3, <2>4, <2>5 DEF Exchange
<1>9. ASSUME NEW d \in Domains
      PROVE  domains'[d].resident + BytesOf(residencies, {}, d) =
               domains[d].resident + BytesOf(residencies', come, d)
  <2>1. PICK old \in Seq(Residency), new \in Seq(Residency) :
          old = residencies /\ new = residencies'
    BY <1>0 DEF Inv, TypeOK, ResidenciesOK
  <2>2. come \in SUBSET DOMAIN old /\ come \in SUBSET DOMAIN new
    BY <1>1, <2>1 DEF Ids
  <2>3. BytesOf(old, {}, d) = 0
    BY BytesOfFew
  <2>4. ASSUME NEW r \in come
        PROVE  /\ r \in DOMAIN old /\ r \in DOMAIN new /\ old[r].bytes \in Nat
               /\ new[r].bytes = old[r].bytes /\ new[r].domain = old[r].domain
               /\ old[r].domain = dom
    BY <1>1, <1>2, <1>3, <2>1, <2>2, SequenceOfResidencies DEF SameModel
  <2>5. CASE d = dom
    <3>1. IsFiniteSet(come)
      BY <2>2, PositionsFinite
    <3>2. BytesOf(new, come, d) = BytesOf(old, come, d)
      BY <2>4, <3>1, BytesAgree
    <3>3. BytesIn(come, d) = BytesOf(old, come, d)
      BY <2>1, HeldAndBytes
    <3>4. domains'[d].resident = domains[d].resident + BytesIn(come, d)
      BY <1>1, <2>5
    <3>5. domains'[d].resident \in Nat
      BY DEF Inv, TypeOK, DomainsOK, MemoryDomainRecord, Bytes
    <3> QED BY <2>1, <2>3, <3>2, <3>3, <3>4, <3>5
  <2>6. CASE d # dom
    <3>1. \A r \in come : new[r].domain # d
      BY <2>4, <2>6
    <3>2. BytesOf(new, come, d) = 0
      BY <2>2, <3>1, BytesElsewhere
    <3>3. domains'[d].resident = domains[d].resident + 0
      BY <1>1, <2>6
    <3>4. domains[d].resident \in Nat
      BY <1>0, CountersAt
    <3> QED BY <2>1, <2>3, <3>2, <3>3, <3>4
  <2> QED BY <2>5, <2>6
<1>10. Accounted({}, come)
  BY <1>9 DEF Accounted
<1>11. Buffered({}, come, leaked)
  <2>1. BuffersFor(come) = {residencies'[r].handle : r \in come}
    BY DEF BuffersFor, Arrived
  <2>2. \A r \in come : residencies'[r].handle \notin heap
    BY <1>4 DEF Arrived
  <2>3. ASSUME NEW r \in come, NEW q \in come \ {r}
        PROVE  residencies'[q].handle # residencies'[r].handle
    <3>1. come \in SUBSET Ids
      BY <1>1
    <3>2. NewBuffers(come)[q] # NewBuffers(come)[r]
      BY <1>0, <3>1, BuffersApart
    <3> QED BY <3>2 DEF Arrived
  <2>4. {residencies[r].handle : r \in {}} = {}
    OBVIOUS
  <2> QED BY <2>1, <2>2, <2>3, <2>4 DEF Buffered
<1>12. Leaves(t)
  <2>1. call'[t].op = "idle" /\ call'[t].handle = 0
    BY <1>0, ReturnedCall
  <2>2. ASSUME NEW r \in Ids', residencies'[r].lifecycle \in {"Migrating", "Demoting"}
        PROVE  /\ r \in Ids /\ residencies[r].lifecycle \in {"Migrating", "Demoting"}
               /\ r \notin InHand(call[t])
    <3>1. r \notin M
      BY <1>1, <2>2 DEF Arrived, Missed
    <3> QED BY <1>1, <1>7, <2>2, <3>1
  <2> QED BY <2>1, <2>2, LeavesNothing
<1> QED BY <1>8, <1>10, <1>11, <1>12 DEF Settles

\* The last section of a load gives back or spends just what the call held.
LEMMA LoadEndPays ==
  ASSUME Books, NEW t \in Threads,
         LoadStale(t) \/ LoadPublish(t) \/ LoadPartial(t) \/ LoadCommitThrows(t)
  PROVE  PaysExactly(t) /\ Return(t) /\ call[t].op = "loading" /\ modelGens' = modelGens
<1>0. Inv /\ CallsOK /\ HoldsCovered /\ MembersFit
  BY ExactCovers DEF Books, Inv, TypeOK
<1>1. Return(t) /\ call[t].op = "loading" /\ modelGens' = modelGens
  BY DEF LoadStale, LoadPublish, LoadPartial, LoadCommitThrows
<1>2. BytesIn(call[t].members, call[t].domain) = call[t].bytes /\ call[t].bytes \in Nat
  BY <1>0, <1>1, HoldIsThere DEF Books, MembersExact
<1>3. \A d \in Domains : domains[d].reserved =
                domains'[d].reserved + (IF d = call[t].domain THEN call[t].bytes ELSE 0)
  BY <1>0, <1>2, LoadSpends
<1>4. ASSUME NEW d \in Domains
      PROVE  domains[d].reserved + Holding(call'[t], d) = domains'[d].reserved + Holding(call[t], d)
  <2>1. Holding(call'[t], d) = 0
    BY <1>0, <1>1, ReturnedHolds
  <2>2. Holding(call[t], d) = IF d = call[t].domain THEN call[t].bytes ELSE 0
    BY <1>1, HoldingCases
  <2>3. domains[d].reserved \in Nat
    BY <1>0, CountersAt
  <2> QED BY <1>3, <2>1, <2>2, <2>3
<1> QED BY <1>1, <1>4 DEF PaysExactly


\* What the members of a load become.
LEMMA MemberFates ==
  ASSUME Residence, NEW t \in Threads, call[t].op = "loading", NEW r \in call[t].members
  PROVE  /\ r \in Ids /\ residencies[r].lifecycle = "Declared"
         /\ FailedMember(r).lifecycle = "Failed" /\ FailedMember(r).authority = "Stale"
         /\ FailedMember(r).handle = residencies[r].handle
         /\ FailedMember(r).domain = residencies[r].domain
         /\ \A ok : /\ Materialized(r, ok).lifecycle = "Resident"
                    /\ Materialized(r, ok).authority = "Provisional"
                    /\ Materialized(r, ok).handle = NewBuffers(ok)[r]
                    /\ Materialized(r, ok).domain = residencies[r].domain
                    /\ Published(Materialized(r, ok)).lifecycle = "Ready"
                    /\ Published(Materialized(r, ok)).authority = "Authoritative"
                    /\ Published(Materialized(r, ok)).handle = NewBuffers(ok)[r]
                    /\ Published(Materialized(r, ok)).domain = residencies[r].domain
<1>0. ResidenciesOK /\ CallsOK
  BY DEF Residence, Inv, TypeOK
<1>1. r \in Ids /\ r \in InHand(call[t])
  BY <1>0, LoadingKnows, HandCases
<1>2. residencies[r].lifecycle = "Declared"
  BY <1>1, HandCases DEF Residence, Hands, HandsKept, AsLeft
<1>3. residencies[r] \in Residency
  BY <1>0, <1>1, IdsOK
<1>4. /\ FailedMember(r).lifecycle = "Failed" /\ FailedMember(r).authority = "Stale"
      /\ FailedMember(r).handle = residencies[r].handle
      /\ FailedMember(r).domain = residencies[r].domain
  <2>1. try_transition("Declared", "Failed") = "Failed"
    BY LifecycleEdges
  <2> QED BY <1>2, <1>3, <2>1 DEF FailedMember, Stale, Residency
<1>5. ASSUME NEW ok
      PROVE  /\ Materialized(r, ok).lifecycle = "Resident"
             /\ Materialized(r, ok).authority = "Provisional"
             /\ Materialized(r, ok).handle = NewBuffers(ok)[r]
             /\ Materialized(r, ok).domain = residencies[r].domain
             /\ Published(Materialized(r, ok)).lifecycle = "Ready"
             /\ Published(Materialized(r, ok)).authority = "Authoritative"
             /\ Published(Materialized(r, ok)).handle = NewBuffers(ok)[r]
             /\ Published(Materialized(r, ok)).domain = residencies[r].domain
  <2>1. DOMAIN Materialized(r, ok) = DOMAIN residencies[r]
    BY DEF Materialized
  <2>2. {"lifecycle", "readiness", "authority", "handle", "domain", "validation"} \subseteq DOMAIN residencies[r]
    BY <1>3 DEF Residency
  <2> QED BY <2>1, <2>2 DEF Materialized, Published
<1> QED BY <1>1, <1>2, <1>4, <1>5

\* A step that changes one domain's resident bytes by what x says.
LEMMA OneResident ==
  ASSUME Inv, NEW d \in Domains, NEW x, Rewrites(d, x), NEW n, x.resident = domains[d].resident + n
  PROVE  \A e \in Domains : domains'[e].resident = domains[e].resident + (IF e = d THEN n ELSE 0)
<1>1. ASSUME NEW e \in Domains
      PROVE  domains'[e].resident = domains[e].resident + (IF e = d THEN n ELSE 0)
  <2>1. domains'[e] = IF e = d THEN x ELSE domains[e]
    BY OneDomain DEF Rewrites
  <2>2. domains[e].resident \in Nat
    BY CountersAt
  <2> QED BY <2>1, <2>2
<1> QED BY <1>1

\* A load whose generation is gone.
LEMMA LoadStaleBooks ==
  ASSUME Books, Inv', NEW t \in Threads, LoadStale(t), Turn(t)
  PROVE  KeepsBooks(t)
<1>0. Inv /\ CallsOK /\ ResidenciesOK /\ HoldsCovered /\ MembersFit
  BY ExactCovers DEF Books, Inv, TypeOK
<1>1. /\ PaysExactly(t) /\ Return(t) /\ call[t].op = "loading" /\ modelGens' = modelGens
      /\ ~ StillCurrent(call[t])
  BY LoadEndPays DEF LoadStale
<1>2. PICK ok \in SUBSET call[t].members : heap' = heap \cup BuffersFor(ok)
  BY DEF LoadStale
<1>3. PICK M \in SUBSET Ids, d \in Domains, n \in Nat :
        /\ M = call[t].members /\ d = call[t].domain /\ n = call[t].bytes
        /\ can_cancel(domains[d], n)
  <2>1. call[t].bytes \in 0..call[t].bytes
    BY <1>0, <1>1, HoldIsThere
  <2> QED BY <1>0, <1>1, <2>1, HoldIsThere, LoadingKnows
<1>4. /\ domains' = [domains EXCEPT ![d] = cancel_reservation(domains[d], n)]
      /\ residencies' = [r \in Ids |-> IF r \in M THEN FailedMember(r) ELSE residencies[r]]
  BY <1>3 DEF LoadStale
<1>5. Ids' = Ids
  <2>1. PICK f : f = [r \in Ids |-> IF r \in M THEN FailedMember(r) ELSE residencies[r]]
    OBVIOUS
  <2>2. f \in [Ids -> Residency]
    BY <1>0, <2>1, WrittenResidencies, IdsOK
  <2> QED BY <1>0, <1>4, <2>1, <2>2, InPlace
<1>6. PICK come \in SUBSET call[t].members, leaked \in {BuffersFor(ok)} : come = {}
  OBVIOUS
<1>7. BuffersFor(come) = {}
  BY <1>6 DEF BuffersFor
<1>8. 0 \notin leaked
  <2>1. ok \in SUBSET Ids
    BY <1>2, <1>3
  <2> QED BY <1>0, <1>6, <2>1, BuffersApart DEF BuffersFor
<1>9. CallsCurrent => leaked = {}
  BY <1>1 DEF CallsCurrent
<1>10. \A r \in call[t].members \ come : Missed(r) /\ residencies'[r].domain = residencies[r].domain
  BY <1>1, <1>3, <1>4, BooksReside, MemberFates DEF Missed
<1>11. ASSUME NEW e \in Domains
       PROVE  domains'[e].resident = domains[e].resident +
                (IF e = call[t].domain THEN BytesIn(come, e) ELSE 0)
  <2>1. cancel_reservation(domains[d], n).resident = domains[d].resident + 0
    <3>1. cancel_reservation(domains[d], n).resident = domains[d].resident
      BY <1>0, CountersAt, CountersAfter
    <3>2. domains[d].resident \in Nat
      BY <1>0, CountersAt
    <3> QED BY <3>1, <3>2
  <2>2. PICK x : Rewrites(d, x) /\ x.resident = domains[d].resident + 0
    BY <1>4, <2>1 DEF Rewrites
  <2>3. domains'[e].resident = domains[e].resident + (IF e = d THEN 0 ELSE 0)
    BY <1>0, <2>2, OneResident
  <2>4. BytesIn(come, e) = 0
    <3>1. PICK ress \in Seq(Residency) : ress = residencies
      BY <1>0 DEF ResidenciesOK
    <3>2. BytesOf(ress, {}, e) = 0
      BY BytesOfFew
    <3> QED BY <1>6, <3>1, <3>2, HeldAndBytes
  <2> QED BY <2>3, <2>4
<1>12. /\ heap' = heap \cup BuffersFor(come) \cup leaked
       /\ \A r \in Ids \ call[t].members : residencies'[r] = residencies[r]
       /\ \A r \in come : Arrived(r, come)
       /\ \A r \in call[t].members : residencies'[r].domain = residencies[r].domain
       /\ \A r \in call[t].members \ come : Missed(r)
  BY <1>2, <1>3, <1>4, <1>6, <1>7, <1>10
<1>13. Settles /\ Leaves(t)
  BY <1>1, <1>5, <1>6, <1>8, <1>9, <1>11, <1>12, LoadEndBooks
<1>14. call'[t].op = "idle"
  BY <1>0, <1>1, ReturnedCall
<1> QED BY <1>1, <1>13, <1>14 DEF KeepsBooks

\* What a load that commits members does: all of them come, or some.
LEMMA LoadCommits ==
  ASSUME Residence, NEW t \in Threads, LoadPublish(t) \/ LoadPartial(t)
  PROVE  /\ Ids' = Ids /\ \A r \in Ids \ call[t].members : residencies'[r] = residencies[r]
         /\ \E come \in SUBSET call[t].members :
              /\ heap' = heap \cup BuffersFor(come)
              /\ \A r \in call[t].members :
                   /\ r \in come => Arrived(r, come)
                   /\ r \notin come => Missed(r)
                   /\ residencies'[r].domain = residencies[r].domain
                   /\ SameModel(residencies'[r], residencies[r])
              /\ \A d \in Domains : domains'[d].resident = domains[d].resident +
                   (IF d = call[t].domain THEN BytesIn(come, d) ELSE 0)
<1>0. Inv /\ CallsOK /\ ResidenciesOK /\ HoldsCovered /\ MembersFit
  BY DEF Residence, Inv, TypeOK
<1>1. call[t].op = "loading"
  BY DEF LoadPublish, LoadPartial
<1>2. PICK M \in SUBSET Ids, d \in Domains : M = call[t].members /\ d = call[t].domain
  BY <1>0, <1>1, LoadingKnows
<1>3. \A S \in SUBSET M : Committable(call[t], S) = S
  BY <1>1, <1>2, MemberFates DEF Committable
<1>4. PICK come \in SUBSET M : \E x :
        /\ heap' = heap \cup BuffersFor(come)
        /\ Rewrites(d, x) /\ x.resident = domains[d].resident + BytesIn(come, d)
        /\ \/ residencies' = [r \in Ids |-> IF r \in M THEN Published(Materialized(r, M))
                                            ELSE residencies[r]]
              /\ come = M
           \/ residencies' = [r \in Ids |-> CASE r \in come -> Materialized(r, come)
                                              [] r \in M \ come -> FailedMember(r)
                                              [] OTHER -> residencies[r]]
  <2>1. \A n : commit(domains[d], n).resident = domains[d].resident + n
    BY <1>0, CountersAt, CountersAfter
  <2>2. CASE LoadPublish(t)
    <3>1. /\ heap' = heap \cup BuffersFor(M)
          /\ Rewrites(d, commit(domains[d], BytesIn(M, d)))
          /\ residencies' = [r \in Ids |-> IF r \in M THEN Published(Materialized(r, M))
                                           ELSE residencies[r]]
      BY <1>2, <2>2 DEF LoadPublish, Rewrites
    <3>2. M \in SUBSET M
      OBVIOUS
    <3> QED BY <2>1, <3>1, <3>2
  <2>3. CASE LoadPartial(t)
    <3>1. PICK ok \in SUBSET M : \E x :
            /\ heap' = heap \cup BuffersFor(ok)
            /\ Rewrites(d, x)
            /\ \/ x = commit(domains[d], BytesIn(Committable(call[t], ok), d))
               \/ x = cancel_reservation(commit(domains[d], BytesIn(Committable(call[t], ok), d)),
                                         BytesIn(M \ Committable(call[t], ok), d))
            /\ residencies' = [r \in Ids |->
                CASE r \in Committable(call[t], ok) -> Materialized(r, ok)
                  [] r \in M \ Committable(call[t], ok) -> FailedMember(r)
                  [] OTHER -> residencies[r]]
      BY <1>2, <2>3, ZenonT(40) DEF LoadPartial, Rewrites
    <3>2. Committable(call[t], ok) = ok
      BY <1>3
    <3>3. PICK x :
            /\ heap' = heap \cup BuffersFor(ok)
            /\ Rewrites(d, x)
            /\ \/ x = commit(domains[d], BytesIn(ok, d))
               \/ x = cancel_reservation(commit(domains[d], BytesIn(ok, d)), BytesIn(M \ ok, d))
            /\ residencies' = [r \in Ids |->
                CASE r \in ok -> Materialized(r, ok)
                  [] r \in M \ ok -> FailedMember(r)
                  [] OTHER -> residencies[r]]
      BY <3>1, <3>2
    <3>4. x.resident = domains[d].resident + BytesIn(ok, d)
      <4>1. PICK after, n : after = commit(domains[d], n) /\ n = BytesIn(ok, d)
        OBVIOUS
      <4>2. DOMAIN after = DOMAIN domains[d] /\ after.resident = domains[d].resident + n
        BY <1>0, <2>1, <4>1, CountersAt, CountersAfter
      <4>3. \A k : cancel_reservation(after, k).resident = after.resident
        BY <1>0, <4>2, CountersAt, CountersAfter
      <4> QED BY <3>3, <4>1, <4>2, <4>3
    <3> QED BY <3>3, <3>4
  <2> QED BY <2>2, <2>3
<1>5. \A r \in M : /\ r \in come => Arrived(r, come)
                   /\ r \notin come => Missed(r)
                   /\ residencies'[r].domain = residencies[r].domain
  <2>1. CASE residencies' = [r \in Ids |-> IF r \in M THEN Published(Materialized(r, M))
                                           ELSE residencies[r]] /\ come = M
    BY <1>1, <1>2, <2>1, MemberFates DEF Arrived
  <2>2. CASE residencies' = [r \in Ids |-> CASE r \in come -> Materialized(r, come)
                                              [] r \in M \ come -> FailedMember(r)
                                              [] OTHER -> residencies[r]]
    <3>1. \A r \in M : residencies'[r] = IF r \in come THEN Materialized(r, come) ELSE FailedMember(r)
      BY <2>2
    <3> QED BY <1>1, <1>2, <3>1, MemberFates DEF Arrived, Missed
  <2> QED BY <1>4, <2>1, <2>2
<1>6. Ids' = Ids /\ \A r \in Ids \ M : residencies'[r] = residencies[r]
  <2>1. DOMAIN residencies' = Ids
    BY <1>4
  <2> QED BY <1>4, <2>1 DEF Ids
<1>7. \A e \in Domains : domains'[e].resident = domains[e].resident +
        (IF e = call[t].domain THEN BytesIn(come, e) ELSE 0)
  <2>1. PICK x, n : Rewrites(d, x) /\ x.resident = domains[d].resident + n /\ n = BytesIn(come, d)
    BY <1>4
  <2>2. \A e \in Domains : domains'[e].resident = domains[e].resident + (IF e = d THEN n ELSE 0)
    BY <1>0, <2>1, OneResident
  <2> QED BY <1>2, <2>1, <2>2
<1>8. \A r \in M : SameModel(residencies'[r], residencies[r])
  <2>1. ASSUME NEW r \in M
        PROVE  \/ \E ok : residencies'[r] = Published(Materialized(r, ok))
               \/ \E ok : residencies'[r] = Materialized(r, ok)
               \/ residencies'[r] = FailedMember(r)
    <3>1. r \in Ids
      BY <1>2
    <3> QED BY <1>4, <3>1
  <2> QED BY <1>0, <1>2, <2>1, MemberWrites, Writes
<1> QED BY <1>2, <1>4, <1>5, <1>6, <1>7, <1>8

\* A load that commits members.
LEMMA LoadCommitBooks ==
  ASSUME Books, Inv', NEW t \in Threads, LoadPublish(t) \/ LoadPartial(t), Turn(t)
  PROVE  KeepsBooks(t)
<1>0. Inv /\ Residence
  BY BooksReside DEF Books
<1>1. /\ PaysExactly(t) /\ Return(t) /\ call[t].op = "loading" /\ modelGens' = modelGens
      /\ StillCurrent(call[t])
  BY LoadEndPays DEF LoadPublish, LoadPartial
<1>2. PICK come \in SUBSET call[t].members, leaked \in {{}} :
        /\ heap' = heap \cup BuffersFor(come) \cup leaked /\ 0 \notin leaked
        /\ \A r \in come : Arrived(r, come)
        /\ \A r \in call[t].members : residencies'[r].domain = residencies[r].domain
        /\ \A r \in call[t].members \ come : Missed(r)
        /\ \A d \in Domains : domains'[d].resident = domains[d].resident +
             (IF d = call[t].domain THEN BytesIn(come, d) ELSE 0)
  BY <1>0, LoadCommits
<1>3. Ids' = Ids /\ \A r \in Ids \ call[t].members : residencies'[r] = residencies[r]
  BY <1>0, LoadCommits
<1>4. Settles /\ Leaves(t)
  BY <1>1, <1>2, <1>3, LoadEndBooks
<1>5. call'[t].op = "idle"
  BY <1>0, <1>1, ReturnedCall
<1> QED BY <1>1, <1>4, <1>5 DEF KeepsBooks

\* No commit of a member throws.
LEMMA NoCommitThrows ==
  ASSUME Residence, NEW t \in Threads
  PROVE  ~ LoadCommitThrows(t)
<1> SUFFICES ASSUME LoadCommitThrows(t) PROVE FALSE
  OBVIOUS
<1>0. Inv /\ HoldsCovered /\ MembersFit /\ call[t].op = "loading"
  BY DEF Residence, LoadCommitThrows
<1>1. PICK ok \in SUBSET call[t].members : \E r \in Committable(call[t], ok) :
        ~ CommitsFit(call[t].domain, {q \in Committable(call[t], ok) : q < r} \cup {r})
  BY DEF LoadCommitThrows
<1>2. PICK r \in Committable(call[t], ok) :
        ~ CommitsFit(call[t].domain, {q \in Committable(call[t], ok) : q < r} \cup {r})
  BY <1>1
<1>3. PICK S \in SUBSET call[t].members : S = {q \in Committable(call[t], ok) : q < r} \cup {r}
  BY <1>1, <1>2 DEF Committable
<1>4. CommitsFit(call[t].domain, S)
  BY <1>0, MembersTake
<1> QED BY <1>2, <1>3, <1>4


\* What a move finds when it has the mutex again: its source as it left it, and
\* its reservation.
LEMMA MoveAtHand ==
  ASSUME Residence, NEW t \in Threads, call[t].op \in {"migrating", "demoting"}
  PROVE  LET c == call[t] r == call[t].residency IN
         /\ r \in Ids /\ InHand(c) = {r} /\ Residing(residencies[r])
         /\ residencies[r].lifecycle = (IF c.op = "migrating" THEN "Migrating" ELSE "Demoting")
         /\ residencies[r].domain = c.source /\ residencies[r].bytes = c.bytes
         /\ residencies[r].model = c.model
         /\ residencies[r].modelGeneration = c.modelGeneration
         /\ c.domain \in Domains /\ c.source \in Domains /\ c.bytes \in Nat
         /\ can_cancel(domains[c.domain], c.bytes) /\ can_commit(domains[c.domain], c.bytes)
         /\ c.bytes <= domains[c.source].resident
<1>0. Inv /\ CallsOK /\ ResidenciesOK /\ HoldsCovered
  BY DEF Residence, Inv, TypeOK
<1>1. PICK r \in Ids : r = call[t].residency /\ InHand(call[t]) = {r}
  BY <1>0, MovingKnows, HandCases
<1>2. AsLeft(residencies[r], call[t])
  BY <1>1 DEF Residence, Hands, HandsKept
<1>3. residencies[r].lifecycle = (IF call[t].op = "migrating" THEN "Migrating" ELSE "Demoting")
  BY <1>2, HandCases DEF AsLeft
<1>4. /\ residencies[r].domain = call[t].source /\ residencies[r].bytes = call[t].bytes
      /\ residencies[r].model = call[t].model
      /\ residencies[r].modelGeneration = call[t].modelGeneration
  BY <1>2, HandCases DEF AsLeft
<1>5. Residing(residencies[r])
  BY <1>3 DEF Residing
<1>6. /\ call[t].domain \in Domains /\ call[t].source \in Domains /\ call[t].bytes \in Nat
      /\ can_cancel(domains[call[t].domain], call[t].bytes)
      /\ can_commit(domains[call[t].domain], call[t].bytes)
  <2>1. call[t].bytes \in 0..call[t].bytes
    BY <1>0, HoldIsThere
  <2> QED BY <1>0, <2>1, HoldIsThere, MovingKnows
<1>7. call[t].bytes <= domains[call[t].source].resident
  <2>1. can_release(domains[residencies[r].domain], residencies[r].bytes)
    BY <1>5, OneReleased DEF CanReleaseBytesOf
  <2> QED BY <1>4, <2>1 DEF can_release
<1> QED BY <1>1, <1>3, <1>4, <1>5, <1>6, <1>7

\* With exact books the buffer of the source is alive too.
LEMMA MoveFinds ==
  ASSUME Books, NEW t \in Threads, call[t].op \in {"migrating", "demoting"}
  PROVE  LET c == call[t] r == call[t].residency IN
         /\ r \in Ids /\ InHand(c) = {r} /\ Residing(residencies[r])
         /\ residencies[r].lifecycle = (IF c.op = "migrating" THEN "Migrating" ELSE "Demoting")
         /\ residencies[r].domain = c.source /\ residencies[r].bytes = c.bytes
         /\ residencies[r].model = c.model
         /\ residencies[r].modelGeneration = c.modelGeneration
         /\ residencies[r].handle = c.handle /\ c.handle \in heap
         /\ c.domain \in Domains /\ c.source \in Domains /\ c.bytes \in Nat
         /\ can_cancel(domains[c.domain], c.bytes) /\ can_commit(domains[c.domain], c.bytes)
         /\ c.bytes <= domains[c.source].resident
<1>1. Residence
  BY BooksReside
<1>2. PICK r \in Ids : r = call[t].residency /\ Residing(residencies[r])
  BY <1>1, MoveAtHand
<1>3. residencies[r].handle = call[t].handle /\ call[t].handle \in heap
  BY <1>2 DEF Books, CallHandles, BuffersKept
<1> QED BY <1>1, <1>2, <1>3, MoveAtHand

\* The first section of a move.
LEMMA MoveBeginBooks ==
  ASSUME Books, Unraced, Inv', NEW t \in Threads, NEW r \in Ids, NEW dest \in Domains,
         MigrateBegin(t, r, dest) \/ DemoteBegin(t, r, dest), Turn(t)
  PROVE  KeepsBooks(t)
<1>0. Inv /\ CallsOK /\ ResidenciesOK /\ residencies[r] \in Residency
  BY IdsOK DEF Books, Inv, TypeOK
<1>1. residencies[r].lifecycle \in {"Resident", "Ready"}
  BY MovesBegin
<1>2. PICK op \in {"migrating", "demoting"}, state \in {"Migrating", "Demoting"},
           node \in {residencies[r].node, Node[dest]} :
        /\ MoveBegin(t, op, state, r, dest, node)
        /\ op = "migrating" => "migrate" \in Ops
        /\ op = "demoting" => "demote" \in Ops
  BY DEF MigrateBegin, DemoteBegin
<1>3. lifecycle_transition_allowed(residencies[r].lifecycle, state)
  BY <1>1 DEF lifecycle_transition_allowed
<1>4. PICK res : res = [residencies[r] EXCEPT !.lifecycle = state]
  OBVIOUS
<1>5. /\ res \in Residency /\ res.lifecycle = state /\ res.domain = residencies[r].domain
      /\ res.authority = residencies[r].authority /\ res.handle = residencies[r].handle
  BY <1>0, <1>4 DEF Residency, LifecycleState
<1>6. /\ residencies' = [residencies EXCEPT ![r] = res]
      /\ call' = [call EXCEPT ![t] = Moving(op, r, dest, node)]
      /\ modelGens' = modelGens /\ heap' = heap
      /\ Rewrites(dest, reserve(domains[dest], residencies[r].bytes))
      /\ call[t].op = "idle"
  BY <1>2, <1>3, <1>4 DEF MoveBegin, Rewrites, Idle
<1>7. \A d \in Domains : domains'[d].resident = domains[d].resident
  <2>1. reserve(domains[dest], residencies[r].bytes).resident = domains[dest].resident
    BY <1>0, CountersAt, CountersAfter
  <2>2. PICK x : domains' = [domains EXCEPT ![dest] = x] /\ x.resident = domains[dest].resident
    BY <1>6, <2>1 DEF Rewrites
  <2> QED BY <1>0, <2>2, OneDomain
<1>8. Proper(residencies[r]) /\ Residing(residencies[r])
  BY <1>1 DEF Books, AllProper, Residing
<1>9. Proper(res) /\ Residing(res)
  BY <1>1, <1>5, <1>8 DEF Proper, Residing, TerminalState
<1>10. Settles
  BY <1>5, <1>6, <1>7, <1>8, <1>9, Rewritten
<1>11. PICK c : /\ c = [IdleCall EXCEPT !.op = op, !.model = residencies[r].model, !.domain = dest,
                          !.residency = r, !.bytes = residencies[r].bytes,
                          !.source = residencies[r].domain, !.handle = residencies[r].handle,
                          !.node = node, !.modelGeneration = residencies[r].modelGeneration]
                /\ call'[t] = c
  BY <1>0, <1>6 DEF Moving, CallsOK
<1>12. c.op = op /\ c.residency = r /\ c.handle = residencies[r].handle
  BY <1>11, IdleIsCall DEF CallRecord
<1>13. Ids' = Ids /\ \A q \in Ids : residencies'[q] = IF q = r THEN res ELSE residencies[q]
  BY <1>0, <1>5, <1>6, OneInPlace DEF ResidenciesOK, Ids
<1>14. Leaves(t)
  <2>1. InHand(call'[t]) = {r} /\ InHand(call[t]) = {}
    <3>1. InHand(c) = {r}
      BY <1>12, HandCases
    <3>2. InHand(call[t]) = {}
      BY <1>6, HandCases
    <3> QED BY <1>11, <3>1, <3>2, Zenon
  <2>2. residencies'[r].handle = c.handle
    BY <1>5, <1>12, <1>13
  <2>3. \A q \in Ids' : residencies'[q].lifecycle \in {"Migrating", "Demoting"} =>
          \/ q \in InHand(call'[t])
          \/ /\ q \in Ids /\ residencies[q].lifecycle \in {"Migrating", "Demoting"}
             /\ q \notin InHand(call[t])
    BY <1>13, <2>1
  <2> QED BY <1>2, <1>11, <1>12, <2>2, <2>3 DEF Leaves
<1>15. PaysExactly(t)
  <2>1. /\ \A d \in Domains : Holding(call[t], d) = 0
        /\ \A d \in Domains : domains'[d].reserved = domains[d].reserved + Holding(call'[t], d)
    BY <1>0, <1>1, MoveBeginReserves
  <2>2. \A d \in Domains : domains'[d].reserved \in Nat
    BY DEF Inv, TypeOK, DomainsOK, MemoryDomainRecord, Bytes
  <2> QED BY <2>1, <2>2 DEF PaysExactly
<1>16. call'[t].op # "loading"
  BY <1>11, <1>12
<1> QED BY <1>10, <1>14, <1>15, <1>16 DEF KeepsBooks

\* The last section of a move gives back or spends just what the call held.
LEMMA MoveEndPays ==
  ASSUME Books, NEW t \in Threads,
         \/ MigrateStale(t) \/ MigrateFails(t) \/ DemoteFails(t)
         \/ MigrateCommit(t) \/ DemoteCommit(t)
  PROVE  /\ PaysExactly(t) /\ Return(t) /\ call[t].op \in {"migrating", "demoting"}
         /\ modelGens' = modelGens /\ call'[t].op = "idle" /\ call'[t].handle = 0
<1>0. Inv /\ CallsOK /\ HoldsCovered
  BY ExactCovers DEF Books, Inv, TypeOK
<1>1. Return(t) /\ call[t].op \in {"migrating", "demoting"} /\ modelGens' = modelGens
  BY DEF MigrateStale, MigrateFails, DemoteFails, MigrateCommit, DemoteCommit, MoveReverts
<1>2. can_release(domains[call[t].source], call[t].bytes)
  BY <1>1, MoveFinds DEF can_release
<1>3. \A d \in Domains : domains[d].reserved = domains'[d].reserved + Holding(call[t], d)
  BY <1>0, <1>2, MoveSpends
<1>4. \A d \in Domains : Holding(call'[t], d) = 0 /\ domains[d].reserved \in Nat
  BY <1>0, <1>1, ReturnedHolds, CountersAt
<1>5. PaysExactly(t)
  BY <1>3, <1>4 DEF PaysExactly
<1> QED BY <1>0, <1>1, <1>5, ReturnedCall

\* A move that is called off.
LEMMA MoveRevertsBooks ==
  ASSUME Books, Inv', NEW t \in Threads,
         MigrateStale(t) \/ MigrateFails(t) \/ DemoteFails(t), Turn(t)
  PROVE  KeepsBooks(t)
<1>0. Inv /\ CallsOK /\ ResidenciesOK /\ OthersOK
  BY DEF Books, Inv, TypeOK
<1>1. /\ PaysExactly(t) /\ call[t].op \in {"migrating", "demoting"}
      /\ modelGens' = modelGens /\ call'[t].op = "idle" /\ call'[t].handle = 0
  BY MoveEndPays
<1>2. PICK made \in BOOLEAN : MoveReverts(t, made) /\ (made => ~ CallsCurrent)
  <2>1. CASE MigrateStale(t)
    <3>1. ~ CallsCurrent
      BY <2>1 DEF MigrateStale, CallsCurrent
    <3> QED BY <2>1, <3>1 DEF MigrateStale
  <2>2. CASE MigrateFails(t) \/ DemoteFails(t)
    BY <2>2 DEF MigrateFails, DemoteFails
  <2> QED BY <2>1, <2>2
<1>3. PICK r \in Ids, d \in Domains, n \in Nat :
        /\ r = call[t].residency /\ d = call[t].domain /\ n = call[t].bytes
        /\ can_cancel(domains[d], n) /\ InHand(call[t]) = {r} /\ Residing(residencies[r])
        /\ residencies[r].lifecycle \in {"Migrating", "Demoting"}
  BY <1>1, MoveFinds
<1>4. PICK res : res = [residencies[r] EXCEPT !.lifecycle = "Resident"]
  OBVIOUS
<1>5. /\ Rewrites(d, cancel_reservation(domains[d], n))
      /\ residencies' = [residencies EXCEPT ![r] = res]
      /\ heap' = IF made THEN heap \cup {NewBuffer} ELSE heap
  <2>1. try_transition(residencies[r].lifecycle, "Resident") = "Resident"
    BY <1>3, LifecycleEdges
  <2> QED BY <1>2, <1>3, <1>4, <2>1 DEF MoveReverts, Rewrites
<1>6. /\ res \in Residency /\ res.lifecycle = "Resident" /\ res.domain = residencies[r].domain
      /\ res.authority = residencies[r].authority /\ res.handle = residencies[r].handle
  BY <1>0, <1>4, IdsOK DEF Residency, LifecycleState
<1>7. Ids' = Ids /\ \A q \in Ids : residencies'[q] = IF q = r THEN res ELSE residencies[q]
  BY <1>0, <1>5, <1>6, OneInPlace DEF ResidenciesOK, Ids
<1>8. Proper(res) /\ Residing(res)
  <2>1. Proper(residencies[r])
    BY DEF Books, AllProper
  <2> QED BY <1>3, <1>6, <2>1 DEF Proper, Residing, TerminalState
<1>9. \A e \in Domains : domains'[e].resident = domains[e].resident
  <2>1. cancel_reservation(domains[d], n).resident = domains[d].resident
    BY <1>0, CountersAt, CountersAfter
  <2>2. PICK x : domains' = [domains EXCEPT ![d] = x] /\ x.resident = domains[d].resident
    BY <1>5, <2>1 DEF Rewrites
  <2> QED BY <1>0, <2>2, OneDomain
<1>10. Settles
  <2>1. PICK leaked : leaked = IF made THEN {NewBuffer} ELSE {}
    OBVIOUS
  <2>2. heap' = heap \cup leaked /\ 0 \notin leaked
    BY <1>0, <1>5, <2>1, OneBuffer
  <2>3. \A q \in Ids' : Proper(residencies'[q])
    BY <1>7, <1>8 DEF Books, AllProper
  <2>4. \A q \in Ids :
          /\ Residing(residencies'[q]) <=> Residing(residencies[q])
          /\ residencies'[q].domain = residencies[q].domain
          /\ residencies'[q].handle = residencies[q].handle
    BY <1>3, <1>6, <1>7, <1>8
  <2>5. Exchange({}, {}) /\ Accounted({}, {}) /\ Buffered({}, {}, leaked)
    BY <1>0, <1>1, <1>7, <1>9, <2>2, <2>3, <2>4, Undisturbed
  <2>6. CallsCurrent => leaked = {}
    BY <1>2, <2>1
  <2> QED BY <2>5, <2>6 DEF Settles
<1>11. Leaves(t)
  <2>1. \A q \in Ids' : residencies'[q].lifecycle \in {"Migrating", "Demoting"} =>
          /\ q \in Ids /\ residencies[q].lifecycle \in {"Migrating", "Demoting"}
          /\ q \notin InHand(call[t])
    BY <1>3, <1>6, <1>7
  <2> QED BY <1>1, <2>1, LeavesNothing
<1> QED BY <1>1, <1>10, <1>11 DEF KeepsBooks


\* What a move leaves at its destination, and of its source.
LEMMA MoveFates ==
  ASSUME Residence, NEW t \in Threads, call[t].op \in {"migrating", "demoting"},
         NEW new \in {Migrated(call[t]), Demoted(call[t])}
  PROVE  LET old == residencies[call[t].residency] IN
         /\ new \in Residency
         /\ new.lifecycle \in {"Resident", "Ready"} /\ new.authority # "Stale"
         /\ new.handle = NewBuffer /\ new.domain = call[t].domain /\ new.bytes = old.bytes
         /\ new.model = old.model /\ new.modelGeneration = old.modelGeneration
<1>0. Inv /\ ResidenciesOK
  BY DEF Residence, Inv, TypeOK
<1>1. PICK old \in Residency, c \in {call[t]} : old = residencies[c.residency]
  BY <1>0, MovingKnows, IdsOK
<1>f. {"model", "modelGeneration", "domain", "node", "bytes", "references", "pinned", "lifecycle",
       "validation", "readiness", "authority", "handle"} \subseteq DOMAIN old
  BY <1>1 DEF Residency
<1>2. new \in Residency
  BY <1>0, MovedResidencies
<1>3. /\ new.lifecycle \in {"Resident", "Ready"} /\ new.authority # "Stale"
      /\ new.handle = NewBuffer /\ new.domain = c.domain /\ new.bytes = old.bytes
      /\ new.model = old.model /\ new.modelGeneration = old.modelGeneration
  <2>1. CASE residency_class_is_execution_ready(Kind[c.domain])
    <3>1. \/ new = [old EXCEPT
               !.domain = c.domain, !.node = c.node, !.references = 0, !.pinned = FALSE,
               !.lifecycle = "Ready", !.validation = "Valid", !.readiness = "Ready",
               !.authority = "Authoritative", !.handle = NewBuffer]
          \/ new = [old EXCEPT
               !.domain = c.domain, !.node = c.node, !.lifecycle = "Resident",
               !.validation = "Valid", !.readiness = "Ready",
               !.authority = "Authoritative", !.handle = NewBuffer]
      BY <1>1, <2>1 DEF Migrated, Demoted
    <3> QED BY ONLY <1>f, <3>1
  <2>2. CASE ~ residency_class_is_execution_ready(Kind[c.domain])
    <3>1. \/ new = [old EXCEPT
               !.domain = c.domain, !.node = c.node, !.references = 0, !.pinned = FALSE,
               !.lifecycle = "Resident", !.validation = "Valid", !.readiness = "NotReady",
               !.authority = "Provisional", !.handle = NewBuffer]
          \/ new = [old EXCEPT
               !.domain = c.domain, !.node = c.node, !.lifecycle = "Resident",
               !.validation = "Valid", !.readiness = "NotReady",
               !.authority = "Provisional", !.handle = NewBuffer]
      BY <1>1, <2>2 DEF Migrated, Demoted
    <3> QED BY ONLY <1>f, <3>1
  <2> QED BY <2>1, <2>2
<1> QED BY <1>1, <1>2, <1>3

\* The bytes a move takes from one domain to another.
LEMMA MoveShifts ==
  ASSUME Residence, NEW t \in Threads, MigrateCommit(t) \/ DemoteCommit(t)
  PROVE  \A d \in Domains :
           domains'[d].resident + (IF d = call[t].source THEN call[t].bytes ELSE 0) =
             domains[d].resident + (IF d = call[t].domain THEN call[t].bytes ELSE 0)
<1>0. Inv
  BY DEF Residence
<1>1. call[t].op \in {"migrating", "demoting"}
  BY DEF MigrateCommit, DemoteCommit
<1>2. PICK dom \in Domains, src \in Domains, n \in Nat :
        /\ dom = call[t].domain /\ src = call[t].source /\ n = call[t].bytes
        /\ n <= domains[src].resident
  BY <1>1, MoveAtHand
<1>3. \A d \in Domains : domains[d].resident \in Nat
  BY <1>0, CountersAt
<1>4. CASE MigrateCommit(t)
  <2> DEFINE f == [domains EXCEPT ![dom] = commit(domains[dom], n)]
  <2>1. ASSUME NEW d \in Domains
        PROVE  /\ f[d].resident = domains[d].resident + (IF d = dom THEN n ELSE 0)
               /\ DOMAIN f[d] = DOMAIN domains[d]
    <3>1. f[d] = IF d = dom THEN commit(domains[dom], n) ELSE domains[d]
      BY <1>0 DEF Inv, TypeOK, DomainsOK
    <3>2. /\ DOMAIN commit(domains[dom], n) = DOMAIN domains[dom]
          /\ commit(domains[dom], n).resident = domains[dom].resident + n
      BY <1>0, CountersAt, CountersAfter
    <3> HIDE DEF f
    <3> QED BY <1>3, <3>1, <3>2
  <2>2. f \in [Domains -> {f[d] : d \in Domains}]
    BY <1>0 DEF Inv, TypeOK, DomainsOK
  <2>3. \/ can_release(f[src], n) /\ domains' = [f EXCEPT ![src] = release(f[src], n)]
        \/ ~ can_release(f[src], n)
    BY <1>2, <1>4 DEF MigrateCommit
  <2> HIDE DEF f
  <2>4. can_release(f[src], n)
    BY <1>2, <1>3, <2>1 DEF can_release
  <2>5. release(f[src], n).resident = f[src].resident - n
    BY <1>0, <2>1, CountersAt, CountersAfter
  <2>6. ASSUME NEW d \in Domains
        PROVE  domains'[d].resident = f[d].resident - (IF d = src THEN n ELSE 0)
    <3>1. domains'[d] = IF d = src THEN release(f[src], n) ELSE f[d]
      BY <2>2, <2>3, <2>4
    <3>2. f[d].resident \in Nat
      BY <1>3, <2>1
    <3> QED BY <2>5, <3>1, <3>2
  <2>7. ASSUME NEW d \in Domains
        PROVE  domains'[d].resident + (IF d = src THEN n ELSE 0) =
                 domains[d].resident + (IF d = dom THEN n ELSE 0)
    BY <1>3, <2>1, <2>6
  <2> QED BY <1>2, <2>7
<1>5. CASE DemoteCommit(t)
  <2> DEFINE f == [domains EXCEPT ![src] = release(domains[src], n)]
  <2>1. ASSUME NEW d \in Domains
        PROVE  /\ f[d].resident = domains[d].resident - (IF d = src THEN n ELSE 0)
               /\ DOMAIN f[d] = DOMAIN domains[d]
    <3>1. f[d] = IF d = src THEN release(domains[src], n) ELSE domains[d]
      BY <1>0 DEF Inv, TypeOK, DomainsOK
    <3>2. /\ DOMAIN release(domains[src], n) = DOMAIN domains[src]
          /\ release(domains[src], n).resident = domains[src].resident - n
      BY <1>0, CountersAt, CountersAfter
    <3> HIDE DEF f
    <3> QED BY <1>3, <3>1, <3>2
  <2>2. f \in [Domains -> {f[d] : d \in Domains}]
    BY <1>0 DEF Inv, TypeOK, DomainsOK
  <2>3. domains' = [f EXCEPT ![dom] = commit(f[dom], n)]
    <3>1. can_release(domains[src], n)
      BY <1>2 DEF can_release
    <3> QED BY <1>2, <1>5, <3>1 DEF DemoteCommit
  <2> HIDE DEF f
  <2>4. commit(f[dom], n).resident = f[dom].resident + n
    BY <1>0, <2>1, CountersAt, CountersAfter
  <2>5. ASSUME NEW d \in Domains
        PROVE  domains'[d].resident = f[d].resident + (IF d = dom THEN n ELSE 0)
    <3>1. domains'[d] = IF d = dom THEN commit(f[dom], n) ELSE f[d]
      BY <2>2, <2>3
    <3>2. f[d].resident \in Int
      BY <1>3, <2>1
    <3> QED BY <2>4, <3>1, <3>2
  <2>6. ASSUME NEW d \in Domains
        PROVE  domains'[d].resident + (IF d = src THEN n ELSE 0) =
                 domains[d].resident + (IF d = dom THEN n ELSE 0)
    BY <1>3, <2>1, <2>5
  <2> QED BY <1>2, <2>6
<1> QED BY <1>4, <1>5

\* A residency that arrives in place of another, which may be itself.
LEMMA Replaced ==
  ASSUME Books, Inv', NEW t \in Threads, call[t].op \in {"migrating", "demoting"}, Turn(t),
         NEW q \in Ids', Ids' = Ids \cup {q}, modelGens' = modelGens,
         q \in Ids => q = call[t].residency,
         call[t].residency # q => GivenUp(residencies'[call[t].residency]),
         \A r \in Ids \ {call[t].residency} : residencies'[r] = residencies[r],
         residencies'[q] \in {Migrated(call[t]), Demoted(call[t])},
         heap' = (heap \ {call[t].handle}) \cup {NewBuffer},
         \A d \in Domains :
           domains'[d].resident + (IF d = call[t].source THEN call[t].bytes ELSE 0) =
             domains[d].resident + (IF d = call[t].domain THEN call[t].bytes ELSE 0)
  PROVE  Settles /\ (call'[t].op = "idle" /\ call'[t].handle = 0 => Leaves(t))
<1>0. Inv /\ CallsOK /\ ResidenciesOK /\ OthersOK
  BY DEF Books, Inv, TypeOK
<1>1. PICK r \in Ids, n \in Nat :
        /\ r = call[t].residency /\ n = call[t].bytes /\ InHand(call[t]) = {r}
        /\ Residing(residencies[r])
        /\ residencies[r].domain = call[t].source /\ residencies[r].bytes = n
        /\ residencies[r].handle = call[t].handle
  BY MoveFinds
<1>2. /\ residencies'[q].lifecycle \in {"Resident", "Ready"}
      /\ residencies'[q].authority # "Stale" /\ residencies'[q].handle = NewBuffer
      /\ residencies'[q].domain = call[t].domain /\ residencies'[q].bytes = n
      /\ residencies'[q].model = residencies[r].model
      /\ residencies'[q].modelGeneration = residencies[r].modelGeneration
  BY <1>1, BooksReside, MoveFates
<1>3. NewBuffer # 0 /\ NewBuffer \notin heap
  BY <1>0, OneBuffer DEF HandlesInUse
<1>4. Proper(residencies'[q]) /\ Residing(residencies'[q])
  BY <1>2, <1>3 DEF Proper, Residing, TerminalState
<1>5. residencies'[q].modelGeneration = modelGens'[residencies'[q].model]
  BY <1>1, <1>2 DEF Books, ResidentIsCurrent
<1>6. r # q => Proper(residencies'[r]) /\ ~ Residing(residencies'[r])
  BY <1>1 DEF GivenUp, Proper, Residing, TerminalState
<1>7. \A x \in Ids \ {r} : residencies'[x] = residencies[x] /\ Proper(residencies'[x])
  BY <1>1 DEF Books, AllProper
<1>8. Exchange({r}, {q})
  <2>1. {r} \in SUBSET Ids /\ {q} \in SUBSET Ids' /\ Ids \subseteq Ids'
    OBVIOUS
  <2>2. ASSUME NEW x \in Ids' \ {q}
        PROVE  Residing(residencies'[x]) <=> x \in Ids \ {r} /\ Residing(residencies[x])
    BY <1>6, <1>7
  <2>3. ASSUME NEW x \in Ids \ ({r} \cup {q})
        PROVE  /\ residencies'[x].domain = residencies[x].domain
               /\ residencies'[x].handle = residencies[x].handle
    BY <1>7
  <2>4. \A x \in Ids' : Proper(residencies'[x])
    BY <1>4, <1>6, <1>7
  <2>5. \A x \in {q} :
          /\ residencies'[x].lifecycle \in {"Resident", "Ready"}
          /\ residencies'[x].modelGeneration = modelGens'[residencies'[x].model]
          /\ x \in Ids => x \in {r} \/ ~ Residing(residencies[x])
    BY <1>1, <1>2, <1>5
  <2> QED BY <1>1, <2>1, <2>2, <2>3, <2>4, <2>5 DEF Exchange
<1>9. Accounted({r}, {q})
  <2>1. ASSUME NEW d \in Domains
        PROVE  /\ BytesOf(residencies, {r}, d) = IF d = call[t].source THEN n ELSE 0
               /\ BytesOf(residencies', {q}, d) = IF d = call[t].domain THEN n ELSE 0
    <3>1. PICK old \in Seq(Residency), new \in Seq(Residency) :
            old = residencies /\ new = residencies'
      BY <1>0 DEF Inv, TypeOK, ResidenciesOK
    <3>2. r \in DOMAIN old /\ q \in DOMAIN new
      BY <3>1 DEF Ids
    <3>3. /\ BytesOf(old, {r}, d) = IF old[r].domain = d THEN old[r].bytes ELSE 0
          /\ BytesOf(new, {q}, d) = IF new[q].domain = d THEN new[q].bytes ELSE 0
      BY <3>2, BytesOfFew
    <3> QED BY <1>1, <1>2, <3>1, <3>3
  <2>2. ASSUME NEW d \in Domains
        PROVE  domains'[d].resident + (IF d = call[t].source THEN n ELSE 0) =
                 domains[d].resident + (IF d = call[t].domain THEN n ELSE 0)
    BY <1>1
  <2> QED BY <2>1, <2>2, Zenon DEF Accounted
<1>10. Buffered({r}, {q}, {})
  <2>1. heap' = (heap \ {residencies[x].handle : x \in {r}})
                  \cup {residencies'[x].handle : x \in {q}} \cup {}
    BY <1>1, <1>2
  <2> QED BY <1>2, <1>3, <2>1 DEF Buffered
<1>11. ASSUME call'[t].op = "idle", call'[t].handle = 0 PROVE Leaves(t)
  <2>1. ASSUME NEW x \in Ids', residencies'[x].lifecycle \in {"Migrating", "Demoting"}
        PROVE  /\ x \in Ids /\ residencies[x].lifecycle \in {"Migrating", "Demoting"}
               /\ x \notin InHand(call[t])
    <3>1. x # q
      BY <1>2, <2>1
    <3>2. x # r
      BY <1>6, <2>1, <3>1 DEF Residing
    <3> QED BY <1>1, <1>7, <2>1, <3>1, <3>2
  <2> QED BY <1>11, <2>1, LeavesNothing
<1> QED BY <1>8, <1>9, <1>10, <1>11 DEF Settles

\* What a migrate that succeeds does: its destination comes, its source ends.
LEMMA MigrateReplaces ==
  ASSUME Residence, NEW t \in Threads, MigrateCommit(t)
  PROVE  /\ call[t].residency \in Ids /\ GivenUp(residencies'[call[t].residency])
         /\ \A x \in Ids \ {call[t].residency} : residencies'[x] = residencies[x]
         /\ heap' = (heap \ {call[t].handle}) \cup {NewBuffer}
         /\ \E q : Ids' = Ids \cup {q} /\ q \notin Ids /\ residencies'[q] = Migrated(call[t])
<1>0. Inv /\ ResidenciesOK
  BY DEF Residence, Inv, TypeOK
<1>1. call[t].op = "migrating"
  BY DEF MigrateCommit
<1>2. PICK r \in Ids, src \in Domains, dom \in Domains, n \in Nat :
        /\ r = call[t].residency /\ src = call[t].source /\ dom = call[t].domain
        /\ n = call[t].bytes /\ n <= domains[src].resident
        /\ residencies[r].lifecycle = "Migrating"
  BY <1>1, MoveAtHand
<1>3. can_release([domains EXCEPT ![dom] = commit(domains[dom], n)][src], n)
  <2>1. domains[src].resident \in Nat /\ commit(domains[src], n).resident = domains[src].resident + n
    BY <1>0, CountersAt, CountersAfter
  <2>2. [domains EXCEPT ![dom] = commit(domains[dom], n)][src] =
          IF src = dom THEN commit(domains[src], n) ELSE domains[src]
    BY <1>0 DEF Inv, TypeOK, DomainsOK
  <2> QED BY <1>2, <2>1, <2>2 DEF can_release
<1>4. PICK f : f = [residencies EXCEPT ![r] = Retired(r)]
  OBVIOUS
<1>5. /\ residencies' = Append(f, Migrated(call[t]))
      /\ heap' = (heap \ {call[t].handle}) \cup {NewBuffer}
  BY <1>2, <1>3, <1>4 DEF MigrateCommit
<1>6. f \in [Ids -> Residency] /\ f \in Seq(Residency) /\ Len(f) = Len(residencies)
  <2>1. f \in [Ids -> Residency]
    BY <1>0, <1>4, WrittenResidencies, IdsOK DEF ResidenciesOK, Ids
  <2> QED BY <1>0, <2>1, IdsOK, SequenceFromFunction
<1>7. PICK q : q = Len(residencies) + 1
  OBVIOUS
<1>8. /\ Ids' = Ids \cup {q} /\ q \notin Ids
      /\ residencies'[q] = Migrated(call[t])
      /\ \A x \in Ids : residencies'[x] = f[x]
  <2>1. Migrated(call[t]) \in Residency
    BY <1>0, <1>1, MovedResidencies
  <2>2. Ids = 1..Len(residencies) /\ Len(residencies) \in Nat
    BY <1>0, IdsOK
  <2> QED BY <1>5, <1>6, <1>7, <2>1, <2>2 DEF Ids
<1>9. \A x \in Ids : residencies'[x] = IF x = r THEN Retired(r) ELSE residencies[x]
  BY <1>0, <1>4, <1>8 DEF ResidenciesOK, Ids
<1>10. GivenUp(Retired(r))
  <2>1. try_transition("Migrating", "Retired") = "Retired"
    BY LifecycleEdges
  <2>2. residencies[r] \in Residency
    BY <1>0, IdsOK
  <2> QED BY <1>2, <2>1, <2>2 DEF Retired, Stale, GivenUp, TerminalState, Residency
<1> QED BY <1>2, <1>5, <1>8, <1>9, <1>10

\* The last section of a migrate that succeeds.
LEMMA MigrateCommitBooks ==
  ASSUME Books, Inv', NEW t \in Threads, MigrateCommit(t), Turn(t)
  PROVE  KeepsBooks(t)
<1>1. /\ PaysExactly(t) /\ call[t].op = "migrating"
      /\ modelGens' = modelGens /\ call'[t].op = "idle" /\ call'[t].handle = 0
  BY MoveEndPays DEF MigrateCommit
<1>2. /\ call[t].residency \in Ids /\ GivenUp(residencies'[call[t].residency])
      /\ \A x \in Ids \ {call[t].residency} : residencies'[x] = residencies[x]
      /\ heap' = (heap \ {call[t].handle}) \cup {NewBuffer}
  BY BooksReside, MigrateReplaces
<1>3. PICK q : Ids' = Ids \cup {q} /\ q \notin Ids /\ residencies'[q] = Migrated(call[t])
  BY BooksReside, MigrateReplaces
<1>4. \A d \in Domains :
        domains'[d].resident + (IF d = call[t].source THEN call[t].bytes ELSE 0) =
          domains[d].resident + (IF d = call[t].domain THEN call[t].bytes ELSE 0)
  BY BooksReside, MoveShifts
<1>5. Settles /\ Leaves(t)
  BY <1>1, <1>2, <1>3, <1>4, Replaced
<1> QED BY <1>1, <1>5 DEF KeepsBooks

\* The last section of a demote that succeeds.
LEMMA DemoteCommitBooks ==
  ASSUME Books, Inv', NEW t \in Threads, DemoteCommit(t), Turn(t)
  PROVE  KeepsBooks(t)
<1>0. Inv /\ ResidenciesOK
  BY DEF Books, Inv, TypeOK
<1>1. /\ PaysExactly(t) /\ call[t].op = "demoting"
      /\ modelGens' = modelGens /\ call'[t].op = "idle" /\ call'[t].handle = 0
  BY MoveEndPays DEF DemoteCommit
<1>2. PICK r \in Ids : r = call[t].residency /\ can_release(domains[call[t].source], call[t].bytes)
  BY <1>1, MoveFinds DEF can_release
<1>3. /\ residencies' = [residencies EXCEPT ![r] = Demoted(call[t])]
      /\ heap' = (heap \ {call[t].handle}) \cup {NewBuffer}
  BY <1>2 DEF DemoteCommit
<1>4. PICK res \in Residency : res = Demoted(call[t])
  BY <1>0, <1>1, MovedResidencies
<1>5. Ids' = Ids /\ \A x \in Ids : residencies'[x] = IF x = r THEN res ELSE residencies[x]
  BY <1>0, <1>3, <1>4, OneInPlace DEF ResidenciesOK, Ids
<1>6. \A d \in Domains :
         domains'[d].resident + (IF d = call[t].source THEN call[t].bytes ELSE 0) =
           domains[d].resident + (IF d = call[t].domain THEN call[t].bytes ELSE 0)
  BY BooksReside, MoveShifts
<1>7. Ids' = Ids \cup {r} /\ r \in Ids'
  BY <1>5
<1>8. Settles /\ Leaves(t)
  BY <1>1, <1>2, <1>3, <1>4, <1>5, <1>6, <1>7, Replaced
<1> QED BY <1>1, <1>8 DEF KeepsBooks


\* Every step keeps the books.
LEMMA NextBooks ==
  ASSUME Books, FootprintsExact, Unraced, Inv', Next, ~ UNCHANGED vars
  PROVE  \E t \in Threads : KeepsBooks(t)
<1>0. Inv /\ Hands
  BY DEF Books
<1>1. ASSUME NEW t \in Threads, Begin(t) PROVE KeepsBooks(t)
  <2>1. Turn(t)
    BY <1>0, <1>1, BeginTurn
  <2>2. CASE \E m \in Models, a \in AdapterSets : LoadAdmit(t, m, a)
    BY <2>1, <2>2, LoadStartBooks
  <2>3. CASE \E r \in Ids, dest \in Domains : MigrateBegin(t, r, dest) \/ DemoteBegin(t, r, dest)
    BY <2>1, <2>3, MoveBeginBooks
  <2> QED BY <1>1, <2>2, <2>3 DEF Begin
<1>2. ASSUME NEW t \in Threads, Continue(t) PROVE KeepsBooks(t)
  <2>1. Turn(t)
    BY <1>0, <1>2, ContinueTurn
  <2>2. CASE LoadReuse(t) \/ LoadEvictRelocks(t) \/ LoadEvictGivesUp(t) \/ LoadRefused(t)
    BY <2>1, <2>2, LoadStartBooks
  <2>3. CASE LoadEvictRound(t)
    BY <2>3, EvictRoundBooks
  <2>4. CASE LoadBegin(t)
    BY <2>1, <2>4, LoadBeginBooks
  <2>5. CASE LoadStale(t)
    BY <2>1, <2>5, LoadStaleBooks
  <2>6. CASE LoadPublish(t) \/ LoadPartial(t)
    BY <2>1, <2>6, LoadCommitBooks
  <2>7. CASE LoadCommitThrows(t)
    BY <2>7, BooksReside, NoCommitThrows
  <2>8. CASE MigrateStale(t) \/ MigrateFails(t) \/ DemoteFails(t)
    BY <2>1, <2>8, MoveRevertsBooks
  <2>9. CASE MigrateCommit(t)
    BY <2>1, <2>9, MigrateCommitBooks
  <2>10. CASE DemoteCommit(t)
    BY <2>1, <2>10, DemoteCommitBooks
  <2>11. CASE MigrateCommitThrows(t) \/ DemoteCommitThrows(t)
    BY <1>0, <2>11, ExactCovers, NoMoveThrows DEF Books
  <2> QED BY <1>2, <2>2, <2>3, <2>4, <2>5, <2>6, <2>7, <2>8, <2>9, <2>10, <2>11 DEF Continue
<1>3. CASE AtomicCall
  BY <1>3, AtomicBooks
<1> QED BY <1>1, <1>2, <1>3 DEF Next, CallersStop

\* Empty books.
LEMMA InitBooks == Init => Books
<1> SUFFICES ASSUME Init PROVE Books
  OBVIOUS
<1>1. Inv /\ Hands
  BY InitInv, InitHands
<1>2. Ids = {} /\ residencies = <<>> /\ heap = {}
  BY DEF Init, Ids
<1>3. \A t \in Threads : call[t].op = "idle" /\ call[t].handle = 0
  BY DEF Init, IdleCall
<1>4. AllProper /\ BuffersKept /\ CallHandles /\ MovesInHand /\ OpsUsed /\ ResidentIsCurrent /\ MembersExact
  BY <1>2, <1>3 DEF AllProper, BuffersKept, CallHandles, MovesInHand, OpsUsed, ResidentIsCurrent, MembersExact
<1>5. ExactReservations
  <2>1. ASSUME NEW d \in Domains PROVE domains[d].reserved = Held(d)
    <3>1. {t \in Threads : call[t].op \in {"loading", "migrating", "demoting"}
                           /\ call[t].domain = d} = {}
      BY <1>3
    <3>2. Held(d) = SumFunctionOnSet([t \in Threads |-> call[t].bytes], {})
      BY <3>1 DEF Held
    <3>3. Held(d) = 0
      BY <3>2, FS_EmptySet, SumByPick
    <3> QED BY <3>3 DEF Init
  <2> QED BY <2>1 DEF ExactReservations
<1>6. ExactResidence
  <2>1. ASSUME NEW d \in Domains
        PROVE  domains[d].resident = BytesOf(residencies, ResidingIn(residencies), d)
    <3>1. ResidingIn(residencies) = {}
      BY <1>2 DEF ResidingIn, Ids
    <3>2. PICK ress \in Seq(Residency) : ress = residencies
      BY <1>1 DEF Inv, TypeOK, ResidenciesOK
    <3>3. BytesOf(ress, {}, d) = 0
      BY BytesOfFew
    <3> QED BY <3>1, <3>2, <3>3 DEF Init
  <2>2. AllKnown
    BY <1>2 DEF AllKnown
  <2> QED BY <2>1, <2>2, ResidenceSays
<1> QED BY <1>1, <1>4, <1>5, <1>6 DEF Books

\* One step of the invariant.
LEMMA BooksStep ==
  ASSUME FootprintsExact, Unraced, Books, [Next]_vars
  PROVE  Books' /\ (UNCHANGED vars \/ \E t \in Threads : KeepsBooks(t))
<1>1. Inv'
  BY NextInv DEF Books
<1>2. CASE UNCHANGED vars
  <2>1. UNCHANGED <<call, residencies, domains, heap, modelGens>>
    BY <1>2 DEF vars
  <2>2. Hands'
    BY <2>1 DEF Books, Hands, HandsApart, HandsKept
  <2>3. (ExactReservations /\ MembersExact /\ ExactResidence /\ ResidentIsCurrent)'
    BY <2>1 DEF Books, ExactReservations, Held, MembersExact, ExactResidence, BytesIn, Ids,
                ResidentIsCurrent
  <2>4. (AllProper /\ BuffersKept /\ CallHandles /\ MovesInHand /\ OpsUsed)'
    BY <2>1 DEF Books, AllProper, BuffersKept, CallHandles, MovesInHand, OpsUsed, Ids
  <2> QED BY <1>1, <1>2, <2>2, <2>3, <2>4 DEF Books
<1>3. CASE Next /\ ~ UNCHANGED vars
  <2>1. PICK t \in Threads : KeepsBooks(t)
    BY <1>1, <1>3, NextBooks
  <2>2. Hands'
    BY <1>3, NextTurn DEF Books
  <2> QED BY <1>1, <2>1, <2>2, BooksStay
<1> QED BY <1>2, <1>3

\* The books are kept, always.
LEMMA BooksAlways ==
  ASSUME FootprintsExact, Unraced
  PROVE  Spec => []Books
<1>1. Init => Books
  BY InitBooks
<1>2. Books /\ [Next]_vars => Books'
  BY BooksStep
<1> QED BY <1>1, <1>2, PTL DEF Spec

\* Reserved bytes are exactly the holds of the calls in flight: no failure path
\* of load, migrate or demote leaves a reservation behind.
THEOREM ExactReservationsTheorem ==
  ASSUME FootprintsExact, Unraced
  PROVE  Spec => []ExactReservations
<1>1. Books => ExactReservations
  BY DEF Books
<1> QED BY <1>1, BooksAlways, PTL

\* Resident bytes are exactly those of the residencies in a resident state:
\* nothing is released twice, nothing stays after its residency ended.
THEOREM ExactResidenceTheorem ==
  ASSUME FootprintsExact, Unraced
  PROVE  Spec => []ExactResidence
<1>1. Books => ExactResidence
  BY DEF Books
<1> QED BY <1>1, BooksAlways, PTL

\* What is Ready is of its model's current generation: a load that raced a
\* rollover is not published, and a rollover leaves none behind.
THEOREM ReadyIsCurrentTheorem ==
  ASSUME FootprintsExact, Unraced
  PROVE  Spec => []ReadyIsCurrent
<1>1. Books => ReadyIsCurrent
  BY DEF Books, ResidentIsCurrent, ReadyIsCurrent, Residing
<1> QED BY <1>1, BooksAlways, PTL

\* While a move is under way its source is as the call left it, with its buffer
\* alive.
THEOREM SourceStaysTheorem ==
  ASSUME FootprintsExact, Unraced
  PROVE  Spec => []SourceStays
<1>1. Books => SourceStays
  <2> SUFFICES ASSUME Books, NEW t \in Threads, call[t].op \in {"migrating", "demoting"}
               PROVE  /\ residencies[call[t].residency].lifecycle =
                           (IF call[t].op = "migrating" THEN "Migrating" ELSE "Demoting")
                      /\ residencies[call[t].residency].domain = call[t].source
                      /\ residencies[call[t].residency].handle = call[t].handle
                      /\ call[t].handle \in heap
    BY DEF SourceStays
  <2> QED BY MoveFinds
<1> QED BY <1>1, BooksAlways, PTL

\* Neither a residency nor a call remembers a buffer that was freed.
THEOREM NoDanglingBufferTheorem ==
  ASSUME FootprintsExact, Unraced
  PROVE  Spec => []NoDanglingBuffer
<1>1. Books => NoDanglingBuffer
  <2> SUFFICES ASSUME Books PROVE NoDanglingBuffer
    OBVIOUS
  <2>1. \A r \in Ids : residencies[r].handle \in heap \cup {0}
    BY DEF Books, AllProper, Proper, BuffersKept
  <2>2. ASSUME NEW t \in Threads PROVE call[t].handle \in heap \cup {0}
    <3>1. CASE call[t].op \in {"migrating", "demoting"}
      BY <3>1, MoveFinds
    <3>2. CASE call[t].op \notin {"migrating", "demoting"}
      BY <3>2 DEF Books, CallHandles
    <3> QED BY <3>1, <3>2
  <2> QED BY <2>1, <2>2 DEF NoDanglingBuffer
<1> QED BY <1>1, BooksAlways, PTL

\* Authority once lost never comes back to the same residency.
THEOREM StaleNeverRevivedTheorem ==
  ASSUME FootprintsExact, Unraced
  PROVE  Spec => StaleNeverRevived
<1>1. ASSUME Books, [Next]_vars PROVE [StaleStep]_vars
  <2>1. Books'
    BY <1>1, BooksStep
  <2>2. CASE UNCHANGED vars
    BY <2>2
  <2>3. CASE \E t \in Threads : KeepsBooks(t)
    <3>1. PICK t \in Threads : KeepsBooks(t)
      BY <2>3
    <3>2. TerminalStep /\ Ids \subseteq Ids'
      BY <1>1, <3>1, TurnIsTerminal DEF Books, Inv, TypeOK, KeepsBooks, Turn
    <3>3. ASSUME NEW r \in Ids, residencies[r].authority = "Stale"
          PROVE  residencies'[r].authority = "Stale"
      <4>1. residencies[r].lifecycle \in TerminalState
        BY <1>1, <3>3 DEF Books, AllProper, Proper
      <4>2. residencies'[r].lifecycle \in TerminalState
        BY <3>2, <4>1 DEF TerminalStep, TerminalState
      <4>3. Proper(residencies'[r])
        BY <2>1, <3>2 DEF Books, AllProper
      <4> QED BY <4>2, <4>3 DEF Proper
    <3> QED BY <3>3 DEF StaleStep
  <2> QED BY <1>1, <2>2, <2>3, BooksStep
<1>2. Books /\ [Next]_vars => [StaleStep]_vars
  BY <1>1
<1> QED BY <1>2, BooksAlways, PTL DEF Spec, StaleNeverRevived


-----------------------------------------------------------------------------
(* No buffer leaks where no rollover can pass a load.                      *)

\* No generation changes while a call is in flight: one thread makes all calls,
\* or nobody rolls.
Unrolled == (\A t, u \in Threads : t = u) \/ "roll" \notin Ops

\* Every live buffer is that of a residency.
Owned == \A h \in heap : \E r \in Ids : Residing(residencies[r]) /\ residencies[r].handle = h

\* A step that leaks nothing leaves every buffer with an owner.
LEMMA OwnedStays ==
  ASSUME Owned, NEW gone, NEW come, Exchange(gone, come), Buffered(gone, come, {})
  PROVE  Owned'
<1> SUFFICES ASSUME NEW h \in heap'
             PROVE  \E r \in Ids' : Residing(residencies'[r]) /\ residencies'[r].handle = h
  BY DEF Owned
<1>1. CASE h \in {residencies'[r].handle : r \in come}
  <2>1. PICK r \in come : residencies'[r].handle = h
    BY <1>1
  <2> QED BY <2>1 DEF Exchange, Residing
<1>2. CASE h \in heap /\ h \notin {residencies[r].handle : r \in gone}
  <2>1. PICK r \in Ids : Residing(residencies[r]) /\ residencies[r].handle = h
    BY <1>2 DEF Owned
  <2>2. r \notin gone
    BY <1>2, <2>1
  <2>3. r \notin come /\ r \in Ids'
    BY <2>1, <2>2 DEF Exchange
  <2>4. Residing(residencies'[r]) /\ residencies'[r].handle = h
    BY <2>1, <2>2, <2>3 DEF Exchange
  <2> QED BY <2>3, <2>4
<1> QED BY <1>1, <1>2 DEF Buffered

\* Generations change in a rollover only, by a caller that is in no other call.
LEMMA GenerationsChange ==
  ASSUME Next, modelGens' # modelGens
  PROVE  "roll" \in Ops /\ Caller /\ call' = call
<1>1. \A t \in Threads : ~ Begin(t)
  BY DEF Begin, LoadAdmit, MigrateBegin, DemoteBegin, MoveBegin
<1>2. \A t \in Threads : ~ Continue(t)
  BY ZenonT(40) DEF Continue, LoadReuse, LoadEvictRelocks, LoadEvictRound, LoadEvictGivesUp,
         LoadRefused, LoadBegin, LoadStale, LoadPublish, LoadPartial, LoadCommitThrows, MigrateStale,
         MigrateFails, MigrateCommit, MigrateCommitThrows, DemoteFails, DemoteCommit,
         DemoteCommitThrows, MoveReverts
<1>3. \E m \in Models : RollModelGeneration(m)
  BY <1>1, <1>2 DEF Next, CallersStop, vars, AtomicCall, Evict, Pin, Unpin, Invalidate,
                    PublishReady, Reference, RegisterWorker, MarkWorkerLost
<1> QED BY <1>3 DEF RollModelGeneration

\* Calls in flight stay of the current generation.
LEMMA CallsStayCurrent ==
  ASSUME Unrolled, Books, Books', CallsCurrent, Next, NEW t \in Threads, KeepsBooks(t)
  PROVE  CallsCurrent'
<1>1. ASSUME NEW u \in Threads, call'[u].op = "migrating"
      PROVE  modelGens'[call'[u].model] = call'[u].modelGeneration
  <2>1. PICK r : r = call'[u].residency /\ r \in InHand(call'[u])
    BY <1>1, HandCases
  <2>2. r \in Ids' /\ AsLeft(residencies'[r], call'[u])
    <3>1. AsLeft(residencies'[r], call'[u])
      BY <2>1 DEF Books, Hands, HandsKept
    <3>2. CallOK(call[u])'
      BY DEF Books, Inv, TypeOK, CallsOK
    <3> QED BY <1>1, <2>1, <3>1, <3>2 DEF CallOK
  <2>3. /\ residencies'[r].lifecycle = "Migrating" /\ residencies'[r].model = call'[u].model
        /\ residencies'[r].modelGeneration = call'[u].modelGeneration
    BY <1>1, <2>2, HandCases DEF AsLeft
  <2>4. Residing(residencies'[r])
    BY <2>3 DEF Residing
  <2> QED BY <2>2, <2>3, <2>4 DEF Books, ResidentIsCurrent
<1>2. ASSUME NEW u \in Threads, call'[u].op = "loading"
      PROVE  modelGens'[call'[u].model] = call'[u].modelGeneration
  <2>1. CASE u = t
    BY <1>2, <2>1 DEF KeepsBooks
  <2>2. CASE u # t /\ modelGens' = modelGens
    <3>1. call'[u] = call[u]
      BY <2>2 DEF KeepsBooks, Turn
    <3> QED BY <1>2, <2>2, <3>1 DEF CallsCurrent, StillCurrent
  <2>3. CASE modelGens' # modelGens
    <3>1. PICK v \in Threads : call'[v].op = "idle"
      BY <2>3, GenerationsChange DEF Caller, Idle
    <3>2. u = v
      BY <2>3, GenerationsChange DEF Unrolled
    <3> QED BY <1>2, <3>1, <3>2
  <2> QED BY <2>1, <2>2, <2>3
<1> QED BY <1>1, <1>2 DEF CallsCurrent, StillCurrent

\* Every live buffer belongs to one residency, which is in a resident state: no
\* path of load, migrate or demote forgets a buffer it made or replaced.
THEOREM BuffersOwnedTheorem ==
  ASSUME FootprintsExact, Unraced, Unrolled
  PROVE  Spec => []BuffersOwned
<1> DEFINE I == Books /\ CallsCurrent /\ Owned
<1>1. Init => I
  <2> SUFFICES ASSUME Init PROVE I
    OBVIOUS
  <2>1. \A t \in Threads : call[t].op = "idle"
    BY DEF Init, IdleCall
  <2>2. heap = {}
    BY DEF Init
  <2> QED BY <2>1, <2>2, InitBooks DEF CallsCurrent, Owned
<1>2. I /\ [Next]_vars => I'
  <2> SUFFICES ASSUME Books, CallsCurrent, Owned, [Next]_vars
               PROVE  Books' /\ CallsCurrent' /\ Owned'
    OBVIOUS
  <2>1. Books'
    BY BooksStep
  <2>2. CASE UNCHANGED vars
    BY <2>1, <2>2 DEF vars, CallsCurrent, StillCurrent, Owned, Ids
  <2>3. ASSUME Next, NEW t \in Threads, KeepsBooks(t) PROVE CallsCurrent' /\ Owned'
    <3>1. CallsCurrent'
      BY <2>1, <2>3, CallsStayCurrent
    <3>2. PICK gone, come : Exchange(gone, come) /\ Buffered(gone, come, {})
      BY <2>3 DEF KeepsBooks, Settles
    <3> QED BY <3>1, <3>2, OwnedStays
  <2> QED BY <2>1, <2>2, <2>3, BooksStep
<1>3. I => BuffersOwned
  <2> SUFFICES ASSUME Books, Owned, NEW h \in heap
               PROVE  \E r \in Ids :
                        /\ residencies[r].handle = h
                        /\ is_resident_state(residencies[r].lifecycle)
                        /\ \A q \in Ids \ {r} : residencies[q].handle # h
    BY DEF BuffersOwned
  <2>1. PICK r \in Ids : Residing(residencies[r]) /\ residencies[r].handle = h
    BY DEF Owned
  <2>2. is_resident_state(residencies[r].lifecycle)
    BY <2>1, ResidingStates DEF Books, AllProper
  <2>3. \A q \in Ids \ {r} : residencies[q].handle # h
    BY <2>1 DEF Books, BuffersKept
  <2> QED BY <2>1, <2>2, <2>3
<1> QED BY <1>1, <1>2, <1>3, PTL DEF Spec

-----------------------------------------------------------------------------
(* Ready sets.                                                             *)

\* The required members of the sets that say ready.
ReadyMembers(ss) == UNION {ss[s].required : s \in {i \in DOMAIN ss : ss[i].ready}}

\* is_execution_ready of a residency that is given.
Executes(res) ==
  /\ res.lifecycle = "Ready" /\ res.readiness = "Ready"
  /\ res.validation = "Valid" /\ res.authority = "Authoritative"
  /\ residency_class_is_execution_ready(Kind[res.domain])

\* Callers who neither move residencies nor roll a generation nor lose a worker:
\* those three leave a set's flags as they are.
SetsUndisturbed == Ops \cap {"migrate", "demote", "roll", "worker"} = {}

\* Models are compatible only with domains whose class can execute; load itself
\* does not look at the class.
PlacedToRun ==
  \A m \in Models, d \in Domains :
    <<m, d>> \in Compatible => residency_class_is_execution_ready(Kind[d])

\* Ready sets keep what they promise, and their members exist.
ReadyExecutes ==
  \A s \in DOMAIN sets : sets[s].ready =>
    /\ sets[s].complete /\ sets[s].required \subseteq Ids
    /\ \A r \in sets[s].required : Executes(residencies[r])

\* Their bytes are accounted for: a release of one of them cannot throw.
ReadyCovered ==
  \A d \in Domains : BytesOf(residencies, ReadyMembers(sets), d) <= domains[d].resident

\* A call that loads, or is about to, loads into a domain that executes, and the
\* set it will publish requires nothing but its own members.  No call moves.
LoadFine(c, ss) ==
  /\ c.op \notin {"migrating", "demoting"}
  /\ c.op \in {"place", "evict", "loading"} =>
       residency_class_is_execution_ready(Kind[c.domain])
  /\ c.op = "loading" => ss[c.set].required \subseteq c.members
LoadsFine == \A t \in Threads : LoadFine(call[t], sets)

\* No residency is moving.
Settled == {"Declared", "Resident", "Ready", "Evicted", "Invalidated", "Failed", "Retired"}
AllSettled == \A r \in Ids : residencies[r].lifecycle \in Settled

ReadyBooks == ReadyExecutes /\ ReadyCovered /\ LoadsFine /\ AllSettled

\* A step that makes no set ready either takes the flag from all of them or
\* leaves the members of the ready ones, and their bytes, alone.
SparesReady ==
  /\ \A s \in DOMAIN sets : s \in DOMAIN sets' /\ sets'[s].required \subseteq sets[s].required
  /\ \A s \in DOMAIN sets' : sets'[s].ready =>
       /\ s \in DOMAIN sets /\ sets[s].ready
       /\ sets'[s].required = sets[s].required /\ sets'[s].complete = sets[s].complete
  /\ \/ \A s \in DOMAIN sets' : ~ sets'[s].ready
     \/ /\ \A d \in Domains : domains[d].resident <= domains'[d].resident
        /\ \A r \in ReadyMembers(sets) \cap Ids :
             /\ r \in Ids' /\ Executes(residencies'[r])
             /\ SameModel(residencies'[r], residencies[r])
             /\ residencies'[r].domain = residencies[r].domain

\* Members of ready sets are residencies that execute.
LEMMA ReadyMembersExecute ==
  ASSUME ReadyExecutes
  PROVE  /\ ReadyMembers(sets) \subseteq Ids
         /\ \A r \in ReadyMembers(sets) : Executes(residencies[r])
BY DEF ReadyExecutes, ReadyMembers

\* A step that spares the ready sets keeps them true and covered.
LEMMA ReadyStays ==
  ASSUME Inv, Inv', ReadyExecutes, ReadyCovered, SparesReady
  PROVE  ReadyExecutes' /\ ReadyCovered'
<1>0. residencies \in Seq(Residency) /\ residencies' \in Seq(Residency)
  BY DEF Inv, TypeOK, ResidenciesOK
<1>1. CASE \A s \in DOMAIN sets' : ~ sets'[s].ready
  <2>1. ReadyExecutes' /\ ReadyMembers(sets') = {}
    BY <1>1 DEF ReadyExecutes, ReadyMembers
  <2>2. ASSUME NEW d \in Domains PROVE BytesOf(residencies', {}, d) <= domains'[d].resident
    <3>1. BytesOf(residencies', {}, d) = 0
      <4>1. {r \in {} : residencies'[r].domain = d} = {}
        OBVIOUS
      <4>2. IsFiniteSet({}) /\ \A r \in {} : [q \in DOMAIN residencies' |-> residencies'[q].bytes][r] \in Nat
        BY FS_EmptySet
      <4> QED BY <4>1, <4>2, SumByPick DEF BytesOf
    <3>2. domains'[d].resident \in Nat
      BY DEF Inv, TypeOK, DomainsOK, MemoryDomainRecord, Bytes
    <3> QED BY <3>1, <3>2
  <2> QED BY <2>1, <2>2 DEF ReadyCovered
<1>2. CASE ~ \A s \in DOMAIN sets' : ~ sets'[s].ready
  <2>0. /\ \A d \in Domains : domains[d].resident <= domains'[d].resident
        /\ \A r \in ReadyMembers(sets) \cap Ids :
             /\ r \in Ids' /\ Executes(residencies'[r])
             /\ SameModel(residencies'[r], residencies[r])
             /\ residencies'[r].domain = residencies[r].domain
        /\ \A s \in DOMAIN sets' : sets'[s].ready =>
             /\ s \in DOMAIN sets /\ sets[s].ready
             /\ sets'[s].required = sets[s].required /\ sets'[s].complete = sets[s].complete
    BY <1>2 DEF SparesReady
  <2>1. ReadyExecutes'
    <3>1. ASSUME NEW s \in DOMAIN sets', sets'[s].ready
          PROVE  /\ sets'[s].complete /\ sets'[s].required \subseteq Ids'
                 /\ \A r \in sets'[s].required : Executes(residencies'[r])
      <4>1. /\ s \in DOMAIN sets /\ sets[s].ready /\ sets'[s].required = sets[s].required
            /\ sets'[s].complete = sets[s].complete
        BY <2>0, <3>1
      <4>2. sets[s].complete /\ sets[s].required \subseteq ReadyMembers(sets) \cap Ids
        BY <4>1 DEF ReadyExecutes, ReadyMembers
      <4> QED BY <2>0, <4>1, <4>2
    <3> QED BY <3>1 DEF ReadyExecutes, Executes
  <2>2. PICK new, old : /\ new = ReadyMembers(sets') /\ old = ReadyMembers(sets)
                        /\ new \subseteq old /\ old \subseteq Ids
    <3>1. ReadyMembers(sets') \subseteq ReadyMembers(sets)
      BY <2>0 DEF ReadyMembers
    <3> QED BY <3>1, ReadyMembersExecute
  <2>3. ASSUME NEW d \in Domains PROVE BytesOf(residencies', new, d) <= domains'[d].resident
    <3>1. /\ BytesOf(residencies, old, d) \in Nat /\ BytesOf(residencies, new, d) \in Nat
          /\ BytesOf(residencies, new, d) <= BytesOf(residencies, old, d)
      <4>1. old \subseteq DOMAIN residencies
        BY <2>2 DEF Ids
      <4>2. Parts(residencies, old, new, d)
        BY <1>0, <2>2, <4>1, BytesParts, Zenon
      <4> QED BY <4>2 DEF Parts
    <3>2. BytesOf(residencies', new, d) = BytesOf(residencies, new, d)
      <4>1. IsFiniteSet(new)
        BY <1>0, <2>2, PositionsFinite DEF Ids
      <4>2. \A r \in new : /\ r \in DOMAIN residencies /\ r \in DOMAIN residencies'
                           /\ residencies[r].bytes \in Nat
                           /\ residencies'[r].bytes = residencies[r].bytes
                           /\ residencies'[r].domain = residencies[r].domain
        BY <1>0, <2>0, <2>2, SequenceOfResidencies DEF Ids, SameModel
      <4> QED BY <4>1, <4>2, BytesAgree
    <3>3. BytesOf(residencies, old, d) <= domains[d].resident
      BY <2>2 DEF ReadyCovered
    <3>4. /\ domains[d].resident \in Nat /\ domains'[d].resident \in Nat
          /\ domains[d].resident <= domains'[d].resident
      BY <2>0 DEF Inv, TypeOK, DomainsOK, MemoryDomainRecord, Bytes
    <3> QED BY <3>1, <3>2, <3>3, <3>4
  <2> QED BY <2>1, <2>2, <2>3 DEF ReadyCovered
<1> QED BY <1>1, <1>2

\* The calls of the other threads stay fine in a step that adds nothing to what
\* the sets require.
LEMMA LoadsStay ==
  ASSUME Inv, LoadsFine, NEW t \in Threads,
         \A u \in Threads \ {t} : call'[u] = call[u],
         \A s \in DOMAIN sets : sets'[s].required \subseteq sets[s].required,
         LoadFine(call'[t], sets')
  PROVE  LoadsFine'
<1>1. ASSUME NEW u \in Threads \ {t} PROVE LoadFine(call'[u], sets')
  <2>1. call'[u] = call[u] /\ LoadFine(call[u], sets)
    BY DEF LoadsFine
  <2>2. call[u].op = "loading" => call[u].set \in DOMAIN sets
    BY LoadingKnows DEF Inv, TypeOK
  <2> QED BY <2>1, <2>2 DEF LoadFine
<1> QED BY <1>1 DEF LoadsFine, LoadFine

\* A thread outside any call.
LEMMA IdleIsFine == \A ss : LoadFine(IdleCall, ss)
BY DEF LoadFine, IdleCall

\* A step that spares the ready sets keeps the whole invariant.
LEMMA ReadyKept ==
  ASSUME Inv, Inv', ReadyBooks, NEW t \in Threads, SparesReady,
         \A u \in Threads \ {t} : call'[u] = call[u],
         LoadFine(call'[t], sets'), AllSettled'
  PROVE  ReadyBooks'
<1>1. ReadyExecutes' /\ ReadyCovered'
  BY ReadyStays DEF ReadyBooks
<1>2. LoadsFine'
  BY LoadsStay DEF ReadyBooks, SparesReady
<1> QED BY <1>1, <1>2 DEF ReadyBooks

\* A member of a ready set can be released.
LEMMA ReadyReleases ==
  ASSUME Inv, ReadyExecutes, ReadyCovered, NEW r \in ReadyMembers(sets)
  PROVE  CanReleaseBytesOf(r)
<1>1. PICK S : S = ReadyMembers(sets) /\ S \subseteq Ids
  BY ReadyMembersExecute
<1>2. r \in Ids /\ residencies[r] \in Residency
  BY <1>1, IdsOK DEF Inv, TypeOK
<1>3. PICK d \in Domains, n \in Nat : d = residencies[r].domain /\ n = residencies[r].bytes
  BY <1>2 DEF Residency, Bytes
<1>4. BytesOf(residencies, {r}, d) = n
  <2> DEFINE f == [q \in DOMAIN residencies |-> residencies[q].bytes]
  <2>1. {q \in {r} : residencies[q].domain = d} = {r}
    BY <1>3
  <2>2. f[r] = n
    BY <1>2, <1>3 DEF Ids
  <2>3. BytesOf(residencies, {r}, d) = SumFunctionOnSet(f, {r})
    BY <2>1 DEF BytesOf
  <2> HIDE DEF f
  <2> QED BY <2>2, <2>3, SumOfOne
<1>5. Parts(residencies, S, {r}, d)
  <2>1. residencies \in Seq(Residency) /\ S \subseteq DOMAIN residencies /\ {r} \subseteq S
    BY <1>1 DEF Inv, TypeOK, ResidenciesOK, Ids
  <2> QED BY <2>1, BytesParts, Zenon
<1>6. n <= BytesOf(residencies, S, d) /\ BytesOf(residencies, S, d) \in Nat
  BY <1>4, <1>5 DEF Parts
<1>7. BytesOf(residencies, S, d) <= domains[d].resident /\ domains[d].resident \in Nat
  BY <1>1, CountersAt DEF ReadyCovered
<1>8. n <= domains[d].resident
  BY <1>6, <1>7
<1> QED BY <1>3, <1>8 DEF CanReleaseBytesOf, can_release

\* A step that leaves sets, domains' resident bytes and the residencies of ready
\* sets alone spares them.
LEMMA SetsAlone ==
  ASSUME Inv, sets' = sets, Ids \subseteq Ids',
         \A d \in Domains : domains[d].resident <= domains'[d].resident,
         \A r \in ReadyMembers(sets) \cap Ids :
           /\ Executes(residencies'[r])
           /\ SameModel(residencies'[r], residencies[r])
           /\ residencies'[r].domain = residencies[r].domain
  PROVE  SparesReady
BY DEF SparesReady

\* Taking a member out of its set takes the flag from every set.
LEMMA FlagsTaken ==
  ASSUME Inv, NEW r, sets' = WithoutMember(r)
  PROVE  SparesReady
<1>1. \A s \in DOMAIN sets : sets[s] \in SetRecord
  BY LenProperties, ElementOfSeq DEF Inv, TypeOK, SetsOK
<1>2. DOMAIN sets' = DOMAIN sets
  BY DEF WithoutMember
<1>3. ASSUME NEW s \in DOMAIN sets
      PROVE  ~ sets'[s].ready /\ sets'[s].required \subseteq sets[s].required
  <2>0. PICK x \in SetRecord : x = sets[s]
    BY <1>1
  <2>1. PICK b : sets'[s] = [x EXCEPT !.members = x.members \ {r}, !.required = x.required \ {r},
                                      !.complete = b, !.ready = FALSE]
    BY <2>0 DEF WithoutMember
  <2>2. sets'[s].ready = FALSE /\ sets'[s].required = x.required \ {r}
    BY <2>1 DEF SetRecord
  <2> QED BY <2>0, <2>2
<1> QED BY <1>2, <1>3 DEF SparesReady

\* A rewritten residency, and all the others.
LEMMA OneSettles ==
  ASSUME Inv, AllSettled, NEW r \in Ids, NEW res, res.lifecycle \in Settled,
         residencies' = [residencies EXCEPT ![r] = res]
  PROVE  AllSettled' /\ Ids' = Ids /\ \A q \in Ids : residencies'[q] = IF q = r THEN res ELSE residencies[q]
BY DEF AllSettled, Ids

\* evict, wherever it is called from: when the release throws, the residency is
\* in no ready set.
LEMMA EvictReady ==
  ASSUME Inv, ReadyBooks, NEW r \in Ids, EvictEffects(r)
  PROVE  SparesReady /\ AllSettled'
<1>0. residencies[r] \in Residency
  BY IdsOK DEF Inv, TypeOK
<1>settled. AllSettled
  BY DEF ReadyBooks
<1>1. CASE CanReleaseBytesOf(r)
  <2>1. residencies' = [residencies EXCEPT ![r] = Evicted(r)] /\ sets' = WithoutMember(r)
    BY <1>1 DEF EvictEffects
  <2>2. Evicted(r).lifecycle \in Settled
    BY <1>0 DEF Evicted, Stale, Residency, Settled
  <2>3. AllSettled'
    BY <1>settled, <2>1, <2>2, OneSettles
  <2> QED BY <2>1, <2>3, FlagsTaken
<1>2. CASE ~ CanReleaseBytesOf(r)
  <2>0. /\ residencies' = [residencies EXCEPT ![r] = [residencies[r] EXCEPT !.lifecycle = "Evicted"]]
        /\ sets' = sets /\ domains' = domains
    BY <1>2 DEF EvictEffects
  <2>1. PICK res : /\ res = [residencies[r] EXCEPT !.lifecycle = "Evicted"]
                   /\ residencies' = [residencies EXCEPT ![r] = res]
                   /\ sets' = sets /\ domains' = domains
    BY <2>0
  <2>2. res.lifecycle \in Settled
    BY <1>0, <2>1 DEF Residency, Settled
  <2>3. /\ AllSettled' /\ Ids' = Ids
        /\ \A q \in Ids : residencies'[q] = IF q = r THEN res ELSE residencies[q]
    <3>1. residencies' = [residencies EXCEPT ![r] = res]
      BY <2>1
    <3> QED BY ONLY Inv, <1>settled, <2>2, <3>1, OneSettles
  <2>4. r \notin ReadyMembers(sets)
    BY <1>2, ReadyReleases DEF ReadyBooks
  <2>5. \A d \in Domains : domains[d].resident <= domains'[d].resident
    BY <2>1, CountersAt
  <2>6. \A q \in ReadyMembers(sets) \cap Ids :
          /\ Executes(residencies'[q])
          /\ SameModel(residencies'[q], residencies[q])
          /\ residencies'[q].domain = residencies[q].domain
    BY <2>3, <2>4, ReadyMembersExecute DEF ReadyBooks, SameModel
  <2> QED BY <2>1, <2>3, <2>5, <2>6, SetsAlone
<1> QED BY <1>1, <1>2

\* pin, unpin and references do not touch what makes a residency ready.
LEMMA FlagReady ==
  ASSUME Inv, ReadyBooks, NEW r \in Ids, Pin(r) \/ Unpin(r) \/ Reference(r)
  PROVE  SparesReady /\ AllSettled'
<1>0. PICK old \in Residency : old = residencies[r]
  BY IdsOK DEF Inv, TypeOK
<1>1. PICK res : /\ residencies' = [residencies EXCEPT ![r] = res]
                 /\ SameModel(res, old) /\ SamePlace(res, old)
                 /\ Executes(old) => Executes(res)
  <2>1. CASE Pin(r) \/ Unpin(r)
    <3>1. PICK b \in BOOLEAN :
            residencies' = [residencies EXCEPT ![r] = [residencies[r] EXCEPT !.pinned = b]]
      BY <2>1 DEF Pin, Unpin
    <3>2. PICK res : res = [old EXCEPT !.pinned = b]
      OBVIOUS
    <3>3. SameModel(res, old) /\ SamePlace(res, old) /\ (Executes(old) => Executes(res))
      BY <3>2 DEF Residency, SameModel, SamePlace, Executes
    <3> QED BY <1>0, <3>1, <3>2, <3>3
  <2>2. CASE Reference(r)
    <3>1. PICK n :
            residencies' = [residencies EXCEPT ![r] = [residencies[r] EXCEPT !.references = n]]
      BY <2>2 DEF Reference
    <3>2. PICK res : res = [old EXCEPT !.references = n]
      OBVIOUS
    <3>3. SameModel(res, old) /\ SamePlace(res, old) /\ (Executes(old) => Executes(res))
      BY <3>2 DEF Residency, SameModel, SamePlace, Executes
    <3> QED BY <1>0, <3>1, <3>2, <3>3
  <2> QED BY <2>1, <2>2
<1>2. /\ AllSettled' /\ Ids' = Ids
      /\ \A q \in Ids : residencies'[q] = IF q = r THEN res ELSE residencies[q]
  <2>1. res.lifecycle \in Settled
    BY <1>0, <1>1 DEF SamePlace, ReadyBooks, AllSettled
  <2> QED BY <1>1, <2>1, OneSettles DEF ReadyBooks
<1>3. ASSUME NEW d \in Domains PROVE domains[d].resident <= domains'[d].resident
  <2>1. /\ residencies[r].domain \in Domains
        /\ domains[d].resident \in Nat
    BY <1>0, CountersAt DEF Residency
  <2>2. CASE Pin(r) \/ Unpin(r)
    <3>0. PICK e \in Domains : e = residencies[r].domain
      BY <2>1
    <3>1. PICK x : domains' = [domains EXCEPT ![e] = x] /\ x.resident = domains[e].resident
      <4>1. \A n : /\ pin(domains[e], n).resident = domains[e].resident
                   /\ unpin(domains[e], n).resident = domains[e].resident
        BY CountersAt, CountersAfter
      <4> QED BY <2>2, <3>0, <4>1 DEF Pin, Unpin
    <3>2. domains'[d] = IF d = e THEN x ELSE domains[d]
      BY <3>1, OneDomain
    <3> QED BY <2>1, <3>1, <3>2
  <2>3. CASE Reference(r)
    BY <2>1, <2>3 DEF Reference
  <2> QED BY <2>2, <2>3
<1>4. \A q \in ReadyMembers(sets) \cap Ids :
        /\ Executes(residencies'[q])
        /\ SameModel(residencies'[q], residencies[q])
        /\ residencies'[q].domain = residencies[q].domain
  BY <1>0, <1>1, <1>2, ReadyMembersExecute DEF ReadyBooks, SameModel, SamePlace
<1>5. sets' = sets
  BY DEF Pin, Unpin, Reference
<1> QED BY <1>2, <1>3, <1>4, <1>5, SetsAlone

\* invalidate: the residency is not moving, so every set loses its flag.
LEMMA InvalidateReady ==
  ASSUME Inv, ReadyBooks, NEW r \in Ids, Invalidate(r)
  PROVE  SparesReady /\ AllSettled'
<1>0. ResidenciesOK
  BY DEF Inv, TypeOK
<1>1. residencies[r].lifecycle \in {"Resident", "Ready"}
  BY DEF Invalidate, is_resident_state, ResidentState, ReadyBooks, AllSettled, Settled
<1>2. lifecycle_transition_allowed(residencies[r].lifecycle, "Invalidated")
  BY <1>1 DEF lifecycle_transition_allowed
<1>3. sets' = WithoutMember(r) /\ residencies' = [residencies EXCEPT ![r] = Surrendered(r, "Stale")]
  BY <1>2 DEF Invalidate
<1>4. Surrendered(r, "Stale").lifecycle = "Invalidated"
  BY <1>0, <1>1, Writes, LifecycleEdges
<1>5. Surrendered(r, "Stale").lifecycle \in Settled /\ AllSettled
  BY <1>4 DEF Settled, ReadyBooks
<1>6. AllSettled'
  BY <1>3, <1>5, OneSettles
<1> QED BY <1>3, <1>6, FlagsTaken

\* publish_ready: the residency is Resident, so in no ready set.
LEMMA PublishReadyReady ==
  ASSUME Inv, ReadyBooks, NEW r \in Ids, PublishReady(r)
  PROVE  SparesReady /\ AllSettled'
<1>0. residencies[r] \in Residency
  BY IdsOK DEF Inv, TypeOK
<1>settled. AllSettled
  BY DEF ReadyBooks
<1>1. /\ residencies[r].lifecycle = "Resident" /\ sets' = sets /\ domains' = domains
      /\ residencies' = [residencies EXCEPT ![r] = Published(residencies[r])]
  BY DEF PublishReady
<1>2. Published(residencies[r]).lifecycle \in Settled
  BY <1>0 DEF Published, Residency, Settled
<1>3. /\ AllSettled' /\ Ids' = Ids
      /\ \A q \in Ids : residencies'[q] =
           IF q = r THEN Published(residencies[r]) ELSE residencies[q]
  BY <1>settled, <1>1, <1>2, OneSettles
<1>4. r \notin ReadyMembers(sets)
  BY <1>1, ReadyMembersExecute DEF ReadyBooks, Executes
<1>5. \A d \in Domains : domains[d].resident <= domains'[d].resident
  BY <1>1, CountersAt
<1>6. \A q \in ReadyMembers(sets) \cap Ids :
        /\ Executes(residencies'[q])
        /\ SameModel(residencies'[q], residencies[q])
        /\ residencies'[q].domain = residencies[q].domain
  BY <1>3, <1>4, ReadyMembersExecute DEF ReadyBooks, SameModel
<1> QED BY <1>1, <1>3, <1>5, <1>6, SetsAlone

\* Steps that touch neither residencies nor sets nor domains.
LEMMA QuietReady ==
  ASSUME Inv, ReadyBooks, residencies' = residencies, sets' = sets, domains' = domains
  PROVE  SparesReady /\ AllSettled'
<1>1. Ids' = Ids /\ AllSettled'
  BY DEF ReadyBooks, AllSettled, Ids
<1>2. \A d \in Domains : domains[d].resident <= domains'[d].resident
  BY CountersAt
<1>3. \A q \in ReadyMembers(sets) \cap Ids :
        /\ Executes(residencies'[q])
        /\ SameModel(residencies'[q], residencies[q])
        /\ residencies'[q].domain = residencies[q].domain
  BY ReadyMembersExecute DEF ReadyBooks, SameModel
<1> QED BY <1>1, <1>2, <1>3, SetsAlone

\* Every operation of one critical section keeps the ready sets true.
LEMMA AtomicReady ==
  ASSUME SetsUndisturbed, Inv, Inv', ReadyBooks, AtomicCall
  PROVE  ReadyBooks'
<1>1. PICK t \in Threads : call' = call
  BY AtomicTurn
<1>2. SparesReady /\ AllSettled'
  <2>1. CASE \E r \in Ids, force \in BOOLEAN : Evict(r, force)
    BY <2>1, EvictReady DEF Evict
  <2>2. CASE \E r \in Ids : Pin(r) \/ Unpin(r) \/ Reference(r)
    BY <2>2, FlagReady
  <2>3. CASE \E r \in Ids : Invalidate(r)
    BY <2>3, InvalidateReady
  <2>4. CASE \E r \in Ids : PublishReady(r)
    BY <2>4, PublishReadyReady
  <2>5. CASE \/ \E m \in Models : RollModelGeneration(m)
             \/ \E w \in Workers : RegisterWorker(w) \/ MarkWorkerLost(w)
    BY <2>5 DEF SetsUndisturbed, RollModelGeneration, RegisterWorker, MarkWorkerLost
  <2> QED BY <2>1, <2>2, <2>3, <2>4, <2>5 DEF AtomicCall
<1>3. LoadFine(call'[t], sets')
  <2>1. LoadFine(call[t], sets) /\ call'[t] = call[t]
    BY <1>1 DEF ReadyBooks, LoadsFine
  <2>2. call[t].op = "loading" => call[t].set \in DOMAIN sets
    BY LoadingKnows DEF Inv, TypeOK
  <2>3. call[t].op = "loading" => sets'[call[t].set].required \subseteq sets[call[t].set].required
    BY <1>2, <2>2 DEF SparesReady
  <2> QED BY <2>1, <2>3 DEF LoadFine
<1> QED BY <1>1, <1>2, <1>3, ReadyKept

\* admit places a load only where its model is compatible.
LEMMA VerdictFine ==
  ASSUME PlacedToRun, NEW doms, NEW ress, DOMAIN ress \subseteq Nat, NEW m \in Models,
         NEW a \in AdapterSets, NEW v \in Verdicts(doms, ress, m, a), NEW ss
  PROVE  /\ LoadFine(v, ss) /\ v \in CallRecord
         /\ v.op \in {"place", "evict"} => residency_class_is_execution_ready(Kind[v.domain])
<1>1. v \in CallRecord /\ v.op \in {"reuse", "place", "evict"}
  BY VerdictIsCall
<1>2. ASSUME v.op \in {"place", "evict"}
      PROVE  residency_class_is_execution_ready(Kind[v.domain])
  <2>1. PICK d \in BestDomains(doms, ress, m, a), op \in {"place", "evict"} :
          v = [IdleCall EXCEPT !.op = op, !.model = m, !.adapters = a, !.domain = d]
    <3>1. ASSUME NEW r, v = [IdleCall EXCEPT !.op = "reuse", !.residency = r]
          PROVE  FALSE
      BY <1>2, <3>1, IdleIsCall DEF CallRecord
    <3> HIDE DEF Reusable, BestDomains, Fits
    <3> QED BY <3>1 DEF Verdicts
  <2>2. v.domain = d
    BY <2>1, IdleIsCall DEF CallRecord
  <2>3. d \in Domains /\ <<m, d>> \in Compatible
    BY <2>1 DEF BestDomains
  <2> QED BY <2>2, <2>3 DEF PlacedToRun
<1> QED BY <1>1, <1>2 DEF LoadFine

\* A call that returns.
LEMMA ReturnedFine ==
  ASSUME Inv, NEW t \in Threads, Return(t)
  PROVE  LoadFine(call'[t], sets') /\ \A u \in Threads \ {t} : call'[u] = call[u]
<1>1. call'[t] = IdleCall /\ \A u \in Threads \ {t} : call'[u] = call[u]
  BY DEF Inv, TypeOK, CallsOK, Return
<1> QED BY <1>1, IdleIsFine

\* One round of load's eviction loop.
LEMMA EvictRoundReady ==
  ASSUME PlacedToRun, Inv, Inv', ReadyBooks, NEW t \in Threads, LoadEvictRound(t)
  PROVE  ReadyBooks'
<1>0. ResidenciesOK /\ CallsOK /\ call[t].op = "evict"
  BY DEF Inv, TypeOK, LoadEvictRound
<1>1. call[t].model \in Models /\ call[t].adapters \in AdapterSets
  BY <1>0 DEF CallsOK, CallOK, CallRecord
<1>2. PICK r \in Ids :
        /\ EvictEffects(r)
        /\ \/ Return(t)
           \/ \E v \in Verdicts(ReleaseBytesOf(r), [residencies EXCEPT ![r] = Evicted(r)],
                                call[t].model, call[t].adapters) :
                call' = [call EXCEPT ![t] =
                   CASE v.op = "place" -> v
                     [] v.op = "evict" /\ call[t].evictions < 7 ->
                          [v EXCEPT !.evictions = call[t].evictions + 1]
                     [] OTHER -> IdleCall]
  BY DEF LoadEvictRound, Victims
<1>3. LoadFine(call'[t], sets') /\ \A u \in Threads \ {t} : call'[u] = call[u]
  <2>1. CASE Return(t)
    BY <2>1, ReturnedFine
  <2>2. CASE ~ Return(t)
    <3>1. PICK v \in Verdicts(ReleaseBytesOf(r), [residencies EXCEPT ![r] = Evicted(r)],
                              call[t].model, call[t].adapters) :
                call' = [call EXCEPT ![t] =
                   CASE v.op = "place" -> v
                     [] v.op = "evict" /\ call[t].evictions < 7 ->
                          [v EXCEPT !.evictions = call[t].evictions + 1]
                     [] OTHER -> IdleCall]
      BY <1>2, <2>2
    <3>2. DOMAIN [residencies EXCEPT ![r] = Evicted(r)] \subseteq Nat
      BY <1>0, IdsOK DEF Ids
    <3>3. /\ LoadFine(v, sets') /\ v \in CallRecord
          /\ v.op \in {"place", "evict"} => residency_class_is_execution_ready(Kind[v.domain])
      BY <1>1, <3>1, <3>2, VerdictFine
    <3>4. PICK c : call' = [call EXCEPT ![t] = c] /\ LoadFine(c, sets')
      <4>1. CASE v.op = "place"
        BY <3>1, <3>3, <4>1
      <4>2. CASE v.op = "evict" /\ call[t].evictions < 7
        <5>1. PICK c : c = [v EXCEPT !.evictions = call[t].evictions + 1]
          OBVIOUS
        <5>2. c.op = v.op /\ c.domain = v.domain
          BY <3>3, <5>1 DEF CallRecord
        <5>3. LoadFine(c, sets')
          BY <3>3, <4>2, <5>2 DEF LoadFine
        <5> QED BY <3>1, <4>2, <5>1, <5>3
      <4>3. CASE v.op # "place" /\ ~ (v.op = "evict" /\ call[t].evictions < 7)
        <5>1. call' = [call EXCEPT ![t] = IdleCall]
          BY <3>1, <4>3
        <5> QED BY <5>1, IdleIsFine
      <4> QED BY <4>1, <4>2, <4>3
    <3>5. call'[t] = c /\ \A u \in Threads \ {t} : call'[u] = call[u]
      BY <1>0, <3>4 DEF CallsOK
    <3> QED BY <3>4, <3>5
  <2> QED BY <2>1, <2>2
<1>4. SparesReady /\ AllSettled'
  BY <1>2, EvictReady
<1> QED BY <1>3, <1>4, ReadyKept

\* load's second section adds a set that is not ready, requires what the call has
\* in hand and nothing else.
LEMMA LoadBeginReady ==
  ASSUME Inv, Inv', ReadyBooks, NEW t \in Threads, LoadBegin(t)
  PROVE  ReadyBooks'
<1>0. SetsOK /\ CallsOK /\ call[t].op = "place"
  BY DEF Inv, TypeOK, LoadBegin
<1>begun. PICK m \in Models, a \in AdapterSets, d \in Domains, bytes \in Seq(Bytes),
               n \in Nat, k \in Nat : \E c : Begun(t, m, a, d, bytes, n, k, c)
  BY LoadBeginAdds
<1>1. PICK c : Begun(t, m, a, d, bytes, n, k, c)
  BY <1>begun
<1>2. /\ Ids = 1..n /\ Ids' = 1..(n + k)
      /\ \A r \in Ids : residencies'[r] = residencies[r]
      /\ \A i \in 1..k : residencies'[n + i] = Declared(m, a, d, bytes[i])
      /\ call'[t] = c /\ \A u \in Threads \ {t} : call'[u] = call[u]
  BY <1>1 DEF Begun
<1>members. PICK members, new :
              /\ members = (Len(residencies) + 1)..(Len(residencies)
                              + Len(ComponentBytes(call[t].model, call[t].adapters)))
              /\ new = NewSet(call[t].model, members)
  OBVIOUS
<1>3. /\ sets' = Append(sets, new)
      /\ \/ Return(t)
         \/ /\ call'[t].op = "loading" /\ call'[t].domain = call[t].domain
            /\ call'[t].set = Len(sets) + 1 /\ call'[t].members = members
  <2>1. sets' = Append(sets, new)
    BY <1>members DEF LoadBegin
  <2>2. CASE ~ can_reserve(domains[call[t].domain], AggregateBytes(call[t].model, call[t].adapters))
    BY <2>1, <2>2 DEF LoadBegin
  <2>3. CASE can_reserve(domains[call[t].domain], AggregateBytes(call[t].model, call[t].adapters))
    <3>1. call' = [call EXCEPT ![t] =
               [IdleCall EXCEPT !.op = "loading", !.model = call[t].model,
                  !.adapters = call[t].adapters, !.domain = call[t].domain, !.members = members,
                  !.set = Len(sets) + 1, !.bytes = AggregateBytes(call[t].model, call[t].adapters),
                  !.modelGeneration = modelGens[call[t].model]]]
      BY <1>members, <2>3 DEF LoadBegin
    <3>2. PICK b : b = [IdleCall EXCEPT !.op = "loading", !.model = call[t].model,
                  !.adapters = call[t].adapters, !.domain = call[t].domain, !.members = members,
                  !.set = Len(sets) + 1, !.bytes = AggregateBytes(call[t].model, call[t].adapters),
                  !.modelGeneration = modelGens[call[t].model]]
      OBVIOUS
    <3>3. /\ b.op = "loading" /\ b.domain = call[t].domain /\ b.members = members
          /\ b.set = Len(sets) + 1
      BY <3>2, IdleIsCall DEF CallRecord
    <3>4. call'[t] = b
      BY <1>0, <3>1, <3>2 DEF CallsOK
    <3> QED BY <2>1, <3>3, <3>4
  <2> QED BY <2>2, <2>3
<1>4. /\ DOMAIN sets = 1..Len(sets) /\ Len(sets) \in Nat /\ DOMAIN sets' = 1..(Len(sets) + 1)
      /\ \A s \in DOMAIN sets : sets'[s] = sets[s]
      /\ sets'[Len(sets) + 1] = new
  <2>1. sets \in Seq(SetRecord) /\ sets' \in Seq(SetRecord)
    BY DEF Inv, TypeOK, SetsOK
  <2>2. Len(sets') = Len(sets) + 1
    BY <1>3, <2>1
  <2>3. Len(sets) \in Nat /\ DOMAIN sets = 1..Len(sets) /\ DOMAIN sets' = 1..Len(sets')
    BY <2>1, LenProperties
  <2>4. \A s \in 1..Len(sets) : sets'[s] = sets[s]
    BY <1>3, <2>1, <2>3
  <2>5. sets'[Len(sets) + 1] = new
    BY <1>3, <2>1, <2>3
  <2> QED BY <2>2, <2>3, <2>4, <2>5
<1>5. ~ new.ready /\ new.required = members
  BY <1>members DEF NewSet
<1>6. LoadFine(call'[t], sets')
  <2>1. CASE Return(t)
    BY <2>1, ReturnedFine
  <2>2. CASE ~ Return(t)
    <3>1. /\ call'[t].set = Len(sets) + 1 /\ call'[t].members = members
          /\ call'[t].op = "loading" /\ call'[t].domain = call[t].domain
      BY <1>3, <2>2
    <3>2. residency_class_is_execution_ready(Kind[call[t].domain])
      BY <1>0 DEF ReadyBooks, LoadsFine, LoadFine
    <3> QED BY <1>4, <1>5, <3>1, <3>2 DEF LoadFine
  <2> QED BY <2>1, <2>2
<1>7. AllSettled'
  <2>1. ASSUME NEW r \in Ids' PROVE residencies'[r].lifecycle \in Settled
    <3>1. CASE r \in Ids
      BY <1>2, <3>1 DEF ReadyBooks, AllSettled
    <3>2. CASE r \notin Ids
      <4>1. r - n \in 1..k /\ n + (r - n) = r
        BY <1>2, <3>2
      <4>2. residencies'[r] = Declared(m, a, d, bytes[r - n])
        BY <1>2, <4>1
      <4> QED BY <4>2 DEF Declared, Settled
    <3> QED BY <3>1, <3>2
  <2> QED BY <2>1 DEF AllSettled
<1>8. SparesReady
  <2>1. \A s \in DOMAIN sets' : sets'[s].ready => s \in DOMAIN sets
    BY <1>4, <1>5
  <2>2. ASSUME NEW e \in Domains PROVE domains[e].resident <= domains'[e].resident
    <3>1. CASE domains' = domains
      BY <3>1, CountersAt
    <3>2. CASE domains' = [domains EXCEPT ![d] = reserve(domains[d], c.bytes)]
      <4>1. domains'[e] = IF e = d THEN reserve(domains[d], c.bytes) ELSE domains[e]
        BY <3>2, OneDomain
      <4>2. reserve(domains[d], c.bytes).resident = domains[d].resident
        BY CountersAt, CountersAfter
      <4> QED BY <4>1, <4>2, CountersAt
    <3> QED BY <1>1, <3>1, <3>2 DEF Begun
  <2>3. \A r \in ReadyMembers(sets) \cap Ids :
             /\ r \in Ids' /\ Executes(residencies'[r])
             /\ SameModel(residencies'[r], residencies[r])
             /\ residencies'[r].domain = residencies[r].domain
    BY <1>2, ReadyMembersExecute DEF ReadyBooks, SameModel
  <2>4. \A s \in DOMAIN sets : s \in DOMAIN sets'
    BY <1>4
  <2> QED BY <1>4, <2>1, <2>2, <2>3, <2>4 DEF SparesReady
<1> QED BY <1>2, <1>6, <1>7, <1>8, ReadyKept

\* What a load in flight has in hand is Declared, so in no ready set.
LEMMA LoadingIsNotReady ==
  ASSUME Inv, Hands, ReadyExecutes, NEW t \in Threads, call[t].op = "loading"
  PROVE  call[t].members \cap ReadyMembers(sets) = {}
<1>1. \A r \in call[t].members : residencies[r].lifecycle = "Declared"
  BY HandCases DEF Hands, HandsKept, AsLeft
<1> QED BY <1>1, ReadyMembersExecute DEF Executes

\* The end of a load that publishes nothing.
LEMMA LoadEndReady ==
  ASSUME Inv, Inv', Hands, ReadyBooks, NEW t \in Threads, call[t].op = "loading", Return(t),
         \A d \in Domains : domains[d].resident <= domains'[d].resident,
         Ids' = Ids,
         \A r \in Ids : /\ residencies'[r].lifecycle \in Settled
                        /\ r \notin call[t].members => residencies'[r] = residencies[r],
         \/ sets' = sets
         \/ \E b : sets' = [sets EXCEPT ![call[t].set] =
                             [sets[call[t].set] EXCEPT !.complete = b, !.ready = FALSE]]
  PROVE  ReadyBooks'
<1>1. LoadFine(call'[t], sets') /\ \A u \in Threads \ {t} : call'[u] = call[u]
  BY ReturnedFine
<1>2. AllSettled'
  BY DEF AllSettled
<1>3. \A r \in ReadyMembers(sets) \cap Ids :
        /\ r \in Ids' /\ Executes(residencies'[r])
        /\ SameModel(residencies'[r], residencies[r])
        /\ residencies'[r].domain = residencies[r].domain
  BY LoadingIsNotReady, ReadyMembersExecute DEF ReadyBooks, SameModel
<1>4. /\ \A s \in DOMAIN sets : s \in DOMAIN sets' /\ sets'[s].required \subseteq sets[s].required
      /\ \A s \in DOMAIN sets' : sets'[s].ready =>
           /\ s \in DOMAIN sets /\ sets[s].ready
           /\ sets'[s].required = sets[s].required /\ sets'[s].complete = sets[s].complete
  <2>1. CASE sets' = sets
    BY <2>1
  <2>2. CASE sets' # sets
    <3>0. call[t].set \in DOMAIN sets
      BY LoadingKnows DEF Inv, TypeOK
    <3>1. PICK i \in DOMAIN sets : i = call[t].set
      BY <3>0
    <3>b. PICK b : sets' = [sets EXCEPT ![i] = [sets[i] EXCEPT !.complete = b, !.ready = FALSE]]
      BY <2>2, <3>1
    <3>known. sets \in Seq(SetRecord)
      BY DEF Inv, TypeOK, SetsOK
    <3>in. sets[i] \in SetRecord
      BY ONLY <3>known, i \in DOMAIN sets, LenProperties, ElementOfSeq
    <3>old. PICK old \in SetRecord : old = sets[i]
      BY <3>in
    <3>2. PICK new : new = [old EXCEPT !.complete = b, !.ready = FALSE]
      OBVIOUS
    <3>3. new.ready = FALSE /\ new.required = old.required
      BY <3>2 DEF SetRecord
    <3>4. DOMAIN sets' = DOMAIN sets /\ \A s \in DOMAIN sets : sets'[s] = IF s = i THEN new ELSE sets[s]
      BY <3>b, <3>old, <3>2
    <3> QED BY <3>old, <3>3, <3>4
  <2> QED BY <2>1, <2>2
<1>5. SparesReady
  BY <1>3, <1>4 DEF SparesReady
<1> QED BY <1>1, <1>2, <1>5, ReadyKept

\* The members a load writes.
LEMMA MemberSettles ==
  ASSUME Inv, Hands, NEW t \in Threads, call[t].op = "loading", NEW r \in call[t].members
  PROVE  /\ r \in Ids /\ FailedMember(r).lifecycle \in Settled
         /\ \A ok : Materialized(r, ok).lifecycle \in Settled
<1>0. ResidenciesOK /\ r \in Ids
  BY LoadingKnows DEF Inv, TypeOK
<1>1. PICK old \in Residency : old = residencies[r] /\ old.lifecycle = "Declared"
  BY <1>0, IdsOK, HandCases DEF Hands, HandsKept, AsLeft
<1>2. FailedMember(r).lifecycle = try_transition(old.lifecycle, "Failed")
  BY <1>1 DEF FailedMember, Stale, Residency
<1>3. FailedMember(r).lifecycle = "Failed"
  BY <1>1, <1>2, LifecycleEdges
<1>4. \A ok : Materialized(r, ok).lifecycle = "Resident"
  BY <1>0, MemberWrites
<1> QED BY <1>0, <1>3, <1>4 DEF Settled

\* A commit adds to the resident bytes, a cancellation leaves them.
LEMMA ResidentGrows ==
  ASSUME Inv, NEW d \in Domains, NEW n \in Nat, NEW x, domains' = [domains EXCEPT ![d] = x],
         x.resident = domains[d].resident + n
  PROVE  \A e \in Domains : domains'[e].resident = domains[e].resident + (IF e = d THEN n ELSE 0)
<1>1. \A e \in Domains : domains'[e] = IF e = d THEN x ELSE domains[e]
  BY OneDomain
<1>2. \A e \in Domains : domains[e].resident \in Nat
  BY CountersAt
<1> QED BY <1>1, <1>2

\* load's last section when the generation moved.
LEMMA LoadStaleReady ==
  ASSUME Inv, Inv', Hands, ReadyBooks, NEW t \in Threads, LoadStale(t)
  PROVE  ReadyBooks'
<1>0. /\ call[t].op = "loading" /\ Return(t) /\ sets' = sets /\ ResidenciesOK
      /\ \A r \in Ids : residencies[r].lifecycle \in Settled
  BY DEF LoadStale, Inv, TypeOK, ReadyBooks, AllSettled
<1>1. PICK d \in Domains, n \in Bytes : d = call[t].domain /\ n = call[t].bytes
  BY <1>0, LoadingKnows DEF Inv, TypeOK
<1>2. CASE can_cancel(domains[d], n)
  <2>1. /\ domains' = [domains EXCEPT ![d] = cancel_reservation(domains[d], n)]
        /\ residencies' = [r \in Ids |-> IF r \in call[t].members THEN FailedMember(r)
                                         ELSE residencies[r]]
    BY <1>1, <1>2 DEF LoadStale
  <2>2. cancel_reservation(domains[d], n).resident = domains[d].resident
    BY CountersAt, CountersAfter
  <2>3. \A e \in Domains : domains'[e] = IF e = d THEN cancel_reservation(domains[d], n)
                                         ELSE domains[e]
    BY <2>1, OneDomain
  <2>4. \A e \in Domains : domains[e].resident <= domains'[e].resident
    BY <2>2, <2>3, CountersAt
  <2>5. Ids' = Ids /\ \A r \in Ids : /\ residencies'[r].lifecycle \in Settled
                                     /\ r \notin call[t].members => residencies'[r] = residencies[r]
    BY <1>0, <2>1, MemberSettles DEF Ids
  <2> QED BY <1>0, <2>4, <2>5, LoadEndReady
<1>3. CASE ~ can_cancel(domains[d], n)
  <2>1. domains' = domains /\ residencies' = residencies
    BY <1>1, <1>3 DEF LoadStale
  <2>2. Ids' = Ids /\ \A e \in Domains : domains[e].resident <= domains'[e].resident
    BY <2>1, CountersAt DEF Ids
  <2> QED BY <1>0, <2>1, <2>2, LoadEndReady
<1> QED BY <1>2, <1>3

\* load's last section with members missing.
LEMMA LoadPartialReady ==
  ASSUME Inv, Inv', Hands, ReadyBooks, NEW t \in Threads, LoadPartial(t)
  PROVE  ReadyBooks'
<1> DEFINE c == call[t]
<1>0. /\ c.op = "loading" /\ Return(t)
      /\ \A r \in Ids : residencies[r].lifecycle \in Settled
  BY DEF LoadPartial, ReadyBooks, AllSettled
<1>1. PICK d \in Domains : d = c.domain
  BY <1>0, LoadingKnows DEF Inv, TypeOK
<1>ok. PICK ok \in SUBSET c.members :
        LET done   == Committable(c, ok)
            failed == c.members \ done
            after  == commit(domains[c.domain], BytesIn(done, c.domain))
            exact  == BytesIn(failed, c.domain) \in 0..after.reserved
        IN  /\ CommitsFit(c.domain, done)
            /\ domains' = [domains EXCEPT ![c.domain] =
                 IF exact THEN cancel_reservation(after, BytesIn(failed, c.domain))
                 ELSE after]
            /\ residencies' = [r \in Ids |->
                 CASE r \in done -> Materialized(r, ok)
                   [] r \in failed -> FailedMember(r)
                   [] OTHER -> residencies[r]]
            /\ sets' = IF exact
                       THEN [sets EXCEPT ![c.set].complete = recompute_complete(sets[c.set]),
                                         ![c.set].ready = FALSE]
                       ELSE sets
  BY DEF LoadPartial
<1> DEFINE done   == Committable(c, ok)
           failed == c.members \ done
           after  == commit(domains[c.domain], BytesIn(done, c.domain))
           exact  == BytesIn(failed, c.domain) \in 0..after.reserved
<1>2. /\ failed = c.members \ done
      /\ after = commit(domains[c.domain], BytesIn(done, c.domain))
      /\ CommitsFit(c.domain, done)
      /\ domains' = [domains EXCEPT ![c.domain] =
              IF exact THEN cancel_reservation(after, BytesIn(failed, c.domain))
              ELSE after]
      /\ residencies' = [r \in Ids |->
              CASE r \in done -> Materialized(r, ok)
                [] r \in failed -> FailedMember(r)
                [] OTHER -> residencies[r]]
      /\ sets' = IF exact
                 THEN [sets EXCEPT ![c.set].complete = recompute_complete(sets[c.set]),
                                   ![c.set].ready = FALSE]
                 ELSE sets
  BY <1>ok
<1>within. done \subseteq c.members /\ failed \subseteq c.members
  BY DEF Committable
<1> HIDE DEF done, failed, after, exact
<1>3. Ids' = Ids /\ \A r \in Ids : /\ residencies'[r].lifecycle \in Settled
                                   /\ r \notin c.members => residencies'[r] = residencies[r]
  <2>1. done \subseteq c.members /\ failed \subseteq c.members
    BY <1>within
  <2>2. \A r \in c.members : /\ FailedMember(r).lifecycle \in Settled
                             /\ Materialized(r, ok).lifecycle \in Settled
    BY <1>0, MemberSettles
  <2>3. ASSUME NEW r \in Ids
        PROVE  /\ residencies'[r].lifecycle \in Settled
               /\ r \notin c.members => residencies'[r] = residencies[r]
    <3>1. CASE r \in done
      BY <1>2, <2>1, <2>2, <3>1
    <3>2. CASE r \in failed
      <4>1. residencies'[r] = FailedMember(r)
        BY <1>2, <3>2
      <4> QED BY <2>1, <2>2, <3>2, <4>1
    <3>3. CASE r \notin c.members
      <4>1. residencies'[r] = residencies[r]
        BY <1>2, <2>1, <3>3
      <4> QED BY <1>0, <4>1
    <3> QED BY <1>2, <3>1, <3>2, <3>3
  <2>4. Ids' = Ids
    BY <1>2 DEF Ids
  <2> QED BY <2>3, <2>4
<1>4. \A e \in Domains : domains[e].resident <= domains'[e].resident
  <2>1. PICK n \in Nat : n = BytesIn(done, c.domain)
    BY <1>2 DEF CommitsFit
  <2>2. PICK k : k = BytesIn(failed, c.domain)
    OBVIOUS
  <2>3. /\ after.resident = domains[d].resident + n
        /\ cancel_reservation(after, k).resident = domains[d].resident + n
    <3>1. /\ after = commit(domains[d], n) /\ after.resident = domains[d].resident + n
          /\ DOMAIN after = DOMAIN domains[d]
      BY <1>1, <1>2, <2>1, CountersAt, CountersAfter
    <3>2. cancel_reservation(after, k).resident = after.resident
      BY <3>1, CountersAt, CountersAfter
    <3> QED BY <3>1, <3>2
  <2>4. PICK x : domains' = [domains EXCEPT ![d] = x] /\ x.resident = domains[d].resident + n
    <3>1. CASE exact
      BY <1>1, <1>2, <2>2, <2>3, <3>1
    <3>2. CASE ~ exact
      BY <1>1, <1>2, <2>3, <3>2
    <3> QED BY <3>1, <3>2
  <2>5. \A e \in Domains : domains'[e].resident = domains[e].resident + (IF e = d THEN n ELSE 0)
    BY <2>4, ResidentGrows
  <2>6. \A e \in Domains : domains[e].resident \in Nat
    BY CountersAt
  <2> QED BY <2>5, <2>6
<1>5. \/ sets' = sets
      \/ \E b : sets' = [sets EXCEPT ![c.set] =
                          [sets[c.set] EXCEPT !.complete = b, !.ready = FALSE]]
  <2>1. CASE exact
    <3>1. sets' = [sets EXCEPT ![c.set] =
                [sets[c.set] EXCEPT !.complete = recompute_complete(sets[c.set]), !.ready = FALSE]]
      BY <1>2, <2>1
    <3> QED BY <3>1
  <2>2. CASE ~ exact
    BY <1>2, <2>2
  <2> QED BY <2>1, <2>2
<1> QED BY <1>0, <1>3, <1>4, <1>5, LoadEndReady

\* load's last section where a commit throws.
LEMMA LoadCommitThrowsReady ==
  ASSUME Inv, Inv', Hands, ReadyBooks, NEW t \in Threads, LoadCommitThrows(t)
  PROVE  ReadyBooks'
<1> DEFINE c == call[t]
<1>0. /\ c.op = "loading" /\ Return(t) /\ sets' = sets
      /\ \A r \in Ids : residencies[r].lifecycle \in Settled
  BY DEF LoadCommitThrows, ReadyBooks, AllSettled
<1>1. PICK d \in Domains : d = c.domain
  BY <1>0, LoadingKnows DEF Inv, TypeOK
<1>ok. PICK ok \in SUBSET c.members : \E r \in Committable(c, ok) :
         LET before == {q \in Committable(c, ok) : q < r}
         IN  /\ CommitsFit(c.domain, before)
             /\ domains' = [domains EXCEPT ![c.domain] =
                              commit(domains[c.domain], BytesIn(before, c.domain))]
             /\ residencies' = [q \in Ids |->
                  CASE q \in before \cup {r} -> Materialized(q, ok)
                    [] q \in c.members \ before /\ q < r -> FailedMember(q)
                    [] OTHER -> residencies[q]]
  BY DEF LoadCommitThrows
<1>r. PICK r \in Committable(c, ok) :
         LET before == {q \in Committable(c, ok) : q < r}
         IN  /\ CommitsFit(c.domain, before)
             /\ domains' = [domains EXCEPT ![c.domain] =
                              commit(domains[c.domain], BytesIn(before, c.domain))]
             /\ residencies' = [q \in Ids |->
                  CASE q \in before \cup {r} -> Materialized(q, ok)
                    [] q \in c.members \ before /\ q < r -> FailedMember(q)
                    [] OTHER -> residencies[q]]
  BY <1>ok
<1> DEFINE before == {q \in Committable(c, ok) : q < r}
           done == before \cup {r}
           failed == {q \in c.members \ before : q < r}
<1>2. /\ CommitsFit(c.domain, before)
      /\ domains' = [domains EXCEPT ![c.domain] =
                       commit(domains[c.domain], BytesIn(before, c.domain))]
      /\ residencies' = [q \in Ids |->
           CASE q \in done -> Materialized(q, ok)
             [] q \in failed -> FailedMember(q)
             [] OTHER -> residencies[q]]
  BY <1>r
<1>within. done \subseteq c.members /\ failed \subseteq c.members
  BY DEF Committable
<1> HIDE DEF before, done, failed
<1>3. Ids' = Ids /\ \A q \in Ids : /\ residencies'[q].lifecycle \in Settled
                                   /\ q \notin c.members => residencies'[q] = residencies[q]
  <2>2. \A q \in c.members : /\ FailedMember(q).lifecycle \in Settled
                             /\ Materialized(q, ok).lifecycle \in Settled
    BY <1>0, MemberSettles
  <2>3. ASSUME NEW q \in Ids
        PROVE  /\ residencies'[q].lifecycle \in Settled
               /\ q \notin c.members => residencies'[q] = residencies[q]
    <3>1. CASE q \in done
      BY <1>2, <1>within, <2>2, <3>1
    <3>2. CASE q \notin done /\ q \in failed
      <4>1. residencies'[q] = FailedMember(q)
        BY <1>2, <3>2
      <4> QED BY <1>within, <2>2, <3>2, <4>1
    <3>3. CASE q \notin done /\ q \notin failed
      <4>1. residencies'[q] = residencies[q]
        BY <1>2, <3>3
      <4> QED BY <1>0, <4>1
    <3> QED BY <3>1, <3>2, <3>3
  <2>4. Ids' = Ids
    BY <1>2 DEF Ids
  <2> QED BY <2>3, <2>4
<1>4. \A e \in Domains : domains[e].resident <= domains'[e].resident
  <2>1. PICK n \in Nat : n = BytesIn(before, c.domain)
    BY <1>2 DEF CommitsFit
  <2>2. PICK x : domains' = [domains EXCEPT ![d] = x] /\ x = commit(domains[d], n)
    BY <1>1, <1>2, <2>1
  <2>3. x.resident = domains[d].resident + n
    BY <2>2, CountersAt, CountersAfter
  <2>4. \A e \in Domains : domains'[e].resident = domains[e].resident + (IF e = d THEN n ELSE 0)
    BY <2>2, <2>3, ResidentGrows
  <2>5. \A e \in Domains : domains[e].resident \in Nat
    BY CountersAt
  <2> QED BY <2>4, <2>5
<1> QED BY <1>0, <1>3, <1>4, LoadEndReady

\* load's last section where every member arrived: its set becomes ready, its
\* required members execute, and their bytes are now resident.
LEMMA LoadPublishReady ==
  ASSUME Inv, Inv', Hands, ReadyBooks, NEW t \in Threads, LoadPublish(t)
  PROVE  ReadyBooks'
<1> DEFINE c == call[t]
           M == c.members
<1>0. /\ c.op = "loading" /\ Return(t) /\ ResidenciesOK /\ CallsOK /\ OthersOK
      /\ residencies \in Seq(Residency) /\ residencies' \in Seq(Residency)
      /\ LoadFine(c, sets)
  BY DEF LoadPublish, Inv, TypeOK, ResidenciesOK, ReadyBooks, LoadsFine
<1>1. /\ c.domain \in Domains /\ M \subseteq Ids /\ c.set \in DOMAIN sets
      /\ sets[c.set].required \subseteq M
      /\ residency_class_is_execution_ready(Kind[c.domain])
  BY <1>0, LoadingKnows DEF LoadFine
<1>2. /\ CommitsFit(c.domain, M)
      /\ domains' = [domains EXCEPT ![c.domain] = commit(domains[c.domain], BytesIn(M, c.domain))]
      /\ residencies' = [r \in Ids |-> IF r \in M THEN Published(Materialized(r, M))
                                       ELSE residencies[r]]
      /\ sets' = [sets EXCEPT ![c.set] = [sets[c.set] EXCEPT !.complete = TRUE, !.ready = TRUE]]
  BY DEF LoadPublish
<1>3. Ids' = Ids
  BY <1>2 DEF Ids
<1>4. \A r \in M : residencies[r].lifecycle = "Declared" /\ residencies[r].domain = c.domain
  BY <1>0, HandCases DEF Hands, HandsKept, AsLeft
<1>5. ASSUME NEW r \in M
      PROVE  /\ Executes(residencies'[r]) /\ residencies'[r].bytes = residencies[r].bytes
             /\ residencies'[r].domain = c.domain
  <2>1. PICK mat \in Residency : mat = Materialized(r, M)
    BY <1>0, <1>1, LoadedMembers
  <2>2. /\ mat.domain = residencies[r].domain /\ mat.bytes = residencies[r].bytes
        /\ mat.validation = "Valid"
    <3>1. PICK old \in Residency, h \in {NewBuffers(M)[r]} :
            old = residencies[r] /\ h = NewBuffers(M)[r]
      BY <1>0, <1>1, IdsOK
    <3>2. mat = [old EXCEPT !.lifecycle = "Resident", !.validation = "Valid",
                   !.readiness = "Loading", !.authority = "Provisional", !.handle = h]
      BY <2>1, <3>1 DEF Materialized
    <3> QED BY <3>1, <3>2 DEF Residency
  <2>3. residencies'[r] = Published(mat)
    BY <1>1, <1>2, <2>1
  <2>4. PICK new : new = [mat EXCEPT !.lifecycle = "Ready", !.readiness = "Ready",
                                     !.authority = "Authoritative"]
    OBVIOUS
  <2>5. /\ new.lifecycle = "Ready" /\ new.readiness = "Ready" /\ new.authority = "Authoritative"
        /\ new.validation = mat.validation /\ new.domain = mat.domain /\ new.bytes = mat.bytes
    BY <2>4 DEF Residency
  <2>6. residencies'[r] = new
    BY <2>3, <2>4 DEF Published
  <2> QED BY <1>1, <1>4, <2>2, <2>5, <2>6 DEF Executes
<1>6. \A r \in Ids \ M : residencies'[r] = residencies[r]
  BY <1>2
<1>7. PICK old \in SUBSET Ids : old = ReadyMembers(sets) /\ old \cap M = {}
  BY <1>0, LoadingIsNotReady, ReadyMembersExecute DEF ReadyBooks
<1>8. /\ DOMAIN sets' = DOMAIN sets
      /\ sets'[c.set].complete = TRUE /\ sets'[c.set].required = sets[c.set].required
      /\ \A s \in DOMAIN sets : s # c.set => sets'[s] = sets[s]
  <2>1. PICK i \in DOMAIN sets : i = c.set
    BY <1>1
  <2>2. PICK x \in SetRecord : x = sets[i]
    BY LenProperties, ElementOfSeq DEF Inv, TypeOK, SetsOK
  <2>3. PICK y : y = [x EXCEPT !.complete = TRUE, !.ready = TRUE]
    OBVIOUS
  <2>4. y.complete = TRUE /\ y.required = x.required
    BY <2>3 DEF SetRecord
  <2>5. sets' = [sets EXCEPT ![i] = y]
    BY <1>2, <2>1, <2>2, <2>3
  <2> QED BY <2>1, <2>2, <2>4, <2>5
<1>9. ReadyExecutes'
  <2>1. ASSUME NEW s \in DOMAIN sets', sets'[s].ready
        PROVE  /\ sets'[s].complete /\ sets'[s].required \subseteq Ids'
               /\ \A r \in sets'[s].required : Executes(residencies'[r])
    <3>1. CASE s = c.set
      BY <1>1, <1>3, <1>5, <1>8, <3>1
    <3>2. CASE s # c.set
      <4>1. s \in DOMAIN sets /\ sets'[s] = sets[s] /\ sets[s].ready
        BY <1>8, <2>1, <3>2
      <4>2. /\ sets[s].complete /\ sets[s].required \subseteq old
            /\ \A r \in sets[s].required : Executes(residencies[r])
        BY <1>7, <4>1 DEF ReadyBooks, ReadyExecutes, ReadyMembers
      <4> QED BY <1>3, <1>6, <1>7, <4>1, <4>2
    <3> QED BY <3>1, <3>2
  <2> QED BY <2>1 DEF ReadyExecutes, Executes
<1>10. PICK new \in SUBSET (old \cup M) : new = ReadyMembers(sets')
  <2>1. ReadyMembers(sets') \subseteq ReadyMembers(sets) \cup sets'[c.set].required
    BY <1>8 DEF ReadyMembers
  <2> QED BY <1>1, <1>7, <1>8, <2>1
<1>11. ReadyCovered'
  <2> HIDE DEF M, c
  <2>1. ASSUME NEW d \in Domains PROVE BytesOf(residencies', new, d) <= domains'[d].resident
    <3>1. PICK A : A = old \cup M /\ A \subseteq DOMAIN residencies /\ A \subseteq DOMAIN residencies'
      BY <1>1, <1>3, <1>7 DEF Ids
    <3>2. Parts(residencies', A, new, d) /\ Parts(residencies, A, old, d)
      <4>1. new \subseteq A /\ old \subseteq A
        BY <1>10, <3>1
      <4>2. residencies \in Seq(Residency) /\ residencies' \in Seq(Residency)
        BY <1>0
      <4>3. Parts(residencies', A, new, d)
        BY <3>1, <4>1, <4>2, BytesParts, Zenon
      <4>4. Parts(residencies, A, old, d)
        BY <3>1, <4>1, <4>2, BytesParts, Zenon
      <4> QED BY <4>3, <4>4
    <3>3. A \ old = M
      BY <1>7, <3>1
    <3>4. BytesOf(residencies', A, d) = BytesOf(residencies, A, d)
      <4>1. IsFiniteSet(A)
        BY <1>0, <3>1, PositionsFinite
      <4>2. ASSUME NEW r \in A
            PROVE  /\ r \in DOMAIN residencies /\ r \in DOMAIN residencies'
                   /\ residencies[r].bytes \in Nat
                   /\ residencies'[r].bytes = residencies[r].bytes
                   /\ residencies'[r].domain = residencies[r].domain
        <5>1. /\ r \in DOMAIN residencies /\ r \in DOMAIN residencies' /\ r \in Ids
              /\ residencies[r].bytes \in Nat
          BY <1>0, <3>1, SequenceOfResidencies DEF Ids
        <5>2. CASE r \in M
          BY <1>4, <1>5, <5>1, <5>2
        <5>3. CASE r \notin M
          BY <1>6, <5>1, <5>3
        <5> QED BY <5>1, <5>2, <5>3
      <4> QED BY <4>1, <4>2, BytesAgree
    <3>5. BytesOf(residencies, old, d) <= domains[d].resident
      BY <1>7 DEF ReadyBooks, ReadyCovered
    <3>6. /\ BytesOf(residencies', new, d) \in Nat /\ BytesOf(residencies, old, d) \in Nat
          /\ BytesOf(residencies, M, d) \in Nat
          /\ BytesOf(residencies', new, d) <=
               BytesOf(residencies, old, d) + BytesOf(residencies, M, d)
      <4>1. BytesOf(residencies, A \ old, d) = BytesOf(residencies, M, d)
        BY <3>3
      <4>2. /\ BytesOf(residencies', new, d) \in Nat /\ BytesOf(residencies, old, d) \in Nat
            /\ BytesOf(residencies, A \ old, d) \in Nat /\ BytesOf(residencies', A \ new, d) \in Nat
            /\ BytesOf(residencies', A, d) =
                 BytesOf(residencies', new, d) + BytesOf(residencies', A \ new, d)
            /\ BytesOf(residencies, A, d) =
                 BytesOf(residencies, old, d) + BytesOf(residencies, A \ old, d)
        BY <3>2 DEF Parts
      <4>3. PICK p \in Nat, q \in Nat, u \in Nat, v \in Nat :
              /\ p = BytesOf(residencies', new, d) /\ q = BytesOf(residencies', A \ new, d)
              /\ u = BytesOf(residencies, old, d) /\ v = BytesOf(residencies, A \ old, d)
        BY <4>2, Zenon
      <4>4. p + q = u + v
        BY <3>4, <4>2, <4>3, Zenon
      <4>5. p <= u + v
        BY <4>4
      <4> QED BY <4>1, <4>3, <4>5
    <3>7. domains'[d].resident = domains[d].resident + BytesOf(residencies, M, d)
      <4>1. PICK n \in Nat : n = BytesIn(M, c.domain)
        BY <1>2 DEF CommitsFit
      <4>2. PICK x : domains' = [domains EXCEPT ![c.domain] = x]
                     /\ x = commit(domains[c.domain], n)
        BY <1>2, <4>1
      <4>3. x.resident = domains[c.domain].resident + n
        BY <1>1, <4>2, CountersAt, CountersAfter
      <4>4. domains'[d].resident = domains[d].resident + (IF d = c.domain THEN n ELSE 0)
        BY <1>1, <4>2, <4>3, ResidentGrows
      <4>5. d = c.domain => BytesOf(residencies, M, d) = n
        BY <4>1, HeldAndBytes
      <4>6. d # c.domain => BytesOf(residencies, M, d) = 0
        <5>1. SUFFICES ASSUME d # c.domain PROVE BytesOf(residencies, M, d) = 0
          OBVIOUS
        <5>2. {r \in M : residencies[r].domain = d} = {}
          BY <1>4, <5>1
        <5> QED BY <5>2, FS_EmptySet, SumByPick DEF BytesOf
      <4> QED BY <4>4, <4>5, <4>6
    <3>8. domains[d].resident \in Nat
      BY CountersAt
    <3> QED BY <3>5, <3>6, <3>7, <3>8
  <2> QED BY <1>10, <2>1 DEF ReadyCovered
<1>12. LoadsFine'
  <2>1. LoadFine(call'[t], sets') /\ \A u \in Threads \ {t} : call'[u] = call[u]
    BY <1>0, ReturnedFine
  <2>2. \A s \in DOMAIN sets : sets'[s].required \subseteq sets[s].required
    BY <1>8
  <2> QED BY <2>1, <2>2, LoadsStay DEF ReadyBooks
<1>13. AllSettled'
  BY <1>3, <1>5, <1>6 DEF ReadyBooks, AllSettled, Executes, Settled
<1> QED BY <1>9, <1>11, <1>12, <1>13 DEF ReadyBooks

\* Every step of a coordinator whose residencies stay where they are.
LEMMA NextReady ==
  ASSUME SetsUndisturbed, PlacedToRun, Inv, Inv', Hands, ReadyBooks, [Next]_vars
  PROVE  ReadyBooks'
<1>1. CASE \E t \in Threads : Begin(t)
  <2>1. PICK t \in Threads : Begin(t)
    BY <1>1
  <2>2. PICK m \in Models, a \in AdapterSets : LoadAdmit(t, m, a)
    BY <2>1 DEF Begin, MigrateBegin, DemoteBegin, SetsUndisturbed
  <2>3. /\ UNCHANGED <<domains, residencies, sets>>
        /\ \E v \in Verdicts(domains, residencies, m, a) : call' = [call EXCEPT ![t] = v]
    BY <2>2 DEF LoadAdmit
  <2>4. PICK v \in Verdicts(domains, residencies, m, a) : call' = [call EXCEPT ![t] = v]
    BY <2>3
  <2>5. call'[t] = v /\ \A u \in Threads \ {t} : call'[u] = call[u]
    BY <2>4 DEF Inv, TypeOK, CallsOK
  <2>6. DOMAIN residencies \subseteq Nat
    BY IdsOK DEF Ids, Inv, TypeOK
  <2>7. LoadFine(call'[t], sets')
    BY <2>5, <2>6, VerdictFine
  <2> QED BY <2>3, <2>5, <2>7, QuietReady, ReadyKept
<1>2. CASE \E t \in Threads : Continue(t)
  <2>1. PICK t \in Threads : Continue(t)
    BY <1>2
  <2>2. call[t].op \notin {"migrating", "demoting"}
    BY DEF ReadyBooks, LoadsFine, LoadFine
  <2>3. CASE LoadReuse(t) \/ LoadEvictGivesUp(t) \/ LoadRefused(t)
    <3>1. Return(t) /\ UNCHANGED <<domains, residencies, sets>>
      BY <2>3 DEF LoadReuse, LoadEvictGivesUp, LoadRefused
    <3> QED BY <3>1, ReturnedFine, QuietReady, ReadyKept
  <2>4. CASE LoadEvictRelocks(t)
    <3>1. /\ UNCHANGED <<domains, residencies, sets>>
          /\ call' = [call EXCEPT ![t] = [call[t] EXCEPT !.op = "blocked"]]
      BY <2>4 DEF LoadEvictRelocks
    <3>2. call'[t].op = "blocked" /\ \A u \in Threads \ {t} : call'[u] = call[u]
      BY <3>1 DEF Inv, TypeOK, CallsOK, CallRecord
    <3>3. LoadFine(call'[t], sets')
      BY <3>2 DEF LoadFine
    <3> QED BY <3>1, <3>2, <3>3, QuietReady, ReadyKept
  <2>5. CASE LoadEvictRound(t) \/ LoadBegin(t)
    BY <2>5, EvictRoundReady, LoadBeginReady
  <2>6. CASE LoadStale(t) \/ LoadPublish(t) \/ LoadPartial(t) \/ LoadCommitThrows(t)
    BY <2>6, LoadStaleReady, LoadPublishReady, LoadPartialReady, LoadCommitThrowsReady
  <2>7. CASE \/ MigrateStale(t) \/ MigrateFails(t) \/ DemoteFails(t)
             \/ MigrateCommit(t) \/ DemoteCommit(t)
             \/ MigrateCommitThrows(t) \/ DemoteCommitThrows(t)
    BY <2>2, <2>7 DEF MigrateStale, MigrateFails, DemoteFails, MigrateCommit, DemoteCommit,
                      MigrateCommitThrows, DemoteCommitThrows
  <2> QED BY <2>1, <2>3, <2>4, <2>5, <2>6, <2>7 DEF Continue
<1>3. CASE AtomicCall
  BY <1>3, AtomicReady
<1>4. CASE UNCHANGED vars
  <2>1. UNCHANGED <<domains, residencies, sets, call>>
    BY <1>4 DEF vars
  <2>2. ReadyExecutes' /\ AllSettled'
    BY <2>1 DEF ReadyBooks, ReadyExecutes, AllSettled, Ids, Executes
  <2>3. ReadyCovered' /\ LoadsFine'
    BY <2>1 DEF ReadyBooks, ReadyCovered, LoadsFine
  <2> QED BY <2>2, <2>3 DEF ReadyBooks
<1> QED BY <1>1, <1>2, <1>3, <1>4 DEF Next, CallersStop

\* A fresh coordinator has no set.
LEMMA InitReady == Init => ReadyBooks
<1> SUFFICES ASSUME Init PROVE ReadyBooks
  OBVIOUS
<1>0. Inv /\ sets = << >> /\ residencies = << >>
  BY InitInv DEF Init
<1>1. DOMAIN sets = {} /\ Ids = {} /\ ReadyMembers(sets) = {}
  BY <1>0 DEF Ids, ReadyMembers
<1>2. ASSUME NEW d \in Domains PROVE BytesOf(residencies, {}, d) <= domains[d].resident
  <2>1. {r \in {} : residencies[r].domain = d} = {}
    OBVIOUS
  <2>2. BytesOf(residencies, {}, d) = 0
    BY <2>1, FS_EmptySet, SumByPick DEF BytesOf
  <2> QED BY <1>0, <2>2, CountersAt
<1>3. LoadsFine
  BY IdleIsFine DEF Init, LoadsFine
<1> QED BY <1>1, <1>2, <1>3 DEF ReadyBooks, ReadyExecutes, ReadyCovered, AllSettled

\* A set that says ready can run: while nobody moves residencies, rolls a
\* generation or loses a worker, and models are placed where they can execute,
\* every required member of a ready set is Ready, valid and authoritative, however
\* loads, evictions under pressure, invalidations and publications interleave and
\* wherever a release, a commit or a cancellation throws.  The flags hold although
\* evict changes the residency before the release that may throw: the bytes of
\* ready members are accounted for, so that a release which throws is never one
\* of theirs.  Footprints need not match.
THEOREM SetReadyIsTrueTheorem ==
  ASSUME SetsUndisturbed, PlacedToRun
  PROVE  Spec => []SetReadyIsTrue
<1>1. Init => Inv /\ Hands /\ ReadyBooks
  BY InitInv, InitHands, InitReady
<1>2. Inv /\ Hands /\ ReadyBooks /\ [Next]_vars => (Inv /\ Hands /\ ReadyBooks)'
  <2> SUFFICES ASSUME Inv, Hands, ReadyBooks, [Next]_vars PROVE Inv' /\ Hands' /\ ReadyBooks'
    OBVIOUS
  <2>1. Inv'
    BY NextInv
  <2>2. Hands'
    <3>1. CASE UNCHANGED vars
      <4>1. call' = call /\ residencies' = residencies
        BY <3>1 DEF vars
      <4> QED BY <4>1 DEF Hands, HandsApart, HandsKept
    <3>2. CASE Next /\ ~ UNCHANGED vars
      BY <3>2, NextTurn
    <3> QED BY <3>1, <3>2
  <2>3. ReadyBooks'
    BY <2>1, NextReady
  <2> QED BY <2>1, <2>2, <2>3
<1>3. ReadyBooks => SetReadyIsTrue
  BY DEF ReadyBooks, ReadyExecutes, SetReadyIsTrue, is_execution_ready, Executes
<1> QED BY <1>1, <1>2, <1>3, PTL DEF Spec

-----------------------------------------------------------------------------
(* Resident bytes across a restart.                                        *)

\* The callers move residencies, or they give them up whatever state they are in,
\* but not both.
MovesApart ==
  Ops \cap {"migrate", "demote"} = {} \/ Ops \cap {"invalidate", "roll", "worker"} = {}

\* Without migrate and demote nothing moves.
Still ==
  Ops \cap {"migrate", "demote"} = {} =>
    \A r \in Ids : residencies[r].lifecycle \notin {"Migrating", "Demoting"}

\* A step in which what leaves and arrives is accounted for, and which sets off
\* nothing unless the callers move residencies.
Shifts ==
  /\ \E gone, come : Trades(gone, come) /\ Accounted(gone, come)
  /\ NoneSetOff \/ Ops \cap {"migrate", "demote"} # {}

\* A step in which nothing arrives or leaves.
LEMMA NothingShifts ==
  ASSUME Residence, Inv', Ids \subseteq Ids',
         \A d \in Domains : domains'[d].resident = domains[d].resident,
         \A r \in Ids' : Known(residencies'[r]),
         \A r \in Ids : /\ Residing(residencies'[r]) <=> Residing(residencies[r])
                        /\ residencies'[r].domain = residencies[r].domain,
         \A r \in Ids' \ Ids : ~ Residing(residencies'[r]),
         NoneSetOff \/ Ops \cap {"migrate", "demote"} # {}
  PROVE  Shifts
<1>1. Trades({}, {})
  BY DEF Trades
<1>2. Accounted({}, {})
  <2>1. ASSUME NEW d \in Domains
        PROVE BytesOf(residencies, {}, d) = 0 /\ BytesOf(residencies', {}, d) = 0
    <3>1. residencies \in Seq(Residency) /\ residencies' \in Seq(Residency)
      BY DEF Residence, Inv, TypeOK, ResidenciesOK
    <3>2. PICK old \in Seq(Residency), new \in Seq(Residency) :
            old = residencies /\ new = residencies'
      BY <3>1
    <3> QED BY <3>2, BytesOfFew
  <2> QED BY <2>1 DEF Accounted
<1> QED BY <1>1, <1>2 DEF Shifts

\* A step that rewrites one residency, which stays where it is.
LEMMA OneStays ==
  ASSUME Residence, Inv', NEW r \in Ids, NEW res \in Residency,
         residencies' = [residencies EXCEPT ![r] = res],
         \A d \in Domains : domains'[d].resident = domains[d].resident,
         Known(res), Residing(res) <=> Residing(residencies[r]),
         res.domain = residencies[r].domain,
         \/ res.lifecycle \in {"Migrating", "Demoting"} => res.lifecycle = residencies[r].lifecycle
         \/ Ops \cap {"migrate", "demote"} # {}
  PROVE  Shifts
<1>0. ResidenciesOK
  BY DEF Residence, Inv, TypeOK
<1>1. Ids' = Ids /\ \A q \in Ids : residencies'[q] = IF q = r THEN res ELSE residencies[q]
  BY <1>0, OneInPlace DEF ResidenciesOK, Ids
<1>2. \A q \in Ids' : Known(residencies'[q])
  BY <1>1 DEF Residence, AllKnown
<1>3. \A q \in Ids : /\ Residing(residencies'[q]) <=> Residing(residencies[q])
                     /\ residencies'[q].domain = residencies[q].domain
  BY <1>1
<1>4. NoneSetOff \/ Ops \cap {"migrate", "demote"} # {}
  BY <1>1 DEF NoneSetOff
<1> QED BY <1>1, <1>2, <1>3, <1>4, NothingShifts

\* A step in which the residencies of P end.
LEMMA SomeEnd ==
  ASSUME Residence, Inv', NEW P \in SUBSET ResidingIn(residencies), Ids' = Ids,
         \A r \in P : residencies'[r].lifecycle \in TerminalState,
         \A r \in Ids \ P : residencies'[r] = residencies[r],
         \A d \in Domains : domains'[d].resident = domains[d].resident - BytesIn(P, d)
  PROVE  Shifts
<1>1. \A r \in P : r \in Ids /\ Residing(residencies[r])
  BY DEF ResidingIn, Ids
<1>2. \A r \in P : ~ Residing(residencies'[r]) /\ Known(residencies'[r])
  BY DEF Residing, Known, TerminalState
<1>3. \A r \in Ids : Known(residencies[r])
  BY DEF Residence, AllKnown
<1>4. Trades(P, {})
  BY <1>1, <1>2, <1>3 DEF Trades
<1>5. ASSUME NEW d \in Domains
      PROVE  domains'[d].resident + BytesOf(residencies, P, d) =
               domains[d].resident + BytesOf(residencies', {}, d)
  <2>1. BytesOf(residencies', {}, d) = 0
    <3>1. PICK new \in Seq(Residency) : new = residencies'
      BY DEF Inv, TypeOK, ResidenciesOK
    <3> QED BY <3>1, BytesOfFew
  <2>2. BytesIn(P, d) \in 0..domains[d].resident
    BY ReleasesFit
  <2>3. BytesIn(P, d) = BytesOf(residencies, P, d) /\ domains[d].resident \in Nat
    BY HeldAndBytes, CountersAt DEF Residence
  <2> QED BY <2>1, <2>2, <2>3
<1>6. Accounted(P, {})
  BY <1>5 DEF Accounted
<1>7. NoneSetOff
  BY <1>2 DEF NoneSetOff, Residing
<1> QED BY <1>4, <1>6, <1>7 DEF Shifts

\* Pins, references and publication.
LEMMA FlagShifts ==
  ASSUME Residence, Inv', NEW r \in Ids,
         Pin(r) \/ Unpin(r) \/ Reference(r) \/ PublishReady(r)
  PROVE  Shifts
<1>0. ResidenciesOK /\ Inv /\ residencies[r] \in Residency
  BY IdsOK DEF Residence, Inv, TypeOK
<1>1. PICK res \in Residency :
        /\ residencies' = [residencies EXCEPT ![r] = res]
        /\ Known(res) /\ (Residing(res) <=> Residing(residencies[r]))
        /\ res.domain = residencies[r].domain
        /\ res.lifecycle \in {"Migrating", "Demoting"} => res.lifecycle = residencies[r].lifecycle
  <2>0. Known(residencies[r])
    BY DEF Residence, AllKnown
  <2>1. CASE Pin(r) \/ Unpin(r) \/ Reference(r)
    <3>1. PICK res : /\ residencies' = [residencies EXCEPT ![r] = res]
                     /\ \/ \E b \in BOOLEAN : res = [residencies[r] EXCEPT !.pinned = b]
                        \/ \E n \in Nat : res = [residencies[r] EXCEPT !.references = n]
      BY <2>1 DEF Pin, Unpin, Reference
    <3>2. /\ res \in Residency /\ res.lifecycle = residencies[r].lifecycle
          /\ res.domain = residencies[r].domain
      BY <1>0, <3>1 DEF Residency
    <3> QED BY <2>0, <3>1, <3>2 DEF Known, Residing
  <2>2. CASE PublishReady(r)
    <3>1. /\ residencies' = [residencies EXCEPT ![r] = Published(residencies[r])]
          /\ residencies[r].lifecycle = "Resident"
      BY <2>2 DEF PublishReady
    <3>2. /\ Published(residencies[r]) \in Residency
          /\ Published(residencies[r]).lifecycle = "Ready"
          /\ Published(residencies[r]).domain = residencies[r].domain
      BY <1>0 DEF Published, Residency, LifecycleState
    <3> QED BY <3>1, <3>2 DEF Known, Residing
  <2> QED BY <2>1, <2>2
<1>2. \A d \in Domains : domains'[d].resident = domains[d].resident
  <2>1. CASE Pin(r) \/ Unpin(r)
    <3>1. PICK d \in Domains, n \in Nat :
            \/ domains' = [domains EXCEPT ![d] = pin(domains[d], n)]
            \/ domains' = [domains EXCEPT ![d] = unpin(domains[d], n)]
      BY <1>0, <2>1 DEF Pin, Unpin, Residency, Bytes
    <3>2. /\ pin(domains[d], n).resident = domains[d].resident
          /\ unpin(domains[d], n).resident = domains[d].resident
      BY <1>0, CountersAt, CountersAfter
    <3>3. PICK x : domains' = [domains EXCEPT ![d] = x] /\ x.resident = domains[d].resident
      BY <3>1, <3>2
    <3> QED BY <1>0, <3>3, OneDomain
  <2> QED BY <2>1 DEF Reference, PublishReady
<1> QED BY <1>1, <1>2, OneStays

\* evict, by a caller or in load's loop.
LEMMA EvictShifts ==
  ASSUME Residence, Inv', NEW r \in Ids, NEW force, MayEvict(r, force), EvictEffects(r)
  PROVE  Shifts
<1>0. ResidenciesOK /\ residencies[r] \in Residency
  BY IdsOK DEF Residence, Inv, TypeOK
<1>1. Residing(residencies[r])
  BY LifecycleEdges DEF MayEvict, Residing
<1>2. /\ CanReleaseBytesOf(r)
      /\ \A d \in Domains : ReleaseBytesOf(r)[d].resident = domains[d].resident - BytesIn({r}, d)
  BY <1>1, OneReleased
<1>3. domains' = ReleaseBytesOf(r) /\ residencies' = [residencies EXCEPT ![r] = Evicted(r)]
  BY <1>2 DEF EvictEffects
<1>4. Evicted(r) \in Residency /\ Evicted(r).lifecycle \in TerminalState
  <2>1. Evicted(r) \in Residency
    BY <1>0, WrittenResidencies
  <2>2. Evicted(r).lifecycle \in TerminalState
    BY <1>0 DEF Evicted, Stale, Residency, TerminalState
  <2> QED BY <2>1, <2>2
<1>5. Ids' = Ids /\ \A q \in Ids : residencies'[q] = IF q = r THEN Evicted(r) ELSE residencies[q]
  BY <1>0, <1>3, <1>4, OneInPlace DEF ResidenciesOK, Ids
<1>6. PICK P \in SUBSET ResidingIn(residencies) : P = {r}
  BY <1>1 DEF ResidingIn, Ids
<1>7. /\ \A q \in P : residencies'[q].lifecycle \in TerminalState
      /\ \A q \in Ids \ P : residencies'[q] = residencies[q]
      /\ \A d \in Domains : domains'[d].resident = domains[d].resident - BytesIn(P, d)
  BY <1>2, <1>3, <1>4, <1>5, <1>6
<1> QED BY <1>5, <1>7, SomeEnd

\* What the operations that give up residencies find: none of them is moving.
LEMMA NothingMoves ==
  ASSUME MovesApart, Still, Ops \cap {"invalidate", "roll", "worker"} # {}, NEW r \in Ids,
         Residing(residencies[r])
  PROVE  residencies[r].lifecycle \in {"Resident", "Ready"}
BY DEF MovesApart, Still, Residing

\* invalidate.
LEMMA InvalidateShifts ==
  ASSUME Residence, Still, MovesApart, Inv', NEW r \in Ids, Invalidate(r)
  PROVE  Shifts
<1>0. ResidenciesOK /\ residencies[r] \in Residency
  BY IdsOK DEF Residence, Inv, TypeOK
<1>1. /\ "invalidate" \in Ops /\ is_resident_state(residencies[r].lifecycle)
      /\ domains' = ReleaseBytesOf(r)
      /\ residencies' = [residencies EXCEPT ![r] = Surrendered(r, "Stale")]
  BY DEF Invalidate
<1>2. Residing(residencies[r])
  BY <1>1, KnownStates DEF Residence, AllKnown
<1>3. residencies[r].lifecycle \in {"Resident", "Ready"}
  BY <1>1, <1>2, NothingMoves
<1>4. \A d \in Domains : ReleaseBytesOf(r)[d].resident = domains[d].resident - BytesIn({r}, d)
  BY <1>2, OneReleased
<1>5. PICK res \in Residency : res = Surrendered(r, "Stale") /\ GivenUp(res)
  BY <1>0, <1>3, SurrenderEnds, WrittenResidencies
<1>6. Ids' = Ids /\ \A q \in Ids : residencies'[q] = IF q = r THEN res ELSE residencies[q]
  BY <1>0, <1>1, <1>5, OneInPlace DEF ResidenciesOK, Ids
<1>7. PICK P \in SUBSET ResidingIn(residencies) : P = {r}
  BY <1>2 DEF ResidingIn, Ids
<1>8. /\ \A q \in P : residencies'[q].lifecycle \in TerminalState
      /\ \A q \in Ids \ P : residencies'[q] = residencies[q]
      /\ \A d \in Domains : domains'[d].resident = domains[d].resident - BytesIn(P, d)
  BY <1>1, <1>4, <1>5, <1>6, <1>7 DEF GivenUp
<1> QED BY <1>6, <1>8, SomeEnd

\* A loop that gives up residencies, to its end or until it throws.
LEMMA LoopShifts ==
  ASSUME Residence, Still, MovesApart, Inv', Ops \cap {"invalidate", "roll", "worker"} # {},
         NEW P \in SUBSET ResidingIn(residencies), NEW s \in {"Stale", "Failed"},
         residencies' = [r \in Ids |-> IF r \in P THEN Surrendered(r, s) ELSE residencies[r]],
         \A d \in Domains : domains'[d].resident = release(domains[d], BytesIn(P, d)).resident
  PROVE  Shifts
<1>0. ResidenciesOK /\ Inv
  BY DEF Residence, Inv, TypeOK
<1>1. Ids' = Ids
  BY <1>0, SurrenderKeeps
<1>2. ASSUME NEW r \in P PROVE r \in Ids /\ Surrendered(r, s).lifecycle \in TerminalState
  <2>1. r \in Ids /\ Residing(residencies[r])
    BY DEF ResidingIn, Ids
  <2>2. residencies[r].lifecycle \in {"Resident", "Ready"}
    BY <2>1, NothingMoves
  <2> QED BY <1>0, <2>1, <2>2, SurrenderEnds DEF GivenUp
<1>3. /\ \A r \in P : residencies'[r].lifecycle \in TerminalState
      /\ \A r \in Ids \ P : residencies'[r] = residencies[r]
  BY <1>2
<1>4. ASSUME NEW d \in Domains PROVE domains'[d].resident = domains[d].resident - BytesIn(P, d)
  <2>1. PICK n : n = BytesIn(P, d)
    OBVIOUS
  <2>2. release(domains[d], n).resident = domains[d].resident - n
    BY <1>0, CountersAt, CountersAfter
  <2> QED BY <2>1, <2>2
<1> QED BY <1>1, <1>3, <1>4, SomeEnd

\* roll_model_generation and mark_worker_lost.
LEMMA GivingUpShifts ==
  ASSUME Residence, Still, MovesApart, Inv',
         (\E m \in Models : RollModelGeneration(m)) \/ (\E w \in Workers : MarkWorkerLost(w))
  PROVE  Shifts
<1>0. Inv
  BY DEF Residence
<1>1. ASSUME NEW m \in Models, RollModelGeneration(m) PROVE Shifts
  <2>1. PICK P \in SUBSET OldGeneration(m) : Surrender(P, "Stale")
    BY <1>1 DEF RollModelGeneration
  <2>2. OldGeneration(m) \in SUBSET ResidingIn(residencies)
    BY KnownStates DEF Residence, AllKnown, OldGeneration, ResidingIn, Ids
  <2>3. "roll" \in Ops
    BY <1>1 DEF RollModelGeneration
  <2>4. /\ residencies' = [r \in Ids |-> IF r \in P THEN Surrendered(r, "Stale") ELSE residencies[r]]
        /\ \A d \in Domains : domains'[d].resident = release(domains[d], BytesIn(P, d)).resident
    BY <2>1 DEF Surrender, Released
  <2> QED BY <2>1, <2>2, <2>3, <2>4, LoopShifts
<1>2. ASSUME NEW w \in Workers, MarkWorkerLost(w) PROVE Shifts
  <2>1. PICK P \in SUBSET OnWorker(w) :
         /\ domains' = [d \in Domains |->
              IF P = OnWorker(w) /\ d \in WorkerDevices[w]
              THEN set_unavailable(Released(P)[d], domains[d].total)
              ELSE Released(P)[d]]
         /\ residencies' = [r \in Ids |-> IF r \in P THEN Surrendered(r, "Failed")
                                          ELSE residencies[r]]
    BY <1>2 DEF MarkWorkerLost
  <2>2. OnWorker(w) \in SUBSET ResidingIn(residencies)
    BY KnownStates DEF Residence, AllKnown, OnWorker, ResidingIn, Ids
  <2>3. "worker" \in Ops
    BY <1>2 DEF MarkWorkerLost
  <2>4. ASSUME NEW d \in Domains
        PROVE  domains'[d].resident = release(domains[d], BytesIn(P, d)).resident
    <3>1. PICK x, n : x = release(domains[d], n) /\ n = BytesIn(P, d) /\ Released(P)[d] = x
      BY DEF Released
    <3>2. DOMAIN x = DOMAIN domains[d]
      BY <1>0, <3>1, CountersAt, CountersAfter
    <3>3. set_unavailable(x, domains[d].total).resident = x.resident
      BY <1>0, <3>2, CountersAt, CountersAfter
    <3>4. domains'[d] = x \/ domains'[d] = set_unavailable(x, domains[d].total)
      BY <2>1, <3>1
    <3> QED BY <3>1, <3>3, <3>4
  <2> QED BY <2>1, <2>2, <2>3, <2>4, LoopShifts
<1> QED BY <1>1, <1>2

\* A step that leaves residencies and domains alone.
LEMMA QuietShifts ==
  ASSUME Residence, Inv', UNCHANGED <<domains, residencies>>
  PROVE  Shifts
<1>1. Ids' = Ids /\ residencies' = residencies /\ domains' = domains
  BY DEF Ids
<1>2. \A r \in Ids : Known(residencies[r])
  BY DEF Residence, AllKnown
<1>3. NoneSetOff
  BY <1>1 DEF NoneSetOff
<1> QED BY <1>1, <1>2, <1>3, NothingShifts

\* The operations of one critical section.
LEMMA AtomicShifts ==
  ASSUME Residence, Still, MovesApart, Inv', AtomicCall
  PROVE  Shifts
<1>1. CASE \E r \in Ids : \E force \in BOOLEAN : Evict(r, force)
  BY <1>1, EvictShifts DEF Evict
<1>2. CASE \E r \in Ids : Pin(r) \/ Unpin(r) \/ PublishReady(r) \/ Reference(r)
  BY <1>2, FlagShifts
<1>3. CASE \E r \in Ids : Invalidate(r)
  BY <1>3, InvalidateShifts
<1>4. CASE (\E m \in Models : RollModelGeneration(m)) \/ (\E w \in Workers : MarkWorkerLost(w))
  BY <1>4, GivingUpShifts
<1>5. CASE \E w \in Workers : RegisterWorker(w)
  BY <1>5, QuietShifts DEF RegisterWorker
<1> QED BY <1>1, <1>2, <1>3, <1>4, <1>5 DEF AtomicCall

\* load's second section: the members it declares are not resident yet.
LEMMA LoadBeginShifts ==
  ASSUME Residence, Inv', NEW t \in Threads, LoadBegin(t)
  PROVE  Shifts
<1>0. Inv /\ ResidenciesOK
  BY DEF Residence, Inv, TypeOK
<1>begun. PICK m \in Models, a \in AdapterSets, d \in Domains, bytes \in Seq(Bytes),
               n \in Nat, k \in Nat : \E c : Begun(t, m, a, d, bytes, n, k, c)
  BY <1>0, LoadBeginAdds
<1>1. PICK c : Begun(t, m, a, d, bytes, n, k, c)
  BY <1>begun
<1>2. /\ Ids = 1..n /\ Ids' = 1..(n + k) /\ Ids \subseteq Ids'
      /\ \A r \in Ids : residencies'[r] = residencies[r]
  BY <1>1 DEF Begun
<1>3. ASSUME NEW r \in Ids' \ Ids PROVE residencies'[r].lifecycle = "Declared"
  <2>1. r - n \in 1..k /\ n + (r - n) = r
    BY <1>2
  <2>2. residencies'[n + (r - n)] = Declared(m, a, d, bytes[r - n])
    BY ONLY <1>1, <2>1 DEF Begun
  <2>3. PICK b : residencies'[r] = Declared(m, a, d, b)
    BY ONLY <2>1, <2>2
  <2> QED BY <2>3 DEF Declared
<1>4. \A r \in Ids' : Known(residencies'[r])
  BY <1>2, <1>3 DEF Residence, AllKnown, Known
<1>5. \A e \in Domains : domains'[e].resident = domains[e].resident
  <2>1. CASE domains' = domains
    BY <2>1
  <2>2. CASE domains' = [domains EXCEPT ![d] = reserve(domains[d], c.bytes)]
    <3>1. reserve(domains[d], c.bytes).resident = domains[d].resident
      BY <1>0, CountersAt, CountersAfter
    <3>2. PICK x : domains' = [domains EXCEPT ![d] = x] /\ x.resident = domains[d].resident
      BY <2>2, <3>1
    <3> QED BY <1>0, <3>2, OneDomain
  <2> QED BY <1>1, <2>1, <2>2 DEF Begun
<1>6. \A r \in Ids' \ Ids : ~ Residing(residencies'[r])
  BY <1>3 DEF Residing
<1>7. NoneSetOff
  BY <1>2, <1>3 DEF NoneSetOff
<1> QED BY <1>2, <1>4, <1>5, <1>6, <1>7, NothingShifts

\* The last section of a load, of whose members those of come arrive.
LEMMA LoadEndShifts ==
  ASSUME Residence, Inv', NEW t \in Threads, call[t].op = "loading",
         Ids' = Ids, NEW come \in SUBSET call[t].members,
         \A r \in call[t].members :
           /\ residencies'[r].domain = residencies[r].domain
           /\ residencies'[r].bytes = residencies[r].bytes,
         \A r \in come : residencies'[r].lifecycle \in {"Resident", "Ready"},
         \A r \in call[t].members \ come : residencies'[r].lifecycle = "Failed",
         \A r \in Ids \ call[t].members : residencies'[r] = residencies[r],
         \A d \in Domains : domains'[d].resident = domains[d].resident +
           (IF d = call[t].domain THEN BytesIn(come, d) ELSE 0)
  PROVE  Shifts
<1>0. Inv /\ CallsOK /\ ResidenciesOK
  BY DEF Residence, Inv, TypeOK
<1>1. PICK M \in SUBSET Ids, dom \in Domains :
        M = call[t].members /\ M = InHand(call[t]) /\ dom = call[t].domain
  BY <1>0, LoadingKnows, HandCases
<1>2. \A r \in M : ~ Residing(residencies[r])
  BY <1>1, MemberFates DEF Residing
<1>3. ASSUME NEW r \in M PROVE residencies[r].domain = dom
  <2>1. AsLeft(residencies[r], call[t])
    BY <1>1 DEF Residence, Hands, HandsKept
  <2> QED BY <1>1, <2>1, HandCases DEF AsLeft
<1>4. /\ \A r \in come : Residing(residencies'[r]) /\ Known(residencies'[r])
      /\ \A r \in M \ come : ~ Residing(residencies'[r]) /\ Known(residencies'[r])
  BY <1>1 DEF Residing, Known, TerminalState
<1>5. Trades({}, come)
  <2>1. {} \in SUBSET Ids /\ come \in SUBSET Ids' /\ Ids \subseteq Ids'
    BY <1>1
  <2>2. \A r \in come : Residing(residencies'[r]) /\ (r \in Ids => r \in {} \/ ~ Residing(residencies[r]))
    BY <1>1, <1>2, <1>4
  <2>3. ASSUME NEW r \in Ids' \ come
        PROVE  Residing(residencies'[r]) <=> r \in Ids \ {} /\ Residing(residencies[r])
    BY <1>1, <1>2, <1>4
  <2>4. ASSUME NEW r \in Ids \ ({} \cup come), Residing(residencies[r])
        PROVE  residencies'[r].domain = residencies[r].domain
    BY <1>1, <1>2, <2>4
  <2>5. \A r \in Ids' : Known(residencies'[r])
    BY <1>1, <1>4 DEF Residence, AllKnown
  <2> QED BY <2>1, <2>2, <2>3, <2>4, <2>5 DEF Trades
<1>6. ASSUME NEW d \in Domains
      PROVE  domains'[d].resident + BytesOf(residencies, {}, d) =
               domains[d].resident + BytesOf(residencies', come, d)
  <2>1. PICK old \in Seq(Residency), new \in Seq(Residency) : old = residencies /\ new = residencies'
    BY <1>0 DEF Inv, TypeOK, ResidenciesOK
  <2>2. come \in SUBSET DOMAIN old /\ come \in SUBSET DOMAIN new
    BY <1>1, <2>1 DEF Ids
  <2>3. BytesOf(old, {}, d) = 0
    BY BytesOfFew
  <2>4. BytesOf(new, come, d) = BytesOf(old, come, d)
    <3>1. IsFiniteSet(come)
      BY <2>2, PositionsFinite, FS_Subset
    <3>2. \A r \in come : /\ r \in DOMAIN old /\ r \in DOMAIN new /\ old[r].bytes \in Nat
                          /\ new[r].bytes = old[r].bytes /\ new[r].domain = old[r].domain
      BY <2>1, <2>2, SequenceOfResidencies
    <3> QED BY <3>1, <3>2, BytesAgree
  <2>5. d # dom => BytesOf(old, come, d) = 0
    <3>1. \A r \in come : old[r].domain = dom
      BY <1>1, <1>3, <2>1
    <3> QED BY <2>2, <3>1, BytesElsewhere
  <2>6. BytesIn(come, d) = BytesOf(old, come, d) /\ domains[d].resident \in Nat
    BY <1>0, <2>1, HeldAndBytes, CountersAt
  <2>7. domains'[d].resident = domains[d].resident + BytesOf(old, come, d)
    BY <1>1, <2>5, <2>6
  <2>8. domains'[d].resident \in Nat
    BY DEF Inv, TypeOK, DomainsOK, MemoryDomainRecord, Bytes
  <2> QED BY <2>1, <2>3, <2>4, <2>7, <2>8
<1>7. Accounted({}, come)
  BY <1>6 DEF Accounted
<1>8. NoneSetOff
  BY <1>1 DEF NoneSetOff
<1> QED BY <1>5, <1>7, <1>8 DEF Shifts

\* A load whose generation is gone.
LEMMA LoadStaleShifts ==
  ASSUME Residence, Inv', NEW t \in Threads, LoadStale(t)
  PROVE  Shifts
<1>0. Inv /\ CallsOK /\ ResidenciesOK /\ HoldsCovered /\ MembersFit /\ call[t].op = "loading"
  BY DEF Residence, Inv, TypeOK, LoadStale
<1>1. PICK M \in SUBSET Ids, d \in Domains, n \in Nat :
        /\ M = call[t].members /\ d = call[t].domain /\ n = call[t].bytes
        /\ can_cancel(domains[d], n)
  <2>1. call[t].bytes \in 0..call[t].bytes
    BY <1>0, HoldIsThere
  <2> QED BY <1>0, <2>1, HoldIsThere, LoadingKnows
<1>2. /\ domains' = [domains EXCEPT ![d] = cancel_reservation(domains[d], n)]
      /\ residencies' = [r \in Ids |-> IF r \in M THEN FailedMember(r) ELSE residencies[r]]
  BY <1>1 DEF LoadStale
<1>3. Ids' = Ids
  <2>1. PICK f : f = [r \in Ids |-> IF r \in M THEN FailedMember(r) ELSE residencies[r]]
    OBVIOUS
  <2>2. f \in [Ids -> Residency]
    BY <1>0, <2>1, WrittenResidencies, IdsOK
  <2> QED BY <1>0, <1>2, <2>1, <2>2, InPlace
<1>4. ASSUME NEW r \in M
      PROVE  residencies'[r].domain = residencies[r].domain /\ residencies'[r].lifecycle = "Failed"
  BY <1>0, <1>1, <1>2, MemberFates
<1>5. \A e \in Domains : domains'[e].resident = domains[e].resident
  <2>1. cancel_reservation(domains[d], n).resident = domains[d].resident
    BY <1>0, CountersAt, CountersAfter
  <2>2. PICK x : domains' = [domains EXCEPT ![d] = x] /\ x.resident = domains[d].resident
    BY <1>2, <2>1
  <2> QED BY <1>0, <2>2, OneDomain
<1>6. \A r \in M : ~ Residing(residencies[r])
  BY <1>0, <1>1, MemberFates DEF Residing
<1>7. \A r \in Ids : /\ Residing(residencies'[r]) <=> Residing(residencies[r])
                     /\ residencies'[r].domain = residencies[r].domain
  BY <1>2, <1>4, <1>6 DEF Residing
<1>8. \A r \in Ids' : Known(residencies'[r])
  BY <1>2, <1>3, <1>4 DEF Residence, AllKnown, Known, TerminalState
<1>9. NoneSetOff
  BY <1>2, <1>3, <1>4 DEF NoneSetOff
<1> QED BY <1>3, <1>5, <1>7, <1>8, <1>9, NothingShifts

\* A load that commits members.
LEMMA LoadCommitShifts ==
  ASSUME Residence, Inv', NEW t \in Threads, LoadPublish(t) \/ LoadPartial(t)
  PROVE  Shifts
<1>1. call[t].op = "loading"
  BY DEF LoadPublish, LoadPartial
<1>2. Ids' = Ids /\ \A r \in Ids \ call[t].members : residencies'[r] = residencies[r]
  BY LoadCommits
<1>3. PICK come \in SUBSET call[t].members :
        /\ \A r \in call[t].members :
             /\ r \in come => Arrived(r, come)
             /\ r \notin come => Missed(r)
             /\ residencies'[r].domain = residencies[r].domain
             /\ SameModel(residencies'[r], residencies[r])
        /\ \A d \in Domains : domains'[d].resident = domains[d].resident +
             (IF d = call[t].domain THEN BytesIn(come, d) ELSE 0)
  BY LoadCommits
<1>4. /\ \A r \in call[t].members : /\ residencies'[r].domain = residencies[r].domain
                                    /\ residencies'[r].bytes = residencies[r].bytes
      /\ \A r \in come : residencies'[r].lifecycle \in {"Resident", "Ready"}
      /\ \A r \in call[t].members \ come : residencies'[r].lifecycle = "Failed"
  BY <1>3 DEF Arrived, Missed, SameModel
<1> QED BY <1>1, <1>2, <1>3, <1>4, LoadEndShifts

\* The first section of a move.  When the transition of the source throws, only
\* the reservation is left behind.
LEMMA MoveBeginShifts ==
  ASSUME Residence, Inv', NEW t \in Threads, NEW r \in Ids, NEW dest \in Domains,
         MigrateBegin(t, r, dest) \/ DemoteBegin(t, r, dest)
  PROVE  Shifts
<1>0. Inv /\ ResidenciesOK /\ residencies[r] \in Residency
  BY IdsOK DEF Residence, Inv, TypeOK
<1>1. PICK state \in {"Migrating", "Demoting"} :
        /\ domains' = [domains EXCEPT ![dest] = reserve(@, residencies[r].bytes)]
        /\ IF lifecycle_transition_allowed(residencies[r].lifecycle, state)
           THEN residencies' = [residencies EXCEPT ![r].lifecycle = state]
           ELSE residencies' = residencies
  BY DEF MigrateBegin, DemoteBegin, MoveBegin
<1>2. Ops \cap {"migrate", "demote"} # {}
  BY DEF MigrateBegin, DemoteBegin
<1>3. \A d \in Domains : domains'[d].resident = domains[d].resident
  <2>1. reserve(domains[dest], residencies[r].bytes).resident = domains[dest].resident
    BY <1>0, CountersAt, CountersAfter
  <2>2. PICK x : domains' = [domains EXCEPT ![dest] = x] /\ x.resident = domains[dest].resident
    BY <1>1, <2>1
  <2> QED BY <1>0, <2>2, OneDomain
<1>4. CASE ~ lifecycle_transition_allowed(residencies[r].lifecycle, state)
  <2>1. Ids' = Ids /\ residencies' = residencies
    BY <1>1, <1>4 DEF Ids
  <2>2. \A q \in Ids : Known(residencies[q])
    BY DEF Residence, AllKnown
  <2> QED BY <1>2, <1>3, <2>1, <2>2, NothingShifts
<1>5. CASE lifecycle_transition_allowed(residencies[r].lifecycle, state)
  <2>1. residencies[r].lifecycle \in {"Resident", "Ready"}
    BY <1>5, LifecycleEdges
  <2>2. PICK res : res = [residencies[r] EXCEPT !.lifecycle = state]
    OBVIOUS
  <2>3. res \in Residency /\ res.lifecycle = state /\ res.domain = residencies[r].domain
    BY <1>0, <2>2 DEF Residency, LifecycleState
  <2>4. residencies' = [residencies EXCEPT ![r] = res]
    BY <1>1, <1>5, <2>2
  <2>5. Known(res) /\ Residing(res) /\ Residing(residencies[r])
    BY <2>1, <2>3 DEF Known, Residing
  <2> QED BY <1>2, <1>3, <2>3, <2>4, <2>5, OneStays
<1> QED BY <1>4, <1>5

\* A move that is called off.
LEMMA MoveRevertsShifts ==
  ASSUME Residence, Inv', NEW t \in Threads,
         MigrateStale(t) \/ MigrateFails(t) \/ DemoteFails(t)
  PROVE  Shifts
<1>0. Inv /\ ResidenciesOK /\ call[t].op \in {"migrating", "demoting"}
  BY DEF Residence, Inv, TypeOK, MigrateStale, MigrateFails, DemoteFails
<1>1. PICK made : MoveReverts(t, made)
  BY DEF MigrateStale, MigrateFails, DemoteFails
<1>2. PICK r \in Ids, d \in Domains, n \in Nat :
        /\ r = call[t].residency /\ d = call[t].domain /\ n = call[t].bytes
        /\ can_cancel(domains[d], n) /\ Residing(residencies[r])
        /\ residencies[r].lifecycle \in {"Migrating", "Demoting"}
  BY <1>0, MoveAtHand
<1>3. PICK res : res = [residencies[r] EXCEPT !.lifecycle = "Resident"]
  OBVIOUS
<1>4. /\ domains' = [domains EXCEPT ![d] = cancel_reservation(domains[d], n)]
      /\ residencies' = [residencies EXCEPT ![r] = res]
  <2>1. try_transition(residencies[r].lifecycle, "Resident") = "Resident"
    BY <1>2, LifecycleEdges
  <2> QED BY <1>1, <1>2, <1>3, <2>1 DEF MoveReverts
<1>5. res \in Residency /\ res.lifecycle = "Resident" /\ res.domain = residencies[r].domain
  BY <1>0, <1>3, IdsOK DEF Residency, LifecycleState
<1>6. \A e \in Domains : domains'[e].resident = domains[e].resident
  <2>1. cancel_reservation(domains[d], n).resident = domains[d].resident
    BY <1>0, CountersAt, CountersAfter
  <2>2. PICK x : domains' = [domains EXCEPT ![d] = x] /\ x.resident = domains[d].resident
    BY <1>4, <2>1
  <2> QED BY <1>0, <2>2, OneDomain
<1>7. Known(res) /\ Residing(res)
  BY <1>5 DEF Known, Residing
<1> QED BY <1>2, <1>4, <1>5, <1>6, <1>7, OneStays

\* A residency that arrives in place of another, which may be itself.
LEMMA ReplacedShifts ==
  ASSUME Residence, Inv', NEW t \in Threads, call[t].op \in {"migrating", "demoting"},
         NEW q \in Ids', Ids' = Ids \cup {q},
         q \in Ids => q = call[t].residency,
         call[t].residency # q => residencies'[call[t].residency].lifecycle \in TerminalState,
         \A r \in Ids \ {call[t].residency} : residencies'[r] = residencies[r],
         residencies'[q] \in {Migrated(call[t]), Demoted(call[t])},
         \A d \in Domains :
           domains'[d].resident + (IF d = call[t].source THEN call[t].bytes ELSE 0) =
             domains[d].resident + (IF d = call[t].domain THEN call[t].bytes ELSE 0)
  PROVE  Shifts
<1>0. Inv /\ ResidenciesOK
  BY DEF Residence, Inv, TypeOK
<1>1. PICK r \in Ids, n \in Nat :
        /\ r = call[t].residency /\ n = call[t].bytes /\ Residing(residencies[r])
        /\ residencies[r].domain = call[t].source /\ residencies[r].bytes = n
  BY MoveAtHand
<1>2. /\ residencies'[q].lifecycle \in {"Resident", "Ready"}
      /\ residencies'[q].domain = call[t].domain /\ residencies'[q].bytes = n
  BY <1>1, MoveFates
<1>3. Known(residencies'[q]) /\ Residing(residencies'[q])
  BY <1>2 DEF Known, Residing
<1>4. r # q => Known(residencies'[r]) /\ ~ Residing(residencies'[r])
  BY <1>1 DEF Known, Residing, TerminalState
<1>5. \A x \in Ids \ {r} : residencies'[x] = residencies[x] /\ Known(residencies'[x])
  BY <1>1 DEF Residence, AllKnown
<1>6. Trades({r}, {q})
  <2>1. {r} \in SUBSET Ids /\ {q} \in SUBSET Ids' /\ Ids \subseteq Ids'
    OBVIOUS
  <2>2. ASSUME NEW x \in Ids' \ {q}
        PROVE  Residing(residencies'[x]) <=> x \in Ids \ {r} /\ Residing(residencies[x])
    BY <1>4, <1>5
  <2>3. ASSUME NEW x \in Ids \ ({r} \cup {q})
        PROVE  residencies'[x].domain = residencies[x].domain
    BY <1>5
  <2>4. \A x \in Ids' : Known(residencies'[x])
    BY <1>3, <1>4, <1>5
  <2>5. \A x \in {q} : /\ Residing(residencies'[x])
                       /\ x \in Ids => x \in {r} \/ ~ Residing(residencies[x])
    BY <1>1, <1>3
  <2> QED BY <1>1, <2>1, <2>2, <2>3, <2>4, <2>5 DEF Trades
<1>7. Accounted({r}, {q})
  <2>1. ASSUME NEW d \in Domains
        PROVE  /\ BytesOf(residencies, {r}, d) = IF d = call[t].source THEN n ELSE 0
               /\ BytesOf(residencies', {q}, d) = IF d = call[t].domain THEN n ELSE 0
    <3>1. PICK old \in Seq(Residency), new \in Seq(Residency) :
            old = residencies /\ new = residencies'
      BY <1>0 DEF Inv, TypeOK, ResidenciesOK
    <3>2. r \in DOMAIN old /\ q \in DOMAIN new
      BY <3>1 DEF Ids
    <3>3. /\ BytesOf(old, {r}, d) = IF old[r].domain = d THEN old[r].bytes ELSE 0
          /\ BytesOf(new, {q}, d) = IF new[q].domain = d THEN new[q].bytes ELSE 0
      BY <3>2, BytesOfFew
    <3> QED BY <1>1, <1>2, <3>1, <3>3
  <2>2. ASSUME NEW d \in Domains
        PROVE  domains'[d].resident + (IF d = call[t].source THEN n ELSE 0) =
                 domains[d].resident + (IF d = call[t].domain THEN n ELSE 0)
    BY <1>1
  <2> QED BY <2>1, <2>2, Zenon DEF Accounted
<1>8. NoneSetOff
  <2>1. ASSUME NEW x \in Ids', residencies'[x].lifecycle \in {"Migrating", "Demoting"}
        PROVE  x \in Ids /\ residencies[x].lifecycle \in {"Migrating", "Demoting"}
    <3>1. x # q
      BY <1>2, <2>1
    <3>2. x # r
      BY <1>4, <2>1, <3>1 DEF Residing
    <3> QED BY <1>5, <2>1, <3>1, <3>2
  <2> QED BY <2>1 DEF NoneSetOff
<1> QED BY <1>6, <1>7, <1>8 DEF Shifts

\* The last section of a move that succeeds.
LEMMA MoveCommitShifts ==
  ASSUME Residence, Inv', NEW t \in Threads, MigrateCommit(t) \/ DemoteCommit(t)
  PROVE  Shifts
<1>0. Inv /\ ResidenciesOK
  BY DEF Residence, Inv, TypeOK
<1>1. \A d \in Domains :
        domains'[d].resident + (IF d = call[t].source THEN call[t].bytes ELSE 0) =
          domains[d].resident + (IF d = call[t].domain THEN call[t].bytes ELSE 0)
  BY MoveShifts
<1>2. CASE MigrateCommit(t)
  <2>1. PICK q : Ids' = Ids \cup {q} /\ q \notin Ids /\ residencies'[q] = Migrated(call[t])
    BY <1>2, MigrateReplaces
  <2>2. /\ residencies'[call[t].residency].lifecycle \in TerminalState
        /\ \A x \in Ids \ {call[t].residency} : residencies'[x] = residencies[x]
    BY <1>2, MigrateReplaces DEF GivenUp
  <2>3. call[t].op = "migrating"
    BY <1>2 DEF MigrateCommit
  <2> QED BY <1>1, <2>1, <2>2, <2>3, ReplacedShifts
<1>3. CASE DemoteCommit(t)
  <2>1. call[t].op = "demoting"
    BY <1>3 DEF DemoteCommit
  <2>2. PICK r \in Ids : r = call[t].residency /\ can_release(domains[call[t].source], call[t].bytes)
    BY <2>1, MoveAtHand DEF can_release
  <2>3. residencies' = [residencies EXCEPT ![r] = Demoted(call[t])]
    BY <1>3, <2>2 DEF DemoteCommit
  <2>4. PICK res \in Residency : res = Demoted(call[t])
    BY <1>0, <2>1, MovedResidencies
  <2>5. Ids' = Ids /\ \A x \in Ids : residencies'[x] = IF x = r THEN res ELSE residencies[x]
    BY <1>0, <2>3, <2>4, OneInPlace DEF ResidenciesOK, Ids
  <2>6. Ids' = Ids \cup {r} /\ r \in Ids'
    BY <2>5
  <2> QED BY <1>1, <2>1, <2>2, <2>4, <2>5, <2>6, ReplacedShifts
<1> QED BY <1>2, <1>3

\* Every step accounts for what it moves.
LEMMA NextShifts ==
  ASSUME Residence, Still, MovesApart, Inv', Next, ~ UNCHANGED vars
  PROVE  Shifts
<1>1. ASSUME NEW t \in Threads, Begin(t) PROVE Shifts
  <2>1. CASE \E m \in Models, a \in AdapterSets : LoadAdmit(t, m, a)
    BY <2>1, QuietShifts DEF LoadAdmit
  <2>2. CASE \E r \in Ids, dest \in Domains : MigrateBegin(t, r, dest) \/ DemoteBegin(t, r, dest)
    BY <2>2, MoveBeginShifts
  <2> QED BY <1>1, <2>1, <2>2 DEF Begin
<1>2. ASSUME NEW t \in Threads, Continue(t) PROVE Shifts
  <2>1. CASE LoadReuse(t) \/ LoadEvictRelocks(t) \/ LoadEvictGivesUp(t) \/ LoadRefused(t)
    BY <2>1, QuietShifts DEF LoadReuse, LoadEvictRelocks, LoadEvictGivesUp, LoadRefused
  <2>2. CASE LoadEvictRound(t)
    <3>1. PICK r \in Ids : MayEvict(r, FALSE) /\ EvictEffects(r)
      BY <2>2 DEF LoadEvictRound, Victims
    <3> QED BY <3>1, EvictShifts
  <2>3. CASE LoadBegin(t)
    BY <2>3, LoadBeginShifts
  <2>4. CASE LoadStale(t)
    BY <2>4, LoadStaleShifts
  <2>5. CASE LoadPublish(t) \/ LoadPartial(t)
    BY <2>5, LoadCommitShifts
  <2>6. CASE LoadCommitThrows(t)
    BY <2>6, NoCommitThrows
  <2>7. CASE MigrateStale(t) \/ MigrateFails(t) \/ DemoteFails(t)
    BY <2>7, MoveRevertsShifts
  <2>8. CASE MigrateCommit(t) \/ DemoteCommit(t)
    BY <2>8, MoveCommitShifts
  <2>9. CASE MigrateCommitThrows(t) \/ DemoteCommitThrows(t)
    BY <2>9, NoMoveThrows DEF Residence
  <2> QED BY <1>2, <2>1, <2>2, <2>3, <2>4, <2>5, <2>6, <2>7, <2>8, <2>9 DEF Continue
<1>3. CASE AtomicCall
  BY <1>3, AtomicShifts
<1> QED BY <1>1, <1>2, <1>3 DEF Next, CallersStop

\* One step of the coordinator.
LEMMA ResidenceStep ==
  ASSUME FootprintsCover, MovesApart, Residence, Still, [Next]_vars
  PROVE  Residence' /\ Still'
<1>1. Inv'
  BY NextInv DEF Residence
<1>2. CASE UNCHANGED vars
  <2>1. UNCHANGED <<call, residencies, domains>>
    BY <1>2 DEF vars
  <2>2. (Hands /\ AllKnown)'
    BY <2>1 DEF Residence, Hands, HandsApart, HandsKept, AllKnown, Ids
  <2>3. (HoldsCovered /\ MembersFit /\ ExactResidence)'
    BY <2>1 DEF Residence, HoldsCovered, Held, MembersFit, ExactResidence, BytesIn, Ids
  <2>4. Still'
    BY <2>1 DEF Still, Ids
  <2> QED BY <1>1, <2>2, <2>3, <2>4 DEF Residence
<1>3. CASE Next /\ ~ UNCHANGED vars
  <2>1. Shifts
    BY <1>1, <1>3, NextShifts
  <2>2. PICK t \in Threads : HoldsCovered' /\ MembersFit' /\ Turn(t)
    BY <1>1, <1>3, NextPays DEF Residence
  <2>3. Hands'
    BY <1>3, NextTurn DEF Residence
  <2>4. PICK gone, come : Trades(gone, come) /\ Accounted(gone, come)
    BY <2>1 DEF Shifts
  <2>5. ExactResidence'
    BY <1>1, <2>2, <2>4, ResidenceStays DEF Residence
  <2>6. AllKnown'
    BY <2>4 DEF Trades, AllKnown
  <2>7. Still'
    BY <2>1 DEF Shifts, NoneSetOff, Still
  <2> QED BY <1>1, <2>2, <2>3, <2>5, <2>6, <2>7 DEF Residence
<1> QED BY <1>2, <1>3

\* Residency by residency in the same place, with the same bytes.
LEMMA CopyResides ==
  ASSUME NEW old \in Seq(Residency), NEW new \in Seq(Residency), DOMAIN new = DOMAIN old,
         \A r \in DOMAIN old : /\ new[r].bytes = old[r].bytes /\ new[r].domain = old[r].domain
                               /\ Residing(new[r]) <=> Residing(old[r]),
         NEW d
  PROVE  BytesOf(new, ResidingIn(new), d) = BytesOf(old, ResidingIn(old), d)
<1>1. PICK R \in SUBSET DOMAIN old : R = ResidingIn(old) /\ R = ResidingIn(new)
  BY DEF ResidingIn
<1>2. IsFiniteSet(R)
  BY PositionsFinite, FS_Subset
<1>3. \A r \in R : /\ r \in DOMAIN old /\ r \in DOMAIN new /\ old[r].bytes \in Nat
                   /\ new[r].bytes = old[r].bytes /\ new[r].domain = old[r].domain
  BY SequenceOfResidencies
<1> QED BY <1>1, <1>2, <1>3, BytesAgree

\* The resident bytes of a snapshot are those of its residencies.
Resides(s) ==
  /\ \A r \in DOMAIN s.residencies :
       /\ Known(s.residencies[r])
       /\ Ops \cap {"migrate", "demote"} = {} =>
            s.residencies[r].lifecycle \notin {"Migrating", "Demoting"}
  /\ \A d \in Domains :
       s.domains[d].resident = BytesOf(s.residencies, ResidingIn(s.residencies), d)

FilesReside == \A s \in {file, saving.snapshot} : IsSnapshot(s) => Resides(s)

\* The copy that save_to takes, whatever the calls in flight were doing.
LEMMA SnapshotResides ==
  ASSUME Residence, Still, GoodSnapshot(Snapshot)
  PROVE  Resides(Snapshot)
<1>1. PICK old \in Seq(Residency), new \in Seq(Residency) :
        /\ old = residencies /\ new = Snapshot.residencies
        /\ new = [r \in Ids |-> [residencies[r] EXCEPT !.handle = 0]]
  BY DEF Residence, Inv, TypeOK, ResidenciesOK, GoodSnapshot, Snapshot
<1>2. DOMAIN old = Ids /\ DOMAIN new = Ids
  BY <1>1 DEF Ids
<1>3. ASSUME NEW r \in Ids
      PROVE  /\ new[r].bytes = old[r].bytes /\ new[r].domain = old[r].domain
             /\ new[r].lifecycle = old[r].lifecycle
  <2>1. old[r] \in Residency /\ new[r] = [old[r] EXCEPT !.handle = 0]
    BY <1>1, <1>2, SequenceOfResidencies
  <2> QED BY ONLY <2>1 DEF Residency
<1>4. ASSUME NEW r \in DOMAIN Snapshot.residencies
      PROVE  /\ Known(Snapshot.residencies[r])
             /\ Ops \cap {"migrate", "demote"} = {} =>
                  Snapshot.residencies[r].lifecycle \notin {"Migrating", "Demoting"}
  <2>1. r \in Ids /\ Known(residencies[r])
    BY <1>1, <1>2 DEF Residence, AllKnown
  <2>2. Snapshot.residencies[r].lifecycle = residencies[r].lifecycle
    BY <1>1, <1>3, <2>1
  <2> QED BY <2>1, <2>2 DEF Known, Residing, Still
<1>5. ASSUME NEW d \in Domains
      PROVE  Snapshot.domains[d].resident =
               BytesOf(Snapshot.residencies, ResidingIn(Snapshot.residencies), d)
  <2>1. domains[d].resident = BytesOf(old, ResidingIn(old), d)
    BY <1>1, ResidenceSays DEF Residence
  <2>2. BytesOf(new, ResidingIn(new), d) = BytesOf(old, ResidingIn(old), d)
    BY <1>2, <1>3, CopyResides DEF Residing
  <2>3. Snapshot.domains = domains
    BY DEF Snapshot
  <2> QED BY <1>1, <2>1, <2>2, <2>3
<1> QED BY <1>4, <1>5 DEF Resides

\* When no call is in flight nothing is in hand and nothing is held.
LEMMA IdleResides ==
  ASSUME Inv', call' = [t \in Threads |-> IdleCall]
  PROVE  Hands' /\ HoldsCovered' /\ MembersFit'
<1>1. \A t \in Threads : call'[t] = IdleCall /\ call'[t].op = "idle"
  BY DEF IdleCall
<1>2. Hands'
  BY <1>1, IdleHands DEF Hands, HandsApart, HandsKept
<1>3. ASSUME NEW d \in Domains PROVE Held(d)' <= domains'[d].reserved
  <2>1. {t \in Threads : call'[t].op \in {"loading", "migrating", "demoting"}
                         /\ call'[t].domain = d} = {}
    BY <1>1
  <2>2. Held(d)' = SumFunctionOnSet([t \in Threads |-> call'[t].bytes], {})
    BY <2>1 DEF Held
  <2>3. Held(d)' = 0
    BY <2>2, FS_EmptySet, SumByPick
  <2>4. domains'[d].reserved \in Nat
    BY DEF Inv, TypeOK, DomainsOK, MemoryDomainRecord, Bytes
  <2> QED BY <2>3, <2>4
<1>4. HoldsCovered'
  BY <1>3 DEF HoldsCovered
<1>5. MembersFit'
  BY <1>1 DEF MembersFit
<1> QED BY <1>2, <1>4, <1>5

\* A fresh coordinator.
LEMMA InitResides == Init => Residence /\ Still
<1> SUFFICES ASSUME Init PROVE Residence /\ Still
  OBVIOUS
<1>1. Residence
  BY InitBooks, BooksReside
<1>2. Still
  BY DEF Init, Still, Ids
<1> QED BY <1>1, <1>2

\* load_from: the residencies come back in their places, the domains with the
\* bytes they had.
LEMMA LoadFromResides ==
  ASSUME RecoveryInv, RecoveryInv', FilesReside, LoadFrom
  PROVE  Residence' /\ Still'
<1>1. GoodSnapshot(file) /\ Resides(file)
  BY DEF RecoveryInv, FilesGood, FilesReside, LoadFrom
<1>2. /\ \A d \in Domains : domains'[d] = dec_domain(file.domains[d])
      /\ residencies' = [r \in DOMAIN file.residencies |-> Restored(file.residencies[r])]
      /\ call' = [t \in Threads |-> IdleCall]
  BY DEF RecoveryInv, DownIsFresh, LoadFrom
<1>3. Inv' /\ residencies' \in Seq(Residency)
  BY DEF RecoveryInv, Inv, TypeOK, ResidenciesOK
<1>4. \A d \in Domains : domains'[d].resident = file.domains[d].resident
  BY <1>1, <1>2, SoundAt, DecodeIsExact DEF GoodSnapshot
<1>5. PICK old \in Seq(Residency), new \in Seq(Residency) :
        old = file.residencies /\ new = residencies'
  BY <1>1, <1>3 DEF GoodSnapshot
<1>6. DOMAIN new = DOMAIN old /\ Ids' = DOMAIN old
  BY <1>2, <1>5 DEF Ids
<1>7. ASSUME NEW r \in DOMAIN old
      PROVE  /\ new[r].bytes = old[r].bytes /\ new[r].domain = old[r].domain
             /\ Residing(new[r]) <=> Residing(old[r])
             /\ Known(new[r])
             /\ new[r].lifecycle \in {"Migrating", "Demoting"} => new[r].lifecycle = old[r].lifecycle
  <2>1. old[r] \in Residency /\ new[r] = Restored(old[r]) /\ Known(old[r])
    BY <1>1, <1>2, <1>5, SequenceOfResidencies DEF Resides
  <2>2. /\ new[r].bytes = old[r].bytes /\ new[r].domain = old[r].domain
        /\ new[r].lifecycle = IF old[r].lifecycle = "Ready" THEN "Resident" ELSE old[r].lifecycle
    BY ONLY <2>1 DEF Restored, Residency
  <2> QED BY <2>1, <2>2 DEF Known, Residing
<1>8. \A r \in Ids' : Known(residencies'[r])
  BY <1>5, <1>6, <1>7
<1>9. ExactResidence'
  <2>1. ASSUME NEW d \in Domains
        PROVE  domains'[d].resident = BytesOf(residencies', ResidingIn(residencies'), d)
    <3>1. file.domains[d].resident = BytesOf(old, ResidingIn(old), d)
      BY <1>1, <1>5 DEF Resides
    <3>2. BytesOf(new, ResidingIn(new), d) = BytesOf(old, ResidingIn(old), d)
      BY <1>6, <1>7, CopyResides
    <3> QED BY <1>4, <1>5, <3>1, <3>2
  <2> QED BY <1>8, <2>1, ResidenceSaysNext
<1>10. Hands' /\ HoldsCovered' /\ MembersFit'
  BY <1>2, <1>3, IdleResides
<1>11. Still'
  BY <1>1, <1>5, <1>6, <1>7 DEF Still, Resides
<1>12. AllKnown'
  BY <1>8 DEF AllKnown
<1> QED BY <1>3, <1>9, <1>10, <1>11, <1>12 DEF Residence

\* The files stay so while nothing but such a snapshot is written to them.
LEMMA FilesStayResident ==
  ASSUME FilesReside,
         \A s \in {file', saving'.snapshot} :
           s \in {file, saving.snapshot, Absent, Torn} \/ Resides(s)
  PROVE  FilesReside'
<1>1. \A s : Resides(s)' <=> Resides(s)
  BY DEF Resides, Known, Residing, ResidingIn, BytesOf
<1> QED BY <1>1 DEF FilesReside, IsSnapshot

\* One step of the coordinator, of save_to, of a crash or of load_from.
LEMMA RecoveryResides ==
  ASSUME FootprintsCover, MovesApart, RecoveryInv, RecoveryInv', Residence, Still, FilesReside,
         [RecoveryNext]_recoveryVars
  PROVE  Residence' /\ Still' /\ FilesReside'
<1>1. ASSUME UNCHANGED <<file, saving>> PROVE FilesReside'
  BY <1>1, FilesStayResident
<1>2. ASSUME UNCHANGED vars PROVE Residence' /\ Still'
  BY <1>2, ResidenceStep
<1>3. CASE CoordinatorStep
  BY <1>1, <1>3, ResidenceStep DEF CoordinatorStep
<1>4. CASE SaveBegins
  <2>1. Resides(Snapshot)
    BY SnapshotResides, SnapshotIsGood DEF RecoveryInv
  <2>2. saving'.snapshot = Snapshot /\ file' = file /\ UNCHANGED vars
    BY <1>4 DEF SaveBegins
  <2> QED BY <1>2, <2>1, <2>2, FilesStayResident
<1>5. CASE SaveOpens
  <2>1. saving'.snapshot = saving.snapshot /\ file' = Torn /\ UNCHANGED vars
    BY <1>5 DEF SaveOpens, RecoveryInv, SavingOK
  <2> QED BY <1>2, <2>1, FilesStayResident
<1>6. CASE SaveRefused \/ SaveEnds
  <2>1. saving'.snapshot = Absent /\ file' \in {file, saving.snapshot, Torn} /\ UNCHANGED vars
    BY <1>6 DEF SaveRefused, SaveEnds, NoSave
  <2> QED BY <1>2, <2>1, FilesStayResident
<1>7. CASE Crash
  <2>1. Init' => Residence' /\ Still'
    BY InitResides, PTL
  <2>2. Init'
    BY <1>7 DEF Crash, Init
  <2>3. file' = file /\ saving'.snapshot = Absent
    BY <1>7 DEF Crash, NoSave
  <2> QED BY <2>1, <2>2, <2>3, FilesStayResident
<1>8. CASE StartFresh
  BY <1>1, <1>2, <1>8 DEF StartFresh
<1>9. CASE LoadFrom
  BY <1>1, <1>9, LoadFromResides DEF LoadFrom
<1>10. CASE UNCHANGED recoveryVars
  BY <1>1, <1>2, <1>10 DEF recoveryVars
<1> QED BY <1>3, <1>4, <1>5, <1>6, <1>7, <1>8, <1>9, <1>10 DEF RecoveryNext

\* Resident bytes are exactly those of the residencies in a resident state, also
\* across save_to, crashes and load_from, whatever the calls in flight were doing
\* when the snapshot was taken: recovery neither loses nor invents a byte, and
\* what it brings back can be evicted.  The calls of the restarted coordinator
\* find the reservations they count on.
THEOREM RecoveredResidenceTheorem ==
  ASSUME FootprintsCover, MovesApart
  PROVE  RecoverySpec => [](ExactResidence /\ HoldsCovered)
<1>1. RecoveryInit => Residence /\ Still /\ FilesReside
  <2> SUFFICES ASSUME RecoveryInit PROVE Residence /\ Still /\ FilesReside
    OBVIOUS
  <2> QED BY InitResides DEF RecoveryInit, FilesReside, IsSnapshot, NoSave
<1>2. /\ RecoveryInv /\ RecoveryInv' /\ Residence /\ Still /\ FilesReside
      /\ [RecoveryNext]_recoveryVars
      => Residence' /\ Still' /\ FilesReside'
  BY RecoveryResides
<1>3. Residence => ExactResidence /\ HoldsCovered
  BY DEF Residence
<1> QED BY <1>1, <1>2, <1>3, RecoveryInvAlways, PTL DEF RecoverySpec

\* The same of a coordinator that is never restarted: any number of threads may
\* migrate and demote what they like, each other's residencies too.
THEOREM MovedResidenceTheorem ==
  ASSUME FootprintsCover, MovesApart
  PROVE  Spec => []ExactResidence
<1>1. Init => Residence /\ Still
  BY InitResides
<1>2. Residence /\ Still /\ [Next]_vars => Residence' /\ Still'
  BY ResidenceStep
<1>3. Residence => ExactResidence
  BY DEF Residence
<1> QED BY <1>1, <1>2, <1>3, PTL DEF Spec
=============================================================================
