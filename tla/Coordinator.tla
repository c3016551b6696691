---------------------------- MODULE Coordinator ----------------------------
(***************************************************************************)
(* The residency coordinator (src/src/coordinator.cpp) called by several   *)
(* threads.  All its state is guarded by one mutex, so a critical section  *)
(* is one action.  load, migrate and demote have several: they give up the *)
(* mutex while the backend moves bytes, and load also between its own      *)
(* admit call and its second section.  call[t] holds what a thread         *)
(* remembers across such a gap.                                            *)
(*                                                                         *)
(* A call that throws or returns an error before changing anything is not  *)
(* a step.  A call that throws after changing something is: exceptions     *)
(* leave the effects made so far in place.                                 *)
(*                                                                         *)
(* Left out, because nothing in the coordinator reads them: residency,     *)
(* adapter, device and policy generations, timestamps, usage counts,       *)
(* reasons and explanations.  The coordinator's epoch never changes after  *)
(* construction, so the epoch comparisons never fail for a current caller  *)
(* and a stale caller's call has no effect.                                *)
(***************************************************************************)
EXTENDS Lifecycle, MemoryDomain, Sequences, FiniteSets, FiniteSetsExt

CONSTANTS
  Threads,            \* caller threads
  Models,             \* defined models
  AdapterSets,        \* registered adapter sets, NoAdapters included
  Domains,            \* registered memory domains
  Workers,            \* workers that may register
  NoAdapters, NoDomain, NoModel, NoThread,
  Kind,               \* Domains -> DomainKind
  Node,               \* Domains -> node
  Governed,           \* Domains -> governed (= total) capacity
  WorkerNode,         \* Workers -> node
  WorkerDevices,      \* Workers -> accelerator domains on the worker's devices
  Compatible,         \* <<model, domain>> pairs the compatibility checker accepts
  Required,           \* Models -> required_memory
  ShardBytes,         \* Models -> sequence of shard sizes, <<required>> if none
  Aggregate,          \* AdapterSets -> aggregate_size
  AdapterBytes,       \* AdapterSets -> sequence of adapter sizes
  AllowForceEviction, \* ResidencyPolicy
  AllowEvictLast,     \* ResidencyPolicy::allow_evict_last_authoritative
  RelockBlocks,       \* a thread that locks std::mutex twice blocks (POSIX)
                      \* or goes on (MSVC); the standard leaves it undefined
  Ops,                \* operations the callers use
  MaxResidencies,     \* bound: residencies ever created
  MaxModelGeneration, \* bound: generation rollovers
  MaxBuffers          \* bound: live buffers when a call begins (some leak)

OpName ==
  {"load", "publish", "migrate", "evict", "demote", "pin", "invalidate",
   "roll", "worker", "reference"}

ASSUME CoordinatorAssumption ==
  /\ IsFiniteSet(Threads) /\ IsFiniteSet(Domains)
  /\ NoAdapters \in AdapterSets
  /\ NoDomain \notin Domains /\ NoModel \notin Models /\ NoThread \notin Threads
  /\ Kind \in [Domains -> DomainKind]
  /\ Governed \in [Domains -> Bytes]
  /\ WorkerDevices \in [Workers -> SUBSET Domains]
  /\ Required \in [Models -> Bytes]
  /\ ShardBytes \in [Models -> Seq(Bytes)]
  /\ Aggregate \in [AdapterSets -> Bytes]
  /\ AdapterBytes \in [AdapterSets -> Seq(Bytes)]
  /\ AllowForceEviction \in BOOLEAN /\ AllowEvictLast \in BOOLEAN
  /\ RelockBlocks \in BOOLEAN
  /\ Ops \subseteq OpName
  /\ MaxResidencies \in Nat /\ MaxModelGeneration \in Nat /\ MaxBuffers \in Nat

VARIABLES
  domains,      \* domains_: Domains -> memory domain record
  residencies,  \* residencies_: never erased, so an id is a position
  sets,         \* sets_: never erased either
  activeSet,    \* active_set_by_model_: Models -> set id, 0 for none
  modelGens,    \* model_gens_: Models -> generation
  workers,      \* workers_: the registered workers
  call,         \* Threads -> the call the thread is in
  mutex,        \* the thread that holds mutex_ for ever, or NoThread
  heap          \* live backend buffers

vars == <<domains, residencies, sets, activeSet, modelGens, workers, call,
          mutex, heap>>

Ids == DOMAIN residencies

-----------------------------------------------------------------------------
(* Records.                                                                *)

ComponentBytes(m, a) == ShardBytes[m] \o AdapterBytes[a]

AggregateBytes(m, a) == WordPlus(Required[m], Aggregate[a])

\* A residency as load declares it, before any byte is moved.
Declared(m, a, d, bytes) ==
  [model |-> m, adapters |-> a, domain |-> d, node |-> Node[d], bytes |-> bytes,
   lifecycle |-> "Declared", validation |-> "Unvalidated",
   readiness |-> "NotReady", authority |-> "Provisional",
   modelGeneration |-> modelGens[m], references |-> 0, pinned |-> FALSE,
   handle |-> 0]

Stale(res, readiness) ==
  [res EXCEPT !.authority = "Stale", !.readiness = readiness]

IdleCall ==
  [op |-> "idle", model |-> NoModel, adapters |-> NoAdapters,
   domain |-> NoDomain, residency |-> 0, members |-> {}, set |-> 0,
   bytes |-> 0, source |-> NoDomain, handle |-> 0, node |-> NoDomain,
   modelGeneration |-> 0, evictions |-> 0]

Idle(t) == call[t].op = "idle"

\* Some thread is free to make a call that is one critical section.
Caller == mutex = NoThread /\ \E t \in Threads : Idle(t)

Return(t) == call' = [call EXCEPT ![t] = IdleCall]

\* ResidencySet::recompute_complete
recompute_complete(set) == set.required \subseteq set.members

\* Slip: the sets are left as they are.
SetsKept(r) == sets

\* Evict and invalidate take the member out of its set and touch every set.
WithoutMember(r) ==
  [s \in DOMAIN sets |->
     [sets[s] EXCEPT !.members = @ \ {r}, !.required = @ \ {r},
                     !.complete = (sets[s].required \ {r}) \subseteq (sets[s].members \ {r}),
                     !.ready = FALSE]]

\* Migrate puts the destination in the source's place.
Renamed(S, old, new) == IF old \in S THEN (S \ {old}) \cup {new} ELSE S

-----------------------------------------------------------------------------
(* Backend buffers.  A handle is 0 (nullptr) or the name of a buffer.  New  *)
(* buffers get names that are neither live nor remembered.                  *)

HandlesInUse ==
  heap \cup {residencies[r].handle : r \in Ids} \cup {call[t].handle : t \in Threads}

\* A buffer of its own for every element of S.
NewBuffers(S) ==
  CHOOSE f \in [S -> 1..(Cardinality(HandlesInUse) + Cardinality(S))] :
    \A x \in S : f[x] \notin HandlesInUse /\ \A y \in S \ {x} : f[x] # f[y]

\* The buffer of a call that makes one only.
NewBuffer == NewBuffers({1})[1]

-----------------------------------------------------------------------------
(* Capacity.                                                               *)

\* Bytes that the residencies in S occupy in domain d.
BytesIn(S, d) ==
  SumFunctionOnSet([r \in Ids |-> residencies[r].bytes],
                   {r \in S : residencies[r].domain = d})

\* A loop that releases the residencies of S one by one, in the order of their
\* random ids, stops at the first release that throws.  P is what it may have
\* processed when it ends.
ReleasedBeforeThrow(S, P) ==
  /\ P \subseteq S
  /\ \A d \in Domains : BytesIn(P, d) \in 0..domains[d].resident
  /\ P # S =>
       \E r \in S \ P :
         ~ can_release(domains[residencies[r].domain],
                       BytesIn(P \cup {r}, residencies[r].domain))

Released(P) == [d \in Domains |-> release(domains[d], BytesIn(P, d))]

\* Residencies a pending call may still add: the bound counts them as made.
Claimed(t) ==
  CASE call[t].op \in {"place", "evict"} ->
         Len(ComponentBytes(call[t].model, call[t].adapters))
    [] call[t].op = "migrating" -> 1
    [] OTHER -> 0

Room(n) ==
  /\ Len(residencies) + MapThenSumSet(Claimed, Threads) + n <= MaxResidencies
  /\ Cardinality(heap) < MaxBuffers

-----------------------------------------------------------------------------
(* Admission.  admit runs in load's first section and again after each      *)
(* eviction, so its operators take the state they read.                     *)

\* Slip: the copy that is already there is not looked for.
NeverReusable(ress, m, a) == {}

Reusable(ress, m, a) ==
  {r \in DOMAIN ress :
     /\ ress[r].model = m /\ ress[r].adapters = a
     /\ ress[r].modelGeneration = modelGens[m]
     /\ ress[r].lifecycle = "Ready" /\ ress[r].authority = "Authoritative"}

\* Copies of the model that make a domain warm.
Warm(ress, m, d) ==
  {r \in DOMAIN ress :
     ress[r].domain = d /\ ress[r].model = m /\ is_resident_state(ress[r].lifecycle)}

\* The first warm copy in the order of random ids: any of them.
WarmChoices(ress, m) ==
  {f \in [Domains -> 0..Len(ress)] :
     \A d \in Domains : IF Warm(ress, m, d) = {} THEN f[d] = 0
                        ELSE f[d] \in Warm(ress, m, d)}

Score(doms, ress, m, a, d, warm) ==
  (IF warm # 0 THEN 50 ELSE 0)
  + (IF warm # 0 /\ ress[warm].lifecycle = "Ready" THEN 100 ELSE 0)
  + (IF Kind[d] = "Accelerator" THEN 10 ELSE 4)
  + (IF available(doms[d]) >= AggregateBytes(m, a) THEN 5 ELSE -20)

\* The domains admit may rank first; ids are random, so ties go either way.
BestDomains(doms, ress, m, a) ==
  LET candidates == {d \in Domains : <<m, d>> \in Compatible}
  IN  {d \in candidates :
         \E f \in WarmChoices(ress, m) :
           \A e \in candidates :
             Score(doms, ress, m, a, d, f[d]) >= Score(doms, ress, m, a, e, f[e])}

Fits(doms, m, a, d) == available(doms[d]) >= AggregateBytes(m, a)

\* What load may go on with after an admit call; a Reject ends the call.
Verdicts(doms, ress, m, a) ==
  IF Reusable(ress, m, a) # {}
  THEN {[IdleCall EXCEPT !.op = "reuse", !.residency = r] : r \in Reusable(ress, m, a)}
  ELSE {[IdleCall EXCEPT !.op = IF Fits(doms, m, a, d) THEN "place" ELSE "evict",
                         !.model = m, !.adapters = a, !.domain = d]
          : d \in BestDomains(doms, ress, m, a)}

-----------------------------------------------------------------------------
Init ==
  /\ domains = [d \in Domains |->
       [total |-> Governed[d], governed |-> Governed[d], unavailable |-> 0,
        reserved |-> 0, resident |-> 0, pinned |-> 0]]
  /\ residencies = << >>
  /\ sets = << >>
  /\ activeSet = [m \in Models |-> 0]
  /\ modelGens = [m \in Models |-> 1]
  /\ workers = {}
  /\ call = [t \in Threads |-> IdleCall]
  /\ mutex = NoThread
  /\ heap = {}

-----------------------------------------------------------------------------
(* load.                                                                   *)

\* load's first section: the admit call.
LoadAdmit(t, m, a) ==
  /\ "load" \in Ops
  /\ mutex = NoThread /\ Idle(t)
  /\ Room(Len(ComponentBytes(m, a)))
  /\ \E v \in Verdicts(domains, residencies, m, a) :
       call' = [call EXCEPT ![t] = v]
  /\ UNCHANGED <<domains, residencies, sets, activeSet, modelGens, workers, mutex, heap>>

\* The warm-reuse path: touch the residency admit named and report success.
LoadReuse(t) ==
  /\ mutex = NoThread /\ call[t].op = "reuse"
  /\ Return(t)
  /\ UNCHANGED <<domains, residencies, sets, activeSet, modelGens, workers, mutex, heap>>

\* What capacity pressure may evict from the domain admit ranked first.
Victims(d) ==
  {r \in Ids :
     /\ residencies[r].domain = d
     /\ is_resident_state(residencies[r].lifecycle)
     /\ residencies[r].references = 0 /\ ~ residencies[r].pinned
     /\ residencies[r].lifecycle \notin {"Migrating", "Evicting"}}

LastAuthoritative(r) ==
  ~ \E q \in Ids \ {r} :
      /\ residencies[q].model = residencies[r].model
      /\ residencies[q].lifecycle = "Ready"
      /\ residencies[q].authority = "Authoritative"

\* Slip: a residency is evicted in whatever state it is.
MayEvictAnyState(r, force) ==
  /\ residencies[r].references = 0
  /\ residencies[r].pinned => force /\ AllowForceEviction

\* evict's early returns, and the throw of transition_to(Evicting).
MayEvict(r, force) ==
  /\ is_resident_state(residencies[r].lifecycle)
  /\ residencies[r].references = 0
  /\ residencies[r].pinned => force /\ AllowForceEviction
  /\ residencies[r].lifecycle # "Migrating"
  /\ AllowEvictLast \/ ~ LastAuthoritative(r)
  /\ lifecycle_transition_allowed(residencies[r].lifecycle, "Evicting")

\* Slip: the bytes are not given back.
ReleaseForgotten(r) == domains

ReleaseBytesOf(r) ==
  [domains EXCEPT ![residencies[r].domain] = release(@, residencies[r].bytes)]

CanReleaseBytesOf(r) ==
  can_release(domains[residencies[r].domain], residencies[r].bytes)

\* Slip: the handle of the freed buffer is kept.
EvictedKeepingHandle(r) == [Stale(residencies[r], "Stale") EXCEPT !.lifecycle = "Evicted"]

Evicted(r) == [Stale(residencies[r], "Stale") EXCEPT !.lifecycle = "Evicted", !.handle = 0]

\* evict's effects.  The lifecycle has moved on when release throws.
EvictEffects(r) ==
  \/ /\ CanReleaseBytesOf(r)
     /\ domains' = ReleaseBytesOf(r)
     /\ residencies' = [residencies EXCEPT ![r] = Evicted(r)]
     /\ heap' = heap \ {residencies[r].handle}
     /\ sets' = WithoutMember(r)
  \/ /\ ~ CanReleaseBytesOf(r)
     /\ residencies' = [residencies EXCEPT ![r].lifecycle = "Evicted"]
     /\ UNCHANGED <<domains, heap, sets>>

\* load's eviction loop, entered with the mutex held: with a victim it calls
\* evict, which locks the same mutex again.
LoadEvictRelocks(t) ==
  /\ RelockBlocks
  /\ mutex = NoThread /\ call[t].op = "evict"
  /\ Victims(call[t].domain) # {}
  /\ mutex' = t
  /\ call' = [call EXCEPT ![t].op = "blocked"]
  /\ UNCHANGED <<domains, residencies, sets, activeSet, modelGens, workers, heap>>

\* One round of the loop where the second lock goes through: evict, then admit
\* again.  A second admit that finds a residency to reuse has no placement.
LoadEvictRound(t) ==
  /\ ~ RelockBlocks
  /\ mutex = NoThread /\ call[t].op = "evict"
  /\ \E r \in Victims(call[t].domain) :
       /\ MayEvict(r, FALSE)
       /\ EvictEffects(r)
       /\ IF CanReleaseBytesOf(r)
          THEN \E v \in Verdicts(ReleaseBytesOf(r),
                                 [residencies EXCEPT ![r] = Evicted(r)],
                                 call[t].model, call[t].adapters) :
                 call' = [call EXCEPT ![t] =
                   CASE v.op = "place" -> v
                     [] v.op = "evict" /\ call[t].evictions < 7 ->
                          [v EXCEPT !.evictions = call[t].evictions + 1]
                     [] OTHER -> IdleCall]
          ELSE Return(t)
  /\ UNCHANGED <<activeSet, modelGens, workers, mutex>>

\* Slip: without a victim, or with a refused one, the loop goes round again.
LoadEvictSpins(t) ==
  /\ mutex = NoThread /\ call[t].op = "evict"
  /\ \/ Victims(call[t].domain) = {}
     \/ \E r \in Victims(call[t].domain) : ~ MayEvict(r, FALSE)
  /\ UNCHANGED vars

\* The loop ends: no victim, or evict refuses it or throws.
LoadEvictGivesUp(t) ==
  /\ mutex = NoThread /\ call[t].op = "evict"
  /\ \/ Victims(call[t].domain) = {}
     \/ /\ ~ RelockBlocks
        /\ \E r \in Victims(call[t].domain) : ~ MayEvict(r, FALSE)
  /\ Return(t)
  /\ UNCHANGED <<domains, residencies, sets, activeSet, modelGens, workers, mutex, heap>>

\* load's second section refuses when the base model no longer fits.
LoadRefused(t) ==
  /\ mutex = NoThread /\ call[t].op = "place"
  /\ ~ can_reserve(domains[call[t].domain], Required[call[t].model])
  /\ Return(t)
  /\ UNCHANGED <<domains, residencies, sets, activeSet, modelGens, workers, mutex, heap>>

NewSet(m, members) ==
  [model |-> m, members |-> members, required |-> members,
   complete |-> FALSE, ready |-> FALSE]

\* load's second section: declare the members and their set, make the set the
\* model's active one, and only then reserve the aggregate.  Without room for
\* the aggregate the call fails and leaves the declarations behind.
LoadBegin(t) ==
  LET m == call[t].model
      a == call[t].adapters
      d == call[t].domain
      bytes == ComponentBytes(m, a)
      members == (Len(residencies) + 1)..(Len(residencies) + Len(bytes))
  IN
  /\ mutex = NoThread /\ call[t].op = "place"
  /\ can_reserve(domains[d], Required[m])
  /\ residencies' = residencies \o [i \in 1..Len(bytes) |-> Declared(m, a, d, bytes[i])]
  /\ sets' = Append(sets, NewSet(m, members))
  /\ activeSet' = [activeSet EXCEPT ![m] = Len(sets) + 1]
  /\ IF can_reserve(domains[d], AggregateBytes(m, a))
     THEN /\ domains' = [domains EXCEPT ![d] = reserve(@, AggregateBytes(m, a))]
          /\ call' = [call EXCEPT ![t] =
               [IdleCall EXCEPT !.op = "loading", !.model = m, !.adapters = a,
                  !.domain = d, !.members = members, !.set = Len(sets) + 1,
                  !.bytes = AggregateBytes(m, a), !.modelGeneration = modelGens[m]]]
     ELSE Return(t) /\ UNCHANGED domains
  /\ UNCHANGED <<modelGens, workers, mutex, heap>>

\* A member whose bytes arrived gets the buffer the backend made for it; ok is
\* the set of members the backend loaded.
Materialized(r, ok) ==
  [residencies[r] EXCEPT !.lifecycle = "Resident", !.validation = "Valid",
     !.readiness = "Loading", !.authority = "Provisional",
     !.handle = NewBuffers(ok)[r]]

Published(res) ==
  [res EXCEPT !.lifecycle = "Ready", !.readiness = "Ready", !.authority = "Authoritative"]

FailedMember(r) ==
  [Stale(residencies[r], "Failed") EXCEPT !.lifecycle = try_transition(@, "Failed")]

BuffersFor(ok) == {NewBuffers(ok)[r] : r \in ok}

\* Slip: the generation is not compared again.
StillCurrentUnchecked(c) == TRUE

\* The check a load or migrate makes when it has the mutex again.
StillCurrent(c) == modelGens[c.model] = c.modelGeneration

\* load's last section when the model's generation moved meanwhile: give the
\* reservation back and fail the members.  The buffers are not freed.
LoadStale(t) ==
  LET c == call[t] IN
  /\ mutex = NoThread /\ c.op = "loading"
  /\ ~ StillCurrent(c)
  /\ \E ok \in SUBSET c.members : heap' = heap \cup BuffersFor(ok)
  /\ IF can_cancel(domains[c.domain], c.bytes)
     THEN /\ domains' = [domains EXCEPT ![c.domain] = cancel_reservation(@, c.bytes)]
          /\ residencies' = [r \in Ids |-> IF r \in c.members THEN FailedMember(r)
                                           ELSE residencies[r]]
     ELSE UNCHANGED <<domains, residencies>>
  /\ Return(t)
  /\ UNCHANGED <<sets, activeSet, modelGens, workers, mutex>>

\* The members a load can commit: the backend loaded them and nobody touched them.
Committable(c, ok) == {r \in ok : residencies[r].lifecycle = "Declared"}

CommitsFit(d, S) ==
  BytesIn(S, d) \in 0..domains[d].reserved /\ can_resident(domains[d], BytesIn(S, d))

\* load's last section: every member arrived, and all become Ready together.
LoadPublish(t) ==
  LET c == call[t] IN
  /\ mutex = NoThread /\ c.op = "loading"
  /\ StillCurrent(c)
  /\ Committable(c, c.members) = c.members
  /\ CommitsFit(c.domain, c.members)
  /\ domains' = [domains EXCEPT ![c.domain] = commit(@, BytesIn(c.members, c.domain))]
  /\ residencies' = [r \in Ids |->
       IF r \in c.members THEN Published(Materialized(r, c.members)) ELSE residencies[r]]
  /\ sets' = [sets EXCEPT ![c.set].complete = TRUE, ![c.set].ready = TRUE]
  /\ heap' = heap \cup BuffersFor(c.members)
  /\ Return(t)
  /\ UNCHANGED <<activeSet, modelGens, workers, mutex>>

\* load's last section with members that did not arrive: the others stay
\* Resident, and the reservation of the missing ones is cancelled.
LoadPartial(t) ==
  LET c == call[t] IN
  /\ mutex = NoThread /\ c.op = "loading"
  /\ StillCurrent(c)
  /\ \E ok \in SUBSET c.members :
       LET done   == Committable(c, ok)
           failed == c.members \ done
           after  == commit(domains[c.domain], BytesIn(done, c.domain))
           exact  == BytesIn(failed, c.domain) \in 0..after.reserved
       IN  /\ done # c.members
           /\ CommitsFit(c.domain, done)
           /\ domains' = [domains EXCEPT ![c.domain] =
                IF exact THEN cancel_reservation(after, BytesIn(failed, c.domain))
                ELSE after]
           /\ residencies' = [r \in Ids |->
                CASE r \in done -> Materialized(r, ok)
                  [] r \in failed -> FailedMember(r)
                  [] OTHER -> residencies[r]]
           /\ sets' = IF exact
                      THEN [sets EXCEPT ![c.set].complete = recompute_complete(sets[c.set]),
                                        ![c.set].ready = FALSE]
                      ELSE sets
           /\ heap' = heap \cup BuffersFor(ok)
  /\ Return(t)
  /\ UNCHANGED <<activeSet, modelGens, workers, mutex>>

\* load's last section where the commit of member r throws: the members before
\* it are committed, r is Resident with no bytes accounted, the rest untouched.
LoadCommitThrows(t) ==
  LET c == call[t] IN
  /\ mutex = NoThread /\ c.op = "loading"
  /\ StillCurrent(c)
  /\ \E ok \in SUBSET c.members : \E r \in Committable(c, ok) :
       LET before == {q \in Committable(c, ok) : q < r}
       IN  /\ CommitsFit(c.domain, before)
           /\ ~ CommitsFit(c.domain, before \cup {r})
           /\ domains' = [domains EXCEPT ![c.domain] =
                            commit(@, BytesIn(before, c.domain))]
           /\ residencies' = [q \in Ids |->
                CASE q \in before \cup {r} -> Materialized(q, ok)
                  [] q \in c.members \ before /\ q < r -> FailedMember(q)
                  [] OTHER -> residencies[q]]
           /\ heap' = heap \cup BuffersFor(ok)
  /\ Return(t)
  /\ UNCHANGED <<sets, activeSet, modelGens, workers, mutex>>

-----------------------------------------------------------------------------
(* migrate and demote: bytes move to another domain while the mutex is free. *)

BestOfKind(dest) ==
  \A e \in Domains : Kind[e] = Kind[dest] => available(domains[dest]) >= available(domains[e])

\* The caller asks for a device, or takes the emptiest domain of a kind.
MigrateTarget(dest) == Kind[dest] = "Accelerator" \/ BestOfKind(dest)

\* Slip: the source's buffer is not remembered, and so never freed.
MovingWithoutHandle(op, r, dest, node) ==
  [IdleCall EXCEPT !.op = op, !.model = residencies[r].model, !.domain = dest,
     !.residency = r, !.bytes = residencies[r].bytes,
     !.source = residencies[r].domain, !.node = node,
     !.modelGeneration = residencies[r].modelGeneration]

Moving(op, r, dest, node) ==
  [IdleCall EXCEPT !.op = op, !.model = residencies[r].model, !.domain = dest,
     !.residency = r, !.bytes = residencies[r].bytes,
     !.source = residencies[r].domain, !.handle = residencies[r].handle,
     !.node = node, !.modelGeneration = residencies[r].modelGeneration]

\* Both reserve at the destination first; the transition of the source may
\* then throw, and the reservation stays.
MoveBegin(t, op, state, r, dest, node) ==
  /\ mutex = NoThread /\ Idle(t)
  /\ is_resident_state(residencies[r].lifecycle)
  /\ residencies[r].references = 0
  /\ can_reserve(domains[dest], residencies[r].bytes)
  /\ domains' = [domains EXCEPT ![dest] = reserve(@, residencies[r].bytes)]
  /\ IF lifecycle_transition_allowed(residencies[r].lifecycle, state)
     THEN /\ residencies' = [residencies EXCEPT ![r].lifecycle = state]
          /\ call' = [call EXCEPT ![t] = Moving(op, r, dest, node)]
     ELSE UNCHANGED <<residencies, call>>
  /\ UNCHANGED <<sets, activeSet, modelGens, workers, mutex, heap>>

MigrateBegin(t, r, dest) ==
  /\ "migrate" \in Ops /\ Room(1)
  /\ residencies[r].lifecycle # "Migrating"
  /\ MigrateTarget(dest)
  /\ \E node \in {residencies[r].node, Node[dest]} :
       MoveBegin(t, "migrating", "Migrating", r, dest, node)

DemoteBegin(t, r, dest) ==
  /\ "demote" \in Ops /\ Room(0)
  /\ BestOfKind(dest)
  /\ MoveBegin(t, "demoting", "Demoting", r, dest, Node[dest])

\* The move is called off: the reservation is cancelled and the source is
\* Resident again (never Ready).  A buffer the backend made is not freed.
MoveReverts(t, made) ==
  LET c == call[t] IN
  /\ IF can_cancel(domains[c.domain], c.bytes)
     THEN /\ domains' = [domains EXCEPT ![c.domain] = cancel_reservation(@, c.bytes)]
          /\ residencies' = [residencies EXCEPT ![c.residency].lifecycle =
                               try_transition(@, "Resident")]
     ELSE UNCHANGED <<domains, residencies>>
  /\ heap' = IF made THEN heap \cup {NewBuffer} ELSE heap
  /\ Return(t)
  /\ UNCHANGED <<sets, activeSet, modelGens, workers, mutex>>

MigrateStale(t) ==
  /\ mutex = NoThread /\ call[t].op = "migrating"
  /\ ~ StillCurrent(call[t])
  /\ \E made \in BOOLEAN : MoveReverts(t, made)

MigrateFails(t) ==
  /\ mutex = NoThread /\ call[t].op = "migrating"
  /\ StillCurrent(call[t])
  /\ MoveReverts(t, FALSE)

\* A residency is as ready as its class lets it be when its bytes arrive.
Migrated(c) ==
  LET runs == residency_class_is_execution_ready(Kind[c.domain])
  IN  [residencies[c.residency] EXCEPT
         !.domain = c.domain, !.node = c.node, !.references = 0, !.pinned = FALSE,
         !.lifecycle = IF runs THEN "Ready" ELSE "Resident", !.validation = "Valid",
         !.readiness = IF runs THEN "Ready" ELSE "NotReady",
         !.authority = IF runs THEN "Authoritative" ELSE "Provisional",
         !.handle = NewBuffer]

\* Slip: the handle of the freed buffer is kept.
RetiredKeepingHandle(r) ==
  [Stale(residencies[r], "Stale") EXCEPT !.lifecycle = try_transition(@, "Retired")]

Retired(r) ==
  [Stale(residencies[r], "Stale") EXCEPT !.handle = 0,
     !.lifecycle = try_transition(@, "Retired")]

\* migrate's last section: publish the destination, then release and retire
\* the source.  A throw of release leaves the destination published.
MigrateCommit(t) ==
  LET c == call[t]
      dst == Len(residencies) + 1
      committed == [domains EXCEPT ![c.domain] = commit(@, c.bytes)]
      owners == {s \in DOMAIN sets : c.residency \in sets[s].members}
  IN
  /\ mutex = NoThread /\ c.op = "migrating"
  /\ StillCurrent(c)
  /\ \/ /\ can_commit(domains[c.domain], c.bytes)
        /\ can_release(committed[c.source], c.bytes)
        /\ domains' = [committed EXCEPT ![c.source] = release(@, c.bytes)]
        /\ residencies' = Append([residencies EXCEPT ![c.residency] = Retired(c.residency)],
                                 Migrated(c))
        /\ sets' = [s \in DOMAIN sets |->
             [sets[s] EXCEPT !.members = Renamed(@, c.residency, dst),
                             !.required = Renamed(@, c.residency, dst)]]
        /\ IF owners = {} THEN UNCHANGED activeSet
           ELSE \E s \in owners : activeSet' = [activeSet EXCEPT ![c.model] = s]
        /\ heap' = (heap \ {c.handle}) \cup {NewBuffer}
     \/ /\ can_commit(domains[c.domain], c.bytes)
        /\ ~ can_release(committed[c.source], c.bytes)
        /\ domains' = committed
        /\ residencies' = Append(residencies, Migrated(c))
        /\ heap' = heap \cup {NewBuffer}
        /\ UNCHANGED <<sets, activeSet>>
  /\ Return(t)
  /\ UNCHANGED <<modelGens, workers, mutex>>

\* migrate's last section where commit throws, because another load committed
\* more than it had reserved: the destination is dropped with its buffer, and
\* the source is left Migrating.
MigrateCommitThrows(t) ==
  LET c == call[t] IN
  /\ mutex = NoThread /\ c.op = "migrating"
  /\ StillCurrent(c)
  /\ ~ can_commit(domains[c.domain], c.bytes)
  /\ heap' = heap \cup {NewBuffer}
  /\ Return(t)
  /\ UNCHANGED <<domains, residencies, sets, activeSet, modelGens, workers, mutex>>

DemoteFails(t) ==
  /\ mutex = NoThread /\ call[t].op = "demoting"
  /\ MoveReverts(t, FALSE)

Demoted(c) ==
  LET runs == residency_class_is_execution_ready(Kind[c.domain])
  IN  [residencies[c.residency] EXCEPT
         !.domain = c.domain, !.node = c.node, !.lifecycle = "Resident",
         !.validation = "Valid",
         !.readiness = IF runs THEN "Ready" ELSE "NotReady",
         !.authority = IF runs THEN "Authoritative" ELSE "Provisional",
         !.handle = NewBuffer]

\* demote's last section: release the source, free its buffer, commit the
\* destination, and keep the identity.  A throw of release changes nothing more.
DemoteCommit(t) ==
  LET c == call[t]
      released == [domains EXCEPT ![c.source] = release(@, c.bytes)]
  IN
  /\ mutex = NoThread /\ c.op = "demoting"
  /\ \/ /\ can_release(domains[c.source], c.bytes)
        /\ can_commit(released[c.domain], c.bytes)
        /\ domains' = [released EXCEPT ![c.domain] = commit(@, c.bytes)]
        /\ residencies' = [residencies EXCEPT ![c.residency] = Demoted(c)]
        /\ heap' = (heap \ {c.handle}) \cup {NewBuffer}
     \/ /\ ~ can_release(domains[c.source], c.bytes)
        /\ heap' = heap \cup {NewBuffer}
        /\ UNCHANGED <<domains, residencies>>
  /\ Return(t)
  /\ UNCHANGED <<sets, activeSet, modelGens, workers, mutex>>

\* demote's last section where commit throws: the source's bytes and its buffer
\* are already given back, and the residency is left Demoting on top of them.
DemoteCommitThrows(t) ==
  LET c == call[t]
      released == [domains EXCEPT ![c.source] = release(@, c.bytes)]
  IN
  /\ mutex = NoThread /\ c.op = "demoting"
  /\ can_release(domains[c.source], c.bytes)
  /\ ~ can_commit(released[c.domain], c.bytes)
  /\ domains' = released
  /\ heap' = (heap \ {c.handle}) \cup {NewBuffer}
  /\ Return(t)
  /\ UNCHANGED <<residencies, sets, activeSet, modelGens, workers, mutex>>

-----------------------------------------------------------------------------
(* Operations of one critical section.                                     *)

Evict(r, force) ==
  /\ "evict" \in Ops /\ Caller
  /\ MayEvict(r, force)
  /\ EvictEffects(r)
  /\ UNCHANGED <<activeSet, modelGens, workers, call, mutex>>

Pin(r) ==
  /\ "pin" \in Ops /\ Caller
  /\ ~ residencies[r].pinned
  /\ can_pin(domains[residencies[r].domain], residencies[r].bytes)
  /\ domains' = [domains EXCEPT ![residencies[r].domain] = pin(@, residencies[r].bytes)]
  /\ residencies' = [residencies EXCEPT ![r].pinned = TRUE]
  /\ UNCHANGED <<sets, activeSet, modelGens, workers, call, mutex, heap>>

Unpin(r) ==
  /\ "pin" \in Ops /\ Caller
  /\ residencies[r].pinned
  /\ can_unpin(domains[residencies[r].domain], residencies[r].bytes)
  /\ domains' = [domains EXCEPT ![residencies[r].domain] = unpin(@, residencies[r].bytes)]
  /\ residencies' = [residencies EXCEPT ![r].pinned = FALSE]
  /\ UNCHANGED <<sets, activeSet, modelGens, workers, call, mutex, heap>>

\* Slip: the residency is marked and its lifecycle left as it was.
SurrenderedInPlace(r, readiness) ==
  [Stale(residencies[r], readiness) EXCEPT !.handle = 0]

\* Releases the bytes, frees the buffer and marks the residency before the
\* transition to Invalidated, which throws while the residency is moving.
Surrendered(r, readiness) ==
  [Stale(residencies[r], readiness) EXCEPT !.handle = 0,
     !.lifecycle = try_transition(@, "Invalidated")]

Invalidate(r) ==
  /\ "invalidate" \in Ops /\ Caller
  /\ is_resident_state(residencies[r].lifecycle)
  /\ CanReleaseBytesOf(r)
  /\ domains' = ReleaseBytesOf(r)
  /\ heap' = heap \ {residencies[r].handle}
  /\ residencies' = [residencies EXCEPT ![r] = Surrendered(r, "Stale")]
  /\ sets' = IF lifecycle_transition_allowed(residencies[r].lifecycle, "Invalidated")
             THEN WithoutMember(r) ELSE sets
  /\ UNCHANGED <<activeSet, modelGens, workers, call, mutex>>

PublishReady(r) ==
  /\ "publish" \in Ops /\ Caller
  /\ residencies[r].lifecycle = "Resident"
  /\ \A s \in DOMAIN sets : r \in sets[s].members => recompute_complete(sets[s])
  /\ residencies' = [residencies EXCEPT ![r] = Published(residencies[r])]
  /\ UNCHANGED <<domains, sets, activeSet, modelGens, workers, call, mutex, heap>>

\* The loop of roll_model_generation and of mark_worker_lost gives up the
\* residencies of P one after the other.
Surrender(P, readiness) ==
  /\ domains' = Released(P)
  /\ residencies' = [r \in Ids |-> IF r \in P THEN Surrendered(r, readiness)
                                   ELSE residencies[r]]
  /\ heap' = heap \ {residencies[r].handle : r \in P}

OldGeneration(m) ==
  {r \in Ids : residencies[r].model = m /\ is_resident_state(residencies[r].lifecycle)
               /\ residencies[r].modelGeneration # modelGens[m] + 1}

\* The active set is forgotten only when the loop gets to its end.
RollModelGeneration(m) ==
  /\ "roll" \in Ops /\ Caller
  /\ modelGens[m] < MaxModelGeneration
  /\ modelGens' = [modelGens EXCEPT ![m] = @ + 1]
  /\ \E P \in SUBSET OldGeneration(m) :
       /\ ReleasedBeforeThrow(OldGeneration(m), P)
       /\ Surrender(P, "Stale")
       /\ IF P = OldGeneration(m) /\ activeSet[m] # 0
          THEN /\ sets' = [sets EXCEPT ![activeSet[m]].ready = FALSE,
                                       ![activeSet[m]].complete = FALSE]
               /\ activeSet' = [activeSet EXCEPT ![m] = 0]
          ELSE UNCHANGED <<sets, activeSet>>
  /\ UNCHANGED <<workers, call, mutex>>

RegisterWorker(w) ==
  /\ "worker" \in Ops /\ Caller
  /\ workers' = workers \cup {w}
  /\ UNCHANGED <<domains, residencies, sets, activeSet, modelGens, call, mutex, heap>>

OnWorker(w) ==
  {r \in Ids :
     /\ residencies[r].node = WorkerNode[w] \/ residencies[r].domain \in WorkerDevices[w]
     /\ is_resident_state(residencies[r].lifecycle)}

\* The registration stays: a worker may be reported lost again.
MarkWorkerLost(w) ==
  /\ "worker" \in Ops /\ Caller
  /\ w \in workers
  /\ \E P \in SUBSET OnWorker(w) :
       /\ ReleasedBeforeThrow(OnWorker(w), P)
       /\ domains' = [d \in Domains |->
            IF P = OnWorker(w) /\ d \in WorkerDevices[w]
            THEN set_unavailable(Released(P)[d], domains[d].total)
            ELSE Released(P)[d]]
       /\ residencies' = [r \in Ids |-> IF r \in P THEN Surrendered(r, "Failed")
                                        ELSE residencies[r]]
       /\ heap' = heap \ {residencies[r].handle : r \in P}
  /\ UNCHANGED <<sets, activeSet, modelGens, workers, call, mutex>>

\* active_references is set by the embedding program only.
Reference(r) ==
  /\ "reference" \in Ops /\ Caller
  /\ is_resident_state(residencies[r].lifecycle)
  /\ \E n \in {0, 1} \ {residencies[r].references} :
       residencies' = [residencies EXCEPT ![r].references = n]
  /\ UNCHANGED <<domains, sets, activeSet, modelGens, workers, call, mutex, heap>>

-----------------------------------------------------------------------------
\* The steps a call takes once it has begun.
Continue(t) ==
  \/ LoadReuse(t) \/ LoadEvictRelocks(t) \/ LoadEvictRound(t) \/ LoadEvictGivesUp(t)
  \/ LoadRefused(t) \/ LoadBegin(t)
  \/ LoadStale(t) \/ LoadPublish(t) \/ LoadPartial(t) \/ LoadCommitThrows(t)
  \/ MigrateStale(t) \/ MigrateFails(t) \/ MigrateCommit(t) \/ MigrateCommitThrows(t)
  \/ DemoteFails(t) \/ DemoteCommit(t) \/ DemoteCommitThrows(t)

Begin(t) ==
  \/ \E m \in Models, a \in AdapterSets : LoadAdmit(t, m, a)
  \/ \E r \in Ids, dest \in Domains : MigrateBegin(t, r, dest) \/ DemoteBegin(t, r, dest)

AtomicCall ==
  \/ \E r \in Ids :
       \/ \E force \in BOOLEAN : Evict(r, force)
       \/ Pin(r) \/ Unpin(r) \/ Invalidate(r) \/ PublishReady(r) \/ Reference(r)
  \/ \E m \in Models : RollModelGeneration(m)
  \/ \E w \in Workers : RegisterWorker(w) \/ MarkWorkerLost(w)

\* Callers may stop calling; only a call that cannot go on is a deadlock.
CallersStop == (\A t \in Threads : Idle(t)) /\ UNCHANGED vars

Next ==
  \/ \E t \in Threads : Begin(t) \/ Continue(t)
  \/ AtomicCall
  \/ CallersStop

Spec == Init /\ [][Next]_vars

\* The backend returns from every call and the scheduler runs every thread.
FairSpec == Spec /\ \A t \in Threads : WF_vars(Continue(t))

-----------------------------------------------------------------------------
(* Properties.                                                             *)

Residency ==
  [model : Models, adapters : AdapterSets, domain : Domains,
   node : {Node[d] : d \in Domains}, bytes : Bytes, lifecycle : LifecycleState,
   validation : {"Unvalidated", "Valid"},
   readiness : {"NotReady", "Loading", "Ready", "Stale", "Failed"},
   authority : {"Provisional", "Authoritative", "Stale"},
   modelGeneration : Nat, references : Nat, pinned : BOOLEAN, handle : Nat]

SetRecord ==
  [model : Models, members : SUBSET Nat, required : SUBSET Nat,
   complete : BOOLEAN, ready : BOOLEAN]

CallRecord ==
  [op : {"idle", "reuse", "evict", "blocked", "place", "loading", "migrating", "demoting"},
   model : Models \cup {NoModel}, adapters : AdapterSets,
   domain : Domains \cup {NoDomain}, residency : Nat, members : SUBSET Nat,
   set : Nat, bytes : Bytes, source : Domains \cup {NoDomain}, handle : Nat,
   node : {Node[d] : d \in Domains} \cup {NoDomain},
   modelGeneration : Nat, evictions : 0..7]

\* A call that holds a reservation knows where, for how much, and for whom.
CallOK(c) ==
  /\ c.op \in {"evict", "place", "loading", "migrating", "demoting"} =>
       c.model \in Models /\ c.domain \in Domains
  /\ c.op \in {"migrating", "demoting"} =>
       /\ c.source \in Domains /\ c.residency \in Ids
       /\ c.node \in {Node[d] : d \in Domains}
  /\ c.op = "loading" => c.members \subseteq Ids /\ c.set \in DOMAIN sets

DomainsOK == domains \in [Domains -> MemoryDomainRecord]
ResidenciesOK == residencies \in Seq(Residency)
SetsOK == sets \in Seq(SetRecord) /\ activeSet \in [Models -> 0..Len(sets)]
CallsOK == call \in [Threads -> CallRecord] /\ \A t \in Threads : CallOK(call[t])
OthersOK ==
  /\ modelGens \in [Models -> Nat]
  /\ workers \subseteq Workers
  /\ mutex \in Threads \cup {NoThread}
  /\ heap \subseteq Nat /\ IsFiniteSet(heap)

\* Every variable has its type, and what a call in flight remembers exists.
TypeOK == DomainsOK /\ ResidenciesOK /\ SetsOK /\ CallsOK /\ OthersOK

\* MemoryDomain::verify_invariants holds of every domain of the coordinator,
\* whatever the threads do and wherever an exception cut an operation short.
DomainsCoherent == \A d \in Domains : verify_invariants(domains[d])

\* Bytes that calls in flight hold reserved in domain d.
Held(d) ==
  SumFunctionOnSet([t \in Threads |-> call[t].bytes],
                   {t \in Threads : call[t].op \in {"loading", "migrating", "demoting"}
                                    /\ call[t].domain = d})

\* The reservation of a call in flight is still there when its last section
\* commits or cancels it, so neither throws: no other call spends it.
HoldsCovered == \A d \in Domains : Held(d) <= domains[d].reserved

\* Reserved bytes are exactly the holds of the calls in flight: every failure
\* path of load, migrate and demote returns the counter to its baseline.
ExactReservations == \A d \in Domains : domains[d].reserved = Held(d)

\* Resident bytes are exactly those of the residencies in a resident state:
\* nothing is released twice, and nothing is kept after its residency ended.
ExactResidence ==
  \A d \in Domains :
    domains[d].resident =
      BytesIn({r \in Ids : is_resident_state(residencies[r].lifecycle)}, d)

\* The pinned counter covers every pinned residency that is resident: what it
\* pinned cannot be reclaimed by releasing somebody else's bytes.
PinsCovered ==
  \A d \in Domains :
    domains[d].pinned >=
      BytesIn({r \in Ids : residencies[r].pinned
                           /\ is_resident_state(residencies[r].lifecycle)}, d)

\* A Ready residency is one of the model's current generation: a load that
\* raced a rollover is never published, a rollover leaves none behind.
ReadyIsCurrent ==
  \A r \in Ids : residencies[r].lifecycle = "Ready" =>
    residencies[r].modelGeneration = modelGens[residencies[r].model]

\* Authority once lost (evicted, invalidated, rolled over, worker lost, failed)
\* never comes back to the same residency.
StaleStep ==
  \A r \in Ids : residencies[r].authority = "Stale" => residencies'[r].authority = "Stale"
StaleNeverRevived == [][StaleStep]_vars

\* The end states of the lifecycle are final, and no residency is ever erased
\* or becomes another model's or another generation's.
TerminalStep ==
  /\ Len(residencies) <= Len(residencies')
  /\ \A r \in Ids :
       /\ residencies[r].lifecycle \in TerminalState =>
            residencies'[r].lifecycle \in {residencies[r].lifecycle, "Retired"}
       /\ residencies'[r].model = residencies[r].model
       /\ residencies'[r].modelGeneration = residencies[r].modelGeneration
TerminalIsFinal == [][TerminalStep]_vars

\* While migrate or demote moves bytes, the source is still in the state it was
\* put in, in its domain, with its buffer alive.
SourceStays ==
  \A t \in Threads :
    LET c == call[t] IN
    c.op \in {"migrating", "demoting"} =>
      /\ residencies[c.residency].lifecycle =
           (IF c.op = "migrating" THEN "Migrating" ELSE "Demoting")
      /\ residencies[c.residency].domain = c.source
      /\ residencies[c.residency].handle = c.handle
      /\ c.handle \in heap

\* Nobody remembers a buffer that was freed: neither a residency nor a call
\* whose backend work reads it.
NoDanglingBuffer ==
  /\ \A r \in Ids : residencies[r].handle \in heap \cup {0}
  /\ \A t \in Threads : call[t].handle \in heap \cup {0}

\* Every live buffer belongs to one residency that is in a resident state.
BuffersOwned ==
  \A h \in heap :
    \E r \in Ids :
      /\ residencies[r].handle = h
      /\ is_resident_state(residencies[r].lifecycle)
      /\ \A q \in Ids \ {r} : residencies[q].handle # h

\* Residency::is_execution_ready
is_execution_ready(r) ==
  /\ residencies[r].lifecycle = "Ready" /\ residencies[r].readiness = "Ready"
  /\ residencies[r].validation = "Valid" /\ residencies[r].authority = "Authoritative"
  /\ residency_class_is_execution_ready(Kind[residencies[r].domain])

\* A set that says ready has only execution-ready required members.
SetReadyIsTrue ==
  \A s \in DOMAIN sets : sets[s].ready =>
    sets[s].complete /\ \A r \in sets[s].required : is_execution_ready(r)

\* A set that says complete has every required member in a resident state: a
\* partial load is not complete.
SetCompleteIsTrue ==
  \A s \in DOMAIN sets : sets[s].complete =>
    \A r \in sets[s].required : is_resident_state(residencies[r].lifecycle)

\* One Ready authoritative residency per model and generation.
OneReadyCopy ==
  \A q, r \in Ids :
    /\ residencies[q].lifecycle = "Ready" /\ residencies[r].lifecycle = "Ready"
    /\ residencies[q].authority = "Authoritative"
    /\ residencies[r].authority = "Authoritative"
    /\ residencies[q].model = residencies[r].model
    /\ residencies[q].modelGeneration = residencies[r].modelGeneration
    => q = r

\* Every call that begins returns.
CallsReturn == \A t \in Threads : ~ Idle(t) ~> Idle(t)
=============================================================================
