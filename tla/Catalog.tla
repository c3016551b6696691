------------------------------- MODULE Catalog -------------------------------
(***************************************************************************)
(* Model revisions, adapter sets and compatibility (src/src/model.cpp,     *)
(* src/src/compatibility.cpp and their use in src/src/coordinator.cpp):    *)
(* what a load brings when revisions are registered, generations rolled    *)
(* and residencies evicted between its sections under the coordinator's    *)
(* mutex.  Capacity and the ranking of the candidates are those of module  *)
(* Coordinator; here a load may find no room at any time, and takes any    *)
(* compatible domain.                                                      *)
(***************************************************************************)
EXTENDS Naturals, Sequences, SequencesExt, FiniteSetsExt

CONSTANTS
  Nil,             \* a nil identity
  Unknown,         \* BackendType::Unknown, ComputeCapability::Unknown
  Models,
  Offered,         \* revisions that may be registered
  OfferedSets,     \* adapter sets that may be registered
  Domains,         \* memory domains: their backend and capability
  Requests,        \* what loads may ask for: model, revision and adapter set
  Calls,           \* threads that call load
  MaxRevisions,    \* bound: revisions registered
  MaxGeneration,   \* bound: generations of a model
  MaxResidencies   \* bound: residencies created

ASSUME CatalogAssumption ==
  /\ Nil \notin Models
  /\ \A r \in Offered : r.model \in Models /\ r.generation \in Nat
  /\ MaxRevisions \in Nat /\ MaxGeneration \in Nat /\ MaxResidencies \in Nat

VARIABLES
  revisions,     \* ModelCatalog::revisions_
  adapterSets,   \* adapter_sets_
  generations,   \* model_gens_; 0 is no entry
  residencies,   \* the residencies in the order of their creation
  call           \* the loads under way: request, candidate and answer

vars == <<revisions, adapterSets, generations, residencies, call>>

Idle == [phase |-> "idle", request |-> [model |-> Nil, revision |-> Nil, set |-> Nil],
         domain |-> Nil, residency |-> 0]

\* A load that is over without an answer.
Failed == [Idle EXCEPT !.phase = "failed"]

Init ==
  /\ revisions = << >> /\ adapterSets = {}
  /\ generations = [m \in Models |-> 0]
  /\ residencies = << >>
  /\ call = [c \in Calls |-> Idle]

-----------------------------------------------------------------------------
(* The catalog.                                                            *)

\* ModelRevision::is_valid.
is_valid(r) ==
  /\ r.model # Nil /\ r.revision # Nil /\ r.artifact # Nil /\ r.generation # 0
  /\ r.shards = << >> => r.required_memory > 0
  /\ \A i \in DOMAIN r.shards : r.shards[i] # 0

\* An artifact is registered with one generation only.
Conflicts(r) ==
  \E i \in DOMAIN revisions :
    revisions[i].artifact = r.artifact /\ revisions[i].generation # r.generation

\* Slip: a revision takes the place of the one registered before it.
RegisteredFirst(r) == <<r>> \o revisions

Registered(r) == Append(revisions, r)

\* Slip: the revision registered last is the latest.
LatestRegistered(m) ==
  LET own == {i \in DOMAIN revisions : revisions[i].model = m}
  IN  IF own = {} THEN 0 ELSE Max(own)

\* The first of the highest generation; 0 is none.
latest_revision(m) ==
  LET own  == {i \in DOMAIN revisions : revisions[i].model = m}
      best == {i \in own : \A j \in own : revisions[j].generation <= revisions[i].generation}
  IN  IF own = {} THEN 0 ELSE Min(best)

\* The first that was registered under the two ids; 0 is none.
find(m, rev) ==
  LET own == {i \in DOMAIN revisions : revisions[i].model = m /\ revisions[i].revision = rev}
  IN  IF own = {} THEN 0 ELSE Min(own)

\* The revision a request names, or the latest.
Resolve(request) ==
  IF request.revision = Nil THEN latest_revision(request.model)
  ELSE find(request.model, request.revision)

MayRegister(r) ==
  Len(revisions) < MaxRevisions /\ is_valid(r) /\ ~ Conflicts(r)

\* define_model; an invalid or conflicting revision throws and changes nothing.
DefineModel(r) ==
  /\ MayRegister(r)
  /\ revisions' = Registered(r)
  /\ generations' = [generations EXCEPT ![r.model] = IF @ = 0 THEN 1 ELSE @]
  /\ UNCHANGED <<adapterSets, residencies, call>>

\* AdapterSet::is_valid.
is_valid_set(s) == s.id # Nil /\ s.base_model # Nil /\ s.generation # 0

\* register_adapter_set: a valid set of a known model, once.  The single adapters
\* of the sets on offer are valid.
RegisterAdapterSet(s) ==
  /\ is_valid_set(s)
  /\ latest_revision(s.base_model) # 0
  /\ \A t \in adapterSets : t.id # s.id
  /\ adapterSets' = adapterSets \cup {s}
  /\ UNCHANGED <<revisions, generations, residencies, call>>

\* roll_model_generation: the residencies of earlier generations are given up.
RollModelGeneration(r) ==
  /\ MayRegister(r)
  /\ generations[r.model] < MaxGeneration
  /\ revisions' = Registered(r)
  /\ generations' = [generations EXCEPT ![r.model] = @ + 1]
  /\ residencies' = [i \in DOMAIN residencies |->
       IF residencies[i].model = r.model /\ residencies[i].state = "ready"
       THEN [residencies[i] EXCEPT !.state = "gone"] ELSE residencies[i]]
  /\ UNCHANGED <<adapterSets, call>>

-----------------------------------------------------------------------------
(* Compatibility.                                                          *)

check_model_backend(r, backend) ==
  /\ r.backend \in {Unknown, backend}
  /\ r.backend_compat # {} => backend \in r.backend_compat

\* Slip: what the artifact was built for is not looked at.
DeviceUnchecked(r, cap) == r.device_compat # {} => cap \in r.device_compat

check_model_device(r, cap) ==
  /\ r.capability \in {Unknown, cap}
  /\ r.device_compat # {} => cap \in r.device_compat

Compatible(r, d) ==
  check_model_backend(r, Domains[d].backend) /\ check_model_device(r, Domains[d].capability)

-----------------------------------------------------------------------------
(* load.                                                                   *)

\* The adapter set a request names is known and made for the model.
SetFits(request) ==
  request.set # Nil =>
    \E s \in adapterSets : s.id = request.set /\ s.base_model = request.model

CurrentGeneration(m) == IF generations[m] = 0 THEN 1 ELSE generations[m]

\* Slip: a residency that is still loading is taken for a ready one.
ReusableAnyState(request, i) ==
  /\ residencies[i].model = request.model /\ residencies[i].set = request.set
  /\ residencies[i].model_generation = CurrentGeneration(request.model)

\* Whatever revision the ready residency is of.
Reusable(request, i) ==
  /\ residencies[i].model = request.model /\ residencies[i].set = request.set
  /\ residencies[i].model_generation = CurrentGeneration(request.model)
  /\ residencies[i].state = "ready"

\* admit: a ready residency to reuse, or a compatible domain, or a rejection.
Admit(c, request) ==
  LET found == Resolve(request)
      goes(phase, d, i) ==
        call' = [call EXCEPT ![c] = [phase |-> phase, request |-> request, domain |-> d,
                                     residency |-> i]]
      fails == call' = [call EXCEPT ![c] = Failed]
  IN
  /\ call[c].phase = "idle"
  /\ \/ (found = 0 \/ ~ SetFits(request)) /\ fails
     \/ /\ found # 0 /\ SetFits(request)
        /\ \E i \in DOMAIN residencies : Reusable(request, i) /\ goes("reuse", Nil, i)
     \/ /\ found # 0 /\ SetFits(request)
        /\ \A i \in DOMAIN residencies : ~ Reusable(request, i)
        /\ \/ \E d \in DOMAIN Domains :
                Compatible(revisions[found], d) /\ goes("place", d, 0)
           \/ /\ \A d \in DOMAIN Domains : ~ Compatible(revisions[found], d)
              /\ fails
  /\ UNCHANGED <<revisions, adapterSets, generations, residencies>>

\* The second section of a warm reuse: the residency is still on the map, whatever
\* became of it, and it is the answer.
Reuse(c) ==
  /\ call[c].phase = "reuse"
  /\ call' = [call EXCEPT ![c].phase = "answered"]
  /\ UNCHANGED <<revisions, adapterSets, generations, residencies>>

\* The second section of a load: the revision is looked up again, the domain is
\* the one admit chose.  The residency is on record before the bytes are reserved;
\* a reservation that fails leaves it there.
Begin(c, reserved) ==
  LET request == call[c].request
      r       == revisions[Resolve(request)]
  IN
  /\ call[c].phase = "place"
  /\ Len(residencies) < MaxResidencies
  /\ residencies' = Append(residencies,
       [model |-> r.model, revision |-> r.revision, artifact |-> r.artifact,
        generation |-> r.generation, set |-> request.set, domain |-> call[c].domain,
        model_generation |-> CurrentGeneration(r.model), state |-> "loading",
        named |-> request.revision # Nil, wasReady |-> FALSE])
  /\ call' = [call EXCEPT ![c] =
       IF reserved THEN [phase |-> "loading", request |-> request, domain |-> Nil,
                         residency |-> Len(residencies) + 1]
       ELSE Failed]
  /\ UNCHANGED <<revisions, adapterSets, generations>>

\* The last section: the backend's answer is in.  A load that a rollover overtook
\* is given up.
Finish(c, loaded) ==
  LET i  == call[c].residency
      ok == loaded /\ generations[residencies[i].model] = residencies[i].model_generation
  IN
  /\ call[c].phase = "loading"
  /\ residencies' = [residencies EXCEPT ![i].state = IF ok THEN "ready" ELSE "gone",
                                        ![i].wasReady = ok]
  /\ call' = [call EXCEPT ![c] = IF ok THEN [@ EXCEPT !.phase = "answered"] ELSE Failed]
  /\ UNCHANGED <<revisions, adapterSets, generations>>

\* No room for the load, in admit or at the beginning of the second section.
NoRoom(c) ==
  /\ call[c].phase = "place"
  /\ call' = [call EXCEPT ![c] = Failed]
  /\ UNCHANGED <<revisions, adapterSets, generations, residencies>>

Return(c) ==
  /\ call[c].phase \in {"answered", "failed"}
  /\ call' = [call EXCEPT ![c] = Idle]
  /\ UNCHANGED <<revisions, adapterSets, generations, residencies>>

\* evict, invalidate, or the loss of the worker.
Evict(i) ==
  /\ residencies[i].state = "ready"
  /\ residencies' = [residencies EXCEPT ![i].state = "gone"]
  /\ UNCHANGED <<revisions, adapterSets, generations, call>>

Next ==
  \/ \E r \in Offered : DefineModel(r) \/ RollModelGeneration(r)
  \/ \E s \in OfferedSets : RegisterAdapterSet(s)
  \/ \E c \in Calls :
       \/ \E request \in Requests : Admit(c, request)
       \/ Reuse(c) \/ NoRoom(c) \/ Return(c)
       \/ \E ok \in BOOLEAN : Begin(c, ok) \/ Finish(c, ok)
  \/ \E i \in DOMAIN residencies : Evict(i)

Spec == Init /\ [][Next]_vars

-----------------------------------------------------------------------------
\* A load that names a revision brings the artifact and the generation that the
\* catalog gives for it, then and ever after: later registrations, under the same
\* ids too, never change what a residency on record is a copy of.
NamedLoadIsDefinition ==
  \A i \in DOMAIN residencies : residencies[i].named =>
    LET found == find(residencies[i].model, residencies[i].revision) IN
    /\ found # 0
    /\ residencies[i].artifact = revisions[found].artifact
    /\ residencies[i].generation = revisions[found].generation

\* What a restriction to one value (Unknown: none) and to a set (empty: none)
\* leave of all values.
Permitted(one, set, all) ==
  (IF one = Unknown THEN all ELSE {one}) \cap (IF set = {} THEN all ELSE set)

\* The domain a residency is on can run the revision it is of, and its adapters
\* are made for its model.
Fits(res) ==
  /\ \E j \in DOMAIN revisions : LET r == revisions[j] IN
       /\ r.model = res.model /\ r.revision = res.revision /\ r.artifact = res.artifact
       /\ res.domain \in {d \in DOMAIN Domains :
            /\ Domains[d].backend \in
                 Permitted(r.backend, r.backend_compat, {Domains[e].backend : e \in DOMAIN Domains})
            /\ Domains[d].capability \in
                 Permitted(r.capability, r.device_compat,
                           {Domains[e].capability : e \in DOMAIN Domains})}
  /\ res.set # Nil => \E s \in adapterSets : s.id = res.set /\ s.base_model = res.model

\* A load that names a revision never puts it on a domain that is incompatible
\* with it, although admit checks and the next section looks up again.
NamedLoadFits == \A i \in DOMAIN residencies : residencies[i].named => Fits(residencies[i])

\* The residency load reports is one of the model and the adapter set asked for,
\* and was ready, if not now then at some time before: the answer never names one
\* that is still loading or that failed to load.  It may be of another revision
\* than the one asked for (AnswerIsAsked), and gone by now (AnswerIsReady).
AnswerWasReady ==
  \A c \in Calls : call[c].phase = "answered" =>
    LET answer == residencies[call[c].residency] IN
    /\ answer.model = call[c].request.model /\ answer.set = call[c].request.set
    /\ answer.wasReady

\* The generation that a load without a revision resolves to never goes back.
LatestOnlyAdvances ==
  [][\A m \in Models :
       LET now == latest_revision(m) IN
       now # 0 => revisions'[latest_revision(m)'].generation >= revisions[now].generation]_vars

\* Every load, also one that takes the latest revision, fits where it is put.
EveryLoadFits == \A i \in DOMAIN residencies : Fits(residencies[i])

\* The residency load reports is of the revision it was asked for.
AnswerIsAsked ==
  \A c \in Calls :
    call[c].phase = "answered" /\ call[c].request.revision # Nil =>
      residencies[call[c].residency].revision = call[c].request.revision

\* The residency load reports is ready when it is reported.
AnswerIsReady ==
  \A c \in Calls : call[c].phase = "answered" => residencies[call[c].residency].state = "ready"

\* Adapters are attached to the revision they were made for.
AdaptersMatchRevision ==
  \A i \in DOMAIN residencies : residencies[i].set # Nil =>
    \E s \in adapterSets : s.id = residencies[i].set /\
      s.base_revision \in {Nil, residencies[i].revision}
=============================================================================
