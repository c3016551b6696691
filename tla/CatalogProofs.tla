---------------------------- MODULE CatalogProofs ----------------------------
(***************************************************************************)
(* What a load that names a revision brings, where it puts it, and what a  *)
(* load answers, for every number of models, revisions, adapter sets,      *)
(* domains and loads under way.                                            *)
(***************************************************************************)
EXTENDS Catalog, SequenceTheorems, WellFoundedInduction, TLAPS

ResidencyRecord ==
  [model : Models, revision : {r.revision : r \in Offered},
   artifact : {r.artifact : r \in Offered}, generation : Nat,
   set : {q.set : q \in Requests}, domain : DOMAIN Domains,
   model_generation : Nat, state : {"loading", "ready", "gone"},
   named : BOOLEAN, wasReady : BOOLEAN]

CallRecord ==
  [phase : {"idle", "failed", "reuse", "place", "loading", "answered"},
   request : Requests \cup {Idle.request}, domain : DOMAIN Domains \cup {Nil}, residency : Nat]

\* Every variable has its type.
TypeOK ==
  /\ revisions \in Seq(Offered)
  /\ generations \in [Models -> Nat]
  /\ residencies \in Seq(ResidencyRecord)
  /\ call \in [Calls -> CallRecord]

\* Every model that has a revision has a latest one.
LatestExists ==
  \A m \in Models :
    LET own == {i \in DOMAIN revisions : revisions[i].model = m} IN
    own # {} =>
      \E i \in own : \A j \in own : revisions[j].generation <= revisions[i].generation

\* The residency of a load in its last section is its own and still loading.
LoadsApart ==
  \A c \in Calls : call[c].phase = "loading" =>
    /\ call[c].residency \in DOMAIN residencies
    /\ residencies[call[c].residency].state = "loading"
    /\ \A d \in Calls \ {c} : call[d].phase = "loading" => call[d].residency # call[c].residency

\* Which residencies were ready at some time.
ReadinessKept ==
  \A i \in DOMAIN residencies :
    /\ residencies[i].state = "ready" => residencies[i].wasReady
    /\ residencies[i].state = "loading" => ~ residencies[i].wasReady

\* The residency of a load that reuses one, or that answers, was ready.
AnswersReady ==
  \A c \in Calls : call[c].phase \in {"reuse", "answered"} =>
    /\ call[c].residency \in DOMAIN residencies
    /\ residencies[call[c].residency].wasReady

\* The residency of a load is one of the model and the adapter set asked for.
AskedOf(ress, k) ==
  k.phase \in {"reuse", "loading", "answered"} =>
    /\ k.residency \in DOMAIN ress
    /\ ress[k.residency].model = k.request.model
    /\ ress[k.residency].set = k.request.set

AnswersAsked == \A c \in Calls : AskedOf(residencies, call[c])

\* What admit found out still holds in the next section, if the request names a
\* revision; a request that does not still finds one.
AdmitStands ==
  \A c \in Calls : call[c].phase = "place" =>
    /\ call[c].request \in Requests /\ call[c].domain \in DOMAIN Domains
    /\ Resolve(call[c].request) # 0
    /\ SetFits(call[c].request)
    /\ call[c].request.revision # Nil =>
         Compatible(revisions[Resolve(call[c].request)], call[c].domain)

\* The inductive invariant.
CatalogInv ==
  TypeOK /\ LatestExists /\ LoadsApart /\ ReadinessKept /\ AnswersReady /\ AnswersAsked
    /\ AdmitStands /\ NamedLoadIsDefinition /\ NamedLoadFits

-----------------------------------------------------------------------------
(* The operators.                                                          *)

\* A non-empty set of natural numbers has a least element, and Min is it.
LEMMA MinIsLeast ==
  ASSUME NEW S \in SUBSET Nat, S # {}
  PROVE  Min(S) \in S /\ \A y \in S : Min(S) <= y
<1> DEFINE less == {ss \in Nat \X Nat : ss[1] < ss[2]}
<1>1. IsWellFoundedOn(less, Nat)
  BY NatLessThanWellFounded DEF OpToRel
<1> HIDE DEF less
<1>2. \E x \in S : \A y \in S : ~ (<<y, x>> \in less)
  BY <1>1, WFMin
<1>3. \A x, y \in Nat : <<y, x>> \notin less => x <= y
  BY DEF less
<1>4. \E x \in S : \A y \in S : x <= y
  BY <1>2, <1>3
<1> QED BY <1>4 DEF Min

\* find and latest_revision, for a given catalog.
FindIn(revs, m, rev) ==
  LET own == {i \in DOMAIN revs : revs[i].model = m /\ revs[i].revision = rev}
  IN  IF own = {} THEN 0 ELSE Min(own)

LatestIn(revs, m) ==
  LET own  == {i \in DOMAIN revs : revs[i].model = m}
      best == {i \in own : \A j \in own : revs[j].generation <= revs[i].generation}
  IN  IF own = {} THEN 0 ELSE Min(best)

ResolveIn(revs, q) == IF q.revision = Nil THEN LatestIn(revs, q.model)
                      ELSE FindIn(revs, q.model, q.revision)

\* find returns the first revision registered under the ids.
LEMMA FindReturns ==
  ASSUME NEW revs \in Seq(Offered), NEW m, NEW rev
  PROVE  /\ FindIn(revs, m, rev) # 0 =>
              /\ FindIn(revs, m, rev) \in DOMAIN revs
              /\ revs[FindIn(revs, m, rev)].model = m
              /\ revs[FindIn(revs, m, rev)].revision = rev
         /\ \A i \in DOMAIN revs :
              revs[i].model = m /\ revs[i].revision = rev =>
                FindIn(revs, m, rev) # 0 /\ FindIn(revs, m, rev) <= i
<1> DEFINE own == {i \in DOMAIN revs : revs[i].model = m /\ revs[i].revision = rev}
<1>1. own \subseteq 1..Len(revs) /\ DOMAIN revs = 1..Len(revs) /\ Len(revs) \in Nat
  BY LenProperties
<1>2. own \in SUBSET Nat /\ \A i \in own : i # 0
  BY <1>1
<1>3. FindIn(revs, m, rev) = IF own = {} THEN 0 ELSE Min(own)
  BY DEF FindIn
<1>4. \A i : i \in own <=> i \in DOMAIN revs /\ revs[i].model = m /\ revs[i].revision = rev
  OBVIOUS
<1> HIDE DEF own
<1>5. own # {} => Min(own) \in own /\ \A i \in own : Min(own) <= i
  BY <1>2, MinIsLeast
<1> QED BY <1>2, <1>3, <1>4, <1>5

\* A later registration does not change what find returns.
LEMMA FindStays ==
  ASSUME NEW revs \in Seq(Offered), NEW r \in Offered, NEW m, NEW rev,
         FindIn(revs, m, rev) # 0
  PROVE  FindIn(Append(revs, r), m, rev) = FindIn(revs, m, rev)
<1> DEFINE more == Append(revs, r)
           f == FindIn(revs, m, rev)
           g == FindIn(more, m, rev)
<1>1. /\ more \in Seq(Offered) /\ Len(more) = Len(revs) + 1
      /\ \A i \in 1..Len(revs) : more[i] = revs[i]
  BY AppendProperties
<1>2. /\ DOMAIN revs = 1..Len(revs) /\ DOMAIN more = 1..(Len(revs) + 1) /\ Len(revs) \in Nat
  BY <1>1, LenProperties
<1>3. f \in DOMAIN revs /\ revs[f].model = m /\ revs[f].revision = rev
  BY FindReturns
<1> HIDE DEF more
<1>4. g # 0 /\ g <= f
  BY <1>1, <1>2, <1>3, FindReturns
<1>5. g \in DOMAIN more /\ more[g].model = m /\ more[g].revision = rev
  BY <1>1, <1>4, FindReturns
<1>6. g \in DOMAIN revs /\ revs[g].model = m /\ revs[g].revision = rev
  BY <1>1, <1>2, <1>3, <1>4, <1>5
<1>7. f <= g
  BY <1>6, FindReturns
<1>8. f = g
  BY <1>2, <1>3, <1>4, <1>6, <1>7
<1> QED BY <1>8 DEF more

\* The catalog's part of LatestExists.
HasLatest(revs, m) ==
  LET own == {i \in DOMAIN revs : revs[i].model = m} IN
  own # {} => \E i \in own : \A j \in own : revs[j].generation <= revs[i].generation

\* latest_revision returns a revision of the model, of the highest generation.
LEMMA LatestReturns ==
  ASSUME NEW revs \in Seq(Offered), NEW m, HasLatest(revs, m)
  PROVE  /\ LatestIn(revs, m) # 0 =>
              /\ LatestIn(revs, m) \in DOMAIN revs
              /\ revs[LatestIn(revs, m)].model = m
              /\ \A j \in DOMAIN revs : revs[j].model = m =>
                   revs[j].generation <= revs[LatestIn(revs, m)].generation
         /\ \A i \in DOMAIN revs : revs[i].model = m => LatestIn(revs, m) # 0
<1> DEFINE own == {i \in DOMAIN revs : revs[i].model = m}
           best == {i \in own : \A j \in own : revs[j].generation <= revs[i].generation}
<1>1. own \subseteq 1..Len(revs) /\ DOMAIN revs = 1..Len(revs) /\ Len(revs) \in Nat
  BY LenProperties
<1>2. own # {} => best # {}
  BY DEF HasLatest
<1>3. LatestIn(revs, m) = IF own = {} THEN 0 ELSE Min(best)
  BY DEF LatestIn
<1>4. /\ best \in SUBSET Nat /\ \A i \in best : i # 0
      /\ \A i : i \in own <=> i \in DOMAIN revs /\ revs[i].model = m
      /\ \A i \in best : i \in own /\ \A j \in own : revs[j].generation <= revs[i].generation
  BY <1>1
<1> HIDE DEF own, best
<1>5. own # {} => Min(best) \in best
  BY <1>2, <1>4, MinIsLeast
<1> QED BY <1>3, <1>4, <1>5

\* A registration leaves a latest revision: the new one or the one before.
LEMMA LatestStays ==
  ASSUME NEW revs \in Seq(Offered), NEW r \in Offered, NEW m, HasLatest(revs, m)
  PROVE  HasLatest(Append(revs, r), m)
<1> DEFINE more == Append(revs, r)
           n == Len(revs) + 1
           own == {i \in DOMAIN revs : revs[i].model = m}
           more_own == {i \in DOMAIN more : more[i].model = m}
<1>1. /\ more \in Seq(Offered) /\ Len(more) = n /\ more[n] = r
      /\ \A i \in 1..Len(revs) : more[i] = revs[i]
  BY AppendProperties
<1>2. DOMAIN revs = 1..Len(revs) /\ DOMAIN more = 1..n /\ Len(revs) \in Nat
  BY <1>1, LenProperties
<1>3. \A i \in DOMAIN revs : revs[i].generation \in Nat
  BY <1>2, ElementOfSeq, CatalogAssumption
<1>4. r.generation \in Nat
  BY CatalogAssumption
<1> SUFFICES ASSUME more_own # {}
             PROVE  \E i \in more_own : \A j \in more_own : more[j].generation <= more[i].generation
  BY DEF HasLatest
<1>5. CASE own = {}
  <2>1. more_own = {n}
    BY <1>1, <1>2, <1>5
  <2> QED BY <1>1, <1>4, <2>1
<1>6. CASE own # {}
  <2>1. PICK i \in own : \A j \in own : revs[j].generation <= revs[i].generation
    BY <1>6 DEF HasLatest
  <2>2. CASE r.model = m /\ r.generation > revs[i].generation
    <3>1. n \in more_own
      BY <1>1, <1>2, <2>2
    <3>2. \A j \in more_own : more[j].generation <= more[n].generation
      BY <1>1, <1>2, <1>3, <1>4, <2>1, <2>2
    <3> QED BY <3>1, <3>2
  <2>3. CASE ~ (r.model = m /\ r.generation > revs[i].generation)
    <3>1. i \in more_own
      BY <1>1, <1>2, <2>1
    <3>2. \A j \in more_own : more[j].generation <= more[i].generation
      BY <1>1, <1>2, <1>3, <1>4, <2>1, <2>3
    <3> QED BY <3>1, <3>2
  <2> QED BY <2>2, <2>3
<1> QED BY <1>5, <1>6

\* A catalog after a step: the same, or with one more revision.
Extended(revs, more) == more = revs \/ \E r \in Offered : more = Append(revs, r)

\* What was registered stays where it was, and can be found as before.
LEMMA ExtendedKeeps ==
  ASSUME NEW revs \in Seq(Offered), NEW more, Extended(revs, more)
  PROVE  /\ more \in Seq(Offered)
         /\ DOMAIN revs \subseteq DOMAIN more /\ \A i \in DOMAIN revs : more[i] = revs[i]
         /\ \A m, rev : FindIn(revs, m, rev) # 0 => FindIn(more, m, rev) = FindIn(revs, m, rev)
         /\ \A m : HasLatest(revs, m) => HasLatest(more, m)
         /\ \A m : HasLatest(revs, m) /\ LatestIn(revs, m) # 0 =>
              /\ LatestIn(more, m) # 0
              /\ revs[LatestIn(revs, m)].generation <= more[LatestIn(more, m)].generation
<1>1. CASE more = revs
  <2>1. ASSUME NEW m, HasLatest(revs, m), LatestIn(revs, m) # 0
        PROVE  revs[LatestIn(revs, m)].generation <= revs[LatestIn(revs, m)].generation
    BY <2>1, LatestReturns
  <2> QED BY <1>1, <2>1
<1>2. ASSUME NEW r \in Offered, more = Append(revs, r)
      PROVE  /\ more \in Seq(Offered)
             /\ DOMAIN revs \subseteq DOMAIN more /\ \A i \in DOMAIN revs : more[i] = revs[i]
             /\ \A m, rev : FindIn(revs, m, rev) # 0 => FindIn(more, m, rev) = FindIn(revs, m, rev)
             /\ \A m : HasLatest(revs, m) => HasLatest(more, m)
  <2>1. more \in Seq(Offered) /\ Len(more) = Len(revs) + 1 /\ \A i \in 1..Len(revs) : more[i] = revs[i]
    BY <1>2, AppendProperties
  <2>2. DOMAIN revs = 1..Len(revs) /\ DOMAIN more = 1..(Len(revs) + 1) /\ Len(revs) \in Nat
    BY <2>1, LenProperties
  <2>3. DOMAIN revs \subseteq DOMAIN more /\ \A i \in DOMAIN revs : more[i] = revs[i]
    BY <2>1, <2>2
  <2>4. \A m, rev : FindIn(revs, m, rev) # 0 => FindIn(more, m, rev) = FindIn(revs, m, rev)
    BY <1>2, FindStays
  <2>5. \A m : HasLatest(revs, m) => HasLatest(more, m)
    BY <1>2, LatestStays
  <2> QED BY <2>1, <2>3, <2>4, <2>5
<1>3. ASSUME NEW r \in Offered, more = Append(revs, r), NEW m, HasLatest(revs, m),
             LatestIn(revs, m) # 0
      PROVE  /\ LatestIn(more, m) # 0
             /\ revs[LatestIn(revs, m)].generation <= more[LatestIn(more, m)].generation
  <2>1. LatestIn(revs, m) \in DOMAIN revs /\ revs[LatestIn(revs, m)].model = m
    BY <1>3, LatestReturns
  <2>2. /\ HasLatest(more, m) /\ more \in Seq(Offered)
        /\ LatestIn(revs, m) \in DOMAIN more
        /\ more[LatestIn(revs, m)] = revs[LatestIn(revs, m)]
    BY <1>2, <1>3, <2>1
  <2>3. LatestIn(more, m) # 0
    BY <2>1, <2>2, LatestReturns
  <2> QED BY <2>1, <2>2, <2>3, LatestReturns
<1> QED BY <1>1, <1>2, <1>3 DEF Extended

\* What a request resolved to is a revision of the model it names, and of the
\* revision, if it names one; it goes on resolving, and to the same then.
LEMMA ResolveReturns ==
  ASSUME NEW revs \in Seq(Offered), \A m \in Models : HasLatest(revs, m), NEW q,
         ResolveIn(revs, q) # 0
  PROVE  /\ ResolveIn(revs, q) \in DOMAIN revs
         /\ revs[ResolveIn(revs, q)] \in Offered
         /\ revs[ResolveIn(revs, q)].model = q.model
         /\ q.revision # Nil => /\ revs[ResolveIn(revs, q)].revision = q.revision
                                /\ ResolveIn(revs, q) = FindIn(revs, q.model, q.revision)
<1>1. \A i \in DOMAIN revs : revs[i] \in Offered /\ revs[i].model \in Models
  BY LenProperties, ElementOfSeq, CatalogAssumption
<1>2. CASE q.revision = Nil
  <2>1. HasLatest(revs, q.model)
    <3>1. CASE q.model \in Models
      BY <3>1
    <3>2. CASE q.model \notin Models
      BY <1>1, <3>2 DEF HasLatest
    <3> QED BY <3>1, <3>2
  <2> QED BY <1>1, <1>2, <2>1, LatestReturns DEF ResolveIn
<1>3. CASE q.revision # Nil
  BY <1>1, <1>3, FindReturns DEF ResolveIn
<1> QED BY <1>2, <1>3

\* A request that resolved goes on resolving; to the same, if it names a revision.
LEMMA ResolveStays ==
  ASSUME NEW revs \in Seq(Offered), NEW more, Extended(revs, more),
         \A m \in Models : HasLatest(revs, m), NEW q, ResolveIn(revs, q) # 0
  PROVE  /\ ResolveIn(more, q) # 0
         /\ q.revision # Nil =>
              /\ ResolveIn(more, q) = ResolveIn(revs, q)
              /\ more[ResolveIn(more, q)] = revs[ResolveIn(revs, q)]
<1>1. /\ ResolveIn(revs, q) \in DOMAIN revs /\ revs[ResolveIn(revs, q)] \in Offered
      /\ revs[ResolveIn(revs, q)].model = q.model
  BY ResolveReturns
<1>2. q.model \in Models
  BY <1>1, CatalogAssumption
<1> QED BY <1>1, <1>2, ExtendedKeeps DEF ResolveIn

-----------------------------------------------------------------------------
(* A residency on record.                                                  *)

\* NamedLoadIsDefinition and NamedLoadFits for a given catalog.
DefinitionIn(revs, res) ==
  LET found == FindIn(revs, res.model, res.revision) IN
  /\ found # 0
  /\ res.artifact = revs[found].artifact
  /\ res.generation = revs[found].generation

Runs(r, d) ==
  /\ Domains[d].backend \in
       Permitted(r.backend, r.backend_compat, {Domains[e].backend : e \in DOMAIN Domains})
  /\ Domains[d].capability \in
       Permitted(r.capability, r.device_compat, {Domains[e].capability : e \in DOMAIN Domains})

FitsIn(revs, sets, res) ==
  /\ \E j \in DOMAIN revs :
       /\ revs[j].model = res.model /\ revs[j].revision = res.revision
       /\ revs[j].artifact = res.artifact
       /\ res.domain \in DOMAIN Domains /\ Runs(revs[j], res.domain)
  /\ res.set # Nil => \E s \in sets : s.id = res.set /\ s.base_model = res.model

NamedIn(revs, sets, all) ==
  \A i \in DOMAIN all : all[i].named => DefinitionIn(revs, all[i]) /\ FitsIn(revs, sets, all[i])

\* The two properties in one.
LEMMA NamedIs ==
  /\ NamedLoadIsDefinition /\ NamedLoadFits <=> NamedIn(revisions, adapterSets, residencies)
  /\ (NamedLoadIsDefinition /\ NamedLoadFits)' <=> NamedIn(revisions', adapterSets', residencies')
<1>1. ASSUME NEW res PROVE Fits(res) <=> FitsIn(revisions, adapterSets, res)
  BY DEF Fits, FitsIn, Runs
<1>2. ASSUME NEW res PROVE Fits(res)' <=> FitsIn(revisions', adapterSets', res)
  BY DEF Fits, FitsIn, Runs
<1> QED BY <1>1, <1>2 DEF NamedLoadIsDefinition, NamedLoadFits, NamedIn, find, FindIn, DefinitionIn

\* What compatible means: the backend and the device are among the permitted.
LEMMA CompatibleRuns ==
  ASSUME NEW r, NEW d \in DOMAIN Domains, Compatible(r, d)
  PROVE  Runs(r, d)
BY DEF Compatible, check_model_backend, check_model_device, Runs, Permitted

\* The part of a residency that its load decided once and for all.
SameCopy(a, b) ==
  /\ a.model = b.model /\ a.revision = b.revision /\ a.artifact = b.artifact
  /\ a.generation = b.generation /\ a.set = b.set /\ a.domain = b.domain /\ a.named = b.named

\* A residency on record stays what the catalog says it is.
LEMMA NamedStays ==
  ASSUME NEW revs \in Seq(Offered), NEW more, Extended(revs, more),
         NEW sets, NEW moreSets, sets \subseteq moreSets,
         NEW a, NEW b, SameCopy(a, b), DefinitionIn(revs, a), FitsIn(revs, sets, a)
  PROVE  DefinitionIn(more, b) /\ FitsIn(more, moreSets, b)
<1> DEFINE f == FindIn(revs, a.model, a.revision)
<1>1. /\ DOMAIN revs \subseteq DOMAIN more /\ \A i \in DOMAIN revs : more[i] = revs[i]
      /\ f # 0 => FindIn(more, a.model, a.revision) = f
  BY ExtendedKeeps
<1>2. f # 0 /\ f \in DOMAIN revs
  BY FindReturns DEF DefinitionIn
<1>3. DefinitionIn(more, b)
  BY <1>1, <1>2 DEF DefinitionIn, SameCopy
<1>4. FitsIn(more, moreSets, b)
  BY <1>1 DEF FitsIn, SameCopy
<1> QED BY <1>3, <1>4

-----------------------------------------------------------------------------
(* The shapes of the steps.                                                *)

\* AdmitStands for one load and a given catalog.
AdmitIn(revs, sets, k) ==
  k.phase = "place" =>
    /\ k.request \in Requests /\ k.domain \in DOMAIN Domains
    /\ ResolveIn(revs, k.request) # 0
    /\ k.request.set # Nil =>
         \E s \in sets : s.id = k.request.set /\ s.base_model = k.request.model
    /\ k.request.revision # Nil =>
         Compatible(revs[ResolveIn(revs, k.request)], k.domain)

\* AdmitStands, load by load, in a state and in the next.
LEMMA AdmitIs ==
  /\ AdmitStands <=> \A c \in Calls : AdmitIn(revisions, adapterSets, call[c])
  /\ AdmitStands' <=> \A c \in Calls : AdmitIn(revisions', adapterSets', call'[c])
BY DEF AdmitStands, AdmitIn, Resolve, ResolveIn, find, FindIn, latest_revision, LatestIn, SetFits

\* LatestExists, model by model, in a state and in the next.
LEMMA LatestIs ==
  /\ LatestExists <=> \A m \in Models : HasLatest(revisions, m)
  /\ LatestExists' <=> \A m \in Models : HasLatest(revisions', m)
BY DEF LatestExists, HasLatest

\* What admit found stands while the catalog grows.
LEMMA AdmitKept ==
  ASSUME NEW revs \in Seq(Offered), \A m \in Models : HasLatest(revs, m),
         NEW more, Extended(revs, more), NEW sets, NEW moreSets, sets \subseteq moreSets,
         NEW k, AdmitIn(revs, sets, k)
  PROVE  AdmitIn(more, moreSets, k)
BY ResolveStays DEF AdmitIn

\* A residency of which only the state changed, from ready to gone or not at all.
SameLoad(a, b) ==
  /\ SameCopy(a, b)
  /\ a.wasReady = b.wasReady
  /\ \/ b.state = a.state
     \/ a.state = "ready" /\ b.state = "gone"

\* The catalog grows, ready residencies are given up, no load moves on.
LEMMA CatalogStepInv ==
  ASSUME CatalogInv, Extended(revisions, revisions'), adapterSets \subseteq adapterSets',
         generations' \in [Models -> Nat], UNCHANGED call,
         residencies' \in Seq(ResidencyRecord), DOMAIN residencies' = DOMAIN residencies,
         \A i \in DOMAIN residencies : SameLoad(residencies[i], residencies'[i])
  PROVE  CatalogInv'
<1> USE DEF CatalogInv
<1>1. revisions \in Seq(Offered) /\ \A m \in Models : HasLatest(revisions, m)
  BY LatestIs DEF TypeOK
<1>2. TypeOK'
  BY <1>1, ExtendedKeeps DEF TypeOK
<1>3. LatestExists'
  BY <1>1, LatestIs, ExtendedKeeps
<1>4. LoadsApart'
  BY DEF LoadsApart, SameLoad
<1>5. ReadinessKept'
  BY DEF ReadinessKept, SameLoad
<1>6. AnswersReady'
  BY DEF AnswersReady, SameLoad
<1>7. AdmitStands'
  <2>1. \A c \in Calls : AdmitIn(revisions, adapterSets, call[c])
    BY AdmitIs
  <2>2. \A c \in Calls : AdmitIn(revisions', adapterSets', call[c])
    BY <1>1, <2>1, AdmitKept
  <2> QED BY <2>2, AdmitIs
<1>8. NamedIn(revisions', adapterSets', residencies')
  <2>1. NamedIn(revisions, adapterSets, residencies)
    BY NamedIs
  <2> SUFFICES ASSUME NEW i \in DOMAIN residencies, residencies'[i].named
               PROVE  /\ DefinitionIn(revisions', residencies'[i])
                      /\ FitsIn(revisions', adapterSets', residencies'[i])
    BY DEF NamedIn
  <2>2. SameCopy(residencies[i], residencies'[i])
    BY DEF SameLoad
  <2>3. DefinitionIn(revisions, residencies[i]) /\ FitsIn(revisions, adapterSets, residencies[i])
    BY <2>1, <2>2 DEF NamedIn, SameCopy
  <2> QED BY <1>1, <2>2, <2>3, NamedStays
<1>9. AnswersAsked'
  BY DEF AnswersAsked, AskedOf, SameLoad, SameCopy
<1> QED BY <1>2, <1>3, <1>4, <1>5, <1>6, <1>7, <1>8, <1>9, NamedIs

\* A load moves on and nothing else changes.
LEMMA CallStepInv ==
  ASSUME CatalogInv, NEW c \in Calls, NEW k \in CallRecord, k.phase # "loading",
         call' = [call EXCEPT ![c] = k], AdmitIn(revisions, adapterSets, k),
         AskedOf(residencies, k),
         k.phase \in {"reuse", "answered"} =>
           k.residency \in DOMAIN residencies /\ residencies[k.residency].wasReady,
         UNCHANGED <<revisions, adapterSets, generations, residencies>>
  PROVE  CatalogInv'
<1> USE DEF CatalogInv
<1>1. call'[c] = k /\ \A d \in Calls : d # c => call'[d] = call[d]
  BY DEF TypeOK
<1>2. TypeOK'
  BY DEF TypeOK
<1>3. LatestExists'
  BY DEF LatestExists
<1>4. LoadsApart'
  BY <1>1 DEF LoadsApart
<1>5. ReadinessKept'
  BY DEF ReadinessKept
<1>6. AnswersReady'
  BY <1>1 DEF AnswersReady
<1>7. AdmitStands'
  BY <1>1, AdmitIs
<1>8. NamedIn(revisions', adapterSets', residencies')
  BY NamedIs
<1>9. AnswersAsked'
  BY <1>1 DEF AnswersAsked, AskedOf
<1> QED BY <1>2, <1>3, <1>4, <1>5, <1>6, <1>7, <1>8, <1>9, NamedIs

-----------------------------------------------------------------------------
(* One lemma for each group of actions.                                    *)

\* Residencies on record have their fields.
LEMMA ResidenciesTyped ==
  ASSUME TypeOK
  PROVE  /\ DOMAIN residencies = 1..Len(residencies) /\ Len(residencies) \in Nat
         /\ \A i \in DOMAIN residencies : residencies[i] \in ResidencyRecord
BY LenProperties, ElementOfSeq DEF TypeOK

\* A residency is its own copy.
LEMMA SameLoadItself ==
  ASSUME NEW a
  PROVE  SameLoad(a, a)
BY DEF SameLoad, SameCopy

\* define_model and register_adapter_set.
LEMMA DefineInv ==
  ASSUME CatalogInv, \/ \E r \in Offered : DefineModel(r)
                     \/ \E s \in OfferedSets : RegisterAdapterSet(s)
  PROVE  CatalogInv'
<1>1. Extended(revisions, revisions') /\ adapterSets \subseteq adapterSets'
  BY DEF DefineModel, RegisterAdapterSet, Extended, Registered
<1>2. generations' \in [Models -> Nat]
  <2>1. generations \in [Models -> Nat]
    BY DEF CatalogInv, TypeOK
  <2>2. ASSUME NEW r \in Offered, DefineModel(r) PROVE generations' \in [Models -> Nat]
    <3>1. PICK n \in Nat : generations' = [generations EXCEPT ![r.model] = n]
      <4>1. r.model \in Models
        BY CatalogAssumption
      <4> QED BY <2>1, <2>2, <4>1 DEF DefineModel
    <3> QED BY <2>1, <3>1
  <2>3. CASE \E s \in OfferedSets : RegisterAdapterSet(s)
    BY <2>1, <2>3 DEF RegisterAdapterSet
  <2> QED BY <2>2, <2>3
<1>3. UNCHANGED <<call, residencies>>
  BY DEF DefineModel, RegisterAdapterSet
<1>4. /\ residencies' \in Seq(ResidencyRecord) /\ DOMAIN residencies' = DOMAIN residencies
      /\ \A i \in DOMAIN residencies : SameLoad(residencies[i], residencies'[i])
  BY <1>3, SameLoadItself DEF CatalogInv, TypeOK
<1> QED BY <1>1, <1>2, <1>3, <1>4, CatalogStepInv

\* roll_model_generation.
LEMMA RollInv ==
  ASSUME CatalogInv, NEW r \in Offered, RollModelGeneration(r)
  PROVE  CatalogInv'
<1>1. Extended(revisions, revisions') /\ adapterSets \subseteq adapterSets' /\ UNCHANGED call
  BY DEF RollModelGeneration, Extended, Registered
<1>2. generations' \in [Models -> Nat]
  BY CatalogAssumption DEF RollModelGeneration, CatalogInv, TypeOK
<1>3. /\ DOMAIN residencies = 1..Len(residencies) /\ Len(residencies) \in Nat
      /\ \A i \in DOMAIN residencies : residencies[i] \in ResidencyRecord
  BY ResidenciesTyped DEF CatalogInv
<1>4. /\ DOMAIN residencies' = DOMAIN residencies
      /\ \A i \in DOMAIN residencies :
           residencies'[i] = IF residencies[i].model = r.model /\ residencies[i].state = "ready"
                             THEN [residencies[i] EXCEPT !.state = "gone"] ELSE residencies[i]
  BY DEF RollModelGeneration
<1>5. ASSUME NEW i \in DOMAIN residencies
      PROVE  /\ residencies'[i] \in ResidencyRecord
             /\ SameLoad(residencies[i], residencies'[i])
  <2>1. CASE residencies[i].model = r.model /\ residencies[i].state = "ready"
    <3>1. residencies'[i] = [residencies[i] EXCEPT !.state = "gone"]
      BY <1>4, <2>1
    <3> QED BY <1>3, <2>1, <3>1 DEF ResidencyRecord, SameLoad, SameCopy
  <2>2. CASE ~ (residencies[i].model = r.model /\ residencies[i].state = "ready")
    BY <1>3, <1>4, <2>2, SameLoadItself
  <2> QED BY <2>1, <2>2
<1>6. residencies' \in [1..Len(residencies) -> ResidencyRecord]
  BY <1>3, <1>4, <1>5 DEF RollModelGeneration
<1>7. residencies' \in Seq(ResidencyRecord)
  BY <1>3, <1>6
<1> QED BY <1>1, <1>2, <1>4, <1>5, <1>7, CatalogStepInv

\* evict, invalidate and the loss of a worker.
LEMMA EvictInv ==
  ASSUME CatalogInv, NEW i \in DOMAIN residencies, Evict(i)
  PROVE  CatalogInv'
<1> DEFINE gone == [residencies[i] EXCEPT !.state = "gone"]
<1>1. /\ DOMAIN residencies = 1..Len(residencies) /\ residencies \in Seq(ResidencyRecord)
      /\ residencies[i] \in ResidencyRecord
  BY ResidenciesTyped DEF CatalogInv, TypeOK
<1>2. gone \in ResidencyRecord /\ SameLoad(residencies[i], gone)
  BY <1>1 DEF ResidencyRecord, SameLoad, SameCopy, Evict
<1>3. residencies' = [residencies EXCEPT ![i] = gone]
  BY DEF Evict
<1> HIDE DEF gone
<1>4. /\ residencies' \in Seq(ResidencyRecord) /\ DOMAIN residencies' = DOMAIN residencies
      /\ \A j \in DOMAIN residencies : SameLoad(residencies[j], residencies'[j])
  BY <1>1, <1>2, <1>3, ExceptSeq, SameLoadItself
<1>5. /\ Extended(revisions, revisions') /\ adapterSets \subseteq adapterSets' /\ UNCHANGED call
      /\ generations' \in [Models -> Nat]
  BY DEF Evict, Extended, CatalogInv, TypeOK
<1> QED BY <1>4, <1>5, CatalogStepInv

\* Idle calls and failed ones.
LEMMA OverType == Idle \in CallRecord /\ Failed \in CallRecord
                  /\ Idle.phase = "idle" /\ Failed.phase = "failed"
BY DEF Idle, Failed, CallRecord

\* admit.
LEMMA AdmitInv ==
  ASSUME CatalogInv, NEW c \in Calls, NEW q \in Requests, Admit(c, q)
  PROVE  CatalogInv'
<1>1. UNCHANGED <<revisions, adapterSets, generations, residencies>>
  BY DEF Admit
<1>2. Resolve(q) = ResolveIn(revisions, q)
  BY DEF Resolve, ResolveIn, find, FindIn, latest_revision, LatestIn
<1>3. CASE call' = [call EXCEPT ![c] = Failed]
  BY <1>1, <1>3, OverType, CallStepInv DEF AdmitIn, AskedOf
<1>4. ASSUME NEW i \in DOMAIN residencies, Reusable(q, i),
             call' = [call EXCEPT ![c] = [phase |-> "reuse", request |-> q, domain |-> Nil,
                                          residency |-> i]]
      PROVE  CatalogInv'
  <2> DEFINE k == [phase |-> "reuse", request |-> q, domain |-> Nil, residency |-> i]
  <2>1. residencies[i].wasReady /\ i \in Nat
    BY <1>4, ResidenciesTyped DEF Reusable, CatalogInv, ReadinessKept
  <2>2. k \in CallRecord /\ k.phase = "reuse" /\ k.residency = i /\ k.request = q
    BY <2>1 DEF CallRecord
  <2> HIDE DEF k
  <2>3. call' = [call EXCEPT ![c] = k]
    BY <1>4 DEF k
  <2>4. AskedOf(residencies, k)
    BY <1>4, <2>2 DEF AskedOf, Reusable
  <2> QED BY <1>1, <2>1, <2>2, <2>3, <2>4, CallStepInv DEF AdmitIn
<1>5. ASSUME NEW d \in DOMAIN Domains, Resolve(q) # 0, SetFits(q),
             Compatible(revisions[Resolve(q)], d),
             call' = [call EXCEPT ![c] = [phase |-> "place", request |-> q, domain |-> d,
                                          residency |-> 0]]
      PROVE  CatalogInv'
  <2> DEFINE k == [phase |-> "place", request |-> q, domain |-> d, residency |-> 0]
  <2>1. k \in CallRecord /\ k.phase = "place" /\ k.request = q /\ k.domain = d
    BY DEF CallRecord
  <2> HIDE DEF k
  <2>2. call' = [call EXCEPT ![c] = k]
    BY <1>5 DEF k
  <2>3. AdmitIn(revisions, adapterSets, k)
    BY <1>2, <1>5, <2>1 DEF AdmitIn, SetFits
  <2> QED BY <1>1, <2>1, <2>2, <2>3, CallStepInv DEF AskedOf
<1> QED BY <1>3, <1>4, <1>5 DEF Admit

\* The other steps of a load that change nothing but the load.
LEMMA MoveOnInv ==
  ASSUME CatalogInv, NEW c \in Calls, Reuse(c) \/ NoRoom(c) \/ Return(c)
  PROVE  CatalogInv'
<1>1. UNCHANGED <<revisions, adapterSets, generations, residencies>>
  BY DEF Reuse, NoRoom, Return
<1>2. CASE Reuse(c)
  <2> DEFINE k == [call[c] EXCEPT !.phase = "answered"]
  <2>1. /\ k \in CallRecord /\ k.phase = "answered"
        /\ k.residency = call[c].residency /\ k.request = call[c].request
    BY DEF CatalogInv, TypeOK, CallRecord
  <2>2. call' = [call EXCEPT ![c] = k]
    BY <1>2 DEF Reuse, CatalogInv, TypeOK
  <2> HIDE DEF k
  <2>3. call[c].residency \in DOMAIN residencies /\ residencies[call[c].residency].wasReady
    BY <1>2 DEF Reuse, CatalogInv, AnswersReady
  <2>4. AskedOf(residencies, k)
    BY <1>2, <2>1 DEF Reuse, CatalogInv, AnswersAsked, AskedOf
  <2> QED BY <1>1, <2>1, <2>2, <2>3, <2>4, CallStepInv DEF AdmitIn
<1>3. CASE NoRoom(c) \/ Return(c)
  BY <1>1, <1>3, OverType, CallStepInv DEF NoRoom, Return, AdmitIn, AskedOf
<1> QED BY <1>2, <1>3

\* The last section of a load.
LEMMA FinishInv ==
  ASSUME CatalogInv, NEW c \in Calls, NEW loaded \in BOOLEAN, Finish(c, loaded)
  PROVE  CatalogInv'
<1> USE DEF CatalogInv
<1> DEFINE i == call[c].residency
           ok == loaded /\ generations[residencies[i].model] = residencies[i].model_generation
           res == [residencies[i] EXCEPT !.state = IF ok THEN "ready" ELSE "gone", !.wasReady = ok]
           k == IF ok THEN [call[c] EXCEPT !.phase = "answered"] ELSE Failed
<1>1. /\ DOMAIN residencies = 1..Len(residencies) /\ Len(residencies) \in Nat
      /\ residencies \in Seq(ResidencyRecord) /\ \A j \in DOMAIN residencies :
           residencies[j] \in ResidencyRecord
  BY ResidenciesTyped DEF TypeOK
<1>2. /\ call[c].phase = "loading" /\ i \in DOMAIN residencies
      /\ residencies[i].state = "loading" /\ ~ residencies[i].wasReady
      /\ \A d \in Calls \ {c} : call[d].phase = "loading" => call[d].residency # i
  BY DEF Finish, LoadsApart, ReadinessKept
<1>3. ok \in BOOLEAN
  OBVIOUS
<1>4. /\ res \in ResidencyRecord /\ res.wasReady = ok /\ SameCopy(residencies[i], res)
      /\ res.state = IF ok THEN "ready" ELSE "gone"
  <2>1. residencies[i] \in ResidencyRecord
    BY <1>1, <1>2
  <2> HIDE DEF ok
  <2>2. CASE ok = TRUE
    <3>1. res = [residencies[i] EXCEPT !.state = "ready", !.wasReady = TRUE]
      BY <2>2
    <3> QED BY <2>1, <2>2, <3>1 DEF ResidencyRecord, SameCopy
  <2>3. CASE ok = FALSE
    <3>1. res = [residencies[i] EXCEPT !.state = "gone", !.wasReady = FALSE]
      BY <2>3
    <3> QED BY <2>1, <2>3, <3>1 DEF ResidencyRecord, SameCopy
  <2> QED BY <1>3, <2>2, <2>3
<1>5. residencies' = [residencies EXCEPT ![i] = res]
  BY <1>1, <1>2 DEF Finish
<1>6. /\ k \in CallRecord /\ (~ ok => k = Failed)
      /\ ok => k.phase = "answered" /\ k.residency = i /\ k.request = call[c].request
  BY OverType DEF TypeOK, CallRecord
<1>7. call' = [call EXCEPT ![c] = k] /\ UNCHANGED <<revisions, adapterSets, generations>>
  BY DEF Finish
<1>8. k.phase \in {"answered", "failed"}
  BY <1>6, OverType
<1> HIDE DEF ok, res, k
<1>9. /\ residencies' \in Seq(ResidencyRecord) /\ DOMAIN residencies' = DOMAIN residencies
      /\ residencies'[i] = res /\ \A j \in DOMAIN residencies : j # i => residencies'[j] = residencies[j]
  BY <1>1, <1>2, <1>4, <1>5, ExceptSeq
<1>10. call'[c] = k /\ \A d \in Calls : d # c => call'[d] = call[d]
  BY <1>7 DEF TypeOK
<1>11. TypeOK'
  BY <1>6, <1>7, <1>9 DEF TypeOK
<1>12. LatestExists'
  BY <1>7 DEF LatestExists
<1>13. LoadsApart'
  BY <1>2, <1>8, <1>9, <1>10 DEF LoadsApart
<1>14. ReadinessKept'
  BY <1>4, <1>9 DEF ReadinessKept
<1>15. AnswersReady'
  BY <1>2, <1>4, <1>6, <1>8, <1>9, <1>10, OverType DEF AnswersReady
<1>16. AdmitStands'
  BY <1>7, <1>8, <1>10, AdmitIs DEF AdmitIn
<1>17. NamedIn(revisions', adapterSets', residencies')
  <2>1. NamedIn(revisions, adapterSets, residencies)
    BY NamedIs
  <2>2. \A j \in DOMAIN residencies : SameCopy(residencies[j], residencies'[j])
    BY <1>4, <1>9 DEF SameCopy
  <2> SUFFICES ASSUME NEW j \in DOMAIN residencies, residencies'[j].named
               PROVE  /\ DefinitionIn(revisions', residencies'[j])
                      /\ FitsIn(revisions', adapterSets', residencies'[j])
    BY <1>9 DEF NamedIn
  <2>3. DefinitionIn(revisions, residencies[j]) /\ FitsIn(revisions, adapterSets, residencies[j])
    BY <2>1, <2>2 DEF NamedIn, SameCopy
  <2>4. Extended(revisions, revisions') /\ adapterSets \subseteq adapterSets'
        /\ revisions \in Seq(Offered)
    BY <1>7 DEF Extended, TypeOK
  <2> QED BY <2>2, <2>3, <2>4, NamedStays
<1>18. AnswersAsked'
  <2>1. \A j \in DOMAIN residencies : SameCopy(residencies[j], residencies'[j])
    BY <1>4, <1>9 DEF SameCopy
  <2>2. AskedOf(residencies, call[c])
    BY DEF AnswersAsked
  <2>3. AskedOf(residencies', k)
    BY <1>2, <1>6, <1>8, <1>9, <2>1, <2>2, OverType DEF AskedOf, SameCopy
  <2>4. \A d \in Calls : d # c => AskedOf(residencies', call[d])
    BY <1>9, <2>1 DEF AnswersAsked, AskedOf, SameCopy
  <2> QED BY <1>10, <2>3, <2>4 DEF AnswersAsked
<1> QED BY <1>11, <1>12, <1>13, <1>14, <1>15, <1>16, <1>17, <1>18, NamedIs

\* The second section of a load: the new residency is what the catalog says.
LEMMA BeginInv ==
  ASSUME CatalogInv, NEW c \in Calls, NEW reserved \in BOOLEAN, Begin(c, reserved)
  PROVE  CatalogInv'
<1> USE DEF CatalogInv
<1> DEFINE q == call[c].request
           r == revisions[Resolve(q)]
           n == Len(residencies) + 1
           res == [model |-> r.model, revision |-> r.revision, artifact |-> r.artifact,
                   generation |-> r.generation, set |-> q.set, domain |-> call[c].domain,
                   model_generation |-> CurrentGeneration(r.model), state |-> "loading",
                   named |-> q.revision # Nil, wasReady |-> FALSE]
           k == IF reserved THEN [phase |-> "loading", request |-> q, domain |-> Nil, residency |-> n]
                ELSE Failed
<1>1. /\ DOMAIN residencies = 1..Len(residencies) /\ Len(residencies) \in Nat
      /\ residencies \in Seq(ResidencyRecord)
  BY ResidenciesTyped DEF TypeOK
<1>2. revisions \in Seq(Offered) /\ \A m \in Models : HasLatest(revisions, m)
  BY LatestIs DEF TypeOK
<1>3. Resolve(q) = ResolveIn(revisions, q)
  BY DEF Resolve, ResolveIn, find, FindIn, latest_revision, LatestIn
<1>4. /\ call[c].phase = "place" /\ residencies' = Append(residencies, res)
      /\ call' = [call EXCEPT ![c] = k] /\ UNCHANGED <<revisions, adapterSets, generations>>
  BY DEF Begin
<1>5. AdmitIn(revisions, adapterSets, call[c])
  BY AdmitIs
<1>6. q \in Requests /\ call[c].domain \in DOMAIN Domains /\ ResolveIn(revisions, q) # 0
  BY <1>4, <1>5 DEF AdmitIn
<1>7. /\ ResolveIn(revisions, q) \in DOMAIN revisions /\ r \in Offered /\ r.model = q.model
      /\ q.revision # Nil => /\ r.revision = q.revision
                             /\ ResolveIn(revisions, q) = FindIn(revisions, q.model, q.revision)
  BY <1>2, <1>3, <1>6, ResolveReturns
<1>8. r.model \in Models /\ r.generation \in Nat
  BY <1>7, CatalogAssumption
<1>9. CurrentGeneration(r.model) \in Nat
  BY <1>8 DEF CurrentGeneration, TypeOK
<1>10. q.revision # Nil => DefinitionIn(revisions, res) /\ FitsIn(revisions, adapterSets, res)
  <2> SUFFICES ASSUME q.revision # Nil
               PROVE  DefinitionIn(revisions, res) /\ FitsIn(revisions, adapterSets, res)
    OBVIOUS
  <2>1. Runs(r, call[c].domain)
    BY <1>3, <1>4, <1>5, <1>6, CompatibleRuns DEF AdmitIn
  <2>2. q.set # Nil => \E s \in adapterSets : s.id = q.set /\ s.base_model = q.model
    BY <1>4, <1>5 DEF AdmitIn
  <2>3. /\ res.model = q.model /\ res.revision = q.revision /\ res.artifact = r.artifact
        /\ res.generation = r.generation /\ res.set = q.set /\ res.domain = call[c].domain
    BY <1>7
  <2> HIDE DEF res
  <2>4. DefinitionIn(revisions, res)
    BY <1>3, <1>6, <1>7, <2>3 DEF DefinitionIn
  <2>5. FitsIn(revisions, adapterSets, res)
    BY <1>3, <1>6, <1>7, <2>1, <2>2, <2>3 DEF FitsIn
  <2> QED BY <2>4, <2>5
<1>11. /\ res \in ResidencyRecord /\ res.state = "loading" /\ res.wasReady = FALSE
       /\ res.named = (q.revision # Nil) /\ res.model = q.model /\ res.set = q.set
  <2>1. r.revision \in {x.revision : x \in Offered} /\ r.artifact \in {x.artifact : x \in Offered}
    BY <1>7
  <2>2. q.set \in {x.set : x \in Requests}
    BY <1>6
  <2> HIDE DEF q, r
  <2> QED BY <1>6, <1>7, <1>8, <1>9, <2>1, <2>2 DEF ResidencyRecord, q
<1>12. /\ k \in CallRecord /\ k.phase \in {"loading", "failed"}
       /\ k.phase = "loading" => k.residency = n /\ k.request = q
  BY <1>1, <1>6, OverType DEF CallRecord
<1> HIDE DEF res, k, r
<1>13. /\ residencies' \in Seq(ResidencyRecord) /\ Len(residencies') = n /\ residencies'[n] = res
       /\ \A i \in 1..Len(residencies) : residencies'[i] = residencies[i]
  BY <1>1, <1>4, <1>11, AppendProperties
<1>14. DOMAIN residencies' = 1..n
  BY <1>13, LenProperties
<1>15. call'[c] = k /\ \A d \in Calls : d # c => call'[d] = call[d]
  BY <1>4 DEF TypeOK
<1>16. TypeOK'
  BY <1>4, <1>12, <1>13 DEF TypeOK
<1>17. LatestExists'
  BY <1>4 DEF LatestExists
<1>18. LoadsApart'
  BY <1>1, <1>11, <1>12, <1>13, <1>14, <1>15 DEF LoadsApart
<1>19. ReadinessKept'
  BY <1>1, <1>11, <1>13, <1>14 DEF ReadinessKept
<1>20. AnswersReady'
  BY <1>1, <1>12, <1>13, <1>14, <1>15 DEF AnswersReady
<1>21. AdmitStands'
  BY <1>4, <1>12, <1>15, AdmitIs DEF AdmitIn
<1>22. NamedIn(revisions', adapterSets', residencies')
  <2>1. NamedIn(revisions, adapterSets, residencies)
    BY NamedIs
  <2> SUFFICES ASSUME NEW i \in 1..n, residencies'[i].named
               PROVE  /\ DefinitionIn(revisions, residencies'[i])
                      /\ FitsIn(revisions, adapterSets, residencies'[i])
    BY <1>4, <1>14 DEF NamedIn
  <2>2. CASE i = n
    <3>1. residencies'[i] = res
      BY <1>13, <2>2
    <3> QED BY <1>10, <1>11, <3>1
  <2>3. CASE i # n
    <3>1. i \in DOMAIN residencies /\ residencies'[i] = residencies[i]
      BY <1>1, <1>13, <2>3
    <3> QED BY <2>1, <3>1 DEF NamedIn
  <2> QED BY <2>2, <2>3
<1>23. AnswersAsked'
  <2>1. AskedOf(residencies', k)
    BY <1>1, <1>11, <1>12, <1>13, <1>14 DEF AskedOf
  <2>2. \A d \in Calls : d # c => AskedOf(residencies', call[d])
    BY <1>1, <1>13, <1>14 DEF AnswersAsked, AskedOf
  <2> QED BY <1>15, <2>1, <2>2 DEF AnswersAsked
<1> QED BY <1>16, <1>17, <1>18, <1>19, <1>20, <1>21, <1>22, <1>23, NamedIs

-----------------------------------------------------------------------------
(* The theorems.                                                           *)

\* Every step keeps the invariant.
LEMMA NextInv ==
  ASSUME CatalogInv, [Next]_vars
  PROVE  CatalogInv'
<1>1. CASE UNCHANGED vars
  <2>1. /\ Extended(revisions, revisions') /\ adapterSets \subseteq adapterSets'
        /\ generations' \in [Models -> Nat] /\ UNCHANGED <<call, residencies>>
    BY <1>1 DEF vars, Extended, CatalogInv, TypeOK
  <2>2. /\ residencies' \in Seq(ResidencyRecord) /\ DOMAIN residencies' = DOMAIN residencies
        /\ \A i \in DOMAIN residencies : SameLoad(residencies[i], residencies'[i])
    BY <2>1, SameLoadItself DEF CatalogInv, TypeOK
  <2> QED BY <2>1, <2>2, CatalogStepInv
<1>2. CASE Next
  BY <1>2, DefineInv, RollInv, EvictInv, AdmitInv, MoveOnInv, BeginInv, FinishInv DEF Next
<1> QED BY <1>1, <1>2

\* An empty catalog.
LEMMA InitInv == Init => CatalogInv
<1> SUFFICES ASSUME Init PROVE CatalogInv
  OBVIOUS
<1>1. /\ revisions = << >> /\ residencies = << >> /\ DOMAIN revisions = {} /\ DOMAIN residencies = {}
      /\ \A c \in Calls : call[c] = Idle
  BY DEF Init
<1>2. TypeOK
  BY <1>1, OverType, EmptySeq DEF Init, TypeOK
<1>3. LatestExists /\ LoadsApart /\ ReadinessKept /\ AnswersReady /\ AnswersAsked /\ AdmitStands
  BY <1>1, OverType
     DEF LatestExists, LoadsApart, ReadinessKept, AnswersReady, AnswersAsked, AskedOf, AdmitStands
<1>4. NamedLoadIsDefinition /\ NamedLoadFits
  BY <1>1 DEF NamedLoadIsDefinition, NamedLoadFits
<1> QED BY <1>2, <1>3, <1>4 DEF CatalogInv

\* The invariant, at all times.
THEOREM CatalogInvAlways == Spec => []CatalogInv
<1> QED BY InitInv, NextInv, PTL DEF Spec

\* A load that names a revision brings what the catalog says for it, then and ever
\* after: although admit and the next section look the revision up separately,
\* find (src/src/model.cpp) returns the first that was registered and
\* registrations only append.
THEOREM NamedLoadIsDefinitionTheorem == Spec => []NamedLoadIsDefinition
<1>1. CatalogInv => NamedLoadIsDefinition
  BY DEF CatalogInv
<1> QED BY <1>1, CatalogInvAlways, PTL

\* A load that names a revision never ends up on a domain that is incompatible
\* with it, nor with adapters of another model (src/src/compatibility.cpp), for
\* every catalog, every set of domains and every interleaving.
THEOREM NamedLoadFitsTheorem == Spec => []NamedLoadFits
<1>1. CatalogInv => NamedLoadFits
  BY DEF CatalogInv
<1> QED BY <1>1, CatalogInvAlways, PTL

\* The residency load answers with is one of the model and the adapter set asked
\* for, and was ready at some time: the second section of a warm reuse does not
\* look at it again, but a load never marks a residency that is not its own, and
\* a residency keeps its model and adapters (Coordinator::load).
THEOREM AnswerWasReadyTheorem == Spec => []AnswerWasReady
<1>1. CatalogInv => AnswerWasReady
  BY DEF CatalogInv, AnswersReady, AnswersAsked, AskedOf, AnswerWasReady
<1> QED BY <1>1, CatalogInvAlways, PTL

\* The generation a load without a revision resolves to never goes back:
\* latest_revision (src/src/model.cpp) takes the highest of a catalog that only
\* grows.
THEOREM LatestOnlyAdvancesTheorem == Spec => LatestOnlyAdvances
<1> DEFINE A == \A m \in Models :
                  LET now == latest_revision(m) IN
                  now # 0 =>
                    revisions'[latest_revision(m)'].generation >= revisions[now].generation
<1>1. CatalogInv /\ [Next]_vars => [A]_vars
  <2> SUFFICES ASSUME CatalogInv, [Next]_vars, NEW m \in Models, LatestIn(revisions, m) # 0
               PROVE  revisions'[LatestIn(revisions', m)].generation
                        >= revisions[LatestIn(revisions, m)].generation
    BY DEF latest_revision, LatestIn
  <2>1. Extended(revisions, revisions')
    BY DEF Next, vars, Extended, DefineModel, RollModelGeneration, RegisterAdapterSet, Admit,
      Reuse, NoRoom, Return, Begin, Finish, Evict, Registered
  <2>2. revisions \in Seq(Offered) /\ HasLatest(revisions, m)
    BY LatestIs DEF CatalogInv, TypeOK
  <2>3. /\ revisions' \in Seq(Offered) /\ HasLatest(revisions', m) /\ LatestIn(revisions', m) # 0
        /\ revisions[LatestIn(revisions, m)].generation
             <= revisions'[LatestIn(revisions', m)].generation
    BY <2>1, <2>2, ExtendedKeeps
  <2>4. /\ LatestIn(revisions, m) \in DOMAIN revisions
        /\ LatestIn(revisions', m) \in DOMAIN revisions'
    BY <2>2, <2>3, LatestReturns
  <2>5. /\ revisions[LatestIn(revisions, m)].generation \in Nat
        /\ revisions'[LatestIn(revisions', m)].generation \in Nat
    BY <2>2, <2>3, <2>4, LenProperties, ElementOfSeq, CatalogAssumption
  <2> QED BY <2>3, <2>5
<1> QED BY <1>1, CatalogInvAlways, PTL DEF Spec, LatestOnlyAdvances
=============================================================================
