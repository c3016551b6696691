----------------------------- MODULE MCCatalog -----------------------------
(***************************************************************************)
(* Catalog for TLC: a model with revisions that differ in artifact,        *)
(* generation and where they can run, one of them registered under the ids *)
(* of another, and a second model whose artifact conflicts with one of     *)
(* them; an adapter set for the first model's first revision and one for   *)
(* the second model.                                                       *)
(***************************************************************************)
EXTENDS Catalog

CONSTANTS m1, m2, r1, r2, a1, a2, a3, s1, s2, cuda, cpu, sm120, sm90, d1, d2

Revision(m, rev, artifact, generation, backend, backends, cap, caps) ==
  [model |-> m, revision |-> rev, artifact |-> artifact, generation |-> generation,
   shards |-> << >>, required_memory |-> 1, backend |-> backend, backend_compat |-> backends,
   capability |-> cap, device_compat |-> caps]

MCOffered ==
  {Revision(m1, r1, a1, 1, Unknown, {cuda, cpu}, sm120, {}),
   Revision(m1, r2, a2, 2, cpu, {}, Unknown, {sm90}),
   Revision(m1, r1, a3, 3, Unknown, {}, Unknown, {}),
   [Revision(m2, r2, a1, 2, cpu, {cpu}, Unknown, {sm90}) EXCEPT !.shards = <<2, 2>>]}

MCOfferedSets ==
  {[id |-> s1, base_model |-> m1, base_revision |-> r1, generation |-> 1],
   [id |-> s2, base_model |-> m2, base_revision |-> Nil, generation |-> 1]}

MCDomains ==
  d1 :> [backend |-> cuda, capability |-> sm120] @@ d2 :> [backend |-> cpu, capability |-> sm90]

MCRequests ==
  {[model |-> m1, revision |-> Nil, set |-> Nil], [model |-> m1, revision |-> r1, set |-> Nil],
   [model |-> m1, revision |-> r2, set |-> s1], [model |-> m1, revision |-> r1, set |-> s2]}

\* The calls are interchangeable.
CallSymmetry == Permutations(Calls)
=============================================================================
