----------------------------- MODULE Authority -----------------------------
(***************************************************************************)
(* Stale-authority detection (src/src/authority.cpp).  A frame gives every *)
(* axis of authority a number; 0 is a zero generation or a nil identity.   *)
(***************************************************************************)
EXTENDS Naturals, FiniteSetsExt

\* The axes in the order StaleAuthorityChecker::validate compares them.
Axes ==
  <<"epoch", "boot", "residency", "model", "artifact", "adapter", "device",
    "attempt", "migration", "policy">>

AxisNames == {Axes[i] : i \in 1..10}

\* Whether a message that says nothing on the axis is stale.
Strict(axis, strict_generations) ==
  CASE axis \in {"epoch", "boot"} -> TRUE
    [] axis \in {"attempt", "migration"} -> FALSE
    [] OTHER -> strict_generations

\* gen_axis and id_axis: no constraint while nothing is current.
AxisStale(message, current, strict) ==
  /\ current # 0
  /\ IF message = 0 THEN strict ELSE message # current

\* The first axis, in order, on which the message is stale.
validate(message, current, strict_generations) ==
  LET stale == {i \in 1..10 :
                  AxisStale(message[Axes[i]], current[Axes[i]],
                            Strict(Axes[i], strict_generations))}
  IN  IF stale = {} THEN "None" ELSE Axes[Min(stale)]
=============================================================================
