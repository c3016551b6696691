-------------------------- MODULE ResidencyBackend --------------------------
(***************************************************************************)
(* What the coordinator counts on when it calls a backend                  *)
(* (src/include/mr/backend.hpp).  A call asks for the weights of a model   *)
(* revision or, as a move, for what the source holds.  It is refused, and  *)
(* nothing has changed, or it is answered with a handle to a buffer of its *)
(* own that holds just that, until the handle is given back.  The callers  *)
(* do not give back the source of a move that is under way.                *)
(***************************************************************************)
EXTENDS Functions

CONSTANTS Handles, Weights, Threads, NoHandle, NoWeights

VARIABLES
  store,   \* the buffers that are handed out: handle -> content
  asked    \* what each thread's call asks for

NoRequest == [source |-> NoHandle, weights |-> NoWeights]

Init ==
  /\ store = [h \in {} |-> h]
  /\ asked = [t \in Threads |-> NoRequest]

\* A move without a source is asked for the weights themselves, like a load.
Ask(t, source, w) ==
  /\ asked[t] = NoRequest
  /\ asked' = [asked EXCEPT ![t] = [source |-> source, weights |-> w]]
  /\ UNCHANGED store

Wanted(request) == IF request.source = NoHandle THEN request.weights ELSE store[request.source]

Answer(t, h) ==
  /\ asked[t] # NoRequest /\ h \notin DOMAIN store
  /\ store' = [k \in DOMAIN store \cup {h} |-> IF k = h THEN Wanted(asked[t]) ELSE store[k]]
  /\ asked' = [asked EXCEPT ![t] = NoRequest]

Refuse(t) ==
  /\ asked[t] # NoRequest
  /\ asked' = [asked EXCEPT ![t] = NoRequest]
  /\ UNCHANGED store

Free(h) ==
  /\ h \in DOMAIN store /\ \A t \in Threads : asked[t].source # h
  /\ store' = Restrict(store, DOMAIN store \ {h})
  /\ UNCHANGED asked

Next ==
  \/ \E t \in Threads :
       \/ \E source \in DOMAIN store \cup {NoHandle}, w \in Weights : Ask(t, source, w)
       \/ \E h \in Handles : Answer(t, h)
       \/ Refuse(t)
  \/ \E h \in Handles : Free(h)

Spec == Init /\ [][Next]_<<store, asked>>
=============================================================================
