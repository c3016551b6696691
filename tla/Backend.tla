------------------------------- MODULE Backend -------------------------------
(***************************************************************************)
(* The two backends (src/src/backends/memory_backend.cpp,                  *)
(* src/src/cuda/cuda_backend.cu) as the coordinator's threads call them:   *)
(* load and migrate without the coordinator's mutex, so several at a time. *)
(* The CUDA runtime may fail any call.  A buffer is an object on the heap  *)
(* and, with CUDA, a block of device memory; its content is the weights of *)
(* a model revision.  A call that fails before it has made its object      *)
(* changes nothing and is not a step.                                      *)
(*                                                                         *)
(* The callers keep their side: a handle is not evicted while a move reads *)
(* it or a kernel runs on it (SourceStays of module Coordinator).          *)
(***************************************************************************)
EXTENDS Naturals, FiniteSets, Functions

CONSTANTS
  Handles,       \* addresses of buffers
  Weights,       \* what a model revision's weights can be
  Threads,       \* threads that call the backend
  MovesMayFail,  \* the CUDA runtime fails calls of migrate, too
  MaxLive        \* bound on live_, which lost updates let grow

ASSUME BackendAssumption ==
  /\ IsFiniteSet(Handles) /\ "null" \notin Handles
  /\ {"garbage", "none"} \cap Weights = {}
  /\ MovesMayFail \in BOOLEAN
  /\ MaxLive \in Nat

Garbage == "garbage"    \* device memory nothing was copied to
NoMemory == "none"      \* a buffer without device memory
NoHandle == "null"

VARIABLES
  backend,   \* the backend the process was built with
  objects,   \* buffer objects on the heap
  content,   \* their memory: handle -> weights, garbage or none
  given,     \* handles the callers have
  call,      \* the calls under way
  live       \* MemoryBackend::live_, which no mutex guards

vars == <<backend, objects, content, given, call, live>>

Idle == [at |-> "idle", handle |-> NoHandle, source |-> NoHandle, weights |-> NoMemory, saw |-> 0]

Init ==
  /\ backend \in {"memory", "cuda"}
  /\ objects = {} /\ given = {}
  /\ content = [h \in Handles |-> NoMemory]
  /\ call = [t \in Threads |-> Idle]
  /\ live = 0

\* The allocator returns an address that is not in use.
Fresh(h) == h \notin objects /\ content[h] = NoMemory

\* Slip: a move makes the weights anew.
ToMoveAnew(source, w) == w

\* What migrate has to put in the new buffer: a copy of the source's memory or,
\* for a residency that has no buffer, the weights it makes itself.
ToMove(source, w) == IF source = NoHandle THEN w ELSE content[source]

Sources == given \cup {NoHandle}

\* No move reads the buffer and no kernel runs on it.
Unused(h) == \A t \in Threads : call[t].source # h

Ends(t) == call' = [call EXCEPT ![t] = Idle]

-----------------------------------------------------------------------------
(* live_ is read and stored in two steps: ++ in allocate, -- in evict.     *)

CountRead(t, after) ==
  call' = [call EXCEPT ![t].at = after, ![t].saw = live]

Decremented(n) == IF n > 0 THEN n - 1 ELSE n

-----------------------------------------------------------------------------
(* MemoryBackend.                                                          *)

\* The buffer a memory call builds before it counts it.
MemoryFilled(t, h, memory, source, w) ==
  /\ backend = "memory" /\ call[t].at = "idle" /\ Fresh(h) /\ live < MaxLive
  /\ objects' = objects \cup {h}
  /\ content' = [content EXCEPT ![h] = memory]
  /\ call' = [call EXCEPT ![t] = [at |-> "filled", handle |-> h, source |-> source,
                                  weights |-> w, saw |-> 0]]
  /\ UNCHANGED <<backend, given, live>>

\* load fills a buffer with the weights of the model and its adapters.
MemoryLoad(t, h, w) == MemoryFilled(t, h, w, NoHandle, w)

\* migrate copies the source, or fills the buffer when there is none.
MemoryMove(t, h, source, w) ==
  source \in Sources /\ MemoryFilled(t, h, ToMove(source, w), source, w)

MemoryCount(t) ==
  /\ call[t].at = "filled"
  /\ CountRead(t, "incrementing")
  /\ UNCHANGED <<backend, objects, content, given, live>>

MemoryCounted(t) ==
  /\ call[t].at = "incrementing"
  /\ live' = call[t].saw + 1
  /\ given' = given \cup {call[t].handle}
  /\ Ends(t)
  /\ UNCHANGED <<backend, objects, content>>

\* evict: the object is deleted, then the count goes down.
MemoryEvict(t, h) ==
  /\ backend = "memory" /\ call[t].at = "idle" /\ h \in given /\ Unused(h)
  /\ objects' = objects \ {h} /\ given' = given \ {h}
  /\ content' = [content EXCEPT ![h] = NoMemory]
  /\ CountRead(t, "decrementing")
  /\ UNCHANGED <<backend, live>>

MemoryUncounted(t) ==
  /\ call[t].at = "decrementing"
  /\ live' = Decremented(call[t].saw)
  /\ Ends(t)
  /\ UNCHANGED <<backend, objects, content, given>>

-----------------------------------------------------------------------------
(* CudaBackend.                                                            *)

\* A CudaBuffer and its device memory, if it has any yet.
CudaAllocated(t, h, memory, after, source, w) ==
  /\ backend = "cuda" /\ call[t].at = "idle" /\ Fresh(h)
  /\ objects' = objects \cup {h}
  /\ content' = [content EXCEPT ![h] = memory]
  /\ call' = [call EXCEPT ![t] = [at |-> after, handle |-> h, source |-> source,
                                  weights |-> w, saw |-> 0]]
  /\ UNCHANGED <<backend, given, live>>

\* The handle goes to the caller.
HandedOut(t) ==
  /\ given' = given \cup {call[t].handle}
  /\ Ends(t)
  /\ UNCHANGED <<backend, objects, live>>

\* Slip: the device memory of a failed load stays.
GivenUpLeaking(t) ==
  /\ objects' = objects \ {call[t].handle}
  /\ UNCHANGED content

\* cudaFree and delete on the ways out of load.
GivenUp(t) ==
  /\ objects' = objects \ {call[t].handle}
  /\ content' = [content EXCEPT ![call[t].handle] = NoMemory]

\* load: cudaSetDevice has succeeded.
CudaLoad(t, h, w) == CudaAllocated(t, h, NoMemory, "allocating", NoHandle, w)

\* cudaMalloc, and what its failure does.
CudaMalloc(t, ok) ==
  /\ call[t].at = "allocating"
  /\ \/ /\ ok
        /\ content' = [content EXCEPT ![call[t].handle] = Garbage]
        /\ call' = [call EXCEPT ![t].at = "copying"]
        /\ UNCHANGED objects
     \/ ~ ok /\ GivenUp(t) /\ Ends(t)
  /\ UNCHANGED <<backend, given, live>>

\* cudaMemcpy to the device, and what its failure does.
CudaCopy(t, ok) ==
  /\ call[t].at = "copying"
  /\ \/ /\ ok
        /\ content' = [content EXCEPT ![call[t].handle] = call[t].weights]
        /\ call' = [call EXCEPT ![t].at = "checking"]
        /\ UNCHANGED objects
     \/ ~ ok /\ GivenUp(t) /\ Ends(t)
  /\ UNCHANGED <<backend, given, live>>

\* A few entries are read back and compared; the read itself may fail.
CudaCheck(t, ok) ==
  /\ call[t].at = "checking"
  /\ \/ ok /\ HandedOut(t) /\ UNCHANGED content
     \/ ~ ok /\ GivenUp(t) /\ Ends(t) /\ UNCHANGED <<backend, given, live>>

\* migrate: neither cudaMalloc nor cudaMemcpy is checked.
CudaMove(t, h, source, w, ok) ==
  /\ source \in Sources
  /\ ~ ok => MovesMayFail
  /\ CudaAllocated(t, h, IF ok THEN Garbage ELSE NoMemory, "moving", source, w)

CudaMoved(t, ok) ==
  LET h == call[t].handle
      moved == ToMove(call[t].source, call[t].weights) IN
  /\ call[t].at = "moving"
  /\ ok => content[h] # NoMemory /\ moved # NoMemory
  /\ ~ ok => MovesMayFail
  /\ content' = [content EXCEPT ![h] = IF ok THEN moved ELSE @]
  /\ HandedOut(t)

CudaEvict(t, h) ==
  /\ backend = "cuda" /\ call[t].at = "idle" /\ h \in given /\ Unused(h)
  /\ objects' = objects \ {h} /\ given' = given \ {h}
  /\ content' = [content EXCEPT ![h] = NoMemory]
  /\ UNCHANGED <<backend, call, live>>

\* run_and_verify: device memory for the result, without an object.
CudaRun(t, h, scratch) ==
  /\ backend = "cuda" /\ call[t].at = "idle" /\ h \in given
  /\ Fresh(scratch)
  /\ content' = [content EXCEPT ![scratch] = Garbage]
  /\ call' = [call EXCEPT ![t] = [Idle EXCEPT !.at = "running", !.handle = scratch,
                                              !.source = h]]
  /\ UNCHANGED <<backend, objects, given, live>>

\* The kernel is done or failed; either way the memory is freed.
CudaRan(t) ==
  /\ call[t].at = "running"
  /\ content' = [content EXCEPT ![call[t].handle] = NoMemory]
  /\ Ends(t)
  /\ UNCHANGED <<backend, objects, given, live>>

-----------------------------------------------------------------------------
Next ==
  \E t \in Threads :
    \/ MemoryCount(t) \/ MemoryCounted(t) \/ MemoryUncounted(t)
    \/ CudaRan(t)
    \/ \E ok \in BOOLEAN :
         CudaMalloc(t, ok) \/ CudaCopy(t, ok) \/ CudaCheck(t, ok) \/ CudaMoved(t, ok)
    \/ \E h \in Handles :
         \/ \E w \in Weights : MemoryLoad(t, h, w) \/ CudaLoad(t, h, w)
         \/ MemoryEvict(t, h) \/ CudaEvict(t, h)
         \/ \E source \in Handles : CudaRun(t, source, h)
         \/ \E source \in Sources, w \in Weights :
              \/ MemoryMove(t, h, source, w)
              \/ \E ok \in BOOLEAN : CudaMove(t, h, source, w, ok)

Spec == Init /\ [][Next]_vars

-----------------------------------------------------------------------------
CallRecord ==
  [at : {"idle", "filled", "incrementing", "decrementing", "allocating", "copying", "checking",
         "moving", "running"},
   handle : Handles \cup {NoHandle}, source : Handles \cup {NoHandle},
   weights : Weights \cup {NoMemory}, saw : Nat]

\* Every variable has its type.
TypeOK ==
  /\ backend \in {"memory", "cuda"} /\ objects \subseteq Handles /\ given \subseteq objects
  /\ content \in [Handles -> Weights \cup {Garbage, NoMemory}]
  /\ call \in [Threads -> CallRecord]
  /\ live \in Nat

\* Whatever fails in load, migrate, evict or a kernel run, memory that no caller
\* has a handle for belongs to a call that is still under way.
NothingLeaks ==
  \A h \in Handles :
    h \in objects \/ content[h] # NoMemory =>
      h \in given \/ \E t \in Threads : call[t].handle = h

\* With no call under way live_buffers() is the number of buffers: what the leak
\* checks of the tests rely on.  It does not hold: no mutex guards live_, and of
\* two updates at once one is lost (ViolationLiveCount.cfg).
LiveIsExact ==
  backend = "memory" /\ (\A t \in Threads : call[t].at = "idle") => live = Cardinality(objects)

\* A load or a move is under way.
Building(c) ==
  c.at \in {"filled", "incrementing", "allocating", "copying", "checking", "moving"}

\* What the callers see: the buffers they have handles for, and what they asked.
Contract == INSTANCE ResidencyBackend WITH
  store <- Restrict(content, given),
  asked <- [t \in Threads |->
              IF Building(call[t]) THEN [source |-> call[t].source, weights |-> call[t].weights]
              ELSE [source |-> NoHandle, weights |-> NoMemory]],
  NoWeights <- NoMemory

\* Both backends do what the coordinator counts on: a call is answered with a
\* buffer that holds the weights it asked for or a true copy of its source, or it
\* changes nothing, and what a handle stands for stays until it is evicted.
BackendContract == Contract!Spec
=============================================================================
