---------------------------- MODULE BackendProofs ----------------------------
(***************************************************************************)
(* Whatever the CUDA runtime fails and however the threads interleave, the *)
(* backends leak no memory; and as long as moves do not fail, they do what *)
(* the coordinator counts on (module ResidencyBackend), for every number   *)
(* of threads, handles and weights.                                        *)
(***************************************************************************)
EXTENDS Backend, TLAPS

\* A call that has nothing of its own names nothing.
EmptyHanded ==
  \A t \in Threads :
    call[t].at \in {"idle", "decrementing"} =>
      call[t].handle = NoHandle /\ call[t].source = NoHandle

\* What a call builds is on the heap and not handed out; what a kernel writes to
\* is device memory without an object.
CallsOwn ==
  \A t \in Threads :
    /\ Building(call[t]) => call[t].handle \in objects /\ call[t].handle \notin given
    /\ call[t].at = "running" => /\ call[t].handle \in Handles \ objects
                                 /\ content[call[t].handle] # NoMemory

\* No two calls work on the same memory.
CallsApart ==
  \A t, u \in Threads :
    t # u /\ call[t].handle # NoHandle => call[t].handle # call[u].handle

\* A buffer that a move or a kernel reads stays with its caller.
SourcesStay ==
  \A t \in Threads : call[t].source # NoHandle => call[t].source \in given

\* The inductive invariant behind NothingLeaks.
OwnershipInv ==
  TypeOK /\ EmptyHanded /\ CallsOwn /\ CallsApart /\ SourcesStay /\ NothingLeaks

-----------------------------------------------------------------------------
(* The shapes of the steps.                                                *)

\* A call that only changes its own record leaves the others'.
LEMMA OneCall ==
  ASSUME TypeOK, NEW t \in Threads, NEW c \in CallRecord, call' = [call EXCEPT ![t] = c]
  PROVE  /\ call' \in [Threads -> CallRecord]
         /\ call'[t] = c
         /\ \A u \in Threads : u # t => call'[u] = call[u]
BY DEF TypeOK

\* The record of a call that is over.
LEMMA IdleType == Idle \in CallRecord
BY DEF Idle, CallRecord, NoHandle, NoMemory

\* Memory for a buffer or a kernel's result: the handle was not in use, and no
\* call has it.
LEMMA FreshIsNobodys ==
  ASSUME OwnershipInv, NEW h \in Handles, Fresh(h)
  PROVE  h \notin given /\ \A t \in Threads : call[t].handle # h /\ call[t].source # h
BY BackendAssumption DEF OwnershipInv, TypeOK, EmptyHanded, CallsOwn, SourcesStay, Fresh,
  Building, CallRecord, NoHandle

\* A call that starts with a fresh buffer owns it.
LEMMA StartOwns ==
  ASSUME OwnershipInv, NEW t \in Threads, call[t].at = "idle",
         NEW h \in Handles, Fresh(h), NEW m \in Weights \cup {Garbage, NoMemory},
         NEW c \in CallRecord, Building(c), c.handle = h, c.source \in Sources,
         objects' = objects \cup {h}, content' = [content EXCEPT ![h] = m],
         call' = [call EXCEPT ![t] = c], UNCHANGED <<backend, given, live>>
  PROVE  OwnershipInv'
<1> USE DEF OwnershipInv
<1>1. /\ call' \in [Threads -> CallRecord] /\ call'[t] = c
      /\ \A u \in Threads : u # t => call'[u] = call[u]
  BY OneCall
<1>2. h \notin given /\ \A u \in Threads : call[u].handle # h /\ call[u].source # h
  BY FreshIsNobodys
<1>3. TypeOK'
  BY <1>1 DEF TypeOK
<1>4. EmptyHanded' /\ SourcesStay'
  BY <1>1 DEF EmptyHanded, SourcesStay, Building, Sources
<1>5. CallsOwn'
  BY <1>1, <1>2 DEF CallsOwn, Building, TypeOK
<1>6. CallsApart'
  BY <1>1, <1>2 DEF CallsApart
<1>7. NothingLeaks'
  BY <1>1, <1>2, BackendAssumption DEF NothingLeaks, TypeOK, EmptyHanded, NoHandle
<1> QED BY <1>3, <1>4, <1>5, <1>6, <1>7

\* A call that goes on, whatever it writes to its own buffer, still owns it.
LEMMA GoingOnOwns ==
  ASSUME OwnershipInv, NEW t \in Threads, Building(call[t]),
         NEW m \in Weights \cup {Garbage, NoMemory},
         NEW c \in CallRecord, Building(c), c.handle = call[t].handle,
         c.source = call[t].source,
         content' = [content EXCEPT ![call[t].handle] = m],
         call' = [call EXCEPT ![t] = c], UNCHANGED <<backend, objects, given, live>>
  PROVE  OwnershipInv'
<1> USE DEF OwnershipInv
<1>1. /\ call' \in [Threads -> CallRecord] /\ call'[t] = c
      /\ \A u \in Threads : u # t => call'[u] = call[u]
  BY OneCall
<1>2. call[t].handle \in objects /\ call[t].handle \in Handles /\ call[t].handle \notin given
  BY DEF CallsOwn, TypeOK
<1>3. TypeOK'
  BY <1>1 DEF TypeOK
<1>4. EmptyHanded' /\ SourcesStay'
  BY <1>1 DEF EmptyHanded, SourcesStay, Building
<1>5. CallsOwn'
  BY <1>1, <1>2 DEF CallsOwn, Building, TypeOK
<1>6. CallsApart'
  BY <1>1 DEF CallsApart
<1>7. NothingLeaks'
  BY <1>1, <1>2 DEF NothingLeaks, TypeOK
<1> QED BY <1>3, <1>4, <1>5, <1>6, <1>7

\* A buffer that is handed out has an owner after the call is over.
LEMMA HandingOutOwns ==
  ASSUME OwnershipInv, NEW t \in Threads, Building(call[t]),
         NEW m \in Weights \cup {Garbage, NoMemory},
         content' = [content EXCEPT ![call[t].handle] = m],
         given' = given \cup {call[t].handle}, Ends(t),
         live' \in Nat, UNCHANGED <<backend, objects>>
  PROVE  OwnershipInv'
<1> USE DEF OwnershipInv
<1>1. /\ call' \in [Threads -> CallRecord] /\ call'[t] = Idle
      /\ \A u \in Threads : u # t => call'[u] = call[u]
  BY OneCall, IdleType DEF Ends
<1>2. /\ call[t].handle \in objects /\ call[t].handle \in Handles
      /\ call[t].handle # NoHandle
  BY BackendAssumption DEF CallsOwn, TypeOK, NoHandle
<1>3. TypeOK'
  BY <1>1, <1>2 DEF TypeOK
<1>4. EmptyHanded' /\ SourcesStay'
  BY <1>1 DEF EmptyHanded, SourcesStay, Idle
<1>5. CallsOwn'
  BY <1>1, <1>2 DEF CallsOwn, CallsApart, Building, TypeOK, Idle
<1>6. CallsApart'
  BY <1>1 DEF CallsApart, Idle
<1>7. NothingLeaks'
  BY <1>1, <1>2 DEF NothingLeaks, TypeOK
<1> QED BY <1>3, <1>4, <1>5, <1>6, <1>7

\* A call that gives its memory back, with the object if it has one, leaves none.
LEMMA GivingUpOwns ==
  ASSUME OwnershipInv, NEW t \in Threads, Building(call[t]) \/ call[t].at = "running",
         objects' = objects \ {call[t].handle},
         content' = [content EXCEPT ![call[t].handle] = NoMemory],
         Ends(t), UNCHANGED <<backend, given, live>>
  PROVE  OwnershipInv'
<1> USE DEF OwnershipInv
<1>1. /\ call' \in [Threads -> CallRecord] /\ call'[t] = Idle
      /\ \A u \in Threads : u # t => call'[u] = call[u]
  BY OneCall, IdleType DEF Ends
<1>2. call[t].handle \in Handles /\ call[t].handle \notin given /\ call[t].handle # NoHandle
  BY BackendAssumption DEF CallsOwn, TypeOK, NoHandle
<1>3. TypeOK'
  BY <1>1, <1>2 DEF TypeOK
<1>4. EmptyHanded' /\ SourcesStay'
  BY <1>1 DEF EmptyHanded, SourcesStay, Idle
<1>5. CallsOwn'
  BY <1>1, <1>2 DEF CallsOwn, CallsApart, Building, TypeOK, Idle
<1>6. CallsApart'
  BY <1>1 DEF CallsApart, Idle
<1>7. NothingLeaks'
  BY <1>1, <1>2 DEF NothingLeaks, TypeOK
<1> QED BY <1>3, <1>4, <1>5, <1>6, <1>7

\* A buffer that is evicted leaves nothing: no call names it.
LEMMA EvictingOwns ==
  ASSUME OwnershipInv, NEW t \in Threads, call[t].at = "idle",
         NEW h \in given, Unused(h), objects' = objects \ {h}, given' = given \ {h},
         content' = [content EXCEPT ![h] = NoMemory],
         NEW c \in CallRecord, c.at \in {"idle", "decrementing"},
         c.handle = NoHandle, c.source = NoHandle,
         call' = [call EXCEPT ![t] = c], UNCHANGED <<backend, live>>
  PROVE  OwnershipInv'
<1> USE DEF OwnershipInv
<1>1. /\ call' \in [Threads -> CallRecord] /\ call'[t] = c
      /\ \A u \in Threads : u # t => call'[u] = call[u]
  BY OneCall
<1>2. TypeOK'
  BY <1>1 DEF TypeOK
<1>3. EmptyHanded' /\ SourcesStay'
  BY <1>1 DEF EmptyHanded, SourcesStay, Unused
<1>4. CallsOwn'
  BY <1>1 DEF CallsOwn, Building, TypeOK
<1>5. CallsApart'
  BY <1>1 DEF CallsApart
<1>6. NothingLeaks'
  BY <1>1 DEF NothingLeaks, TypeOK, EmptyHanded
<1> QED BY <1>2, <1>3, <1>4, <1>5, <1>6

-----------------------------------------------------------------------------
(* One lemma for each group of actions.                                    *)

\* MemoryBackend's load and migrate up to the count.
LEMMA MemoryFilledOwns ==
  ASSUME OwnershipInv, NEW t \in Threads, NEW h \in Handles,
         NEW m \in Weights \cup {Garbage, NoMemory}, NEW source \in Sources, NEW w \in Weights,
         MemoryFilled(t, h, m, source, w)
  PROVE  OwnershipInv'
<1> DEFINE c == [at |-> "filled", handle |-> h, source |-> source, weights |-> w, saw |-> 0]
<1>1. c \in CallRecord /\ Building(c) /\ c.handle = h /\ c.source \in Sources
  BY DEF OwnershipInv, TypeOK, CallRecord, Building, Sources
<1> HIDE DEF c
<1>2. /\ call[t].at = "idle" /\ Fresh(h) /\ objects' = objects \cup {h}
      /\ content' = [content EXCEPT ![h] = m] /\ call' = [call EXCEPT ![t] = c]
      /\ UNCHANGED <<backend, given, live>>
  BY DEF MemoryFilled, c
<1> QED BY <1>1, <1>2, StartOwns

\* The source of a migrate has content, and what is moved is content too.
LEMMA MovedType ==
  ASSUME TypeOK, NEW source \in Sources, NEW w \in Weights \cup {NoMemory}
  PROVE  ToMove(source, w) \in Weights \cup {Garbage, NoMemory}
BY DEF TypeOK, ToMove, Sources

\* live_ is read and stored, and the handle goes to the caller.
LEMMA MemoryCountOwns ==
  ASSUME OwnershipInv, NEW t \in Threads, MemoryCount(t) \/ MemoryCounted(t)
  PROVE  OwnershipInv'
<1>1. call[t] \in CallRecord /\ content \in [Handles -> Weights \cup {Garbage, NoMemory}]
  BY DEF OwnershipInv, TypeOK
<1>2. CASE MemoryCount(t)
  <2> DEFINE c == [call[t] EXCEPT !.at = "incrementing", !.saw = live]
  <2>1. /\ c \in CallRecord /\ Building(c) /\ Building(call[t])
        /\ c.handle = call[t].handle /\ c.source = call[t].source
    BY <1>1, <1>2 DEF MemoryCount, OwnershipInv, TypeOK, CallRecord, Building
  <2>2. call' = [call EXCEPT ![t] = c]
    BY <1>2 DEF MemoryCount, CountRead, OwnershipInv, TypeOK
  <2> HIDE DEF c
  <2>3. call[t].handle \in Handles
    BY <2>1 DEF OwnershipInv, CallsOwn, TypeOK
  <2>4. content' = [content EXCEPT ![call[t].handle] = content[call[t].handle]]
    BY <1>1, <1>2, <2>3 DEF MemoryCount
  <2>5. UNCHANGED <<backend, objects, given, live>>
    BY <1>2 DEF MemoryCount
  <2>6. content[call[t].handle] \in Weights \cup {Garbage, NoMemory}
    BY <1>1, <2>3
  <2> QED BY <2>1, <2>2, <2>4, <2>5, <2>6, GoingOnOwns
<1>3. CASE MemoryCounted(t)
  <2>1. Building(call[t])
    BY <1>3 DEF MemoryCounted, Building
  <2>2. call[t].handle \in Handles
    BY <2>1 DEF OwnershipInv, CallsOwn, TypeOK
  <2>3. content' = [content EXCEPT ![call[t].handle] = content[call[t].handle]]
    BY <1>1, <1>3, <2>2 DEF MemoryCounted
  <2>4. content[call[t].handle] \in Weights \cup {Garbage, NoMemory}
    BY <1>1, <2>2
  <2>5. live' \in Nat
    BY <1>1, <1>3 DEF MemoryCounted, CallRecord
  <2>6. given' = given \cup {call[t].handle} /\ Ends(t) /\ UNCHANGED <<backend, objects>>
    BY <1>3 DEF MemoryCounted
  <2> QED BY <2>1, <2>3, <2>4, <2>5, <2>6, HandingOutOwns
<1> QED BY <1>2, <1>3

\* The end of an evict.
LEMMA MemoryUncountedOwns ==
  ASSUME OwnershipInv, NEW t \in Threads, MemoryUncounted(t)
  PROVE  OwnershipInv'
<1>1. /\ call' \in [Threads -> CallRecord] /\ call'[t] = Idle
      /\ \A u \in Threads : u # t => call'[u] = call[u]
  BY OneCall, IdleType DEF Ends, MemoryUncounted, OwnershipInv
<1>2. live' \in Nat
  BY DEF MemoryUncounted, Decremented, OwnershipInv, TypeOK, CallRecord
<1>3. UNCHANGED <<backend, objects, content, given>> /\ call[t].at = "decrementing"
  BY DEF MemoryUncounted
<1>4. TypeOK'
  BY <1>1, <1>2, <1>3 DEF TypeOK, OwnershipInv
<1>5. EmptyHanded' /\ SourcesStay' /\ CallsOwn' /\ CallsApart'
  BY <1>1, <1>3 DEF OwnershipInv, EmptyHanded, SourcesStay, CallsOwn, CallsApart, Idle, Building
<1>6. NothingLeaks'
  BY <1>1, <1>3, BackendAssumption DEF OwnershipInv, NothingLeaks, EmptyHanded, NoHandle
<1> QED BY <1>4, <1>5, <1>6 DEF OwnershipInv

\* evict of either backend.
LEMMA EvictOwns ==
  ASSUME OwnershipInv, NEW t \in Threads, NEW h \in Handles,
         MemoryEvict(t, h) \/ CudaEvict(t, h)
  PROVE  OwnershipInv'
<1>1. /\ call[t] \in CallRecord /\ call[t].at = "idle"
      /\ call[t].handle = NoHandle /\ call[t].source = NoHandle
  BY DEF OwnershipInv, TypeOK, EmptyHanded, MemoryEvict, CudaEvict
<1>2. h \in given /\ Unused(h) /\ objects' = objects \ {h} /\ given' = given \ {h}
      /\ content' = [content EXCEPT ![h] = NoMemory] /\ UNCHANGED <<backend, live>>
  BY DEF MemoryEvict, CudaEvict
<1>3. CASE MemoryEvict(t, h)
  <2> DEFINE c == [call[t] EXCEPT !.at = "decrementing", !.saw = live]
  <2>1. /\ c \in CallRecord /\ c.at \in {"idle", "decrementing"}
        /\ c.handle = NoHandle /\ c.source = NoHandle
    BY <1>1 DEF CallRecord, OwnershipInv, TypeOK
  <2>2. call' = [call EXCEPT ![t] = c]
    BY <1>3 DEF MemoryEvict, CountRead, OwnershipInv, TypeOK
  <2> HIDE DEF c
  <2> QED BY <1>1, <1>2, <2>1, <2>2, EvictingOwns
<1>4. CASE CudaEvict(t, h)
  <2>1. call' = [call EXCEPT ![t] = call[t]]
    BY <1>4 DEF CudaEvict, OwnershipInv, TypeOK
  <2> QED BY <1>1, <1>2, <2>1, EvictingOwns
<1> QED BY <1>3, <1>4

\* CudaBackend's load and migrate up to the allocation.
LEMMA CudaAllocatedOwns ==
  ASSUME OwnershipInv, NEW t \in Threads, NEW h \in Handles,
         NEW m \in {Garbage, NoMemory}, NEW after \in {"allocating", "moving"},
         NEW source \in Sources, NEW w \in Weights, CudaAllocated(t, h, m, after, source, w)
  PROVE  OwnershipInv'
<1> DEFINE c == [at |-> after, handle |-> h, source |-> source, weights |-> w, saw |-> 0]
<1>1. c \in CallRecord /\ Building(c) /\ c.handle = h /\ c.source \in Sources
  BY DEF OwnershipInv, TypeOK, CallRecord, Building, Sources
<1> HIDE DEF c
<1>2. /\ call[t].at = "idle" /\ Fresh(h) /\ objects' = objects \cup {h}
      /\ content' = [content EXCEPT ![h] = m] /\ call' = [call EXCEPT ![t] = c]
      /\ UNCHANGED <<backend, given, live>>
  BY DEF CudaAllocated, c
<1> QED BY <1>1, <1>2, StartOwns

\* cudaMalloc: the load goes on, or gives up its object.
LEMMA CudaMallocOwns ==
  ASSUME OwnershipInv, NEW t \in Threads, NEW ok \in BOOLEAN, CudaMalloc(t, ok)
  PROVE  OwnershipInv'
<1>1. Building(call[t]) /\ call[t] \in CallRecord /\ UNCHANGED <<backend, given, live>>
  BY DEF CudaMalloc, Building, OwnershipInv, TypeOK
<1>2. CASE ok
  <2> DEFINE c == [call[t] EXCEPT !.at = "copying"]
  <2>1. /\ c \in CallRecord /\ Building(c)
        /\ c.handle = call[t].handle /\ c.source = call[t].source
    BY <1>1 DEF CallRecord, Building
  <2>2. /\ content' = [content EXCEPT ![call[t].handle] = Garbage]
        /\ UNCHANGED objects
    BY <1>2 DEF CudaMalloc
  <2>3. call' = [call EXCEPT ![t] = c]
    BY <1>2 DEF CudaMalloc, OwnershipInv, TypeOK
  <2> HIDE DEF c
  <2> QED BY <1>1, <2>1, <2>2, <2>3, GoingOnOwns
<1>3. CASE ~ ok
  <2>1. /\ objects' = objects \ {call[t].handle} /\ Ends(t)
        /\ content' = [content EXCEPT ![call[t].handle] = NoMemory]
    BY <1>3 DEF CudaMalloc, GivenUp
  <2> QED BY <1>1, <2>1, GivingUpOwns
<1> QED BY <1>2, <1>3

\* The copy to the device: the load goes on, or gives up what it has.
LEMMA CudaCopyOwns ==
  ASSUME OwnershipInv, NEW t \in Threads, NEW ok \in BOOLEAN, CudaCopy(t, ok)
  PROVE  OwnershipInv'
<1>1. Building(call[t]) /\ call[t] \in CallRecord /\ UNCHANGED <<backend, given, live>>
  BY DEF CudaCopy, Building, OwnershipInv, TypeOK
<1>2. CASE ok
  <2> DEFINE c == [call[t] EXCEPT !.at = "checking"]
  <2>1. /\ c \in CallRecord /\ Building(c)
        /\ c.handle = call[t].handle /\ c.source = call[t].source
    BY <1>1 DEF CallRecord, Building
  <2>2. /\ content' = [content EXCEPT ![call[t].handle] = call[t].weights]
        /\ UNCHANGED objects
    BY <1>2 DEF CudaCopy
  <2>3. call' = [call EXCEPT ![t] = c]
    BY <1>2 DEF CudaCopy, OwnershipInv, TypeOK
  <2> HIDE DEF c
  <2>4. call[t].weights \in Weights \cup {Garbage, NoMemory}
    BY <1>1 DEF CallRecord
  <2> QED BY <1>1, <2>1, <2>2, <2>3, <2>4, GoingOnOwns
<1>3. CASE ~ ok
  <2>1. /\ objects' = objects \ {call[t].handle} /\ Ends(t)
        /\ content' = [content EXCEPT ![call[t].handle] = NoMemory]
    BY <1>3 DEF CudaCopy, GivenUp
  <2> QED BY <1>1, <2>1, GivingUpOwns
<1> QED BY <1>2, <1>3

\* The check of a load: the handle goes to the caller, or the load gives up.
LEMMA CudaCheckOwns ==
  ASSUME OwnershipInv, NEW t \in Threads, NEW ok \in BOOLEAN, CudaCheck(t, ok)
  PROVE  OwnershipInv'
<1>1. Building(call[t])
  BY DEF CudaCheck, Building
<1>2. CASE HandedOut(t) /\ UNCHANGED content
  <2>1. call[t].handle \in Handles
    BY <1>1 DEF OwnershipInv, CallsOwn, TypeOK
  <2>2. content' = [content EXCEPT ![call[t].handle] = content[call[t].handle]]
    BY <1>2, <2>1 DEF OwnershipInv, TypeOK
  <2>3. content[call[t].handle] \in Weights \cup {Garbage, NoMemory}
    BY <2>1 DEF OwnershipInv, TypeOK
  <2>4. /\ given' = given \cup {call[t].handle} /\ Ends(t) /\ UNCHANGED <<backend, objects>>
        /\ live' \in Nat
    BY <1>2 DEF HandedOut, OwnershipInv, TypeOK
  <2> QED BY <1>1, <2>2, <2>3, <2>4, HandingOutOwns
<1>3. CASE GivenUp(t) /\ Ends(t) /\ UNCHANGED <<backend, given, live>>
  BY <1>1, <1>3, GivingUpOwns DEF GivenUp
<1> QED BY <1>2, <1>3 DEF CudaCheck

\* The end of a migrate: whatever became of the copy, the handle goes out.
LEMMA CudaMovedOwns ==
  ASSUME OwnershipInv, NEW t \in Threads, NEW ok \in BOOLEAN, CudaMoved(t, ok)
  PROVE  OwnershipInv'
<1> DEFINE m == IF ok THEN ToMove(call[t].source, call[t].weights) ELSE content[call[t].handle]
<1>1. Building(call[t]) /\ call[t] \in CallRecord
  BY DEF CudaMoved, Building, OwnershipInv, TypeOK
<1>2. call[t].handle \in Handles /\ call[t].source \in Sources
  BY <1>1 DEF OwnershipInv, CallsOwn, TypeOK, SourcesStay, Sources
<1>3. m \in Weights \cup {Garbage, NoMemory}
  BY <1>1, <1>2, MovedType DEF OwnershipInv, TypeOK, CallRecord
<1>4. content' = [content EXCEPT ![call[t].handle] = m]
  BY <1>2 DEF CudaMoved, OwnershipInv, TypeOK
<1>5. /\ given' = given \cup {call[t].handle} /\ Ends(t) /\ UNCHANGED <<backend, objects>>
      /\ live' \in Nat
  BY DEF CudaMoved, HandedOut, OwnershipInv, TypeOK
<1> HIDE DEF m
<1> QED BY <1>1, <1>3, <1>4, <1>5, HandingOutOwns

\* A kernel runs on memory of its own, and frees it.
LEMMA CudaRunOwns ==
  ASSUME OwnershipInv, NEW t \in Threads, NEW h \in Handles, NEW scratch \in Handles,
         CudaRun(t, h, scratch)
  PROVE  OwnershipInv'
<1> DEFINE c == [Idle EXCEPT !.at = "running", !.handle = scratch, !.source = h]
<1>1. /\ c \in CallRecord /\ c.at = "running" /\ c.handle = scratch /\ c.source = h
  BY DEF Idle, CallRecord, NoHandle, NoMemory
<1>2. call' = [call EXCEPT ![t] = c]
  BY DEF CudaRun
<1> HIDE DEF c
<1>3. /\ call' \in [Threads -> CallRecord] /\ call'[t] = c
      /\ \A u \in Threads : u # t => call'[u] = call[u]
  BY <1>1, <1>2, OneCall DEF OwnershipInv
<1>4. /\ h \in given /\ Fresh(scratch) /\ call[t].at = "idle"
      /\ content' = [content EXCEPT ![scratch] = Garbage]
      /\ UNCHANGED <<backend, objects, given, live>>
  BY DEF CudaRun
<1>5. scratch \notin given /\ \A u \in Threads : call[u].handle # scratch
  BY <1>4, FreshIsNobodys
<1>6. TypeOK'
  BY <1>3, <1>4 DEF OwnershipInv, TypeOK
<1>7. EmptyHanded' /\ SourcesStay'
  BY <1>1, <1>3, <1>4 DEF OwnershipInv, EmptyHanded, SourcesStay
<1>8. CallsOwn'
  <2>1. scratch \in Handles \ objects /\ content'[scratch] # NoMemory
    BY <1>4 DEF Fresh, OwnershipInv, TypeOK, Garbage, NoMemory
  <2> QED BY <1>1, <1>3, <1>4, <1>5, <2>1 DEF OwnershipInv, CallsOwn, Building, TypeOK
<1>9. CallsApart'
  BY <1>1, <1>3, <1>5 DEF OwnershipInv, CallsApart
<1>10. NothingLeaks'
  BY <1>1, <1>3, <1>4, BackendAssumption
     DEF OwnershipInv, NothingLeaks, TypeOK, EmptyHanded, NoHandle
<1> QED BY <1>6, <1>7, <1>8, <1>9, <1>10 DEF OwnershipInv

\* The end of a kernel run.
LEMMA CudaRanOwns ==
  ASSUME OwnershipInv, NEW t \in Threads, CudaRan(t)
  PROVE  OwnershipInv'
<1>1. call[t].at = "running" /\ call[t].handle \notin objects
  BY DEF CudaRan, OwnershipInv, CallsOwn
<1>2. objects' = objects \ {call[t].handle}
  BY <1>1 DEF CudaRan
<1> QED BY <1>1, <1>2, GivingUpOwns DEF CudaRan

-----------------------------------------------------------------------------
(* The theorems.                                                           *)

\* Every step keeps the ownership of memory.
LEMMA NextOwns ==
  ASSUME OwnershipInv, [Next]_vars
  PROVE  OwnershipInv'
<1>1. ASSUME NEW t \in Threads, NEW h \in Handles, NEW w \in Weights,
             MemoryLoad(t, h, w) \/ CudaLoad(t, h, w)
      PROVE  OwnershipInv'
  <2>1. NoHandle \in Sources
    BY DEF Sources
  <2> QED BY <1>1, <2>1, MemoryFilledOwns, CudaAllocatedOwns DEF MemoryLoad, CudaLoad
<1>2. ASSUME NEW t \in Threads, NEW h \in Handles, NEW source \in Sources, NEW w \in Weights,
             MemoryMove(t, h, source, w)
      PROVE  OwnershipInv'
  BY <1>2, MemoryFilledOwns, MovedType DEF MemoryMove, OwnershipInv
<1>3. ASSUME NEW t \in Threads, NEW h \in Handles, NEW source \in Sources, NEW w \in Weights,
             NEW ok \in BOOLEAN, CudaMove(t, h, source, w, ok)
      PROVE  OwnershipInv'
  BY <1>3, CudaAllocatedOwns DEF CudaMove
<1>4. CASE UNCHANGED vars
  BY <1>4 DEF vars, OwnershipInv, TypeOK, EmptyHanded, CallsOwn, CallsApart, SourcesStay,
    NothingLeaks
<1>5. CASE Next
  BY <1>1, <1>2, <1>3, <1>5, MemoryCountOwns, MemoryUncountedOwns, CudaRanOwns, CudaMallocOwns,
     CudaCopyOwns, CudaCheckOwns, CudaMovedOwns, EvictOwns, CudaRunOwns DEF Next
<1> QED BY <1>4, <1>5

\* Nothing is owned at first.
LEMMA InitOwns == Init => OwnershipInv
BY IdleType, BackendAssumption DEF Init, OwnershipInv, TypeOK, EmptyHanded, CallsOwn, CallsApart,
  SourcesStay, NothingLeaks, Idle, Building, CallRecord, NoHandle

\* Who owns which memory, at all times.
THEOREM OwnershipAlways == Spec => []OwnershipInv
<1> QED BY InitOwns, NextOwns, PTL DEF Spec

\* Memory that no caller has a handle for belongs to a call that is under way:
\* however load, migrate, evict and kernel runs of any number of threads
\* interleave, and whichever of them the CUDA runtime fails, a failed load frees
\* what it had (src/src/cuda/cuda_backend.cu).
THEOREM NothingLeaksTheorem == Spec => []NothingLeaks
<1>1. OwnershipInv => NothingLeaks
  BY DEF OwnershipInv
<1> QED BY <1>1, OwnershipAlways, PTL

-----------------------------------------------------------------------------
(* The contract, for a process whose moves succeed.                        *)

\* What a call under way has put in its buffer, or will.
GoodCall(c) ==
  /\ Building(c) => c.weights \in Weights
  /\ c.at \in {"filled", "incrementing", "checking"} =>
       content[c.handle] = ToMove(c.source, c.weights)
  /\ c.at \in {"allocating", "copying"} => c.source = NoHandle
  /\ c.at = "moving" => content[c.handle] # NoMemory

\* A handed out buffer holds weights, and so will one that is about to be.
ContentsOK ==
  /\ \A h \in given : content[h] \in Weights
  /\ \A t \in Threads : GoodCall(call[t])

\* The abstract buffers, and what a call asks for.
Store == Restrict(content, given)
Request(source, w) == [source |-> source, weights |-> w]
Asks(c) ==
  IF Building(c) THEN Request(c.source, c.weights) ELSE Request(NoHandle, NoMemory)
Asked == [t \in Threads |-> Asks(call[t])]

\* What a step has to show: contents stay good and the abstract state takes a
\* step, or none.
Simulates == ContentsOK' /\ [Contract!Next]_<<Store, Asked>>

\* What a move copies is weights.
LEMMA MovedIsWeights ==
  ASSUME ContentsOK, NEW source \in Sources, NEW w \in Weights
  PROVE  ToMove(source, w) \in Weights
BY DEF ContentsOK, ToMove, Sources

\* A call that is not touched stays good when its buffer and its source do.
LEMMA OthersGood ==
  ASSUME ContentsOK, NEW u \in Threads, call'[u] = call[u],
         Building(call[u]) =>
           /\ content'[call[u].handle] = content[call[u].handle]
           /\ call[u].source # NoHandle => content'[call[u].source] = content[call[u].source]
  PROVE  GoodCall(call[u])'
<1>1. GoodCall(call[u])
  BY DEF ContentsOK
<1> QED BY <1>1 DEF GoodCall, Building, ToMove

\* The requests change where the call does.
LEMMA AskedExcept ==
  ASSUME TypeOK, NEW t \in Threads, NEW c \in CallRecord, call' = [call EXCEPT ![t] = c]
  PROVE  Asked' = [Asked EXCEPT ![t] = Asks(c)]
<1>1. Asked' = [u \in Threads |-> Asks(call'[u])]
  BY DEF Asked, Asks, Building, Request
<1>2. \A u \in Threads : call'[u] = IF u = t THEN c ELSE call[u]
  BY DEF TypeOK
<1>3. Asked = [u \in Threads |-> Asks(call[u])]
  BY DEF Asked
<1> QED BY <1>1, <1>2, <1>3

\* Memory that is not handed out does not show.
LEMMA HiddenStore ==
  ASSUME given' = given, \A h \in given : content'[h] = content[h]
  PROVE  Store' = Store
BY DEF Store, Restrict

\* What a call that is under way asks for is a request.
LEMMA BuildingAsks ==
  ASSUME NEW c, Building(c), c.weights \in Weights
  PROVE  Asks(c) # Request(NoHandle, NoMemory) /\ Asks(c) = Request(c.source, c.weights)
<1>1. c.weights # NoMemory
  BY BackendAssumption DEF NoMemory
<1> QED BY <1>1 DEF Asks, Request

\* A call that starts is an abstract request.
LEMMA AskStep ==
  ASSUME TypeOK, NEW t \in Threads, ~ Building(call[t]), NEW c \in CallRecord, Building(c),
         c.source \in Sources, c.weights \in Weights, call' = [call EXCEPT ![t] = c],
         Store' = Store
  PROVE  Contract!Next
<1>1. Asked[t] = Request(NoHandle, NoMemory)
  BY DEF Asked, Asks
<1>2. Asked' = [Asked EXCEPT ![t] = Request(c.source, c.weights)]
  BY AskedExcept, BuildingAsks
<1>3. Contract!Ask(t, c.source, c.weights)
  BY <1>1, <1>2 DEF Contract!Ask, Contract!NoRequest, Asked, Asks, Request, Store
<1>4. DOMAIN Store = given
  BY DEF Store, Restrict
<1> QED BY <1>3, <1>4 DEF Contract!Next, Sources, Store

\* A call that ends without a handle is an abstract refusal.
LEMMA RefuseStep ==
  ASSUME TypeOK, NEW t \in Threads, Building(call[t]), call[t].weights \in Weights, Ends(t),
         Store' = Store
  PROVE  Contract!Next
<1>1. Asked[t] # Request(NoHandle, NoMemory)
  BY BuildingAsks DEF Asked
<1>2. Asked' = [Asked EXCEPT ![t] = Request(NoHandle, NoMemory)]
  <2>1. Asks(Idle) = Request(NoHandle, NoMemory)
    BY DEF Asks, Idle, Building
  <2> QED BY <2>1, AskedExcept, IdleType DEF Ends
<1>3. Contract!Refuse(t)
  BY <1>1, <1>2 DEF Contract!Refuse, Contract!NoRequest, Asked, Asks, Request, Store
<1> QED BY <1>3 DEF Contract!Next

\* A handle that goes to a caller is the abstract answer to what it asked.
LEMMA AnswerStep ==
  ASSUME TypeOK, NEW t \in Threads, Building(call[t]), call[t].weights \in Weights, Ends(t),
         NEW h \in Handles, h \notin given, given' = given \cup {h},
         call[t].source \in Sources, \A k \in given : content'[k] = content[k],
         content'[h] = ToMove(call[t].source, call[t].weights)
  PROVE  Contract!Next
<1> DEFINE wanted == ToMove(call[t].source, call[t].weights)
<1>1. Asked[t] # Request(NoHandle, NoMemory) /\ Asked[t] = Request(call[t].source, call[t].weights)
  BY BuildingAsks DEF Asked
<1>2. Asked' = [Asked EXCEPT ![t] = Request(NoHandle, NoMemory)]
  <2>1. Asks(Idle) = Request(NoHandle, NoMemory)
    BY DEF Asks, Idle, Building
  <2> QED BY <2>1, AskedExcept, IdleType DEF Ends
<1>3. DOMAIN Store = given
  BY DEF Store, Restrict
<1>4. Store' = [k \in DOMAIN Store \cup {h} |-> IF k = h THEN wanted ELSE Store[k]]
  BY <1>3 DEF Store, Restrict
<1>5. wanted = IF Asked[t].source = NoHandle THEN Asked[t].weights ELSE Store[Asked[t].source]
  <2>1. Asked[t].source = call[t].source /\ Asked[t].weights = call[t].weights
    BY <1>1 DEF Request
  <2>2. call[t].source \in given => Store[call[t].source] = content[call[t].source]
    BY DEF Store, Restrict
  <2> QED BY <2>1, <2>2 DEF ToMove, Sources
<1> HIDE DEF wanted
<1>6. Contract!Wanted(Asked[t]) = wanted
  BY <1>5 DEF Contract!Wanted, Store
<1>7. Contract!Answer(t, h)
  <2>1. Contract!NoRequest = Request(NoHandle, NoMemory)
    BY DEF Contract!NoRequest, Request
  <2>2. /\ Asked[t] # Contract!NoRequest /\ h \notin DOMAIN Store
        /\ Store' = [k \in DOMAIN Store \cup {h} |->
                       IF k = h THEN Contract!Wanted(Asked[t]) ELSE Store[k]]
        /\ Asked' = [Asked EXCEPT ![t] = Contract!NoRequest]
    BY <1>1, <1>2, <1>3, <1>4, <1>6, <2>1
  <2> QED BY <2>2 DEF Contract!Answer, Asked, Asks, Request, Store
<1> QED BY <1>7 DEF Contract!Next

\* A handle that is given back is an abstract free.
LEMMA FreeStep ==
  ASSUME NEW h \in Handles, h \in given, given' = given \ {h}, Unused(h),
         \A k \in given' : content'[k] = content[k], Asked' = Asked, TypeOK
  PROVE  Contract!Next
<1>1. DOMAIN Store = given
  BY DEF Store, Restrict
<1>2. Store' = Restrict(Store, DOMAIN Store \ {h})
  BY <1>1 DEF Store, Restrict
<1>3. \A t \in Threads : Asked[t].source # h
  BY BackendAssumption DEF Asked, Asks, Request, Unused, NoHandle
<1>4. Contract!Free(h)
  BY <1>1, <1>2, <1>3 DEF Contract!Free, Contract!Restrict, Restrict, Store, Asked, Asks, Request
<1> QED BY <1>4 DEF Contract!Next

\* A load or a move that starts on a fresh buffer.
LEMMA StartSimulates ==
  ASSUME OwnershipInv, ContentsOK, NEW t \in Threads, call[t].at = "idle",
         NEW h \in Handles, Fresh(h), NEW m,
         NEW c \in CallRecord, Building(c), c.handle = h, c.source \in Sources,
         c.weights \in Weights,
         content' = [content EXCEPT ![h] = m], call' = [call EXCEPT ![t] = c],
         UNCHANGED given,
         c.at \in {"filled", "allocating", "moving"},
         c.at = "filled" => m = ToMove(c.source, c.weights),
         c.at = "allocating" => c.source = NoHandle,
         c.at = "moving" => m # NoMemory
  PROVE  Simulates
<1>1. /\ call'[t] = c /\ \A u \in Threads : u # t => call'[u] = call[u]
  BY OneCall DEF OwnershipInv
<1>2. h \notin given /\ \A u \in Threads : call[u].handle # h /\ call[u].source # h
  BY FreshIsNobodys
<1>3. content'[h] = m /\ \A k \in Handles : k # h => content'[k] = content[k]
  BY DEF OwnershipInv, TypeOK
<1>4. /\ given \subseteq Handles
      /\ \A u \in Threads : Building(call[u]) =>
           /\ call[u].handle \in Handles
           /\ call[u].source # NoHandle => call[u].source \in Handles
  BY DEF OwnershipInv, TypeOK, CallsOwn, SourcesStay
<1>5. \A k \in given : content'[k] = content[k]
  BY <1>2, <1>3, <1>4
<1>6. ASSUME NEW u \in Threads, u # t PROVE GoodCall(call[u])'
  BY <1>1, <1>2, <1>3, <1>4, <1>6, OthersGood
<1>7. GoodCall(call[t])'
  <2>1. c.source \in given => content'[c.source] = content[c.source]
    BY <1>5
  <2> QED BY <1>1, <1>3, <2>1 DEF GoodCall, ToMove, Sources, Building
<1>8. ContentsOK'
  BY <1>5, <1>6, <1>7 DEF ContentsOK
<1>9. Contract!Next
  BY <1>5, HiddenStore, AskStep DEF OwnershipInv, Building
<1> QED BY <1>8, <1>9 DEF Simulates

\* The buffers and the calls beside a call that works on its own memory.
LEMMA BesideGood ==
  ASSUME OwnershipInv, ContentsOK, NEW t \in Threads,
         Building(call[t]) \/ call[t].at = "running",
         NEW m, NEW c \in CallRecord,
         content' = [content EXCEPT ![call[t].handle] = m], call' = [call EXCEPT ![t] = c]
  PROVE  /\ call[t].handle \in Handles /\ call[t].handle \notin given
         /\ call'[t] = c /\ content'[call[t].handle] = m
         /\ \A k \in given : content'[k] = content[k]
         /\ \A u \in Threads : u # t => GoodCall(call[u])'
<1>1. /\ call'[t] = c /\ \A u \in Threads : u # t => call'[u] = call[u]
  BY OneCall DEF OwnershipInv
<1>2. /\ call[t].handle \in Handles /\ call[t].handle \notin given
      /\ \A u \in Threads : u # t => call[u].handle # call[t].handle
  BY BackendAssumption DEF OwnershipInv, CallsOwn, CallsApart, TypeOK, NoHandle
<1>3. /\ content'[call[t].handle] = m
      /\ \A k \in Handles : k # call[t].handle => content'[k] = content[k]
  BY <1>2 DEF OwnershipInv, TypeOK
<1>4. /\ given \subseteq Handles
      /\ \A u \in Threads : Building(call[u]) =>
           /\ call[u].handle \in Handles
           /\ call[u].source # NoHandle => call[u].source \in given
  BY DEF OwnershipInv, TypeOK, CallsOwn, SourcesStay
<1>5. ASSUME NEW u \in Threads, u # t PROVE GoodCall(call[u])'
  BY <1>1, <1>2, <1>3, <1>4, <1>5, OthersGood
<1> QED BY <1>1, <1>2, <1>3, <1>4, <1>5

\* A call that goes on with its request shows nothing.
LEMMA GoingOnSimulates ==
  ASSUME OwnershipInv, ContentsOK, NEW t \in Threads, Building(call[t]),
         NEW m, NEW c \in CallRecord, Building(c), c.handle = call[t].handle,
         c.source = call[t].source, c.weights = call[t].weights,
         content' = [content EXCEPT ![call[t].handle] = m], call' = [call EXCEPT ![t] = c],
         UNCHANGED given,
         \/ c.at = "copying" /\ c.source = NoHandle
         \/ c.at \in {"incrementing", "checking"} /\ m = ToMove(c.source, c.weights)
  PROVE  Simulates
<1>1. /\ call'[t] = c /\ content'[call[t].handle] = m
      /\ \A k \in given : content'[k] = content[k]
      /\ \A u \in Threads : u # t => GoodCall(call[u])'
  BY BesideGood
<1>2. c.weights \in Weights /\ c.source \in Sources
  BY DEF ContentsOK, GoodCall, OwnershipInv, SourcesStay, Sources
<1>3. GoodCall(call[t])'
  <2>1. c.source \in given => content'[c.source] = content[c.source]
    BY <1>1
  <2> QED BY <1>1, <1>2, <2>1 DEF GoodCall, ToMove, Sources, Building
<1>4. ContentsOK'
  BY <1>1, <1>3 DEF ContentsOK
<1>5. Asked' = Asked
  <2>1. Asks(c) = Asks(call[t])
    BY DEF Asks
  <2> QED BY <2>1, AskedExcept DEF Asked, OwnershipInv
<1> QED BY <1>1, <1>4, <1>5, HiddenStore DEF Simulates

\* A buffer that holds what was asked for goes to the caller.
LEMMA HandingOutSimulates ==
  ASSUME OwnershipInv, ContentsOK, NEW t \in Threads, Building(call[t]), NEW m,
         m = ToMove(call[t].source, call[t].weights),
         content' = [content EXCEPT ![call[t].handle] = m], Ends(t),
         given' = given \cup {call[t].handle}
  PROVE  Simulates
<1>1. /\ call[t].handle \in Handles /\ call[t].handle \notin given
      /\ call'[t] = Idle /\ content'[call[t].handle] = m
      /\ \A k \in given : content'[k] = content[k]
      /\ \A u \in Threads : u # t => GoodCall(call[u])'
  BY BesideGood, IdleType DEF Ends
<1>2. call[t].weights \in Weights /\ call[t].source \in Sources
  BY DEF ContentsOK, GoodCall, OwnershipInv, SourcesStay, Sources
<1>3. m \in Weights
  BY <1>2, MovedIsWeights
<1>4. ContentsOK'
  BY <1>1, <1>3 DEF ContentsOK, GoodCall, Idle, Building
<1>5. Contract!Next
  BY <1>1, <1>2, AnswerStep DEF OwnershipInv
<1> QED BY <1>4, <1>5 DEF Simulates

\* A call that gives its memory back has changed nothing.
LEMMA GivingUpSimulates ==
  ASSUME OwnershipInv, ContentsOK, NEW t \in Threads,
         Building(call[t]) \/ call[t].at = "running",
         content' = [content EXCEPT ![call[t].handle] = NoMemory], Ends(t), UNCHANGED given
  PROVE  Simulates
<1>1. /\ call'[t] = Idle /\ \A k \in given : content'[k] = content[k]
      /\ \A u \in Threads : u # t => GoodCall(call[u])'
  BY BesideGood, IdleType DEF Ends
<1>2. ContentsOK'
  BY <1>1 DEF ContentsOK, GoodCall, Idle, Building
<1>3. Store' = Store
  BY <1>1, HiddenStore
<1>4. CASE Building(call[t])
  <2>1. call[t].weights \in Weights
    BY <1>4 DEF ContentsOK, GoodCall
  <2> QED BY <1>2, <1>3, <1>4, <2>1, RefuseStep DEF OwnershipInv, Simulates
<1>5. CASE ~ Building(call[t])
  <2>1. Asks(Idle) = Asks(call[t])
    BY <1>5 DEF Asks, Idle, Building
  <2>2. Asked' = Asked
    BY <2>1, AskedExcept, IdleType DEF Asked, OwnershipInv, Ends
  <2> QED BY <1>2, <1>3, <2>2 DEF Simulates
<1> QED BY <1>4, <1>5

-----------------------------------------------------------------------------
(* One lemma for each group of actions.                                    *)

\* evict of either backend is an abstract free.
LEMMA EvictSimulates ==
  ASSUME OwnershipInv, ContentsOK, NEW t \in Threads, NEW h \in Handles,
         MemoryEvict(t, h) \/ CudaEvict(t, h)
  PROVE  Simulates
<1>1. /\ h \in given /\ given' = given \ {h} /\ content' = [content EXCEPT ![h] = NoMemory]
      /\ given \subseteq objects /\ objects \subseteq Handles /\ Unused(h)
      /\ call[t].at = "idle"
  BY DEF MemoryEvict, CudaEvict, OwnershipInv, TypeOK
<1>2. \A k \in Handles : k # h => content'[k] = content[k]
  BY <1>1 DEF OwnershipInv, TypeOK
<1>3. PICK c \in CallRecord : c.at \in {"idle", "decrementing"} /\ call' = [call EXCEPT ![t] = c]
  <2>1. CASE MemoryEvict(t, h)
    <3> DEFINE c == [call[t] EXCEPT !.at = "decrementing", !.saw = live]
    <3>1. c \in CallRecord /\ c.at = "decrementing"
      BY DEF OwnershipInv, TypeOK, CallRecord
    <3>2. call' = [call EXCEPT ![t] = c]
      BY <2>1 DEF MemoryEvict, CountRead, OwnershipInv, TypeOK
    <3> HIDE DEF c
    <3> QED BY <3>1, <3>2
  <2>2. CASE CudaEvict(t, h)
    <3>1. call[t] \in CallRecord /\ call' = [call EXCEPT ![t] = call[t]]
      BY <2>2 DEF CudaEvict, OwnershipInv, TypeOK
    <3> QED BY <1>1, <3>1
  <2> QED BY <2>1, <2>2
<1>4. /\ call'[t] = c /\ \A u \in Threads : u # t => call'[u] = call[u]
  BY <1>3, OneCall DEF OwnershipInv
<1>5. ASSUME NEW u \in Threads, u # t PROVE GoodCall(call[u])'
  <2>1. Building(call[u]) => /\ call[u].handle \in Handles /\ call[u].handle # h
                             /\ call[u].source # h
                             /\ call[u].source # NoHandle => call[u].source \in Handles
    BY <1>1 DEF OwnershipInv, CallsOwn, SourcesStay, Unused
  <2> QED BY <1>2, <1>4, <1>5, <2>1, OthersGood
<1>6. GoodCall(call[t])'
  BY <1>3, <1>4 DEF GoodCall, Building
<1>7. \A k \in given' : content'[k] = content[k]
  BY <1>1, <1>2
<1>8. ContentsOK'
  BY <1>1, <1>5, <1>6, <1>7 DEF ContentsOK
<1>9. Asked' = Asked
  <2>1. Asks(c) = Asks(call[t])
    BY <1>1, <1>3 DEF Asks, Building
  <2> QED BY <1>3, <2>1, AskedExcept DEF Asked, OwnershipInv
<1> QED BY <1>1, <1>7, <1>8, <1>9, FreeStep DEF Simulates, OwnershipInv

\* MemoryBackend builds a buffer.
LEMMA FilledSimulates ==
  ASSUME OwnershipInv, ContentsOK, NEW t \in Threads, NEW h \in Handles, NEW source \in Sources,
         NEW w \in Weights, MemoryFilled(t, h, ToMove(source, w), source, w)
  PROVE  Simulates
<1> DEFINE c == [at |-> "filled", handle |-> h, source |-> source, weights |-> w, saw |-> 0]
<1>1. /\ c \in CallRecord /\ Building(c) /\ c.handle = h /\ c.at = "filled"
      /\ c.source = source /\ c.weights = w
  BY DEF OwnershipInv, TypeOK, CallRecord, Building, Sources
<1>2. /\ call[t].at = "idle" /\ Fresh(h) /\ content' = [content EXCEPT ![h] = ToMove(source, w)]
      /\ call' = [call EXCEPT ![t] = c] /\ UNCHANGED given
  BY DEF MemoryFilled
<1> HIDE DEF c
<1> QED BY <1>1, <1>2, StartSimulates

\* MemoryBackend counts: the buffer shows when it is counted.
LEMMA CountSimulates ==
  ASSUME OwnershipInv, ContentsOK, NEW t \in Threads,
         MemoryCount(t) \/ MemoryCounted(t) \/ MemoryUncounted(t)
  PROVE  Simulates
<1>1. CASE MemoryCount(t)
  <2> DEFINE c == [call[t] EXCEPT !.at = "incrementing", !.saw = live]
  <2>1. /\ c \in CallRecord /\ c.handle = call[t].handle /\ c.at = "incrementing"
        /\ c.source = call[t].source /\ c.weights = call[t].weights
        /\ Building(call[t]) /\ Building(c)
    BY <1>1 DEF MemoryCount, OwnershipInv, TypeOK, CallRecord, Building
  <2>2. content[call[t].handle] = ToMove(call[t].source, call[t].weights)
    BY <1>1 DEF MemoryCount, ContentsOK, GoodCall
  <2>3. /\ call' = [call EXCEPT ![t] = c] /\ given' = given
        /\ content' = [content EXCEPT ![call[t].handle] = content[call[t].handle]]
    BY <1>1 DEF MemoryCount, CountRead, OwnershipInv, TypeOK
  <2> HIDE DEF c
  <2> QED BY <2>1, <2>2, <2>3, GoingOnSimulates
<1>2. CASE MemoryCounted(t)
  <2>1. /\ content[call[t].handle] = ToMove(call[t].source, call[t].weights)
        /\ Building(call[t])
    BY <1>2 DEF MemoryCounted, ContentsOK, GoodCall, Building
  <2>2. /\ Ends(t) /\ given' = given \cup {call[t].handle}
        /\ content' = [content EXCEPT ![call[t].handle] = content[call[t].handle]]
    BY <1>2 DEF MemoryCounted, OwnershipInv, TypeOK
  <2> QED BY <2>1, <2>2, HandingOutSimulates
<1>3. CASE MemoryUncounted(t)
  <2>1. /\ call'[t] = Idle /\ \A u \in Threads : u # t => call'[u] = call[u]
        /\ call' = [call EXCEPT ![t] = Idle] /\ call[t].at = "decrementing"
    BY <1>3, OneCall, IdleType DEF MemoryUncounted, Ends, OwnershipInv
  <2>2. UNCHANGED <<content, given>>
    BY <1>3 DEF MemoryUncounted
  <2>3. ASSUME NEW u \in Threads PROVE GoodCall(call[u])'
    <3>1. CASE u = t
      BY <2>1, <3>1 DEF GoodCall, Idle, Building
    <3>2. CASE u # t
      BY <2>1, <2>2, <3>2, OthersGood
    <3> QED BY <3>1, <3>2
  <2>4. ContentsOK'
    BY <2>2, <2>3 DEF ContentsOK
  <2>5. Asked' = Asked
    <3>1. Asks(Idle) = Asks(call[t])
      BY <2>1 DEF Asks, Idle, Building
    <3> QED BY <2>1, <3>1, AskedExcept, IdleType DEF Asked, OwnershipInv
  <2> QED BY <2>2, <2>4, <2>5, HiddenStore DEF Simulates
<1> QED BY <1>1, <1>2, <1>3

\* The steps of CudaBackend, when moves do not fail: a buffer shows when it was
\* filled and, after a load, checked.
LEMMA CudaSimulates ==
  ASSUME ~ MovesMayFail, OwnershipInv, ContentsOK, NEW t \in Threads, NEW ok \in BOOLEAN,
         CudaMalloc(t, ok) \/ CudaCopy(t, ok) \/ CudaCheck(t, ok) \/ CudaMoved(t, ok) \/ CudaRan(t)
  PROVE  Simulates
<1> DEFINE own == call[t].handle
<1>1. Building(call[t]) \/ call[t].at = "running"
  BY DEF CudaMalloc, CudaCopy, CudaCheck, CudaMoved, CudaRan, Building
<1>2. own \in Handles /\ call[t] \in CallRecord
  BY <1>1 DEF OwnershipInv, CallsOwn, TypeOK
<1>3. CASE \/ GivenUp(t) /\ Ends(t) /\ UNCHANGED given
           \/ CudaRan(t)
  <2>1. content' = [content EXCEPT ![own] = NoMemory] /\ given' = given /\ Ends(t)
    BY <1>3 DEF GivenUp, CudaRan
  <2> QED BY <1>1, <2>1, GivingUpSimulates
<1>4. CASE (CudaMalloc(t, ok) \/ CudaCopy(t, ok)) /\ ok
  <2>1. PICK s \in {"copying", "checking"} :
          /\ call' = [call EXCEPT ![t].at = s] /\ given' = given
          /\ s = "copying" => content' = [content EXCEPT ![own] = Garbage]
          /\ s = "checking" => content' = [content EXCEPT ![own] = call[t].weights]
    BY <1>4 DEF CudaMalloc, CudaCopy
  <2> DEFINE m == IF s = "copying" THEN Garbage ELSE call[t].weights
  <2> DEFINE c == [call[t] EXCEPT !.at = s]
  <2>2. /\ c \in CallRecord /\ c.handle = own /\ c.at = s /\ Building(c)
        /\ c.source = call[t].source /\ c.weights = call[t].weights
    BY <1>2 DEF CallRecord, Building
  <2>3. call' = [call EXCEPT ![t] = c]
    BY <2>1 DEF OwnershipInv, TypeOK
  <2>4. Building(call[t]) /\ call[t].source = NoHandle
    BY <1>4 DEF CudaMalloc, CudaCopy, ContentsOK, GoodCall, Building
  <2>5. ToMove(call[t].source, call[t].weights) = call[t].weights
    BY <2>4 DEF ToMove
  <2>6. content' = [content EXCEPT ![own] = m]
    BY <2>1
  <2>7. \/ c.at = "copying" /\ c.source = NoHandle
        \/ c.at \in {"incrementing", "checking"} /\ m = ToMove(c.source, c.weights)
    BY <2>2, <2>4, <2>5
  <2> HIDE DEF c, m
  <2> QED BY <2>1, <2>2, <2>3, <2>4, <2>6, <2>7, GoingOnSimulates
<1>5. CASE CudaCheck(t, ok) /\ ok
  <2>1. content[own] = ToMove(call[t].source, call[t].weights) /\ Building(call[t])
    BY <1>5 DEF CudaCheck, ContentsOK, GoodCall, Building
  <2>2. /\ Ends(t) /\ given' = given \cup {own}
        /\ content' = [content EXCEPT ![own] = content[own]]
    BY <1>2, <1>5 DEF CudaCheck, HandedOut, OwnershipInv, TypeOK
  <2> QED BY <2>1, <2>2, HandingOutSimulates
<1>6. CASE CudaMoved(t, ok)
  <2> DEFINE m == ToMove(call[t].source, call[t].weights)
  <2>1. ok /\ Building(call[t])
    BY <1>6 DEF CudaMoved, Building
  <2>2. /\ Ends(t) /\ given' = given \cup {own}
        /\ content' = [content EXCEPT ![own] = m]
    BY <1>6, <2>1 DEF CudaMoved, HandedOut
  <2> QED BY <2>1, <2>2, HandingOutSimulates
<1>7. ~ ok /\ (CudaMalloc(t, ok) \/ CudaCopy(t, ok) \/ CudaCheck(t, ok)) =>
        GivenUp(t) /\ Ends(t) /\ UNCHANGED given
  BY DEF CudaMalloc, CudaCopy, CudaCheck
<1> QED BY <1>3, <1>4, <1>5, <1>6, <1>7

\* CudaBackend's load and migrate up to the object, and a kernel run.
LEMMA CudaStartSimulates ==
  ASSUME ~ MovesMayFail, OwnershipInv, ContentsOK, NEW t \in Threads, NEW h \in Handles,
         \/ \E w \in Weights : CudaLoad(t, h, w)
         \/ \E source \in Sources, w \in Weights, ok \in BOOLEAN : CudaMove(t, h, source, w, ok)
         \/ \E source \in Handles : CudaRun(t, source, h)
  PROVE  Simulates
<1>1. ASSUME NEW source \in Sources, NEW w \in Weights, NEW m,
             NEW after \in {"allocating", "moving"}, CudaAllocated(t, h, m, after, source, w),
             after = "allocating" => source = NoHandle, after = "moving" => m # NoMemory
      PROVE  Simulates
  <2> DEFINE c == [at |-> after, handle |-> h, source |-> source, weights |-> w, saw |-> 0]
  <2>1. /\ c \in CallRecord /\ Building(c) /\ c.handle = h /\ c.at = after
        /\ c.source = source /\ c.weights = w
    BY DEF OwnershipInv, TypeOK, CallRecord, Building, Sources
  <2>2. /\ call[t].at = "idle" /\ Fresh(h) /\ content' = [content EXCEPT ![h] = m]
        /\ call' = [call EXCEPT ![t] = c] /\ UNCHANGED given
    BY <1>1 DEF CudaAllocated
  <2> HIDE DEF c
  <2> QED BY <1>1, <2>1, <2>2, StartSimulates
<1>2. ASSUME NEW source \in Handles, CudaRun(t, source, h)
      PROVE  Simulates
  <2> DEFINE c == [Idle EXCEPT !.at = "running", !.handle = h, !.source = source]
  <2>1. c \in CallRecord /\ c.at = "running"
    BY DEF Idle, CallRecord, NoHandle, NoMemory
  <2>2. /\ Fresh(h) /\ content' = [content EXCEPT ![h] = Garbage] /\ call[t].at = "idle"
        /\ call' = [call EXCEPT ![t] = c] /\ UNCHANGED given
    BY <1>2 DEF CudaRun
  <2> HIDE DEF c
  <2>3. /\ call'[t] = c /\ \A u \in Threads : u # t => call'[u] = call[u]
    BY <2>1, <2>2, OneCall DEF OwnershipInv
  <2>4. h \notin given /\ \A u \in Threads : call[u].handle # h /\ call[u].source # h
    BY <2>2, FreshIsNobodys
  <2>5. \A k \in Handles : k # h => content'[k] = content[k]
    BY <2>2 DEF OwnershipInv, TypeOK
  <2>6. /\ given \subseteq Handles
        /\ \A u \in Threads : Building(call[u]) =>
             /\ call[u].handle \in Handles
             /\ call[u].source # NoHandle => call[u].source \in Handles
    BY DEF OwnershipInv, TypeOK, CallsOwn, SourcesStay
  <2>7. \A k \in given : content'[k] = content[k]
    BY <2>4, <2>5, <2>6
  <2>8. ASSUME NEW u \in Threads, u # t PROVE GoodCall(call[u])'
    BY <2>3, <2>4, <2>5, <2>6, <2>8, OthersGood
  <2>9. GoodCall(call[t])'
    BY <2>1, <2>3 DEF GoodCall, Building
  <2>10. ContentsOK'
    BY <2>2, <2>7, <2>8, <2>9 DEF ContentsOK
  <2>11. Asked' = Asked
    <3>1. Asks(c) = Asks(call[t])
      BY <2>1, <2>2 DEF Asks, Building
    <3> QED BY <2>1, <2>2, <3>1, AskedExcept DEF Asked, OwnershipInv
  <2> QED BY <2>2, <2>7, <2>10, <2>11, HiddenStore DEF Simulates
<1>3. ASSUME NEW source \in Sources, NEW w \in Weights, NEW ok \in BOOLEAN,
             CudaMove(t, h, source, w, ok)
      PROVE  Simulates
  <2>1. CudaAllocated(t, h, Garbage, "moving", source, w) /\ Garbage # NoMemory
    BY <1>3 DEF CudaMove, Garbage, NoMemory
  <2> QED BY <1>1, <2>1
<1>4. ASSUME NEW w \in Weights, CudaLoad(t, h, w)
      PROVE  Simulates
  BY <1>1, <1>4 DEF CudaLoad, Sources
<1> QED BY <1>2, <1>3, <1>4

-----------------------------------------------------------------------------
(* The refinement.                                                         *)

\* Every step of the backends is a step of the contract, or none.
LEMMA NextSimulates ==
  ASSUME ~ MovesMayFail, OwnershipInv, ContentsOK, [Next]_vars
  PROVE  Simulates
<1>1. CASE UNCHANGED vars
  <2>1. UNCHANGED <<Store, Asked>>
    BY <1>1 DEF vars, Store, Asked, Asks, Building
  <2>2. ContentsOK'
    BY <1>1 DEF vars, ContentsOK, GoodCall, Building, ToMove
  <2> QED BY <2>1, <2>2 DEF Simulates
<1>2. ASSUME NEW t \in Threads, NEW h \in Handles, NEW source \in Sources, NEW w \in Weights,
             MemoryMove(t, h, source, w)
      PROVE  Simulates
  BY <1>2, FilledSimulates DEF MemoryMove
<1>3. ASSUME NEW t \in Threads, NEW h \in Handles, NEW w \in Weights, MemoryLoad(t, h, w)
      PROVE  Simulates
  <2>1. NoHandle \in Sources /\ ToMove(NoHandle, w) = w
    BY DEF Sources, ToMove
  <2> QED BY <1>3, <2>1, FilledSimulates DEF MemoryLoad
<1>4. CASE Next
  BY <1>2, <1>3, <1>4, CountSimulates, CudaSimulates, CudaStartSimulates, EvictSimulates DEF Next
<1> QED BY <1>1, <1>4

\* The backends implement the contract of src/include/mr/backend.hpp that the
\* coordinator relies on, as long as the CUDA runtime does not fail a move: a call
\* is answered with a buffer that holds the weights it asked for or a true copy of
\* its source, or it changes nothing, and a handle stands for that until it is
\* evicted, however the calls of the threads interleave.
THEOREM BackendContractTheorem ==
  ASSUME ~ MovesMayFail
  PROVE  Spec => BackendContract
<1>1. Init => ContentsOK /\ Contract!Init
  <2> SUFFICES ASSUME Init PROVE ContentsOK /\ Contract!Init
    OBVIOUS
  <2>1. \A t \in Threads : call[t] = Idle /\ ~ Building(call[t])
    BY DEF Init, Idle, Building
  <2>2. ContentsOK
    BY <2>1 DEF Init, ContentsOK, GoodCall, Idle, Building
  <2>3. Contract!Init
    BY <2>1 DEF Init, Contract!Init, Contract!NoRequest, Restrict
  <2> QED BY <2>2, <2>3
<1>2. OwnershipInv /\ ContentsOK /\ [Next]_vars =>
        ContentsOK' /\ [Contract!Next]_<<Store, Asked>>
  BY NextSimulates DEF Simulates
<1>3. OwnershipInv /\ ContentsOK /\ [Next]_vars =>
        ContentsOK' /\ [Contract!Next]_<<Restrict(content, given),
          [t \in Threads |->
             IF Building(call[t]) THEN [source |-> call[t].source, weights |-> call[t].weights]
             ELSE [source |-> NoHandle, weights |-> NoMemory]]>>
  BY <1>2 DEF Store, Asked, Asks, Request
<1> QED BY <1>1, <1>3, OwnershipAlways, PTL DEF Spec, BackendContract, Contract!Spec
=============================================================================
