# A verification project for Model-Residency

TLA+ modules for the residency coordinator, its capacity accounting, its model
catalog, its backends, its persistence, its distributed front end and the wire
protocol; TLC configurations for small
instances; and TLAPS proofs for every instance. Paths such as
`src/src/coordinator.cpp` are paths of the repository.

    tlc -workers 2 -config CoordinatorLoads.cfg MCCoordinator
    tlapm CoordinatorProofs.tla

## 1. The system

| part | state | operations | talks to |
|---|---|---|---|
| capacity (`capacity.cpp`) | per domain: total, governed, unavailable, reserved, resident, pinned | reserve, commit, cancel, release, pin, unpin, set_unavailable, register_domain | called under the coordinator's mutex |
| lifecycle, sets (`residency.cpp`) | per residency: lifecycle, validation, readiness, authority, generation, handle; per set: members, required, complete, ready | transition_to, recompute_complete | the coordinator |
| coordinator (`coordinator.cpp`) | residencies, sets, active set and generation per model, domains, workers, one mutex | admit, load, publish_ready, migrate, demote, evict, pin, unpin, invalidate, roll_model_generation, register_worker, mark_worker_lost, save_to, load_from, rebalance, explain | calls the backend with the mutex free |
| backends (`memory_backend.cpp`, `cuda_backend.cu`) | buffers, device memory, a count of live buffers | load, migrate, verify, evict, kernel run | called by load, migrate, demote (unlocked) and by evict, invalidate, rollover, worker loss (locked) |
| persistence (`persistence.cpp`) | a file | encode, decode, validate_snapshot | save_to, load_from |
| authority (`authority.cpp`) | none | validate: ten axes in order | the server's report handler |
| server (`coordinator_main.cpp`) | connections by worker id, current boot by worker id, a count of stale messages | register, report, end of a connection, control requests | one thread per connection; calls the coordinator |
| worker, wire (`worker_main.cpp`, `net.cpp`, `protocol.cpp`, `serialization.hpp`) | a socket, a frame half written or half read | connect, register, report; write_frame, read_frame, encode, decode | the server |
| catalog, adapters (`model.cpp`, `adapter.hpp`) | revisions in the order of their registration, adapter sets | register_revision, latest_revision, find, register_adapter_set | under the coordinator's mutex, looked up again in each section of a load |
| compatibility, policy, placement, explanations | configuration | checks, rankings, texts | read by the coordinator |

What is hard here:

* **Gaps in the critical sections.** load, migrate and demote let go of the
  mutex while the backend works, and load also between its own admission and
  its placement. Whatever another thread does meanwhile must be found out
  afterwards.
* **Exceptions half way.** Most mutators throw on a violated precondition, and
  loops over residencies or members do not undo what they did.
* **Restart.** Saving runs beside other calls, and its file is all that a new
  process has.
* **Connections that overlap.** Two processes can speak for one worker id, and
  the thread of the first may still be ending when the second registers.
* **Unsigned words.** Some capacity checks add and subtract unchecked.
* **Looking up twice.** Each section of a load resolves its request anew; what
  admission checked need not be what the next section finds.
* **Bytes, not messages.** A socket takes and gives pieces of any size and may
  fail at any of them.
* **Failing runtime calls.** Every call of the CUDA runtime may fail with
  something already allocated.

What makes each part correct: the counters of a domain are coherent and equal
to what residencies and calls in flight account for; a residency that lost its
authority never gets it back; what serves is current and has its buffer; every
call returns; every saved state can be loaded; one boot per worker is live, and
a lost worker is found out; messages arrive whole and in order; a handle stands
for the weights it was made for until it is given back. `PROJECT.json` lists the single hazards with their
lines.

## 2. The modules

| module | models | composes |
|---|---|---|
| `Lifecycle` | the transition relation, resident states, classes | |
| `MemoryDomain` | one domain: a guard and an effect per mutator, on words modulo `Word` | |
| `MemoryDomainPool` | every sequence of calls on a pool, with re-registration | `MemoryDomain` |
| `Coordinator` | the coordinator called by several threads | `Lifecycle`, `MemoryDomain` |
| `Recovery` | save_to, a crash, load_from around the coordinator | `Coordinator` |
| `Authority` | `StaleAuthorityChecker::validate` | |
| `Server` | connection threads and registry | `Authority` |
| `Catalog` | revisions, adapter sets, compatibility and the sections of a load that look them up | |
| `Wire` | the messages, field by field, and their encoders and decoders | |
| `FrameChannel` | abstract: what one direction of a connection promises | |
| `Framing` | frames over sockets that carry pieces and fail | `Wire`; implements `FrameChannel` |
| `ResidencyBackend` | abstract: what the coordinator counts on in a backend | |
| `Backend` | the memory and the CUDA backend under several threads | implements `ResidencyBackend` |
| `MCCoordinator`, `MCRecovery`, `MCCatalog`, `MCFraming` | values for the constants | |
| `CapacityLemmas`, `MemoryDomainProofs` | proofs: mutators, sums of bytes, the pool | |
| `CoordinatorProofs` | proofs: types and coherence of the coordinator, then across saves and recoveries | |
| `CoordinatorSafetyProofs` | proofs: what calls in flight count on, exact books, sets that are ready, bytes across restarts | |
| `BackendProofs`, `CatalogProofs`, `ServerProofs`, `FramingProofs` | proofs of those components | |

**State.** The variables of `Coordinator` are the members of the class:
`domains`, `residencies` and `sets` (never erased in the code, so an id is a
position of a sequence), `activeSet`, `modelGens`, `workers`. `call[t]` is what
thread `t` holds in local variables across a gap, `mutex` is the thread that
never gives the mutex back, `heap` the live buffers. Random ids order the
code's maps, so whatever depends on that order is a choice.

**Actions.** One critical section is one action: `LoadAdmit`, then
`LoadReuse`, an eviction round or `LoadBegin`, then one of `LoadStale`,
`LoadPublish`, `LoadPartial`, `LoadCommitThrows`; `MigrateBegin` and
`DemoteBegin`, then the stale, the failed or the successful end, or one in which
commit throws (`MigrateCommitThrows`, `DemoteCommitThrows`). That last one needs
a model whose components exceed what it declares: its load commits them against
another call's reservation. A demotion that throws there has already released
the source's bytes and freed its buffer, and leaves the residency Demoting with
the handle of that buffer; a migration leaves its source Migrating. The other
operations are one action each. A call that fails before it changes anything
is not a step; one that throws later is, with the effects it leaves.

**Locking twice.** load calls evict and admit with the mutex held. Locking a
`std::mutex` twice is undefined; `RelockBlocks` says whether the second lock
blocks (as on POSIX) or goes through (as in some MSVC builds). Both are checked.

**Abstractions.** The compatibility checker's answer, sizes and policy are
constants, since no operation modelled changes them. An accelerator domain has
a device and a host domain has none, which is what the ranking looks at.
Request priority and expected demand are the same for every candidate and drop
out of the ranking. The epoch never changes after construction, so the tests
of the epoch never fail for a current caller. Residency, adapter, device and
policy generations, timestamps, reasons and explanations are read by no
operation that changes state and are left out. In `Recovery` there is one saver
at a time, and a file is absent, unreadable or a snapshot: magic, version,
length and checksum failures are one outcome. In `Server` a residency is a
worker and the boot that was registered when it was loaded, and a report has
one number for its five generations. `++stale_rejected_` is a read and a store
under one of two different mutexes, so an increment may be lost. `Hosts` are the
workers on whose device the client registered a memory domain, as the driver does
for one of its two. `MemoryDomainPool` registers domains that are coherent,
counters included: register_domain checks neither, its callers build a new domain
or take one that decode has checked.

**The wire.** In `Wire` a byte string is a sequence of digits to a small base and
the integer types have different small widths, so that a field read at another
width or place is noticed. `Written` and `Read` are the lists of fields that the
encoders and the decoders go through, each translated from its own function;
`After` is the position a reader is left at, with the checks it makes on the way.
`Place` is what a byte counts for, a recursive function rather than a power so that
it can be reasoned about. `Encodable` says what a message of the program is: every
field holds a value of its type, a text has a length that a u32 holds (string()
throws otherwise) and a list is no longer than its decoder accepts, 2^20 devices.
`Framing` has one writer and one reader: write_frame, then one action per send
and per recv, with any number of bytes; the writer may close or die and the
connection may break at any byte. A send that fails returns false, as on Windows; on POSIX the process
would be ended by SIGPIPE, which nothing handles, and to the reader that is a
connection that broke. Numbers are least significant byte first, since BinWriter
copies the host's byte order: two little-endian hosts. Its refinement mapping is plain: the messages
write_frame began are the channel's `sent`, the ones the reader's loop was handed
its `got`, and a connection that broke, or was closed within a frame, has failed.
`FrameChannel` states its fairness without ENABLED, so that it means the same
under the mapping.

**The catalog.** `Catalog` keeps of a residency what a load copies from the
revision it resolved, and one residency stands for all members of a load. It
leaves capacity to `Coordinator`: a load may find no room in any section.
Eviction, invalidation and worker loss are one action, since they make the same
of a ready residency here. A partial load counts as failed.

**The backends.** In `Backend` a buffer is an object and a block of memory whose
content is the weights of a revision, garbage or nothing. A CUDA load is four
actions (object made, allocated, copied, checked), of which each runtime call may
fail; a move is two; the
allocator may give out any address that is free, so a freed handle is soon used
again. The refinement mapping restricts the memory to the handles callers have, so
what a call under way has allocated is not there yet, and takes from a call what it
asked for: `ResidencyBackend` then admits an answer only if it holds just that. The callers' side of the
contract, not to evict what a move reads, is SourceStays of `Coordinator`.
`MovesMayFail` says whether runtime calls of migrate fail too; the code does not
look at their results (section 4).

Definitions marked *Slip* are not part of any specification: each is a
plausible wrong version of the definition after it, used to see that a property
notices the mistake.

## 3. The runs

Distinct states are those TLC finds.

| run | what it covers | properties | states |
|---|---|---|---|
| pool | one domain, 8-valued words, every call and amount | TypeOK, PoolCoherent, HoldsCanCommit, CapacityChangesOnlyWhenIdle | 11 881 |
| loads | two threads, a model of two shards, one device, eviction, pins, invalidation, rollover, worker loss | ExactReservations, ExactResidence, ReadyIsCurrent, NoDanglingBuffer, StaleNeverRevived | 149 000 |
| migrations | two threads, two domains, migration against load, eviction, publication and references, last copy protected, the second lock blocks | ExactReservations, ExactResidence, SourceStays, BuffersOwned, NoDanglingBuffer | 14 475 |
| all | two threads, every operation, two one-unit domains, one worker | TypeOK, DomainsCoherent, HoldsCovered, TerminalIsFinal | 347 000 |
| pressure | two threads, a model that needs more than it declares, with and without an adapter, a domain of two units, fairness | SetReadyIsTrue, CallsReturn | 144 631 |
| overdraft | two threads, load, migrate, demote and evict, one domain of three units, a model of one unit and one that needs more than it declares | DomainsCoherent, TerminalIsFinal | 265 540 |
| server | three connections of two workers, two boots, processes of a worker started, stopped and replayed one after the other, fairness | TypeOK, OneLiveBoot, RegistryAgrees, ReportJudged, CountKept, LostIsSurrendered | 390 972 |
| recovery | one caller, two domains, a save and a crash between any two steps, one restart | FileLoads, ExactResidence | 179 571 |
| framing | two messages out of one or two of every kind and one too large, pieces of up to three bytes, a close or a break anywhere, fairness | BytesConserved, NeverRefused, CutIsMalformed, ChannelPromise | 68 353 |
| catalog | two loads, four revisions of two models (one under another's ids, one with a conflicting artifact), two adapter sets, two domains | NamedLoadIsDefinition, NamedLoadFits, AnswerWasReady, LatestOnlyAdvances | 715 563 |
| backend | two threads, three addresses, two contents, either backend | NothingLeaks, BackendContract | 40 090 |

What the runs say together: the coordinator keeps exact books through concurrent
loads with any operation of one critical section, and through concurrent moves
with loads and evictions; that it does so for one caller at a time and every
operation is proved (section 5). With everything at once exactness is lost (section 4), and what
remains is that no domain is ever over-committed, no counter goes below zero,
no call's hold is spent by another (if models declare what their components
need; run `overdraft` does without), and no ended residency comes back. A load
that names its revision brings what the catalog defines, where it can run; the
bytes on a connection implement the channel the server's model takes for granted;
and the buffers the coordinator's model counts are what the backends keep.

`ChannelPromise` and `BackendContract` are refinements: the abstract specification
is the property, and every step of the detailed one must be a step of it or a
stutter. ChannelPromise includes the channel's liveness: while the connection
stands, every message accepted is delivered.

**Bounds.** Two threads are enough for every race found here: each needs one
call in its gap and one other step. Domains of one or two units make capacity
run out with the second or third residency. Two to six residencies let a model
be loaded, lost and loaded again; two generations let a call span a rollover.
`MaxBuffers` only keeps leaked buffers from growing for ever, `MaxStale` the
server's counter. Three connections are a worker, its successor and a late
replay, or two workers and a successor of one. Two frames are enough for a reader to lose its place in one and show it in
the other; a window of three bytes splits every field and joins the end of a
frame with the next header. Two revisions registered out of four offered, in any
order and beside two loads, give every lookup a chance to change between two
sections. Three addresses are a source, a copy and a scratch block or another
load; `MaxLive` keeps the count of live buffers, which lost updates let grow,
finite. Threads are symmetric in the safety runs; the liveness runs use no
symmetry.

**Deadlock** is checked except where the second lock blocks: there a stuck
thread holds the mutex and everybody stops, which is what run `relock` is
about, and in `backend`, where callers may stop calling (and the bound on the
count may keep them from it). `CallersStop`, `Quiet` and `Over` are the states in
which nobody calls.

**Fairness.** Weak fairness of a thread's own steps: the operating system runs
every thread, `std::mutex` is free infinitely often because no critical section
waits, and a backend call returns (the memory backend's always do). For the
server: a connection's thread runs, and a closed socket ends the blocking read.
For the frames: a blocking send returns when the socket has room and a blocking
recv when it has bytes; nothing is assumed of a connection that fails.
No fairness is assumed of callers, clients or worker processes.

`Orderly` in `Server` is the discipline the multi-process driver
(`multiprocess_proof.cpp`) means to keep: it starts a process of a worker when the
last one is no longer counted as connected, under a new boot id, and kills one, answered or
not, while no other of the same worker is half way through. The driver itself is weaker: it
goes by `workers_connected`, a count that the other worker's process may also
change, so its next step may come before the connection it waits for has settled.
Connections that end while another process of the same worker is half way are
left out, and with them the race at `coordinator_main.cpp:120`. Without the discipline
OneLiveBoot does not hold (`ViolationTwoBoots.cfg`).

## 4. Disagreements

Run `relock` shows the code doing something other than what a comment says: load
calls evict with the mutex held, and blocks for ever where the second lock blocks.
The finding in `PROJECT.json` quotes the lines.

Further disagreements, and properties one might expect and that do not hold, have
a configuration and can be reproduced with `tlc` (with `-continue` where one has
several properties), though they are not regular runs:

| configuration (module) | property | what happens |
|---|---|---|
| `ViolationDoubleRelease` (MCCoordinator) | ExactResidence | an invalidation during a migration releases the source's bytes, and the migration releases them again, against `README.md:41-42` |
| `ViolationTwoBoots` (Server) | OneLiveBoot | an ending connection erases its successor's entry, and another boot is accepted beside a live one, against `coordinator_main.cpp:86-87` |
| `ViolationRestoredMove` (MCRecovery) | RestoredIsProvisional | a residency saved while it migrates is restored authoritative and ready, against `coordinator.cpp:1145-1147` |
| `ViolationCatalog` (MCCatalog) | EveryLoadFits | a load without a revision resolves another one after admission, and puts it where it cannot run |
| `ViolationCatalog` (MCCatalog) | AnswerIsAsked | a load of one revision is answered with a ready residency of another, against `model.hpp:57-59` |
| `ViolationCatalog` (MCCatalog) | AnswerIsReady | the residency to reuse is evicted before load answers with it |
| `ViolationCatalog` (MCCatalog) | AdaptersMatchRevision | an adapter set made for one revision is attached to another, against `adapter.hpp:18-20` |
| `ViolationUncheckedMove` (Backend) | BackendContract | a CUDA migrate whose cudaMalloc or cudaMemcpy fails reports success, and the caller frees the source |
| `ViolationLiveCount` (Backend) | LiveIsExact | two threads in the memory backend lose an update of the count the tests' leak checks read |
| `ViolationDanglingBuffer` (MCCoordinator) | NoDanglingBuffer | rollover or invalidation frees the buffer a move is reading |
| `ViolationLeakedHold` (MCCoordinator) | ExactReservations | demote of a residency that already moves reserves and then throws |
| `ViolationDuplicateReady` (MCCoordinator) | OneReadyCopy | two loads pass admission before either publishes, against `test/test_property.cpp:38` |
| `ViolationPins` (MCCoordinator) | PinsCovered | releasing other bytes shrinks the pinned counter |
| `ViolationSetReady` (MCCoordinator) | SetReadyIsTrue | worker loss leaves the sets' flags, against `residency.hpp:165` |
| `ViolationSetComplete` (MCCoordinator) | SetCompleteIsTrue | a partial load marks its set complete, against `README.md:116` |
| `ViolationRollover` (MCCoordinator) | ReadyIsCurrent | a migration takes a rolled-over source back to Resident, and it is published |
| `ViolationLeakedBuffer` (MCCoordinator) | BuffersOwned | a stale load drops the buffers it made |
| `ViolationWorkerLoss` (Server) | LossIsOwn | a late loss report takes the next boot's residency |
| `ViolationWorkerLoss` (Server) | MissingHasNone | set_unavailable leaves a lost worker's device usable, against `coordinator.cpp:111` |
| `ViolationLostCount` (Server) | CountExact | a replay and a stale report are counted at once, under different mutexes, and one is lost |
| `ViolationStaleGeneration` (Server) | StaleGenerationSeen | a report's generations are compared with themselves |
| `ViolationTornFile` (MCRecovery) | FileSurvives | save_to truncates the only copy before it writes |
| `ViolationRestoredHold` (MCRecovery) | ExactReservations | the hold of a call in flight is saved, and nobody is left to cancel it |
| `ViolationRestoredGeneration` (MCRecovery) | ReadyIsCurrent | model generations start over, residencies keep theirs |
| `ViolationReadyWithoutBuffer` (MCRecovery) | ReadyHasBuffer | publish_ready of a restored residency, which has no buffer |

## 5. The proofs

Assumed, of the constants: `WordAssumption` (a word has at least one value),
`CoordinatorAssumption`, `RecoveryAssumption`, `BackendAssumption`,
`CatalogAssumption` and `ServerAssumption` (the constants have their types; what
is counted or summed is finite; "none" is not one of the values); `WireAssumption`,
`KindAssumption` and `FramingAssumption` (a byte has at least two values, widths are
not zero, a u32 holds the kinds and the frame limit, the messages are encodable).
Nothing is assumed of capacities, policies or numbers of anything. A theorem that needs more
says so in its ASSUME, and the entries below say why it is needed.

* `CapacityLemmas`: each mutator, when its guard holds, takes a coherent record
  of words to a coherent record of words. Here is the argument that
  `can_reserve`'s unchecked sum does not wrap: in a coherent domain reserved plus
  resident is at most governed, which is a word. And sums of bytes over finite
  sets: how they split, and what changes with one element. Induction theorems
  cannot be used, so these argue by a smallest counterexample (`WFMin`).
* `MemoryDomainProofs`: PoolCoherent, TypeOK, HoldsCanCommit and
  CapacityChangesOnlyWhenIdle for every word size and set of domains. The
  inductive invariant adds to coherence that the pool is a function on declared
  domains.
* `CoordinatorProofs`: TypeOK and DomainsCoherent for any number of threads,
  models, adapters, domains and workers. Neither is inductive alone: a coherent
  domain stays coherent only if the bytes applied to it are words and the domain
  of a residency or a call is a registered one, and counters stay words only
  because coherence bounds them by the governed capacity. One lemma per action;
  the loops that release several residencies and the commits of several members
  rest on lemmas about sums of bytes, the ways out where a commit throws are
  actions like the others (no hypothesis on footprints), and the buffers on a pigeonhole lemma
  that fresh names exist.
  In the same module, around the coordinator, FileLoads and DomainsCoherent across
  any number of saves, crashes and recoveries. The invariant is the coordinator's
  own, for the state in memory and for the snapshots on disk and in the saver's
  hands, with: sets list only existing residencies, and a process that is down has
  nothing in memory. The key lemma: decoding a coherent domain by its reserve,
  commit and pin steps gives back exactly the saved counters, so none of them is
  refused.
* `CoordinatorSafetyProofs`, in five parts; the first three are inductive invariants,
  each on top of the one before, the fourth stands on the first, the fifth on the
  second.
  * *Hands.* `InHand(c)` is what a call works on in its gap. `Hands` says that no
    two calls have the same residency in hand and that it is in the state, domain,
    model and generation its call left it in: others may take its bytes or buffer
    (section 4), never its place. `Turn(t)` is what a step of one thread owes to the
    others: it moves only residencies that are Resident or Ready or in its own
    hands. Every action is shown to be a Turn. TerminalIsFinal follows, with no
    hypothesis.
  * *Reservations are there.* HoldsCovered for models with `FootprintsCover`: the
    components of a model, with its adapters, add up to no more than the aggregate
    that load reserves. `Pays(t)` is what a step owes here: it takes from the
    reservations no more than its own hold. The hypothesis is needed: nothing in
    the code compares the aggregate with the components, and a load commits the
    components against what is reserved, be it another call's. (In runs `pressure`
    and `overdraft` a model declares less than it needs.) Under it no commit of a
    move throws (`NoMoveThrows`).
  * *Exact books.* ExactReservations, ExactResidence, ReadyIsCurrent, SourceStays,
    NoDanglingBuffer and StaleNeverRevived under `FootprintsExact` (components add
    up to the aggregate) and `Unraced`: either one thread makes all calls, or
    nobody demotes, and migrate is not used together with the operations that give
    up residencies in any state (invalidate, roll, worker loss). These are the
    operations of runs `loads` and `migrations`, and every operation from one
    caller, here for every number of everything. BuffersOwned needs `Unrolled` too: one thread, or no
    rollover. The hypotheses are the code's own limits: without them
    `ViolationDoubleRelease`, `ViolationLeakedHold`, `ViolationDanglingBuffer` and
    `ViolationRollover` (Unraced) and `ViolationLeakedBuffer` (Unrolled) are
    counterexamples. The invariant `Books` joins the exact counters with: authority
    is stale in the end states only; what resides has a live buffer of its own and
    is current; a move remembers its source's buffer; what is moving is in some
    call's hands; the members of a load take what it reserved. A step is described
    by the residencies that leave and those that arrive (`Exchange`), by the bytes
    (`Accounted`) and buffers (`Buffered`) that go with them, and one lemma turns
    these into `Books'`.
  * *Sets that are ready.* SetReadyIsTrue when nobody migrates, demotes, rolls a
    generation or loses a worker (`SetsUndisturbed`; `ViolationSetReady` shows why)
    and models are compatible only with domains that can execute (`PlacedToRun`: load
    does not look at the class of the domain it chose). Footprints need not match.
    The hard part is that evict and invalidate change the residency before a
    release that may throw, and the sets only after it. The invariant `ReadyBooks`
    says that the bytes of the required members of ready sets are within the
    resident counters, so a release that throws is never one of theirs; that a load
    in flight has a domain that executes and a set that requires only its own
    members, which `Hands` keeps Declared; and that no residency is moving. Every
    other step then either takes the flag from all sets or leaves the members of
    the ready ones alone (`SparesReady`).
  * *Resident bytes across a restart.* ExactResidence and HoldsCovered of
    `RecoverySpec`: any number of saves, crashes and recoveries, with any calls in
    flight when the snapshot is taken; and ExactResidence of `Spec` for any number of
    threads that all migrate and demote. `Books` is of no use here: after load_from
    residencies stand in the middle of a move that no call carries on, without
    buffers and with holds nobody cancels. The invariant `Residence` keeps what is
    about bytes alone: `Hands`, HoldsCovered, the members of a load fit in its hold,
    the exact resident counters, and every residency is Declared, holds bytes or has
    ended (`AllKnown`: Planned and the like are never seen). It holds in memory, and a copy of it (`Resides`) of
    every snapshot on disk or in the saver's hands, because decoding restores the
    counters and keeps domain, bytes and resident state of each residency. The
    hypotheses are `FootprintsCover` and `MovesApart`: migrate and demote are not
    used together with invalidate, roll and worker loss, which release the bytes of
    a residency in the middle of a move and leave it there, to be released again by
    its call or by whoever comes next (`ViolationDoubleRelease`). That one thread makes all
    calls, which is enough without restarts, is not enough here: the restored
    residency is in the middle of a move although no call is
    (`ViolationRestoredMove`). Run `recovery` satisfies both.
* `BackendProofs`: NothingLeaks, for every number of threads and addresses and
  wherever a runtime call fails; and BackendContract, the refinement, for
  backends whose moves do not fail (`~MovesMayFail`; `ViolationUncheckedMove`
  shows why). The invariant: what a call builds is on the heap, not handed out
  and no other call's; a buffer that a move or a kernel reads stays with its
  caller. The refinement adds that what is handed out holds weights, and that what a
  call has built so far is, from the copy on, what it was asked for.
* `CatalogProofs`: the four properties of the run, for every catalog and number of
  loads. The invariant: what admission found out about a named revision still
  holds in the next section, whatever is registered in between; two loads never
  publish the same residency; a load reuses only what was ready, and of the
  model and adapter set it was asked for (not of the revision: `ViolationCatalog`);
  and a model with
  revisions has a latest one.
* `ServerProofs`: types and CountKept for every server; OneLiveBoot,
  RegistryAgrees and ReportJudged when workers start in order (`Orderly`;
  `ViolationTwoBoots` shows why). The invariant: the driver waits for one
  process of a worker at a time, a restart has a new boot id, `conns_` lists exactly
  the connections that took their place and have not given it up, and their boot is
  the current one. For CountKept: at most one increment is under way under each
  mutex, and while only one kind of message was counted the value it read is still
  the count.
* `FramingProofs`: BytesConserved, NeverRefused, CutIsMalformed and the safety half
  of ChannelPromise (`ChannelSafety`), for every radix, width, limit and set of
  encodable messages, any number of frames and pieces of any size. Below them, what
  the codec does: the bytes of a number read back are the number (`NumberOfDigits`);
  a field read where it was written gives its value and the position behind it
  (`FieldRead`) and, when the buffer ends within it, throws (`FieldCut`); so the
  payload of a message decodes to its body (`PayloadDecodes`) and no proper prefix of
  it decodes (`PayloadCut`). These are inductions over data. The library's induction
  theorems take an operator and cannot be cited, so `ByNaturals` states induction
  for a set of naturals, and each claim is the set of the numbers it holds for.
  BytesConserved alone is not inductive: it says nothing once the connection failed,
  and not where a frame begins. The invariant `FrameInv` says that the messages
  handed over are the first ones asked for; that while the reader reads, the bytes of
  all messages are those handed over, those it holds, those in the sockets and some
  rest, which is what write_all has left unless the connection failed; that the
  reader has less than it waits for; and that it ends only when the connection failed
  or everything was handed over. `FrameComes` then shows that a completed header or
  payload is that of the next message.

Only model-checked:

* Liveness (CallsReturn, LostIsSurrendered, the delivery in ChannelPromise), which
  needs fairness and ENABLED and is out of the prover's reach.

## 6. Not modelled

* rebalance: it reads the state under the mutex and returns a list of suggestions
  that no code of the repository carries out; explanations, JSON, texts and
  logging likewise.
* The worker's handling of CoordLoad and CoordEvict: the messages are modelled,
  but no coordinator sends them. The listener, address lookup and argument
  parsing.
* The byte layout of the snapshot file: magic, version, length and checksum
  failures are one outcome, the file is rejected.
* verify and free_bytes of the backends, which change nothing, and the arithmetic
  of weights and kernels: contents are told apart by the revision they are of.
* The command-line tool, benchmarks and examples (single calls); digests and
  identities.

## 7. Plan

Done: capacity, lifecycle, coordinator, recovery, authority, server, wire,
catalog, backends; two refinements checked, one of them proved and the other in its
safety half; every safety property of the runs proved, ExactResidence with restarts and
without.

Next, in this order:

1. An abstract specification of the ledger: what is promised for a domain as a
   set of holds and occupants, with the coordinator shown to implement it for
   the operations whose books are exact.
2. The axis order of `validate`, and strict generations, as a component of its
   own.
3. rebalance and the ranking as pure operators against a reference.
