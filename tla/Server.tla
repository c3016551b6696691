------------------------------- MODULE Server -------------------------------
(***************************************************************************)
(* The coordinator process (src/distributed/coordinator_main.cpp): one     *)
(* thread per worker connection, the registry of connections under         *)
(* conns_mx_, the count of stale messages, which is incremented under two  *)
(* different mutexes, and the calls the threads make into the coordinator. *)
(* Of the coordinator this module keeps which worker registrations it      *)
(* knows and which residencies are ready on a worker's device, each with   *)
(* the boot that was registered when it was loaded.                        *)
(*                                                                         *)
(* A frame arrives whole or the connection is over (src/src/net.cpp): a    *)
(* short read, an oversized length, an unreadable payload and a closed     *)
(* socket all end the loop that reads frames.                              *)
(***************************************************************************)
EXTENDS Authority, FiniteSets

CONSTANTS
  Conns,        \* connections that worker processes may open
  Workers,      \* worker ids
  Hosts,        \* workers on whose device the client registered a memory domain
  Boots,        \* worker boot ids
  NoConn,
  Epoch,        \* the coordinator's epoch
  Generation,   \* the generation of what the workers report about
  Orderly,      \* worker processes are started and stopped one after the other
  MaxStale      \* bound: counted reports beyond which none is sent

NoBoot == 0

ASSUME ServerAssumption ==
  /\ IsFiniteSet(Conns) /\ NoConn \notin Conns /\ Workers # {} /\ Hosts \subseteq Workers
  /\ Boots \subseteq Nat \ {0}
  /\ Epoch \in Nat \ {0} /\ Generation \in Nat \ {0}
  /\ Orderly \in BOOLEAN
  /\ MaxStale \in Nat

VARIABLES
  conn,           \* the connection threads: state, worker and boot
  peers,          \* open connections whose worker process is there
  conns,          \* conns_: Workers -> the listed connection
  currentBoot,    \* current_boot_: Workers -> boot, kept after a loss
  registered,     \* the coordinator's workers_: Workers -> boot, kept as well
  ready,          \* ready residencies, as <<worker, boot it was loaded under>>
  staleRejected,  \* stale_rejected_
  saw,            \* the value of stale_rejected_ a thread that increments it read
  finished        \* history: increments that were stored, by kind of message

vars == <<conn, peers, conns, currentBoot, registered, ready, staleRejected, saw, finished>>
counts == <<staleRejected, saw, finished>>

\* "accepted": the first frame is awaited; "listed": on the registry, not yet
\* known to the coordinator; "open": reading reports; "stale": a report was found
\* stale; "counting": its increment has read the count, under stats_mx_; "dead":
\* alive is false; "unlisted": off the registry, the loss not yet reported;
\* "turning": the increment for a replay has read the count, under conns_mx_.
ConnState == {"unused", "accepted", "listed", "open", "stale", "counting", "dead",
              "unlisted", "turning", "closed"}

\* Registered, and not known to be gone.
Open(c) == conn[c].state \in {"open", "stale", "counting"}

\* The alive flag of a connection that is or was listed.
Alive(c) == conn[c].state = "listed" \/ Open(c)

\* No thread is inside its section under conns_mx_ (the others take one step).
ConnsFree == \A e \in Conns : conn[e].state # "turning"

Goes(c, state) == conn' = [conn EXCEPT ![c].state = state]

\* A WorkerConn whose thread has not begun, or is over.
Nobody(state) == [state |-> state, worker |-> CHOOSE w \in Workers : TRUE, boot |-> NoBoot]

\* The thread returns: its WorkerConn is gone and the socket closed.
Returns(c) == conn' = [conn EXCEPT ![c] = Nobody("closed")] /\ peers' = peers \ {c}

Report == [boot : Boots \cup {NoBoot}, epoch : 0..(Epoch + 1), generation : 0..Generation]

Init ==
  /\ conn = [c \in Conns |-> Nobody("unused")]
  /\ peers = {}
  /\ conns = [w \in Workers |-> NoConn]
  /\ currentBoot = [w \in Workers |-> NoBoot]
  /\ registered = [w \in Workers |-> NoBoot]
  /\ ready = {}
  /\ staleRejected = 0
  /\ saw = [c \in Conns |-> 0]
  /\ finished = [replays |-> 0, reports |-> 0]

-----------------------------------------------------------------------------
\* The connection was answered and its process is there, or it is counted as
\* connected no more.
SettledConn(e) ==
  \/ conn[e].state \in {"unused", "unlisted", "closed"}
  \/ Open(e) /\ e \in peers

\* The driver of an orderly deployment starts a worker process only when the
\* others of the same worker are settled, and under a boot id none of them has.
Settled(w) == \A e \in Conns : conn[e].worker = w => SettledConn(e)

\* It stops one, answered or not, when the others of the same worker are settled.
OthersSettled(c) ==
  \A e \in Conns \ {c} : conn[e].worker = conn[c].worker => SettledConn(e)

\* A worker process connects and sends its registration.  Connections are told
\* apart by nothing but the order in which they are opened.
Connect(c, w, b) ==
  /\ conn[c].state = "unused"
  /\ c = CHOOSE e \in Conns : conn[e].state = "unused"
  /\ Orderly => /\ Settled(w)
                /\ \A e \in Conns : Open(e) /\ conn[e].worker = w => conn[e].boot # b
  /\ conn' = [conn EXCEPT ![c] = [state |-> "accepted", worker |-> w, boot |-> b]]
  /\ peers' = peers \cup {c}
  /\ UNCHANGED <<conns, currentBoot, registered, ready, counts>>

\* No first frame, or not a registration, or one with nil ids or no device.
NoRegistration(c) ==
  /\ conn[c].state = "accepted"
  /\ Returns(c)
  /\ UNCHANGED <<conns, currentBoot, registered, ready, counts>>

\* Slip: the boot ids are not compared.
ReplayUnnoticed(c) == FALSE

\* Another boot of the worker is listed and alive.
Replay(c) ==
  LET listed == conns[conn[c].worker]
  IN  listed # NoConn /\ Alive(listed) /\ conn[listed].boot # conn[c].boot

\* Slip: the boot that registered first stays the current one.
BootKept(c) == currentBoot

BootReplaced(c) == [currentBoot EXCEPT ![conn[c].worker] = conn[c].boot]

\* A replay is counted and turned away; anything else takes the worker's place.
Register(c) ==
  LET w == conn[c].worker IN
  /\ conn[c].state = "accepted" /\ ConnsFree
  /\ \/ /\ Replay(c)
        /\ Goes(c, "turning")
        /\ saw' = [saw EXCEPT ![c] = staleRejected]
        /\ UNCHANGED <<conns, currentBoot>>
     \/ /\ ~ Replay(c)
        /\ conns' = [conns EXCEPT ![w] = c]
        /\ currentBoot' = BootReplaced(c)
        /\ Goes(c, "listed")
        /\ UNCHANGED saw
  /\ UNCHANGED <<peers, registered, ready, staleRejected, finished>>

\* Slip: the count goes down.
CountedDown(c) == saw[c] - 1

\* The second half of ++stale_rejected_: what other threads did since the first
\* half is overwritten.
Counted(c) == saw[c] + 1

TurnAway(c) ==
  /\ conn[c].state = "turning"
  /\ staleRejected' = Counted(c)
  /\ Returns(c)
  /\ saw' = [saw EXCEPT ![c] = 0]
  /\ finished' = [finished EXCEPT !.replays = @ + 1]
  /\ UNCHANGED <<conns, currentBoot, registered, ready>>

\* Coordinator::register_worker, and the reply.
RegisterWorker(c) ==
  /\ conn[c].state = "listed"
  /\ registered' = [registered EXCEPT ![conn[c].worker] = conn[c].boot]
  /\ Goes(c, "open")
  /\ UNCHANGED <<peers, conns, currentBoot, ready, counts>>

\* The frame a report carries, and the frame it is compared with: epoch and boot
\* are the server's, every generation is the report's own.
ReportedFrame(report) ==
  [epoch |-> report.epoch, boot |-> report.boot,
   residency |-> report.generation, model |-> report.generation,
   artifact |-> report.generation, adapter |-> report.generation,
   device |-> report.generation, attempt |-> 0, migration |-> 0, policy |-> 0]

\* Slip: the boot is the report's own, too.
CurrentFrameOwnBoot(c, report) == [ReportedFrame(report) EXCEPT !["epoch"] = Epoch]

CurrentFrame(c, report) ==
  [ReportedFrame(report) EXCEPT !["epoch"] = Epoch, !["boot"] = currentBoot[conn[c].worker]]

FoundStale(c, report) ==
  validate(ReportedFrame(report), CurrentFrame(c, report), FALSE) # "None"

\* A report has no effect but on the count of stale ones.
WorkerReport(c, report) ==
  /\ conn[c].state = "open" /\ c \in peers /\ ConnsFree
  /\ finished.reports < MaxStale
  /\ IF FoundStale(c, report) THEN Goes(c, "stale") ELSE UNCHANGED conn
  /\ UNCHANGED <<peers, conns, currentBoot, registered, ready, counts>>

\* Slip: the count is not locked.
StatsUnlocked == TRUE

\* stats_mx_ is free.
StatsFree == \A e \in Conns : conn[e].state # "counting"

\* ++stale_rejected_ under stats_mx_: the value is read, and stored.
CountRead(c) ==
  /\ conn[c].state = "stale" /\ StatsFree
  /\ saw' = [saw EXCEPT ![c] = staleRejected]
  /\ Goes(c, "counting")
  /\ UNCHANGED <<peers, conns, currentBoot, registered, ready, staleRejected, finished>>

CountStore(c) ==
  /\ conn[c].state = "counting"
  /\ staleRejected' = Counted(c)
  /\ Goes(c, "open")
  /\ saw' = [saw EXCEPT ![c] = 0]
  /\ finished' = [finished EXCEPT !.reports = @ + 1]
  /\ UNCHANGED <<peers, conns, currentBoot, registered, ready>>

\* A worker process ends, and its socket with it.
PeerEnds(c) ==
  /\ c \in peers
  /\ Orderly => OthersSettled(c)
  /\ peers' = peers \ {c}
  /\ UNCHANGED <<conn, conns, currentBoot, registered, ready, counts>>

\* The loop that reads frames ends: the peer is gone or a frame is malformed.
ConnEnds(c) ==
  /\ conn[c].state = "open"
  /\ Orderly => c \notin peers \/ Settled(conn[c].worker)
  /\ Goes(c, "dead")
  /\ UNCHANGED <<peers, conns, currentBoot, registered, ready, counts>>

\* conns_.erase(conn->id): whatever connection is listed under the worker.
Erased(c) == [conns EXCEPT ![conn[c].worker] = NoConn]

Unlist(c) ==
  /\ conn[c].state = "dead" /\ ConnsFree
  /\ conns' = Erased(c)
  /\ Goes(c, "unlisted")
  /\ UNCHANGED <<peers, currentBoot, registered, ready, counts>>

\* Slip: the residencies stay.
NothingSurrendered(c) == ready

\* Coordinator::mark_worker_lost gives up what is on the worker's device.
Surrendered(c) ==
  IF registered[conn[c].worker] = NoBoot THEN ready
  ELSE {r \in ready : r[1] # conn[c].worker}

MarkWorkerLost(c) ==
  /\ conn[c].state = "unlisted"
  /\ ready' = Surrendered(c)
  /\ Returns(c)
  /\ UNCHANGED <<conns, currentBoot, registered, counts>>

\* A control client loads the model on w's device; a ready copy is reused.
ControlLoad(w) ==
  /\ \A r \in ready : r[1] # w
  /\ ready' = ready \cup {<<w, registered[w]>>}
  /\ UNCHANGED <<conn, peers, conns, currentBoot, registered, counts>>

\* The steps of a connection's own thread.
ConnThread(c) ==
  \/ Register(c) \/ TurnAway(c) \/ RegisterWorker(c) \/ CountRead(c) \/ CountStore(c)
  \/ (c \notin peers /\ ConnEnds(c)) \/ Unlist(c) \/ MarkWorkerLost(c)

Quiet == (\A c \in Conns : conn[c].state # "unused") /\ UNCHANGED vars

Next ==
  \/ \E c \in Conns, w \in Workers, b \in Boots : Connect(c, w, b)
  \/ \E c \in Conns :
       \/ NoRegistration(c) \/ PeerEnds(c) \/ ConnEnds(c) \/ ConnThread(c)
       \/ \E report \in Report : WorkerReport(c, report)
  \/ \E w \in Hosts : ControlLoad(w)
  \/ Quiet

Spec == Init /\ [][Next]_vars

\* The scheduler runs every connection thread; a closed socket wakes its read.
FairSpec == Spec /\ \A c \in Conns : WF_vars(ConnThread(c))

-----------------------------------------------------------------------------
\* Every variable has its type.
TypeOK ==
  /\ conn \in [Conns -> [state : ConnState, worker : Workers, boot : Boots \cup {NoBoot}]]
  /\ peers \subseteq Conns
  /\ conns \in [Workers -> Conns \cup {NoConn}]
  /\ currentBoot \in [Workers -> Boots \cup {NoBoot}]
  /\ registered \in [Workers -> Boots \cup {NoBoot}]
  /\ ready \subseteq Workers \X (Boots \cup {NoBoot})
  /\ staleRejected \in Nat /\ saw \in [Conns -> Nat]
  /\ finished \in [replays : Nat, reports : Nat]

\* At no time are two boots of one worker connected: the second registration is
\* a stale replay and turned away.
OneLiveBoot ==
  \A c, e \in Conns :
    Alive(c) /\ Alive(e) /\ conn[c].worker = conn[e].worker => conn[c].boot = conn[e].boot

\* A connection that is open is on the registry, or another of the same boot is,
\* and registry, current boot and the coordinator's registration agree on it.
RegistryAgrees ==
  \A c \in Conns : Open(c) =>
    LET w == conn[c].worker IN
    /\ conns[w] # NoConn
    /\ conn[conns[w]].worker = w /\ conn[conns[w]].boot = conn[c].boot
    /\ currentBoot[w] = conn[c].boot
    /\ registered[w] = conn[c].boot

\* What a worker loses is its own: the end of one boot's connection never takes
\* away a residency that was loaded under another boot.
LossStep ==
  \A r \in ready \ ready' :
    r[2] = NoBoot \/
    \E c \in Conns : conn[c].worker = r[1] /\ conn[c].boot = r[2]
                     /\ conn[c].state = "unlisted"
LossIsOwn == [][LossStep]_vars

\* A worker that was registered and has no connection left has no ready
\* residency: its device is marked unavailable when it is lost.
MissingHasNone ==
  \A r \in ready :
    registered[r[1]] # NoBoot =>
      \E c \in Conns : conn[c].worker = r[1] /\ conn[c].state \notin {"unused", "closed"}

\* A report about an old generation is found stale, whatever connection it
\* comes in on.
StaleGenerationSeen ==
  \A c \in Conns, report \in Report :
    Open(c) /\ report.generation \notin {0, Generation} => FoundStale(c, report)

\* On an open connection the reports of the boot it registered with, in the
\* epoch the coordinator is in, pass, and those of any other boot or epoch are
\* found stale: a late report of an earlier boot never counts as current.
ReportJudged ==
  \A c \in Conns, report \in Report :
    Open(c) => (FoundStale(c, report) <=> report.boot # conn[c].boot \/ report.epoch # Epoch)

\* stale_rejected_ never shows more messages than were rejected, and shows every
\* one as long as all were replays or all were reports: each mutex keeps its own
\* increments apart, and only an increment under the other one may be overwritten.
CountKept ==
  /\ staleRejected <= finished.replays + finished.reports
  /\ finished.replays = 0 \/ finished.reports = 0 =>
       staleRejected = finished.replays + finished.reports

\* stale_rejected_ shows every message that was rejected.
CountExact == staleRejected = finished.replays + finished.reports

\* A worker process that goes away while registered is found out: what was ready
\* on its device at that moment is surrendered.
LostIsSurrendered ==
  \A w \in Workers :
    (\E c \in Conns : Open(c) /\ c \notin peers /\ conn[c].worker = w)
      ~> (\A r \in ready : r[1] # w)
=============================================================================
