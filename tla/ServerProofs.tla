---------------------------- MODULE ServerProofs ----------------------------
(***************************************************************************)
(* The registry of worker connections and the judgement of reports, for    *)
(* every number of connections, workers and boots.  What is said of boots  *)
(* is said of an orderly deployment: module Server shows with TLC that it  *)
(* fails in a disorderly one.                                              *)
(***************************************************************************)
EXTENDS Server, WellFoundedInduction, TLAPS

\* The driver waits for the connection, to be answered or to be off the registry,
\* before it starts or stops another process of the same worker.
Pending(c) ==
  \/ conn[c].state \in {"accepted", "listed", "dead", "turning"}
  \/ Open(c) /\ c \notin peers

\* The connection has taken the worker's place and not given it up.
Placed(c) == conn[c].state \in {"listed", "open", "stale", "counting", "dead"}

\* It waits for one connection of a worker at a time.
OnePending ==
  \A c, e \in Conns :
    Pending(c) /\ Pending(e) /\ conn[c].worker = conn[e].worker => c = e

\* A process that connected has a boot id.
BootKnown == \A c \in Conns : conn[c].state \notin {"unused", "closed"} => conn[c].boot \in Boots

\* A worker is restarted under a new boot id.
NewBoots ==
  \A c, e \in Conns :
    conn[c].state = "accepted" /\ Open(e) /\ conn[c].worker = conn[e].worker =>
      conn[c].boot # conn[e].boot

\* conns_ lists exactly the connections that have a place.
RegistryExact ==
  /\ \A c \in Conns : Placed(c) => conns[conn[c].worker] = c
  /\ \A w \in Workers :
       conns[w] # NoConn => Placed(conns[w]) /\ conn[conns[w]].worker = w

\* The boot of a connection in its place is the current one, and once it is open
\* the coordinator's.
BootsCurrent ==
  \A c \in Conns :
    /\ Placed(c) => currentBoot[conn[c].worker] = conn[c].boot
    /\ Open(c) => registered[conn[c].worker] = conn[c].boot

\* The inductive invariant of an orderly deployment.
OrderlyInv ==
  TypeOK /\ OnePending /\ BootKnown /\ NewBoots /\ RegistryExact /\ BootsCurrent

-----------------------------------------------------------------------------
(* Types, in any deployment.                                               *)

ConnRecord == [state : ConnState, worker : Workers, boot : Boots \cup {NoBoot}]

\* A thread that moves on changes the state of its connection and nothing else.
LEMMA GoesOnly ==
  ASSUME TypeOK, NEW c \in Conns, NEW s \in ConnState, Goes(c, s)
  PROVE  /\ conn' \in [Conns -> ConnRecord]
         /\ conn'[c].state = s
         /\ conn'[c].worker = conn[c].worker /\ conn'[c].boot = conn[c].boot
         /\ \A e \in Conns : e # c => conn'[e] = conn[e]
<1>1. conn \in [Conns -> ConnRecord] /\ conn[c] \in ConnRecord
  BY DEF TypeOK, ConnRecord
<1>2. conn' = [conn EXCEPT ![c] = [conn[c] EXCEPT !.state = s]]
  BY <1>1 DEF Goes
<1>3. [conn[c] EXCEPT !.state = s] \in ConnRecord
  BY <1>1 DEF ConnRecord
<1> QED BY <1>1, <1>2, <1>3 DEF ConnRecord

\* A thread that returns leaves a connection that is nobody's.
LEMMA ReturnsOnly ==
  ASSUME TypeOK, NEW c \in Conns, Returns(c)
  PROVE  /\ conn' \in [Conns -> ConnRecord] /\ conn'[c].state = "closed"
         /\ peers' = peers \ {c}
         /\ \A e \in Conns : e # c => conn'[e] = conn[e]
<1>1. Nobody("closed") \in ConnRecord /\ Nobody("closed").state = "closed"
  BY ServerAssumption DEF Nobody, ConnRecord, ConnState
<1> QED BY <1>1 DEF Returns, TypeOK, ConnRecord

\* The steps in which one thread moves on, or returns.
LEMMA ThreadType ==
  ASSUME TypeOK, NEW c \in Conns,
         \/ Returns(c)
         \/ peers' = peers /\ \E s \in ConnState : Goes(c, s),
         conns' \in [Workers -> Conns \cup {NoConn}],
         currentBoot' \in [Workers -> Boots \cup {NoBoot}],
         registered' \in [Workers -> Boots \cup {NoBoot}],
         ready' \subseteq ready, staleRejected' \in Nat, saw' \in [Conns -> Nat],
         finished' \in [replays : Nat, reports : Nat]
  PROVE  TypeOK'
<1>1. conn' \in [Conns -> ConnRecord] /\ peers' \subseteq Conns
  BY GoesOnly, ReturnsOnly DEF TypeOK
<1> QED BY <1>1 DEF TypeOK, ConnRecord

\* Every step keeps the types.
LEMMA NextType ==
  ASSUME TypeOK, [Next]_vars
  PROVE  TypeOK'
<1> USE DEF ConnState, counts
<1>1. \A c \in Conns : conn[c] \in ConnRecord
  BY DEF TypeOK, ConnRecord
<1>2. ASSUME NEW c \in Conns, NEW w \in Workers, NEW b \in Boots, Connect(c, w, b)
      PROVE  TypeOK'
  BY <1>2 DEF Connect, TypeOK
<1>3. ASSUME NEW c \in Conns, NoRegistration(c) PROVE TypeOK'
  BY <1>3, ThreadType DEF NoRegistration, TypeOK
<1>4. ASSUME NEW c \in Conns, PeerEnds(c) PROVE TypeOK'
  BY <1>4 DEF PeerEnds, TypeOK
<1>5. ASSUME NEW c \in Conns, ConnEnds(c) PROVE TypeOK'
  BY <1>5, ThreadType DEF ConnEnds, TypeOK
<1>6. ASSUME NEW c \in Conns, Register(c) PROVE TypeOK'
  <2>1. CASE Replay(c)
    <3>1. Goes(c, "turning") /\ saw' = [saw EXCEPT ![c] = staleRejected]
          /\ UNCHANGED <<peers, conns, currentBoot, registered, ready, staleRejected, finished>>
      BY <1>6, <2>1 DEF Register
    <3> QED BY <3>1, ThreadType DEF TypeOK
  <2>2. CASE ~ Replay(c)
    <3>1. /\ Goes(c, "listed") /\ conns' = [conns EXCEPT ![conn[c].worker] = c]
          /\ currentBoot' = [currentBoot EXCEPT ![conn[c].worker] = conn[c].boot]
          /\ UNCHANGED <<peers, registered, ready, counts>>
      BY <1>6, <2>2 DEF Register, BootReplaced
    <3>2. conns' \in [Workers -> Conns \cup {NoConn}]
          /\ currentBoot' \in [Workers -> Boots \cup {NoBoot}]
      BY <1>1, <3>1 DEF TypeOK, ConnRecord
    <3> QED BY <3>1, <3>2, ThreadType DEF TypeOK
  <2> QED BY <2>1, <2>2
<1>7. ASSUME NEW c \in Conns, TurnAway(c) \/ CountStore(c) PROVE TypeOK'
  <2>1. /\ Returns(c) \/ (peers' = peers /\ Goes(c, "open"))
        /\ staleRejected' = saw[c] + 1 /\ saw' = [saw EXCEPT ![c] = 0]
        /\ \/ finished' = [finished EXCEPT !.replays = @ + 1]
           \/ finished' = [finished EXCEPT !.reports = @ + 1]
        /\ UNCHANGED <<conns, currentBoot, registered, ready>>
    BY <1>7 DEF TurnAway, CountStore, Counted
  <2>2. staleRejected' \in Nat /\ saw' \in [Conns -> Nat]
        /\ finished' \in [replays : Nat, reports : Nat]
    BY <2>1 DEF TypeOK
  <2> QED BY <2>1, <2>2, ThreadType DEF TypeOK
<1>8. ASSUME NEW c \in Conns, RegisterWorker(c) PROVE TypeOK'
  <2>1. registered' \in [Workers -> Boots \cup {NoBoot}]
    BY <1>1, <1>8 DEF RegisterWorker, TypeOK, ConnRecord
  <2> QED BY <1>8, <2>1, ThreadType DEF RegisterWorker, TypeOK
<1>9. ASSUME NEW c \in Conns, CountRead(c) PROVE TypeOK'
  BY <1>9, ThreadType DEF CountRead, TypeOK
<1>10. ASSUME NEW c \in Conns, Unlist(c) PROVE TypeOK'
  <2>1. conns' \in [Workers -> Conns \cup {NoConn}]
    BY <1>1, <1>10 DEF Unlist, Erased, TypeOK, ConnRecord
  <2> QED BY <1>10, <2>1, ThreadType DEF Unlist, TypeOK
<1>11. ASSUME NEW c \in Conns, MarkWorkerLost(c) PROVE TypeOK'
  <2>1. ready' \subseteq ready
    BY <1>11 DEF MarkWorkerLost, Surrendered
  <2> QED BY <1>11, <2>1, ThreadType DEF MarkWorkerLost, TypeOK
<1>12. ASSUME NEW c \in Conns, NEW report \in Report, WorkerReport(c, report) PROVE TypeOK'
  <2>1. CASE Goes(c, "stale")
    BY <1>12, <2>1, ThreadType DEF WorkerReport, TypeOK
  <2>2. CASE UNCHANGED conn
    BY <1>12, <2>2 DEF WorkerReport, TypeOK
  <2> QED BY <1>12, <2>1, <2>2 DEF WorkerReport
<1>13. ASSUME NEW w \in Hosts, ControlLoad(w) PROVE TypeOK'
  BY <1>13, ServerAssumption DEF ControlLoad, TypeOK
<1>14. CASE UNCHANGED vars
  BY <1>14 DEF vars, TypeOK
<1> QED BY <1>2, <1>3, <1>4, <1>5, <1>6, <1>7, <1>8, <1>9, <1>10, <1>11, <1>12, <1>13, <1>14
        DEF Next, ConnThread, Quiet

\* The first state has its types.
LEMMA InitType == Init => TypeOK
<1>1. (CHOOSE w \in Workers : TRUE) \in Workers
  BY ServerAssumption
<1> QED BY <1>1 DEF Init, Nobody, TypeOK, ConnState, NoBoot

\* Connections, registry and counts of the coordinator process have their types
\* (src/distributed/coordinator_main.cpp).
THEOREM ServerTypeTheorem == Spec => []TypeOK
<1> QED BY InitType, NextType, PTL DEF Spec

-----------------------------------------------------------------------------
(* The count of stale messages, in any deployment.                         *)

\* A thread is between the two halves of ++stale_rejected_.
Incrementing(c) == conn[c].state \in {"counting", "turning"}

\* Each mutex is held by one thread at a time.
OneHolder ==
  \A c, e \in Conns :
    Incrementing(c) /\ conn[e].state = conn[c].state => c = e

\* What was read, and what is stored, is at most what was finished.
NeverMore ==
  /\ staleRejected <= finished.replays + finished.reports
  /\ \A c \in Conns : Incrementing(c) => saw[c] <= finished.replays + finished.reports

\* While all finished increments were made under one mutex the count is theirs,
\* and so is what its holder has read.
OneKind ==
  /\ finished.replays = 0 =>
       /\ staleRejected = finished.reports
       /\ \A c \in Conns : conn[c].state = "counting" => saw[c] = finished.reports
  /\ finished.reports = 0 =>
       /\ staleRejected = finished.replays
       /\ \A c \in Conns : conn[c].state = "turning" => saw[c] = finished.replays

\* The inductive invariant of the count.
CountInv == OneHolder /\ NeverMore /\ OneKind

\* The steps that leave the count alone: nobody begins an increment.
LEMMA CountAlone ==
  ASSUME TypeOK, CountInv, UNCHANGED counts,
         \A e \in Conns : Incrementing(e)' => conn'[e].state = conn[e].state
  PROVE  CountInv'
BY DEF counts, CountInv, OneHolder, NeverMore, OneKind, Incrementing

\* An increment begins, under a mutex that nobody holds.
LEMMA CountBegins ==
  ASSUME TypeOK, CountInv, NEW c \in Conns, NEW s \in {"counting", "turning"}, Goes(c, s),
         saw' = [saw EXCEPT ![c] = staleRejected], UNCHANGED <<staleRejected, finished>>,
         \A e \in Conns : conn[e].state # s
  PROVE  CountInv'
<1>1. /\ conn'[c].state = s /\ \A e \in Conns : e # c => conn'[e] = conn[e]
  BY GoesOnly DEF ConnState
<1>2. saw'[c] = staleRejected /\ \A e \in Conns : e # c => saw'[e] = saw[e]
  BY DEF TypeOK
<1>3. OneHolder'
  BY <1>1 DEF CountInv, OneHolder, Incrementing
<1>4. NeverMore'
  BY <1>1, <1>2 DEF CountInv, NeverMore, Incrementing, TypeOK
<1>5. OneKind'
  BY <1>1, <1>2 DEF CountInv, OneKind
<1> QED BY <1>3, <1>4, <1>5 DEF CountInv

\* An increment ends: its holder had read the count of its kind.
LEMMA CountEnds ==
  ASSUME TypeOK, TypeOK', CountInv, NEW c \in Conns, TurnAway(c) \/ CountStore(c)
  PROVE  CountInv'
<1>1. /\ staleRejected' = saw[c] + 1 /\ saw' = [saw EXCEPT ![c] = 0]
      /\ \A e \in Conns : e # c => conn'[e] = conn[e] /\ saw'[e] = saw[e]
      /\ conn'[c].state \in {"closed", "open"} /\ Incrementing(c)
  BY GoesOnly, ReturnsOnly DEF TurnAway, CountStore, Counted, Incrementing, ConnState, TypeOK
<1>2. /\ finished.replays \in Nat /\ finished.reports \in Nat /\ staleRejected \in Nat
      /\ \A e \in Conns : saw[e] \in Nat
  BY DEF TypeOK
<1>3. OneHolder'
  BY <1>1 DEF CountInv, OneHolder, Incrementing
<1>4. CASE TurnAway(c)
  <2>1. /\ finished'.replays = finished.replays + 1 /\ finished'.reports = finished.reports
        /\ conn[c].state = "turning"
    BY <1>4 DEF TurnAway, TypeOK
  <2>2. \A e \in Conns : e # c => conn[e].state # "turning"
    BY <2>1 DEF CountInv, OneHolder, Incrementing
  <2>3. NeverMore'
    BY <1>1, <1>2, <2>1 DEF CountInv, NeverMore, Incrementing
  <2>4. OneKind'
    BY <1>1, <1>2, <2>1, <2>2 DEF CountInv, OneKind
  <2> QED BY <1>3, <2>3, <2>4 DEF CountInv
<1>5. CASE CountStore(c)
  <2>1. /\ finished'.reports = finished.reports + 1 /\ finished'.replays = finished.replays
        /\ conn[c].state = "counting"
    BY <1>5 DEF CountStore, TypeOK
  <2>2. \A e \in Conns : e # c => conn[e].state # "counting"
    BY <2>1 DEF CountInv, OneHolder, Incrementing
  <2>3. NeverMore'
    BY <1>1, <1>2, <2>1 DEF CountInv, NeverMore, Incrementing
  <2>4. OneKind'
    BY <1>1, <1>2, <2>1, <2>2 DEF CountInv, OneKind
  <2> QED BY <1>3, <2>3, <2>4 DEF CountInv
<1> QED BY <1>4, <1>5

\* Every step keeps the invariant of the count.
LEMMA NextCount ==
  ASSUME TypeOK, CountInv, [Next]_vars
  PROVE  CountInv'
<1>1. TypeOK'
  BY NextType
<1>2. ASSUME NEW c \in Conns, NEW s \in ConnState \ {"counting", "turning"},
             Goes(c, s), UNCHANGED counts
      PROVE  CountInv'
  BY <1>2, GoesOnly, CountAlone DEF Incrementing
<1>3. ASSUME NEW c \in Conns, NEW w \in Workers, NEW b \in Boots, Connect(c, w, b)
      PROVE  CountInv'
  BY <1>3, CountAlone DEF Connect, TypeOK, Incrementing
<1>4. ASSUME NEW c \in Conns, NoRegistration(c) \/ MarkWorkerLost(c) PROVE CountInv'
  BY <1>4, ReturnsOnly, CountAlone DEF NoRegistration, MarkWorkerLost, Incrementing
<1>5. ASSUME NEW c \in Conns, ConnEnds(c) \/ RegisterWorker(c) \/ Unlist(c) PROVE CountInv'
  BY <1>2, <1>5 DEF ConnEnds, RegisterWorker, Unlist, ConnState
<1>6. ASSUME NEW c \in Conns, NEW report \in Report, WorkerReport(c, report) PROVE CountInv'
  <2>1. CASE Goes(c, "stale")
    BY <1>2, <1>6, <2>1 DEF WorkerReport, ConnState
  <2>2. CASE UNCHANGED conn
    BY <1>6, <2>2, CountAlone DEF WorkerReport
  <2> QED BY <1>6, <2>1, <2>2 DEF WorkerReport
<1>7. ASSUME NEW c \in Conns, Register(c) PROVE CountInv'
  <2>1. CASE Replay(c)
    BY <1>7, <2>1, CountBegins DEF Register, ConnsFree
  <2>2. CASE ~ Replay(c)
    BY <1>2, <1>7, <2>2 DEF Register, ConnState, counts
  <2> QED BY <2>1, <2>2
<1>8. ASSUME NEW c \in Conns, CountRead(c) PROVE CountInv'
  BY <1>8, CountBegins DEF CountRead, StatsFree
<1>9. ASSUME NEW c \in Conns, PeerEnds(c) PROVE CountInv'
  BY <1>9, CountAlone DEF PeerEnds
<1>10. ASSUME NEW w \in Hosts, ControlLoad(w) PROVE CountInv'
  BY <1>10, CountAlone DEF ControlLoad
<1>11. CASE UNCHANGED vars
  BY <1>11, CountAlone DEF vars, counts
<1> QED BY <1>1, <1>3, <1>4, <1>5, <1>6, <1>7, <1>8, <1>9, <1>10, <1>11, CountEnds
        DEF Next, ConnThread, Quiet

\* The count of stale messages (stale_rejected_, incremented under conns_mx_ for a
\* replay and under stats_mx_ for a report) never exceeds the messages that were
\* rejected, and is exact as long as they were all of one kind, whatever threads
\* interleave and in any deployment.
THEOREM CountKeptTheorem == Spec => []CountKept
<1>1. Init => CountInv
  BY DEF Init, Nobody, CountInv, OneHolder, NeverMore, OneKind, Incrementing
<1>2. TypeOK /\ CountInv /\ [Next]_vars => CountInv'
  BY NextCount
<1>3. TypeOK /\ CountInv => CountKept
  BY DEF TypeOK, CountInv, NeverMore, OneKind, CountKept
<1> QED BY <1>1, <1>2, <1>3, ServerTypeTheorem, PTL DEF Spec

-----------------------------------------------------------------------------
(* The registry, in an orderly deployment.                                 *)

\* A worker whose processes are settled has none that is waited for.
LEMMA SettledNonePending ==
  ASSUME TypeOK, NEW w \in Workers, Settled(w)
  PROVE  \A e \in Conns : conn[e].worker = w => ~ Pending(e)
BY DEF Settled, SettledConn, Pending, Open

\* A connection that keeps its place, and one that has none, at the end of a step
\* that leaves the registry alone.
LEMMA PlaceKept ==
  ASSUME OrderlyInv, TypeOK', NEW c \in Conns, NEW s \in ConnState, Goes(c, s),
         UNCHANGED <<conns, currentBoot>>,
         Placed(c) <=> s \in {"listed", "open", "stale", "counting", "dead"},
         \/ registered' = registered
         \/ Placed(c) /\ registered' = [registered EXCEPT ![conn[c].worker] = conn[c].boot],
         s \in {"open", "stale", "counting"} =>
           Open(c) \/ registered'[conn[c].worker] = conn[c].boot
  PROVE  RegistryExact' /\ BootsCurrent'
<1>1. /\ conn'[c].state = s /\ conn'[c].worker = conn[c].worker /\ conn'[c].boot = conn[c].boot
      /\ \A e \in Conns : e # c => conn'[e] = conn[e]
  BY GoesOnly DEF OrderlyInv
<1>2. \A e \in Conns : /\ conn'[e].worker = conn[e].worker /\ conn'[e].boot = conn[e].boot
                       /\ Placed(e)' <=> Placed(e)
  BY <1>1 DEF Placed
<1>3. \A w \in Workers : conns[w] # NoConn => conns[w] \in Conns
  BY DEF OrderlyInv, TypeOK
<1>4. RegistryExact'
  BY <1>2, <1>3 DEF OrderlyInv, RegistryExact
<1>5. \A e \in Conns : Open(e) /\ e # c => registered'[conn[e].worker] = conn[e].boot
  <2>1. \A e \in Conns : conn[e].worker \in Workers
    BY DEF OrderlyInv, TypeOK
  <2> SUFFICES ASSUME NEW e \in Conns, Open(e), e # c
               PROVE  registered'[conn[e].worker] = conn[e].boot
    OBVIOUS
  <2>2. registered[conn[e].worker] = conn[e].boot
    BY DEF OrderlyInv, BootsCurrent
  <2>3. CASE conn[e].worker # conn[c].worker
    BY <2>1, <2>2, <2>3 DEF OrderlyInv, TypeOK
  <2>4. CASE conn[e].worker = conn[c].worker /\ Placed(c)
    BY <2>4 DEF OrderlyInv, RegistryExact, Placed, Open
  <2>5. CASE conn[e].worker = conn[c].worker /\ ~ Placed(c)
    BY <2>2, <2>5 DEF Placed
  <2> QED BY <2>3, <2>4, <2>5
<1>6. BootsCurrent'
  <2>1. \A e \in Conns : Placed(e)' => currentBoot'[conn'[e].worker] = conn'[e].boot
    BY <1>2 DEF OrderlyInv, BootsCurrent
  <2>2. \A e \in Conns : e # c /\ Open(e)' => registered'[conn'[e].worker] = conn'[e].boot
    BY <1>1, <1>5 DEF Open
  <2>3. Open(c)' => registered'[conn'[c].worker] = conn'[c].boot
    BY <1>1 DEF Open, OrderlyInv, BootsCurrent, TypeOK
  <2> QED BY <2>1, <2>2, <2>3 DEF BootsCurrent
<1> QED BY <1>4, <1>6

\* What a thread's step has to show of the driver's part of the invariant: no
\* connection becomes pending unless it was, or its worker was settled.
LEMMA DriverKept ==
  ASSUME OrderlyInv, NEW c \in Conns, NEW s \in ConnState \ {"unused", "accepted", "listed"},
         Goes(c, s), UNCHANGED peers,
         Pending(c) \/ Settled(conn[c].worker) \/ ~ Pending(c)',
         s \in {"open", "stale", "counting"} => Open(c) \/ conn[c].state = "listed",
         conn[c].state \notin {"unused", "closed"}
  PROVE  OnePending' /\ BootKnown' /\ NewBoots'
<1>1. /\ conn'[c].state = s /\ conn'[c].worker = conn[c].worker /\ conn'[c].boot = conn[c].boot
      /\ \A e \in Conns : e # c => conn'[e] = conn[e]
  BY GoesOnly DEF OrderlyInv
<1>2. \A e \in Conns : e # c => (Pending(e)' <=> Pending(e)) /\ (Open(e)' <=> Open(e))
  BY <1>1 DEF Pending, Open
<1>3. conn[c].worker \in Workers
  BY DEF OrderlyInv, TypeOK
<1>4. OnePending'
  BY <1>1, <1>2, <1>3, SettledNonePending DEF OrderlyInv, OnePending
<1>5. BootKnown'
  BY <1>1 DEF OrderlyInv, BootKnown
<1>6. NewBoots'
  <2> SUFFICES ASSUME NEW a \in Conns, NEW e \in Conns, conn'[a].state = "accepted", Open(e)',
                      conn'[a].worker = conn'[e].worker
               PROVE  conn'[a].boot # conn'[e].boot
    BY DEF NewBoots
  <2>1. a # c /\ conn[a].state = "accepted" /\ conn[a].worker = conn[e].worker
        /\ conn'[a].boot = conn[a].boot /\ conn'[e].boot = conn[e].boot
    BY <1>1
  <2>2. Pending(a)
    BY <2>1 DEF Pending
  <2>3. CASE Open(e)
    BY <2>1, <2>3 DEF OrderlyInv, NewBoots
  <2>4. CASE ~ Open(e)
    <3>1. e = c /\ conn[c].state = "listed"
      BY <1>1, <1>2, <2>4 DEF Open
    <3>2. Pending(e)
      BY <3>1 DEF Pending
    <3> QED BY <2>1, <2>2, <3>1, <3>2 DEF OrderlyInv, OnePending
  <2> QED BY <2>3, <2>4
<1> QED BY <1>4, <1>5, <1>6

-----------------------------------------------------------------------------
(* One lemma for each group of actions.                                    *)

\* A worker process is started.
LEMMA ConnectInv ==
  ASSUME Orderly, OrderlyInv, TypeOK', NEW c \in Conns, NEW w \in Workers, NEW b \in Boots,
         Connect(c, w, b)
  PROVE  OrderlyInv'
<1> USE DEF OrderlyInv
<1>1. /\ conn[c].state = "unused" /\ Settled(w)
      /\ \A e \in Conns : Open(e) /\ conn[e].worker = w => conn[e].boot # b
      /\ peers' = peers \cup {c} /\ UNCHANGED <<conns, currentBoot, registered>>
  BY DEF Connect
<1>2. /\ conn'[c].state = "accepted" /\ conn'[c].worker = w /\ conn'[c].boot = b
      /\ \A e \in Conns : e # c => conn'[e] = conn[e]
  BY DEF Connect, TypeOK
<1>3. \A e \in Conns : e # c => /\ Pending(e)' <=> Pending(e)
                                /\ Placed(e)' <=> Placed(e)
                                /\ Open(e)' <=> Open(e)
  BY <1>1, <1>2 DEF Pending, Placed, Open
<1>4. ~ Open(c) /\ ~ Open(c)' /\ ~ Placed(c) /\ ~ Placed(c)'
  BY <1>1, <1>2 DEF Open, Placed
<1>5. OnePending'
  BY <1>1, <1>2, <1>3, SettledNonePending DEF OnePending
<1>6. BootKnown'
  BY <1>1, <1>2 DEF BootKnown
<1>7. NewBoots'
  BY <1>1, <1>2, <1>3, <1>4 DEF NewBoots
<1>8. RegistryExact'
  <2>1. \A v \in Workers : conns[v] # NoConn => conns[v] \in Conns
    BY DEF TypeOK
  <2> QED BY <1>1, <1>2, <1>3, <1>4, <2>1 DEF RegistryExact
<1>9. BootsCurrent'
  BY <1>1, <1>2, <1>3, <1>4 DEF BootsCurrent
<1> QED BY <1>5, <1>6, <1>7, <1>8, <1>9

\* A worker process is stopped.
LEMMA PeerEndsInv ==
  ASSUME Orderly, OrderlyInv, TypeOK', NEW c \in Conns, PeerEnds(c)
  PROVE  OrderlyInv'
<1> USE DEF OrderlyInv
<1>1. OthersSettled(c) /\ peers' = peers \ {c}
      /\ UNCHANGED <<conn, conns, currentBoot, registered>>
  BY DEF PeerEnds
<1>2. \A e \in Conns : e # c /\ conn[e].worker = conn[c].worker => ~ Pending(e)
  BY <1>1 DEF OthersSettled, SettledConn, Pending, Open
<1>3. \A e \in Conns : e # c => (Pending(e)' <=> Pending(e))
  BY <1>1 DEF Pending, Open
<1>4. OnePending'
  BY <1>1, <1>2, <1>3 DEF OnePending
<1>5. BootKnown'
  BY <1>1 DEF BootKnown
<1>6. NewBoots' /\ RegistryExact' /\ BootsCurrent'
  BY <1>1 DEF NewBoots, RegistryExact, BootsCurrent, Open, Placed
<1> QED BY <1>4, <1>5, <1>6

\* A registration: a replay finds the open connection of the other boot on the
\* registry; without one the place is free.
LEMMA RegisterInv ==
  ASSUME OrderlyInv, TypeOK', NEW c \in Conns, Register(c)
  PROVE  OrderlyInv'
<1> USE DEF OrderlyInv
<1>1. conn[c].state = "accepted" /\ UNCHANGED <<peers, registered>>
  BY DEF Register
<1>2. CASE Replay(c)
  <2>1. Goes(c, "turning") /\ UNCHANGED <<conns, currentBoot>>
    BY <1>2 DEF Register
  <2>2. Pending(c) /\ ~ Placed(c)
    BY <1>1 DEF Pending, Placed
  <2>3. OnePending' /\ BootKnown' /\ NewBoots'
    BY <1>1, <2>1, <2>2, DriverKept DEF ConnState
  <2>4. RegistryExact' /\ BootsCurrent'
    BY <1>1, <2>1, <2>2, PlaceKept DEF ConnState
  <2> QED BY <2>3, <2>4
<1>3. CASE ~ Replay(c)
  <2> DEFINE w == conn[c].worker
  <2>1. /\ Goes(c, "listed") /\ conns' = [conns EXCEPT ![w] = c]
        /\ currentBoot' = [currentBoot EXCEPT ![w] = conn[c].boot]
    BY <1>3 DEF Register, BootReplaced
  <2>2. /\ conn'[c].state = "listed" /\ conn'[c].worker = w /\ conn'[c].boot = conn[c].boot
        /\ \A e \in Conns : e # c => conn'[e] = conn[e]
    BY <2>1, GoesOnly DEF ConnState
  <2>3. Pending(c) /\ conn[c].boot \in Boots /\ w \in Workers
    BY <1>1 DEF Pending, BootKnown, TypeOK
  <2>4. \A e \in Conns : Placed(e) => conn[e].worker # w
    <3> SUFFICES ASSUME NEW e \in Conns, Placed(e), conn[e].worker = w
                 PROVE  FALSE
      OBVIOUS
    <3>1. e # c /\ ~ Pending(e)
      BY <1>1, <2>3 DEF OnePending, Placed
    <3>2. Open(e)
      BY <3>1 DEF Pending, Placed, Open
    <3>3. conns[w] = e /\ conn[e].boot # conn[c].boot
      BY <1>1, <3>2 DEF RegistryExact, NewBoots
    <3> QED BY <1>3, <3>2, <3>3, ServerAssumption DEF Replay, Alive
  <2>5. \A e \in Conns : e # c => /\ Pending(e)' <=> Pending(e)
                                  /\ Placed(e)' <=> Placed(e)
                                  /\ Open(e)' <=> Open(e)
    BY <1>1, <2>2 DEF Pending, Placed, Open
  <2>6. OnePending'
    BY <2>2, <2>3, <2>5 DEF OnePending
  <2>7. BootKnown'
    BY <1>1, <2>2, <2>3 DEF BootKnown
  <2>8. NewBoots'
    BY <2>2, <2>5 DEF NewBoots, Open
  <2>9. RegistryExact'
    <3>1. \A v \in Workers : conns[v] # NoConn => conns[v] \in Conns /\ conns[v] # c
      BY <1>1 DEF TypeOK, RegistryExact, Placed
    <3>2. \A e \in Conns : e # c /\ Placed(e) => conns'[conn[e].worker] = e
      BY <2>1, <2>4 DEF RegistryExact, TypeOK
    <3>3. conns'[w] = c /\ Placed(c)' /\ conn'[c].worker = w
      BY <2>1, <2>2, <2>3 DEF Placed, TypeOK
    <3>4. \A v \in Workers : v # w => conns'[v] = conns[v]
      BY <2>1, <2>3 DEF TypeOK
    <3>5. ASSUME NEW v \in Workers, v # w, conns[v] # NoConn
          PROVE  Placed(conns[v])' /\ conn'[conns[v]].worker = v
      <4>1. Placed(conns[v]) /\ conn[conns[v]].worker = v
        BY <3>5 DEF RegistryExact
      <4> QED BY <2>2, <3>1, <3>4, <3>5, <4>1 DEF Placed
    <3>6. \A v \in Workers :
            conns'[v] # NoConn => Placed(conns[v])' /\ conn'[conns'[v]].worker = v
      BY <3>3, <3>4, <3>5 DEF Placed
    <3> QED BY <2>2, <2>5, <3>2, <3>3, <3>6 DEF RegistryExact
  <2>10. BootsCurrent'
    BY <1>1, <2>1, <2>2, <2>3, <2>4, <2>5 DEF BootsCurrent, Open, TypeOK
  <2> QED BY <2>6, <2>7, <2>8, <2>9, <2>10
<1> QED BY <1>2, <1>3

\* A thread returns that is off the registry, or never was on it.
LEMMA ReturnInv ==
  ASSUME OrderlyInv, TypeOK', NEW c \in Conns, ~ Placed(c), Returns(c),
         UNCHANGED <<conns, currentBoot, registered>>
  PROVE  OrderlyInv'
<1> USE DEF OrderlyInv
<1>1. /\ conn'[c].state = "closed" /\ peers' = peers \ {c}
      /\ \A e \in Conns : e # c => conn'[e] = conn[e]
  BY ReturnsOnly
<1>2. ~ Pending(c)' /\ ~ Placed(c)' /\ ~ Open(c)'
  BY <1>1 DEF Pending, Placed, Open
<1>3. \A e \in Conns : e # c => /\ Pending(e)' <=> Pending(e)
                                /\ Placed(e)' <=> Placed(e)
                                /\ Open(e)' <=> Open(e)
  BY <1>1 DEF Pending, Placed, Open
<1>4. OnePending' /\ BootKnown'
  BY <1>1, <1>2, <1>3 DEF OnePending, BootKnown
<1>5. NewBoots'
  BY <1>1, <1>2, <1>3 DEF NewBoots
<1>6. RegistryExact'
  <2>1. \A w \in Workers : conns[w] # NoConn => conns[w] \in Conns /\ conns[w] # c
    BY DEF TypeOK, RegistryExact
  <2> QED BY <1>1, <1>2, <1>3, <2>1 DEF RegistryExact
<1>7. BootsCurrent'
  BY <1>1, <1>2, <1>3 DEF BootsCurrent
<1> QED BY <1>4, <1>5, <1>6, <1>7

\* The steps of a thread that leave the registry alone.
LEMMA ThreadInv ==
  ASSUME Orderly, OrderlyInv, TypeOK', NEW c \in Conns,
         \/ ConnEnds(c) \/ RegisterWorker(c) \/ CountRead(c) \/ CountStore(c)
         \/ \E report \in Report : WorkerReport(c, report) /\ conn' # conn
  PROVE  OrderlyInv'
<1>1. UNCHANGED <<peers, conns, currentBoot>>
  BY DEF ConnEnds, RegisterWorker, CountRead, CountStore, WorkerReport
<1>2. ASSUME NEW s \in ConnState \ {"unused", "accepted", "listed"}, Goes(c, s),
             conn[c].state \notin {"unused", "closed"},
             Pending(c) \/ Settled(conn[c].worker) \/ ~ Pending(c)',
             s \in {"open", "stale", "counting"} => Open(c) \/ conn[c].state = "listed",
             Placed(c) <=> s \in {"listed", "open", "stale", "counting", "dead"},
             \/ registered' = registered
             \/ Placed(c) /\ registered' = [registered EXCEPT ![conn[c].worker] = conn[c].boot],
             s \in {"open", "stale", "counting"} =>
               Open(c) \/ registered'[conn[c].worker] = conn[c].boot
      PROVE  OrderlyInv'
  <2>1. OnePending' /\ BootKnown' /\ NewBoots'
    BY <1>1, <1>2, DriverKept
  <2>2. RegistryExact' /\ BootsCurrent'
    BY <1>1, <1>2, PlaceKept
  <2> QED BY <2>1, <2>2 DEF OrderlyInv
<1>3. CASE ConnEnds(c)
  <2>1. Goes(c, "dead") /\ conn[c].state = "open" /\ registered' = registered
        /\ (c \notin peers \/ Settled(conn[c].worker))
    BY <1>3 DEF ConnEnds
  <2>2. Pending(c) \/ Settled(conn[c].worker)
    BY <2>1 DEF Pending, Open
  <2> QED BY <1>2, <2>1, <2>2 DEF ConnState, Placed
<1>4. CASE RegisterWorker(c)
  <2>1. /\ Goes(c, "open") /\ conn[c].state = "listed"
        /\ registered' = [registered EXCEPT ![conn[c].worker] = conn[c].boot]
    BY <1>4 DEF RegisterWorker
  <2>2. Pending(c) /\ Placed(c)
    BY <2>1 DEF Pending, Placed
  <2>3. registered'[conn[c].worker] = conn[c].boot
    BY <2>1 DEF OrderlyInv, TypeOK
  <2> QED BY <1>2, <2>1, <2>2, <2>3 DEF ConnState
<1>5. CASE \/ CountRead(c) \/ CountStore(c)
           \/ \E report \in Report : WorkerReport(c, report) /\ conn' # conn
  <2>1. PICK s \in {"open", "stale", "counting"} : Goes(c, s)
    BY <1>5 DEF CountRead, CountStore, WorkerReport
  <2>2. Open(c) /\ Placed(c) /\ conn[c].state \notin {"unused", "closed"}
        /\ registered' = registered
    BY <1>5 DEF CountRead, CountStore, WorkerReport, Open, Placed
  <2>3. Open(c)' /\ c \in Conns
    BY <2>1, GoesOnly DEF OrderlyInv, Open, ConnState
  <2>4. conn'[c].state \in {"open", "stale", "counting"}
    BY <2>3 DEF Open
  <2>5. Pending(c) \/ ~ Pending(c)'
    BY <1>1, <2>2, <2>4 DEF Pending
  <2> QED BY <1>2, <2>1, <2>2, <2>5 DEF ConnState
<1> QED BY <1>3, <1>4, <1>5

\* The end of a connection: what it erases from the registry is itself.
LEMMA UnlistInv ==
  ASSUME OrderlyInv, TypeOK', NEW c \in Conns, Unlist(c)
  PROVE  OrderlyInv'
<1> USE DEF OrderlyInv
<1> DEFINE w == conn[c].worker
<1>1. /\ conn[c].state = "dead" /\ Goes(c, "unlisted") /\ conns' = [conns EXCEPT ![w] = NoConn]
      /\ UNCHANGED <<peers, currentBoot, registered>>
  BY DEF Unlist, Erased
<1>2. /\ conn'[c].state = "unlisted" /\ conn'[c].worker = w /\ conn'[c].boot = conn[c].boot
      /\ \A e \in Conns : e # c => conn'[e] = conn[e]
  BY <1>1, GoesOnly DEF ConnState
<1>3. Pending(c) /\ Placed(c) /\ ~ Placed(c)' /\ ~ Open(c)'
  BY <1>1, <1>2 DEF Pending, Placed, Open
<1>4. OnePending' /\ BootKnown' /\ NewBoots'
  BY <1>1, <1>3, DriverKept DEF ConnState
<1>5. conns[w] = c /\ w \in Workers
  BY <1>3 DEF RegistryExact, TypeOK
<1>6. \A e \in Conns : e # c => (Placed(e)' <=> Placed(e)) /\ (Open(e)' <=> Open(e))
  BY <1>2 DEF Placed, Open
<1>7. RegistryExact'
  <2>1. /\ conns'[w] = NoConn
        /\ \A v \in Workers : v # w => conns'[v] = conns[v] /\ conns[v] # c
    BY <1>1, <1>5, <1>3, ServerAssumption DEF TypeOK, RegistryExact
  <2>2. \A e \in Conns : e # c /\ Placed(e) => conn[e].worker # w /\ conn[e].worker \in Workers
    BY <1>5 DEF RegistryExact, TypeOK
  <2>3. \A e \in Conns : Placed(e)' => conns'[conn'[e].worker] = e
    BY <1>2, <1>3, <1>6, <2>1, <2>2 DEF RegistryExact
  <2>4. ASSUME NEW v \in Workers, conns'[v] # NoConn
        PROVE  Placed(conns[v])' /\ conn'[conns'[v]].worker = v
    <3>1. v # w /\ conns'[v] = conns[v] /\ conns[v] # c /\ conns[v] \in Conns
      BY <2>1, <2>4 DEF TypeOK
    <3>2. Placed(conns[v]) /\ conn[conns[v]].worker = v
      BY <2>4, <3>1 DEF RegistryExact
    <3> QED BY <1>2, <3>1, <3>2 DEF Placed
  <2> QED BY <2>3, <2>4 DEF RegistryExact
<1>8. BootsCurrent'
  BY <1>1, <1>2, <1>3, <1>6 DEF BootsCurrent
<1> QED BY <1>4, <1>7, <1>8

-----------------------------------------------------------------------------
(* The theorems of an orderly deployment.                                  *)

\* Every step keeps the invariant.
LEMMA NextOrderly ==
  ASSUME Orderly, OrderlyInv, [Next]_vars
  PROVE  OrderlyInv'
<1>1. TypeOK'
  BY NextType DEF OrderlyInv
<1>2. CASE UNCHANGED <<conn, peers, conns, currentBoot, registered>>
  BY <1>1, <1>2 DEF OrderlyInv, OnePending, BootKnown, NewBoots, RegistryExact, BootsCurrent,
    Pending, Placed, Open
<1>3. ASSUME NEW c \in Conns, NEW report \in Report, WorkerReport(c, report)
      PROVE  OrderlyInv'
  BY <1>1, <1>2, <1>3, ThreadInv DEF WorkerReport
<1>4. ASSUME NEW w \in Hosts, ControlLoad(w) PROVE OrderlyInv'
  BY <1>2, <1>4 DEF ControlLoad
<1>5. ASSUME NEW c \in Conns, NoRegistration(c) \/ TurnAway(c) \/ MarkWorkerLost(c)
      PROVE  OrderlyInv'
  BY <1>1, <1>5, ReturnInv DEF NoRegistration, TurnAway, MarkWorkerLost, Placed
<1>6. CASE UNCHANGED vars
  BY <1>2, <1>6 DEF vars
<1> QED BY <1>1, <1>3, <1>4, <1>6, <1>5, ConnectInv, PeerEndsInv, RegisterInv, ThreadInv, UnlistInv
        DEF Next, ConnThread, Quiet

\* No connection at first.
LEMMA InitOrderly == Init => OrderlyInv
<1> SUFFICES ASSUME Init PROVE OrderlyInv
  OBVIOUS
<1>1. \A c \in Conns : conn[c].state = "unused"
  BY DEF Init, Nobody
<1>2. \A w \in Workers : conns[w] = NoConn
  BY DEF Init
<1> QED BY <1>1, <1>2, InitType DEF OrderlyInv, OnePending, BootKnown, NewBoots, RegistryExact,
           BootsCurrent, Pending, Placed, Open

\* The invariant of an orderly deployment, at all times.
THEOREM OrderlyAlways ==
  ASSUME Orderly
  PROVE  Spec => []OrderlyInv
<1>1. OrderlyInv /\ [Next]_vars => OrderlyInv'
  BY NextOrderly
<1> QED BY <1>1, InitOrderly, PTL DEF Spec

\* When worker processes are started and stopped one after the other, no two boots
\* of one worker are connected at the same time
\* (CoordinatorServer::handle_worker_connection turns the second away).
THEOREM OneLiveBootTheorem ==
  ASSUME Orderly
  PROVE  Spec => []OneLiveBoot
<1>1. OrderlyInv => OneLiveBoot
  BY DEF OrderlyInv, OneLiveBoot, RegistryExact, Alive, Open, Placed
<1> QED BY <1>1, OrderlyAlways, PTL

\* In an orderly deployment the registry of connections, the current boot and the
\* coordinator's registration agree on every open connection, although they are
\* updated by different threads under different mutexes, or none.
THEOREM RegistryAgreesTheorem ==
  ASSUME Orderly
  PROVE  Spec => []RegistryAgrees
<1>1. OrderlyInv => RegistryAgrees
  <2> SUFFICES ASSUME OrderlyInv, NEW c \in Conns, Open(c)
               PROVE  /\ conns[conn[c].worker] = c
                      /\ currentBoot[conn[c].worker] = conn[c].boot
                      /\ registered[conn[c].worker] = conn[c].boot
    BY ServerAssumption DEF RegistryAgrees
  <2> QED BY DEF OrderlyInv, RegistryExact, BootsCurrent, Open, Placed
<1> QED BY <1>1, OrderlyAlways, PTL

-----------------------------------------------------------------------------
(* The judgement of a report.                                              *)

\* validate finds a message stale exactly when it is stale on some axis.
LEMMA ValidateReturns ==
  ASSUME NEW message, NEW current, NEW strict
  PROVE  validate(message, current, strict) # "None" <=>
           \E i \in 1..10 : AxisStale(message[Axes[i]], current[Axes[i]], Strict(Axes[i], strict))
<1> DEFINE stale == {i \in 1..10 : AxisStale(message[Axes[i]], current[Axes[i]],
                                             Strict(Axes[i], strict))}
           less == {ss \in Nat \X Nat : ss[1] < ss[2]}
<1>1. validate(message, current, strict) = IF stale = {} THEN "None" ELSE Axes[Min(stale)]
  BY DEF validate
<1>2. \A i \in 1..10 : Axes[i] # "None"
  BY DEF Axes
<1>3. stale \subseteq 1..10
  OBVIOUS
<1>4. stale # {} <=>
        \E i \in 1..10 : AxisStale(message[Axes[i]], current[Axes[i]], Strict(Axes[i], strict))
  OBVIOUS
<1> HIDE DEF stale
<1>5. stale # {} => Min(stale) \in stale
  <2> SUFFICES ASSUME stale # {} PROVE Min(stale) \in stale
    OBVIOUS
  <2>1. IsWellFoundedOn(less, Nat)
    BY NatLessThanWellFounded DEF OpToRel
  <2>2. \A x, y \in Nat : <<y, x>> \notin less => x <= y
    OBVIOUS
  <2> HIDE DEF less
  <2>3. \E x \in stale : \A y \in stale : ~ (<<y, x>> \in less)
    <3>1. stale \subseteq Nat
      BY <1>3
    <3> QED BY <2>1, <3>1, WFMin
  <2>4. \E x \in stale : \A y \in stale : x <= y
    BY <1>3, <2>2, <2>3
  <2> QED BY <2>4 DEF Min
<1> QED BY <1>1, <1>2, <1>3, <1>4, <1>5

\* A report is compared on the epoch and on the boot, and on nothing else: every
\* generation is the report's own.
LEMMA FoundStaleMeans ==
  ASSUME NEW c \in Conns, NEW report \in Report, currentBoot[conn[c].worker] \in Boots
  PROVE  FoundStale(c, report) <=>
           report.boot # currentBoot[conn[c].worker] \/ report.epoch # Epoch
<1> DEFINE m == ReportedFrame(report)
           f == CurrentFrame(c, report)
<1>1. /\ AxisNames = {"epoch", "boot", "residency", "model", "artifact", "adapter", "device",
                      "attempt", "migration", "policy"}
      /\ Axes[1] = "epoch" /\ Axes[2] = "boot" /\ \A i \in 1..10 : Axes[i] \in AxisNames
      /\ \A i \in 3..10 : Axes[i] \notin {"epoch", "boot"}
  BY DEF AxisNames, Axes
<1>2. /\ m["epoch"] = report.epoch /\ f["epoch"] = Epoch
      /\ m["boot"] = report.boot /\ f["boot"] = currentBoot[conn[c].worker]
      /\ \A x \in AxisNames \ {"epoch", "boot"} : m[x] = f[x]
  BY <1>1 DEF ReportedFrame, CurrentFrame
<1>3. Epoch # 0 /\ currentBoot[conn[c].worker] # 0
  BY ServerAssumption
<1> HIDE DEF m, f
<1>4. AxisStale(m["epoch"], f["epoch"], Strict("epoch", FALSE)) <=> report.epoch # Epoch
  BY <1>2, <1>3 DEF AxisStale, Strict
<1>5. AxisStale(m["boot"], f["boot"], Strict("boot", FALSE)) <=>
        report.boot # currentBoot[conn[c].worker]
  BY <1>2, <1>3 DEF AxisStale, Strict
<1>6. ASSUME NEW i \in 3..10
      PROVE  ~ AxisStale(m[Axes[i]], f[Axes[i]], Strict(Axes[i], FALSE))
  <2>1. m[Axes[i]] = f[Axes[i]]
    BY <1>1, <1>2
  <2> QED BY <2>1 DEF AxisStale
<1> DEFINE stale(i) == AxisStale(m[Axes[i]], f[Axes[i]], Strict(Axes[i], FALSE))
<1>7. FoundStale(c, report) <=> \E i \in 1..10 : stale(i)
  BY ValidateReturns DEF FoundStale, m, f
<1>8. /\ stale(1) <=> report.epoch # Epoch
      /\ stale(2) <=> report.boot # currentBoot[conn[c].worker]
      /\ \A i \in 3..10 : ~ stale(i)
  BY <1>1, <1>4, <1>5, <1>6
<1> HIDE DEF stale
<1>9. (\E i \in 1..10 : stale(i)) <=> stale(1) \/ stale(2)
  BY <1>8
<1> QED BY <1>7, <1>8, <1>9

\* On an open connection of an orderly deployment exactly the reports of the boot
\* it registered with and of the coordinator's epoch pass: a late report of an
\* earlier boot is found stale, a current one never is
\* (StaleAuthorityChecker::validate, src/src/authority.cpp).
THEOREM ReportJudgedTheorem ==
  ASSUME Orderly
  PROVE  Spec => []ReportJudged
<1>1. OrderlyInv => ReportJudged
  <2> SUFFICES ASSUME OrderlyInv, NEW c \in Conns, NEW report \in Report, Open(c)
               PROVE  FoundStale(c, report) <=> report.boot # conn[c].boot \/ report.epoch # Epoch
    BY DEF ReportJudged
  <2>1. currentBoot[conn[c].worker] = conn[c].boot /\ conn[c].boot \in Boots
    BY DEF OrderlyInv, BootsCurrent, BootKnown, Open, Placed
  <2> QED BY <2>1, FoundStaleMeans
<1> QED BY <1>1, OrderlyAlways, PTL
=============================================================================
