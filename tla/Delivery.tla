------------------------------ MODULE Delivery ------------------------------
(***************************************************************************)
(* How a committed write of one environment reaches one Go SDK client:     *)
(*                                                                         *)
(*   log --NOTIFY--> Listener --Publish--> Hub channel --> handleStream    *)
(*                                           --wire--> Client (stream)     *)
(*   log <--GET /v1/snapshot-- Client (Ready, poll and resync)             *)
(*                                                                         *)
(* The database is RevisionLog's log, which ConfigStore implements.  Every *)
(* reader of it (the snapshot loader, handleStream, handleSnapshot) loads  *)
(* the environment row and then, in a statement of its own, the current    *)
(* config_version: a write may commit in between, and the snapshot built   *)
(* then has the revision of the first read and the row of the second.      *)
(***************************************************************************)
EXTENDS RevisionLog, Delta

CONSTANTS
  Modes,          \* the values ?deltas= may have: a subset of BOOLEAN
  Faults,         \* what may go wrong: a subset of FaultKinds
  TornReads,      \* may a write commit between the two reads of one reader?
  Buffer,         \* subscriberBuffer, the capacity of a Hub channel
  MaxRevision,    \* bound: writes of the environment
  MaxWire         \* bound: frames the connection holds before a write blocks

FaultKinds == {"listener",  \* the LISTEN connection drops
               "loader",    \* the snapshot loader fails: the notification is dropped
               "reload",    \* handleStream cannot reload the environment: uses the old one
               "initial",   \* handleStream fails to load the initial snapshot
               "fetch",     \* GET /v1/snapshot fails
               "stream"}    \* the SSE connection drops

ASSUME DeliveryAssumption ==
  /\ Contents \subseteq Rows
  /\ Modes \subseteq BOOLEAN
  /\ Faults \subseteq FaultKinds
  /\ TornReads \in BOOLEAN
  /\ Buffer \in Nat \ {0}
  /\ MaxRevision \in Nat
  /\ MaxWire \in Nat \ {0}

VARIABLES
  session,    \* is there a LISTEN session?
  pending,    \* notifications of the session not yet taken
  listener,   \* the Listener goroutine: pc, the snapshot being loaded
  channel,    \* the Hub channel of the client's connection, <<>> if not subscribed
  handler,    \* the handleStream call serving the connection
  wire,       \* frames written and not yet read by the client
  current,    \* Client.current
  live,       \* has Ready returned, so that the background goroutines run?
  stream,     \* the runStream goroutine: pc, the snapshot it is about to apply
  fetch,      \* GET /v1/snapshot calls in progress, by the goroutine that made them
  missed      \* history: since the connection was made, has a notification been lost,
              \* or a load or a resync failed?  No guard looks at it

server == <<session, pending, listener, missed>>
connection == <<channel, handler, wire>>
client == <<current, live, stream, fetch>>
vars == <<log, server, connection, client>>

EmptyMap == [k \in {} |-> 0]
EmptySnapshot == [revision |-> 0, row |-> [values |-> EmptyMap, targeting |-> EmptyMap]]

Fetchers == {"ready", "poll", "resync"}

Frames == [type : {"snapshot"}, snap : Snapshots] \cup [type : {"delta"}, delta : Deltas]

TypeOK ==
  /\ LogTypeOK
  /\ session \in BOOLEAN
  /\ pending \in Nat
  /\ listener \in [pc : {"wait", "version", "publish"}, snap : Snapshots]
  /\ channel \in Seq(Snapshots) /\ Len(channel) <= Buffer
  /\ handler \in [pc : {"off", "arrived", "subscribe", "reload", "initial", "loop"},
                  deltas : BOOLEAN,
                  since : Nat,               \* ?since=
                  revision : Nat,            \* delivery_revision last loaded
                  hasBaseline : BOOLEAN,
                  lastSent : Snapshots]
  /\ wire \in Seq(Frames)
  /\ current \in Snapshots
  /\ live \in BOOLEAN
  /\ stream \in [pc : {"off", "open", "apply", "resync"}, snap : Snapshots]
  /\ fetch \in [Fetchers -> [pc : {"idle", "environment", "version", "answer"},
                             snap : Snapshots]]
  /\ missed \in BOOLEAN

IdleHandler == [pc |-> "off", deltas |-> FALSE, since |-> 0, revision |-> 0,
                hasBaseline |-> FALSE, lastSent |-> EmptySnapshot]
IdleListener == [pc |-> "wait", snap |-> EmptySnapshot]
IdleStream == [pc |-> "off", snap |-> EmptySnapshot]
OpenStream == [pc |-> "open", snap |-> EmptySnapshot]
IdleFetch == [pc |-> "idle", snap |-> EmptySnapshot]
StartFetch == [pc |-> "environment", snap |-> EmptySnapshot]

\* A server with its Listener up, and a client whose Ready was just called.
Init ==
  /\ LogInit
  /\ session = TRUE
  /\ pending = 0
  /\ listener = IdleListener
  /\ channel = <<>>
  /\ handler = IdleHandler
  /\ wire = <<>>
  /\ current = EmptySnapshot
  /\ live = FALSE
  /\ stream = IdleStream
  /\ fetch = [f \in Fetchers |-> IF f = "ready" THEN StartFetch ELSE IdleFetch]
  /\ missed = FALSE

-----------------------------------------------------------------------------
(* The database.                                                           *)

\* environment.delivery_revision and the row current_version_id points at.
DeliveryRevision == Len(log)
CurrentVersion == log[Len(log)]

\* The two reads of every reader, each a statement of its own: EnvironmentByID...
ReadEnvironment == [EmptySnapshot EXCEPT !.revision = DeliveryRevision]

\* Mutant of ReadVersion: the version is loaded first and the environment after it.
ReadVersionFirst(snap) ==
  [revision |-> DeliveryRevision,
   row |-> IF snap.revision = 0 THEN EmptySnapshot.row ELSE log[snap.revision]]

\* ... and then CurrentVersion, for BuildSnapshot to put together.
ReadVersion(snap) == [snap EXCEPT !.row = CurrentVersion]

\* No reader has the revision and not yet the row.
NoHalfRead == /\ listener.pc # "version"
              /\ handler.pc # "initial"
              /\ \A f \in Fetchers : fetch[f].pc # "version"

\* A save or a rollback commits; every LISTEN session gets its NOTIFY.
Commit(c) ==
  /\ Len(log) < MaxRevision
  /\ TornReads \/ NoHalfRead
  /\ Publish(c)
  /\ pending' = IF session THEN pending + 1 ELSE pending
  /\ missed' = (missed \/ ~session)
  /\ UNCHANGED <<session, listener, connection, client>>

-----------------------------------------------------------------------------
(* The Listener goroutine and the Hub.                                     *)

\* The session is lost with what it had queued.  The goroutine notices at its next
\* WaitForNotification.
LoseSession ==
  /\ "listener" \in Faults
  /\ session
  /\ session' = FALSE
  /\ pending' = 0
  /\ missed' = (missed \/ pending > 0)
  /\ UNCHANGED <<log, listener, connection, client>>

\* Run reconnects after its backoff and listenOnce issues LISTEN.  Nothing published
\* meanwhile is looked up.
Reconnect ==
  /\ ~session
  /\ listener.pc = "wait"
  /\ session' = TRUE
  /\ UNCHANGED <<log, pending, listener, missed, connection, client>>

\* The revision in the payload is not used: the loader reads the environment's.
LoadEnvironment ==
  /\ listener.pc = "wait"
  /\ pending > 0
  /\ pending' = pending - 1
  /\ listener' = [pc |-> "version", snap |-> ReadEnvironment]
  /\ UNCHANGED <<log, session, missed, connection, client>>

LoadVersion ==
  /\ listener.pc = "version"
  /\ listener' = [pc |-> "publish", snap |-> ReadVersion(listener.snap)]
  /\ UNCHANGED <<log, session, pending, missed, connection, client>>

LoadFails ==
  /\ "loader" \in Faults
  /\ listener.pc = "version"
  /\ listener' = IdleListener
  /\ missed' = TRUE
  /\ UNCHANGED <<log, session, pending, connection, client>>

\* Mutant of Subscribed: the subscription is made after the initial snapshot is loaded.
SubscribedAfterLoading == handler.pc = "loop"

\* Between Subscribe and cancel.
Subscribed == handler.pc \in {"reload", "initial", "loop"}

\* Mutant of Enqueue: a full channel grows.
EnqueueUnbounded(ch, snap) == Append(ch, snap)

\* A send that never blocks: a full channel loses its oldest snapshot.
Enqueue(ch, snap) == Append(IF Len(ch) < Buffer THEN ch ELSE Tail(ch), snap)

PublishSnapshot ==
  /\ listener.pc = "publish"
  /\ channel' = IF Subscribed THEN Enqueue(channel, listener.snap) ELSE channel
  /\ listener' = IdleListener
  /\ UNCHANGED <<log, session, pending, missed, handler, wire, client>>

-----------------------------------------------------------------------------
(* handleStream                                                            *)

\* writeFrame: with deltas, a snapshot newer than the last one sent goes out as the
\* difference to it.
Frame(snap) ==
  IF handler.deltas /\ handler.hasBaseline /\ snap.revision > handler.lastSent.revision
  THEN [type |-> "delta", delta |-> ComputeDelta(handler.lastSent, snap)]
  ELSE [type |-> "snapshot", snap |-> snap]

Baseline(snap) ==
  IF handler.deltas THEN [handler EXCEPT !.pc = "loop", !.hasBaseline = TRUE, !.lastSent = snap]
                    ELSE [handler EXCEPT !.pc = "loop"]

WriteFrame(snap) ==
  /\ Len(wire) < MaxWire
  /\ wire' = Append(wire, Frame(snap))
  /\ handler' = Baseline(snap)

\* The existence check, whose revision is kept in case the reload fails.
StreamEnvironment ==
  /\ handler.pc = "arrived"
  /\ handler' = [handler EXCEPT !.pc = "subscribe", !.revision = DeliveryRevision]
  /\ UNCHANGED <<log, server, channel, wire, client>>

Subscribe ==
  /\ handler.pc = "subscribe"
  /\ handler' = [handler EXCEPT !.pc = "reload"]
  /\ UNCHANGED <<log, server, channel, wire, client>>

ReloadEnvironment ==
  /\ handler.pc = "reload"
  /\ handler' = [handler EXCEPT !.pc = "initial", !.revision = DeliveryRevision]
  /\ UNCHANGED <<log, server, channel, wire, client>>

\* The reload failed: envNow = env, loaded before the subscription.
ReloadFails ==
  /\ "reload" \in Faults
  /\ handler.pc = "reload"
  /\ handler' = [handler EXCEPT !.pc = "initial"]
  /\ missed' = TRUE
  /\ UNCHANGED <<log, session, pending, listener, channel, wire, client>>

\* delivery_revision > since
Behind(since) == handler.revision > since

\* CurrentVersion, then the initial frame when the client is behind.
SendInitial ==
  /\ handler.pc = "initial"
  /\ log # <<>>
  /\ Behind(handler.since)
  /\ WriteFrame(ReadVersion([EmptySnapshot EXCEPT !.revision = handler.revision]))
  /\ UNCHANGED <<log, server, channel, client>>

\* Nothing to send: no version yet, or the client has this revision.
SkipInitial ==
  /\ handler.pc = "initial"
  /\ log = <<>> \/ ~Behind(handler.since)
  /\ handler' = [handler EXCEPT !.pc = "loop"]
  /\ UNCHANGED <<log, server, channel, wire, client>>

\* The version or the schema cannot be loaded: logged, the stream goes on.
InitialFails ==
  /\ "initial" \in Faults
  /\ handler.pc = "initial"
  /\ handler' = [handler EXCEPT !.pc = "loop"]
  /\ missed' = TRUE
  /\ UNCHANGED <<log, session, pending, listener, channel, wire, client>>

Forward ==
  /\ handler.pc = "loop"
  /\ channel # <<>>
  /\ WriteFrame(Head(channel))
  /\ channel' = Tail(channel)
  /\ UNCHANGED <<log, server, client>>

\* The server ends the stream (shutdown, a failed write): cancel unsubscribes.  What
\* is on the wire can still be read.
EndStream ==
  /\ "stream" \in Faults
  /\ handler.pc # "off"
  /\ handler' = IdleHandler
  /\ channel' = <<>>
  /\ UNCHANGED <<log, server, wire, client>>

-----------------------------------------------------------------------------
(* The client: runStream.                                                  *)

\* A connection since the revision held now, with DisableDeltas set or not.
Connect(deltas) ==
  /\ live
  /\ stream.pc = "off"
  /\ handler.pc = "off"
  /\ stream' = OpenStream
  /\ handler' = [IdleHandler EXCEPT !.pc = "arrived", !.deltas = deltas,
                                    !.since = current.revision]
  /\ missed' = FALSE
  /\ UNCHANGED <<log, session, pending, listener, channel, wire, current, live, fetch>>

\* onSnapshot: the frame goes to applySnapshot as it is.
ReceiveSnapshot ==
  /\ stream.pc = "open"
  /\ wire # <<>>
  /\ Head(wire).type = "snapshot"
  /\ stream' = [pc |-> "apply", snap |-> Head(wire).snap]
  /\ wire' = Tail(wire)
  /\ UNCHANGED <<log, server, channel, handler, current, live, fetch>>

\* Mutant of Chains: any delta to a newer revision is applied.
ChainsIfNewer(d) == d.revision > current.revision

\* applyDeltaFrame's test, on a copy of current taken under the lock.
Chains(d) == d.from = current.revision

\* onDelta, on the revision it was computed against.
ReceiveDelta ==
  /\ stream.pc = "open"
  /\ wire # <<>>
  /\ Head(wire).type = "delta"
  /\ Chains(Head(wire).delta)
  /\ stream' = [pc |-> "apply", snap |-> ApplyUnchecked(current, Head(wire).delta)]
  /\ wire' = Tail(wire)
  /\ UNCHANGED <<log, server, channel, handler, current, live, fetch>>

\* onDelta, on another revision: refetch a full snapshot.
ReceiveUnchained ==
  /\ stream.pc = "open"
  /\ wire # <<>>
  /\ Head(wire).type = "delta"
  /\ ~Chains(Head(wire).delta)
  /\ stream' = [OpenStream EXCEPT !.pc = "resync"]
  /\ fetch' = [fetch EXCEPT !["resync"] = StartFetch]
  /\ wire' = Tail(wire)
  /\ UNCHANGED <<log, server, channel, handler, current, live>>

\* Mutant of Apply: the revision of the snapshot held is swapped in again.
ApplyIfNotOlder(snap) == current' = IF snap.revision >= current.revision THEN snap ELSE current

\* Mutant of Apply: a client that missed a revision ignores the following ones.
ApplyIfNext(snap) == current' = IF snap.revision = current.revision + 1 THEN snap ELSE current

\* Mutant of Apply: the revision gate is missing.
ApplyUngated(snap) == current' = snap

\* applySnapshot: only a strictly newer revision is swapped in.
Apply(snap) == current' = IF snap.revision > current.revision THEN snap ELSE current

ApplyFrame ==
  /\ stream.pc = "apply"
  /\ Apply(stream.snap)
  /\ stream' = OpenStream
  /\ UNCHANGED <<log, server, connection, live, fetch>>

\* The server closed the stream and everything it wrote has been read.
StreamClosed ==
  /\ stream.pc = "open"
  /\ handler.pc = "off"
  /\ wire = <<>>
  /\ stream' = IdleStream
  /\ UNCHANGED <<log, server, connection, current, live, fetch>>

\* The connection breaks under the client: what was in flight is lost.
LoseStream ==
  /\ "stream" \in Faults
  /\ stream.pc = "open"
  /\ stream' = IdleStream
  /\ handler' = IdleHandler
  /\ channel' = <<>>
  /\ wire' = <<>>
  /\ UNCHANGED <<log, server, current, live, fetch>>

-----------------------------------------------------------------------------
(* The client: GET /v1/snapshot, by Ready, by runPoll and to resync.       *)

PollTick ==
  /\ live
  /\ fetch["poll"] = IdleFetch
  /\ fetch' = [fetch EXCEPT !["poll"] = StartFetch]
  /\ UNCHANGED <<log, server, connection, current, live, stream>>

\* handleSnapshot loads the environment.
FetchEnvironment(f) ==
  /\ fetch[f].pc = "environment"
  /\ fetch' = [fetch EXCEPT ![f] = [pc |-> "version", snap |-> ReadEnvironment]]
  /\ UNCHANGED <<log, server, connection, current, live, stream>>

\* handleSnapshot loads the version and answers with both.
FetchVersion(f) ==
  /\ fetch[f].pc = "version"
  /\ log # <<>>
  /\ fetch' = [fetch EXCEPT ![f] = [pc |-> "answer", snap |-> ReadVersion(@.snap)]]
  /\ UNCHANGED <<log, server, connection, current, live, stream>>

\* The goroutine that asked has its answer, or has given up.
FetchDone(f) ==
  /\ fetch' = [fetch EXCEPT ![f] = IdleFetch]
  /\ stream' = IF f = "resync" THEN OpenStream ELSE stream

FetchApply(f) ==
  /\ f \in {"poll", "resync"}
  /\ fetch[f].pc = "answer"
  /\ Apply(fetch[f].snap)
  /\ FetchDone(f)
  /\ UNCHANGED <<log, server, connection, live>>

\* 404 (no version yet) or an error.
FetchGivesUp(f) ==
  /\ f \in {"poll", "resync"}
  /\ \/ fetch[f].pc = "version" /\ log = <<>>
     \/ fetch[f].pc # "idle" /\ "fetch" \in Faults
  /\ FetchDone(f)
  /\ missed' = (missed \/ f = "resync")
  /\ UNCHANGED <<log, session, pending, listener, connection, current, live>>

\* Ready stores its first snapshot without a gate, a 404 as the empty snapshot, and
\* starts the background goroutines.  An error is returned: the caller tries again.
ReadyLoads(snap) ==
  /\ current' = snap
  /\ live' = TRUE
  /\ FetchDone("ready")
  /\ UNCHANGED <<log, server, connection>>

Ready ==
  \/ fetch["ready"].pc = "answer" /\ ReadyLoads(fetch["ready"].snap)
  \/ fetch["ready"].pc = "version" /\ log = <<>> /\ ReadyLoads(EmptySnapshot)

-----------------------------------------------------------------------------
ListenerStep == Reconnect \/ LoadEnvironment \/ LoadVersion \/ PublishSnapshot

HandlerStep == \/ StreamEnvironment \/ Subscribe \/ ReloadEnvironment
               \/ SendInitial \/ SkipInitial \/ Forward

StreamStep == \/ \E deltas \in Modes : Connect(deltas)
              \/ ReceiveSnapshot \/ ReceiveDelta \/ ReceiveUnchained
              \/ ApplyFrame \/ StreamClosed

FetchStep(f) == FetchEnvironment(f) \/ FetchVersion(f) \/ FetchApply(f) \/ FetchGivesUp(f)

Fault == \/ LoseSession \/ LoadFails
         \/ ReloadFails \/ InitialFails \/ EndStream
         \/ LoseStream

Next ==
  \/ \E c \in Contents : Commit(c)
  \/ ListenerStep \/ HandlerStep \/ StreamStep
  \/ PollTick \/ Ready
  \/ \E f \in Fetchers : FetchStep(f)
  \/ Fault

Spec == Init /\ [][Next]_vars

\* The client's ticker keeps ticking, a request ends, and of the polls that go on for
\* ever not all fail at the same point: PollInterval, the HTTP client's timeout and the
\* Go scheduler see to the first two.  Nothing is assumed of the Listener, the Hub or
\* the stream.
PollFairness ==
  /\ WF_vars(Ready) /\ WF_vars(PollTick)
  /\ WF_vars(FetchEnvironment("ready")) /\ WF_vars(FetchVersion("ready"))
  /\ SF_vars(FetchEnvironment("poll")) /\ SF_vars(FetchVersion("poll")) /\ SF_vars(FetchApply("poll"))

FairSpec == Spec /\ PollFairness

-----------------------------------------------------------------------------
(* What makes delivery correct.                                            *)

\* The row of a snapshot is one that was live when its revision was, or later.
NotStale(snap) ==
  /\ snap.revision <= Len(log)
  /\ \E i \in DOMAIN log : i >= snap.revision /\ log[i] = snap.row

\* With full frames, what the client serves is never older than the revision it
\* reports, although every reader loads the two separately: the revision is always
\* loaded first, and the gate compares nothing else.
NeverStalerThanRevision == current = EmptySnapshot \/ NotStale(current)

\* applySnapshot is the only way in once Ready has returned: whatever order stream,
\* resync and poll answers arrive in, a swap goes to a strictly newer revision.
OnlyNewerIsSwappedIn ==
  [][live /\ current' # current => current'.revision > current.revision]_vars

\* While no write falls between the two reads of a reader and no reload fails, what
\* the client serves is exactly the row of the revision it reports, through any
\* mixture of full frames, deltas over dropped revisions, resyncs and polls.
ExactAtRevision ==
  current.revision > 0 => current.row = log[current.revision]

\* Everything from the NOTIFY to the client is idle and connected.
Quiet == /\ session /\ pending = 0 /\ listener = IdleListener
         /\ handler.pc = "loop" /\ channel = <<>> /\ wire = <<>>
         /\ stream.pc = "open"

\* No update is missed: a connection on which nothing is under way has delivered the
\* latest revision, unless since it was made a notification was lost, or a load or a
\* resync failed.
\* This is what subscribing before loading, reloading the environment, and dropping
\* the oldest snapshot of a full channel are for.
QuietMeansDelivered == Quiet /\ ~missed => current.revision = DeliveryRevision

\* architecture.md 4b, of deltas: a client that holds the latest revision holds the
\* latest row.
LatestRevisionMeansLatestRow ==
  current.revision = DeliveryRevision /\ log # <<>> => current.row = CurrentVersion

\* Every write reaches the client in the end, by polling alone, with the Listener, the
\* stream, the loads and any number of the polls failing as they please.
EveryWriteArrives ==
  \A r \in 1..MaxRevision : DeliveryRevision >= r ~> current.revision >= r

Feed == INSTANCE ConfigFeed WITH revision <- current.revision, row <- current.row,
                                 Nothing <- EmptySnapshot.row

\* With full frames the client implements ConfigFeed.
ImplementsConfigFeed == Feed!FeedSpec
=============================================================================
