------------------------------- MODULE GoSdk -------------------------------
(***************************************************************************)
(* One client of the Go SDK (sdk/go) and the goroutines that share it: the *)
(* callers of Ready, runStream, runPoll, and an application that registers *)
(* OnChange listeners and calls Close whenever it likes.  Delivery has one *)
(* such client with the server in detail and a single Ready; here the      *)
(* server is any that answers with the latest snapshot and streams any it  *)
(* has had, and the client is complete.                                    *)
(*                                                                         *)
(* One action is what a goroutine does between two releases of a mutex, so *)
(* applySnapshot is four: swap under mu, checkSchemaDrift under warnMu,    *)
(* copy the listeners under listenersMu, and one call per listener.        *)
(***************************************************************************)
EXTENDS Naturals, Sequences, FiniteSets

CONSTANTS
  Callers,      \* goroutines of the application that call Ready
  Listeners,    \* OnChange registrations
  Hashes,       \* schema hashes that the server has
  Expected,     \* Options.ExpectedSchemaHash
  NoHash,       \* lastWarnedHash while warnedOnce is false
  MaxReadies,   \* bound: calls of Ready that get an answer
  MaxHistory,   \* bound: states of the server
  MaxFrames     \* bound: frames that one read leaves in the scanner

ASSUME GoSdkAssumption ==
  /\ NoHash \notin Hashes \cup {Expected}
  /\ {"stream", "poll"} \cap Callers = {}
  /\ MaxReadies \in Nat
  /\ MaxHistory \in Nat \ {0}
  /\ MaxFrames \in Nat \ {0}

Threads == Callers \cup {"stream", "poll"}

VARIABLES
  history,      \* what GET /v1/snapshot would have answered so far, revision 0 being a 404
  current,      \* Client.current
  warned,       \* lastWarnedHash
  subscription, \* of every listener: before OnChange, in Client.listeners, after unsubscribe
  started,      \* Client.cancel # nil
  closed,       \* Client.closed
  readies,      \* calls of Ready that got an answer so far (bound)
  thread,       \* every goroutine: pc, the snapshot it has, the listeners it has yet to call
  arrived,      \* frames of the stream in the connection's and the scanner's buffers:
                \* how many, and how new they can be
  heard,        \* history: the revisions each listener was called with
  audience,     \* history: who was registered when applySnapshot swapped current in
  reported,     \* history: the hashes warned about
  closedAt      \* history: the server's revision when Close was called

app == <<warned, subscription, started, closed>>
ghosts == <<heard, audience, reported, closedAt>>
vars == <<history, current, app, readies, thread, arrived, ghosts>>

Snapshots == [revision : Nat, schemaHash : Hashes \cup {Expected}]
EmptySnapshot == [revision |-> 0, schemaHash |-> Expected]
Idle(pc) == [pc |-> pc, snap |-> EmptySnapshot, todo |-> {}]
NoFrames == [left |-> 0, upto |-> 0]

Applying == {"apply", "drift", "notify", "call"}

\* Where a goroutine can be.
Places(t) ==
  IF t \in Callers THEN {"ready", "store", "drift", "start"}
  ELSE Applying \cup {"off"} \cup IF t = "poll" THEN {"wait"} ELSE {"connect", "read", "fetch"}

GoTypeOK ==
  /\ history \in Seq(Snapshots) /\ Len(history) \in 1 .. MaxHistory
  /\ current \in Snapshots
  /\ warned \in Hashes \cup {NoHash}
  /\ subscription \in [Listeners -> {"before", "on", "after"}]
  /\ started \in BOOLEAN /\ closed \in BOOLEAN
  /\ thread \in [Threads -> [pc : UNION {Places(t) : t \in Threads}, snap : Snapshots,
                             todo : SUBSET Listeners]]
  /\ \A t \in Threads : thread[t].pc \in Places(t)
  /\ readies \in Nat
  /\ arrived \in [left : 0 .. MaxFrames, upto : 0 .. MaxHistory]
  /\ heard \in [Listeners -> SUBSET Nat]
  /\ audience \subseteq Listeners
  /\ reported \subseteq Hashes
  /\ closedAt \in Nat

\* New, and a server whose environment has no version yet.
Init ==
  /\ history = <<EmptySnapshot>>
  /\ current = EmptySnapshot
  /\ warned = NoHash
  /\ subscription = [l \in Listeners |-> "before"]
  /\ started = FALSE
  /\ closed = FALSE
  /\ readies = 0
  /\ thread = [t \in Threads |-> Idle(IF t \in Callers THEN "ready" ELSE "off")]
  /\ arrived = NoFrames
  /\ heard = [l \in Listeners |-> {}]
  /\ audience = {}
  /\ reported = {}
  /\ closedAt = 0

At(t, pc) == thread[t].pc = pc
Goto(t, pc) == thread' = [thread EXCEPT ![t].pc = pc]

\* Client.listeners.
Registered == {l \in Listeners : subscription[l] = "on"}

\* The context of the background goroutines.
Cancelled == started /\ closed

-----------------------------------------------------------------------------
(* The server.                                                             *)

Latest == history[Len(history)]

\* Snapshots carry the hash of the schema at the time they are read, which may have
\* changed before a write or without one.
ServerMoves(snap) ==
  /\ Len(history) < MaxHistory
  /\ history' = Append(history, snap)
  /\ UNCHANGED <<current, app, readies, thread, arrived, ghosts>>

Write(h) == ServerMoves([revision |-> Latest.revision + 1, schemaHash |-> h])
ChangeSchema(h) == h # Latest.schemaHash /\ ServerMoves([Latest EXCEPT !.schemaHash = h])

-----------------------------------------------------------------------------
(* fetchSnapshot.                                                          *)

\* Mutant of MayFetch: the background goroutines fetch with a context of their own.
MayFetchAlways(t) == TRUE

\* Ready's context is its caller's; that of the others ends with Close.
MayFetch(t) == t \in Callers \/ ~Cancelled

\* A call of Ready, a tick of the poll or a resync: the answer is the server's latest, and
\* how late it is used is up to the goroutine.  A request that fails changes nothing:
\* Ready returns the error and may be called again, and the poll has its next tick.
Fetch(t) ==
  /\ MayFetch(t)
  /\ Latest.revision > 0
  /\ thread' = [thread EXCEPT ![t] = [pc |-> IF t \in Callers THEN "store" ELSE "apply",
                                     snap |-> Latest, todo |-> {}]]
  /\ UNCHANGED <<history, current, app, arrived, ghosts>>

-----------------------------------------------------------------------------
(* applySnapshot.                                                          *)

\* What runStream and runPoll do next.
Back(t) == IF t = "poll" THEN "wait" ELSE "read"

\* Mutant of Newer: the gate is missing.
AnySnapshot(snap) == TRUE

Newer(snap) == snap.revision > current.revision

Swap(t) ==
  /\ current' = thread[t].snap
  /\ audience' = Registered
  /\ Goto(t, "drift")

Apply(t) ==
  /\ At(t, "apply")
  /\ Newer(thread[t].snap)
  /\ Swap(t)
  /\ UNCHANGED <<history, app, readies, arrived, heard, reported, closedAt>>

ApplyStale(t) ==
  /\ At(t, "apply")
  /\ ~Newer(thread[t].snap)
  /\ thread' = [thread EXCEPT ![t] = Idle(Back(t))]
  /\ UNCHANGED <<history, current, app, readies, arrived, ghosts>>

\* Mutant of Drifted: one warning is enough for a client.
DriftedFirst(snap) == snap.schemaHash # Expected /\ warned = NoHash

\* A hash that is neither the expected one nor the one warned about last.
Drifted(snap) == snap.schemaHash \notin {Expected, warned}

\* checkSchemaDrift, after which Ready starts the goroutines and applySnapshot goes on.
CheckSchemaDrift(t) ==
  /\ At(t, "drift")
  /\ warned' = IF Drifted(thread[t].snap) THEN thread[t].snap.schemaHash ELSE warned
  /\ reported' = IF Drifted(thread[t].snap) THEN reported \cup {thread[t].snap.schemaHash}
                 ELSE reported
  /\ Goto(t, IF t \in Callers THEN "start" ELSE "notify")
  /\ UNCHANGED <<history, current, subscription, started, closed, readies, arrived, heard, audience,
                 closedAt>>

\* Mutant of CopyListeners: an announcement under way is enough.
CopyListenersUnlessBusy(t) ==
  /\ At(t, "notify")
  /\ thread' = [thread EXCEPT ![t] =
       [pc |-> "call", snap |-> thread[t].snap,
        todo |-> IF \E u \in Threads : At(u, "call") THEN {} ELSE Registered]]
  /\ UNCHANGED <<history, current, app, readies, arrived, ghosts>>

\* notifyListeners copies the listeners...
CopyListeners(t) ==
  /\ At(t, "notify")
  /\ thread' = [thread EXCEPT ![t] = [pc |-> "call", snap |-> thread[t].snap,
                                     todo |-> Registered]]
  /\ UNCHANGED <<history, current, app, readies, arrived, ghosts>>

\* ... and calls them in any order, without a lock.
CallListener(t, l) ==
  /\ At(t, "call")
  /\ l \in thread[t].todo
  /\ heard' = [heard EXCEPT ![l] = @ \cup {thread[t].snap.revision}]
  /\ thread' = [thread EXCEPT ![t].todo = @ \ {l}]
  /\ UNCHANGED <<history, current, app, readies, arrived, audience, reported, closedAt>>

Called(t) ==
  /\ At(t, "call")
  /\ thread[t].todo = {}
  /\ thread' = [thread EXCEPT ![t] = Idle(Back(t))]
  /\ UNCHANGED <<history, current, app, readies, arrived, ghosts>>

ApplyStep(t) ==
  \/ Apply(t) \/ ApplyStale(t) \/ CheckSchemaDrift(t) \/ CopyListeners(t)
  \/ \E l \in Listeners : CallListener(t, l)
  \/ Called(t)

-----------------------------------------------------------------------------
(* Ready.                                                                  *)

Answered ==
  /\ readies < MaxReadies
  /\ readies' = readies + 1

Load(c) == At(c, "ready") /\ Answered /\ Fetch(c)

\* A 404: the empty snapshot.
LoadNothing(c) ==
  /\ At(c, "ready")
  /\ Answered
  /\ Latest.revision = 0
  /\ thread' = [thread EXCEPT ![c] = Idle("store")]
  /\ UNCHANGED <<history, current, app, arrived, ghosts>>

\* setSnapshot, without a gate.  A 404 is no drift.
Store(c) ==
  /\ At(c, "store")
  /\ current' = thread[c].snap
  /\ audience' = {}
  /\ Goto(c, IF thread[c].snap.revision = 0 THEN "start" ELSE "drift")
  /\ UNCHANGED <<history, app, readies, arrived, heard, reported, closedAt>>

MayStart == ~closed /\ ~started

\* startBackground.
Start(c) ==
  /\ At(c, "start")
  /\ started' = (started \/ MayStart)
  /\ thread' = [t \in Threads |->
       IF t = c THEN Idle("ready")
       ELSE IF MayStart /\ t = "stream" THEN Idle("connect")
       ELSE IF MayStart /\ t = "poll" THEN Idle("wait")
       ELSE thread[t]]
  /\ UNCHANGED <<history, current, warned, subscription, closed, readies, arrived, ghosts>>

ReadyStep(c) == Store(c) \/ CheckSchemaDrift(c) \/ Start(c)

-----------------------------------------------------------------------------
(* runStream.                                                              *)

\* The next connection, the backoff being over.
Connect ==
  /\ At("stream", "connect")
  /\ ~Cancelled
  /\ Goto("stream", "read")
  /\ UNCHANGED <<history, current, app, readies, arrived, ghosts>>

\* Whole frames arrive.
Arrive(n) ==
  /\ At("stream", "read")
  /\ ~Cancelled
  /\ arrived.left = 0
  /\ Latest.revision > 0
  /\ arrived' = [left |-> n, upto |-> Len(history)]
  /\ UNCHANGED <<history, current, app, readies, thread, ghosts>>

\* The snapshots that a frame may carry, or bring the client to.
Carried == {snap \in {history[i] : i \in 1 .. arrived.upto} : snap.revision > 0}

\* One frame less.  The loop over the scanner does not look at the context.
TakeFrame ==
  /\ At("stream", "read")
  /\ arrived.left > 0
  /\ arrived' = IF arrived.left = 1 THEN NoFrames ELSE [arrived EXCEPT !.left = @ - 1]

\* A snapshot frame, or a delta on the revision held now.
Frame(snap) ==
  /\ TakeFrame
  /\ thread' = [thread EXCEPT !["stream"] = [Idle("apply") EXCEPT !.snap = snap]]
  /\ UNCHANGED <<history, current, app, readies, ghosts>>

\* A delta on another revision.
FrameUnchained ==
  /\ TakeFrame
  /\ Goto("stream", "fetch")
  /\ UNCHANGED <<history, current, app, readies, ghosts>>

\* A frame that is no JSON of either kind.
FrameMalformed ==
  /\ TakeFrame
  /\ UNCHANGED <<history, current, app, readies, thread, ghosts>>

\* The connection ends, or is refused, or a line is too long for the scanner.
Drop ==
  /\ At("stream", "read")
  /\ Goto("stream", "connect")
  /\ arrived' = NoFrames
  /\ UNCHANGED <<history, current, app, readies, ghosts>>

\* Mutant of StreamEnds: the backoff does not look at the context.
StreamEndsInRead ==
  /\ Cancelled
  /\ At("stream", "read")
  /\ Goto("stream", "off")
  /\ arrived' = NoFrames
  /\ UNCHANGED <<history, current, app, readies, ghosts>>

\* The context is done: at the head of the loop, in the backoff, in a read.
StreamEnds ==
  /\ Cancelled
  /\ thread["stream"].pc \in {"connect", "read"}
  /\ Goto("stream", "off")
  /\ arrived' = NoFrames
  /\ UNCHANGED <<history, current, app, readies, ghosts>>

\* The end of a resync.
Resync == At("stream", "fetch") /\ Fetch("stream") /\ UNCHANGED readies

ResyncFails ==
  /\ At("stream", "fetch")
  /\ Goto("stream", "read")
  /\ UNCHANGED <<history, current, app, readies, arrived, ghosts>>

\* What runStream does without waiting for the server.
StreamRuns ==
  \/ \E snap \in Carried : Frame(snap)
  \/ FrameUnchained \/ FrameMalformed
  \/ ApplyStep("stream")
  \/ Resync \/ ResyncFails
  \/ StreamEnds

StreamStep == StreamRuns \/ Connect \/ (\E n \in 1 .. MaxFrames : Arrive(n)) \/ Drop

-----------------------------------------------------------------------------
(* runPoll.                                                                *)

\* A tick whose request is answered.
Poll == At("poll", "wait") /\ Fetch("poll") /\ UNCHANGED readies

PollEnds ==
  /\ At("poll", "wait")
  /\ Cancelled
  /\ Goto("poll", "off")
  /\ UNCHANGED <<history, current, app, readies, arrived, ghosts>>

PollStep == Poll \/ PollEnds \/ ApplyStep("poll")

-----------------------------------------------------------------------------
(* The application.                                                        *)

OnChange(l) ==
  /\ subscription[l] = "before"
  /\ subscription' = [subscription EXCEPT ![l] = "on"]
  /\ UNCHANGED <<history, current, warned, started, closed, readies, thread, arrived, ghosts>>

Unsubscribe(l) ==
  /\ subscription[l] = "on"
  /\ subscription' = [subscription EXCEPT ![l] = "after"]
  /\ UNCHANGED <<history, current, warned, started, closed, readies, thread, arrived, ghosts>>

Close ==
  /\ ~closed
  /\ closed' = TRUE
  /\ closedAt' = Latest.revision
  /\ UNCHANGED <<history, current, warned, subscription, started, readies, thread, arrived, heard,
                 audience, reported>>

-----------------------------------------------------------------------------
Next ==
  \/ \E h \in Hashes : Write(h) \/ ChangeSchema(h)
  \/ \E c \in Callers : Load(c) \/ LoadNothing(c) \/ ReadyStep(c)
  \/ StreamStep \/ PollStep
  \/ \E l \in Listeners : OnChange(l) \/ Unsubscribe(l)
  \/ Close

Spec == Init /\ [][Next]_vars

\* Goroutines run, listeners return, the ticker ticks, and not every poll fails.  Nothing
\* is assumed of the stream's connection, nor that anybody calls Ready or Close.
Fairness ==
  /\ \A c \in Callers : WF_vars(ReadyStep(c))
  /\ WF_vars(StreamRuns) /\ WF_vars(PollStep)

FairSpec == Spec /\ Fairness

-----------------------------------------------------------------------------
(* What makes the client correct.                                          *)

\* Every update is announced: once the goroutines have finished with it, whoever was
\* registered when the snapshot served now was swapped in, and still is, has been
\* called with it, whatever the other goroutine was announcing at the same time.
ChangesAreHeard ==
  (\A t \in {"stream", "poll"} : thread[t].pc \notin {"drift", "notify", "call"}) =>
    \A l \in audience \cap Registered : current.revision \in heard[l]

\* The lock is released before the listeners are called, so that a listener may hear of
\* an older revision after a newer one; but with one Ready, never of the one that the
\* client then serves: comparing with GetAll tells the two apart.
OutOfOrderOnlyWhenOvertaken ==
  [][readies <= 1 =>
       \A l \in Listeners : \A r \in heard'[l] \ heard[l] :
         (\E newer \in heard[l] : newer > r) => current.revision > r]_vars

\* A schema other than the expected one does not go unnoticed: outside checkSchemaDrift,
\* the hash of the snapshot served was warned about, whatever was warned about before.
DriftIsReported ==
  (\A t \in Threads : thread[t].pc # "drift") /\ current.revision > 0 =>
    current.schemaHash \in reported \cup {Expected}

\* Close does not wait, and what has arrived is still swapped in and announced; but
\* nothing the server wrote after Close is, except by a Ready that comes later.
ClosedLearnsNothing ==
  [][closed /\ current' # current =>
       \/ current'.revision <= closedAt
       \/ \E c \in Callers : At(c, "store") /\ current' = thread[c].snap]_vars

\* Close ends the goroutines, wherever they and the Ready calls are, for good.
CloseIsFinal == closed ~> [](At("stream", "off") /\ At("poll", "off"))

\* Once the writes stop the client has the last of them, and keeps it until Close: a
\* second Ready, which stores what it fetched however old it is by then, is made up for by
\* the poll.
FreshForGood == started ~> [](closed \/ current.revision = Latest.revision)
=============================================================================
