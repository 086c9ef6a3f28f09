------------------------------- MODULE TsSdk -------------------------------
(***************************************************************************)
(* One client of the TypeScript SDK (sdk/typescript/src).  JavaScript runs *)
(* one callback at a time, so an action is what runs between two awaits,   *)
(* timers or user calls; the exception is a chunk of several stream        *)
(* frames, which is handled in one turn of the event loop but calls the    *)
(* application's onChange listeners in between, and a listener may close   *)
(* the client or throw.                                                    *)
(*                                                                         *)
(* The server is any server whose readers load the revision and then the   *)
(* row, in two statements, and whose streams send what was read, or the    *)
(* difference to what they sent before: Delivery's is one, and like it may *)
(* repeat a revision or send an older one.                                 *)
(***************************************************************************)
EXTENDS Delta, Sequences, FiniteSetsExt

CONSTANTS
  History,      \* the rows the environment goes through, one per revision
  Connections,  \* calls of openStream that can be under way together
  None,         \* no connection
  TornReads,    \* may a save commit between the two reads of one reader of the server?
  Modes,        \* values of opts.useDeltas: a subset of BOOLEAN
  Outcomes,     \* what the onChange listeners may do: {"return", "throw", "close"}
  Faults,       \* a subset of {"stream", "frame"}
  MaxWire,      \* bound: frames on their way on one connection
  MaxAsked      \* bound: snapshot requests in flight

ASSUME TsSdkAssumption ==
  /\ History \in Seq(Rows)
  /\ IsFiniteSet(Connections) /\ None \notin Connections
  /\ TornReads \in BOOLEAN
  /\ Modes \subseteq BOOLEAN
  /\ Outcomes \subseteq {"return", "throw", "close"} /\ "return" \in Outcomes
  /\ Faults \subseteq {"stream", "frame"}
  /\ MaxWire \in Nat \ {0} /\ MaxAsked \in Nat \ {0}

VARIABLES
  latest,        \* the revision of the environment on the server
  current,       \* the snapshot held
  ready,         \* has the initial load settled?
  closed,
  conn,          \* the openStream calls
  cancelStream,  \* the connection whose cancel function is kept
  timers,        \* reconnect timeouts pending
  pollTimer,     \* is the poll interval set?
  asked,         \* fetchSnapshot calls, by polls and resyncs, not yet answered
  answers,       \* the snapshots they were answered that were not looked at yet
  turn           \* the connection in the middle of a chunk, if any

held == <<current, ready>>
life == <<closed, timers, pollTimer>>
streams == <<conn, cancelStream, turn>>
requests == <<asked, answers>>
vars == <<latest, held, life, streams, requests>>

EMPTY_SNAPSHOT ==
  [revision |-> 0, row |-> [values |-> [k \in {} |-> 0], targeting |-> [k \in {} |-> 0]]]

\* The snapshot of a revision.
At(r) == IF r = 0 THEN EMPTY_SNAPSHOT ELSE [revision |-> r, row |-> History[r]]

Off == [pc |-> "off",     \* or "fetch", "read" (awaited), "chunk" (one was read)
        deltas |-> FALSE, cancelled |-> FALSE,
        sent |-> EMPTY_SNAPSHOT,  \* lastSent: the server's baseline for deltas
        wire |-> <<>>, buffer |-> <<>>]

\* createClient has just called fetchSnapshot.
Init ==
  /\ latest = 0
  /\ current = EMPTY_SNAPSHOT
  /\ ready = FALSE /\ closed = FALSE /\ pollTimer = FALSE
  /\ conn = [c \in Connections |-> Off]
  /\ cancelStream = None
  /\ timers = 0
  /\ asked = 0 /\ answers = {}
  /\ turn = None

-----------------------------------------------------------------------------
(* The server.                                                             *)

Write ==
  /\ latest < Len(History)
  /\ latest' = latest + 1
  /\ UNCHANGED <<held, life, streams, requests>>

\* What a reader puts together that reads row i: it read that revision before or, if
\* saves came between the two reads, an older one.
Assembled(i) ==
  {[revision |-> r, row |-> History[i]] : r \in IF TornReads THEN 0 .. i ELSE {i}}

\* Row i was the current one at some time.
AssembledByNow == UNION {Assembled(i) : i \in 1 .. latest}

Live(c) == conn[c].pc # "off" /\ ~conn[c].cancelled

\* writeFrame: with deltas, a snapshot newer than the last one sent goes out as the
\* difference to it.
FrameFor(c, snap) ==
  IF conn[c].deltas /\ conn[c].sent.revision \in 1 .. snap.revision - 1
  THEN [type |-> "delta", delta |-> ComputeDelta(conn[c].sent, snap)]
  ELSE [type |-> "snapshot", snap |-> snap]

\* A stream sends only what is newer than a revision it was asked to start from.
Send(c) ==
  /\ Live(c)
  /\ Len(conn[c].wire) < MaxWire
  /\ \/ \E snap \in AssembledByNow :
          /\ snap.revision > 0
          /\ conn' = [conn EXCEPT ![c].wire = Append(@, FrameFor(c, snap)),
                                  ![c].sent = IF conn[c].deltas THEN snap ELSE @]
     \/ /\ "frame" \in Faults
        /\ conn' = [conn EXCEPT ![c].wire = Append(@, [type |-> "malformed"])]
  /\ UNCHANGED <<latest, held, life, cancelStream, turn, requests>>

\* GET /v1/snapshot; the empty snapshot stands for a 404, no row yet.
Answer ==
  /\ asked > 0
  /\ asked' = asked - 1
  /\ \E snap \in IF latest = 0 THEN {EMPTY_SNAPSHOT} ELSE Assembled(latest) :
       answers' = answers \cup {snap}
  /\ UNCHANGED <<latest, held, life, streams>>

-----------------------------------------------------------------------------
(* Closing, connecting and reconnecting.                                   *)

\* close() aborts the connection whose cancel function is kept, if any.
Aborted == IF closed \/ cancelStream = None THEN conn
           ELSE [conn EXCEPT ![cancelStream].cancelled = TRUE]

\* Mutant of Close: the reconnect timeout is left pending.
CloseButTimer ==
  /\ closed' = TRUE
  /\ pollTimer' = FALSE
  /\ UNCHANGED timers

\* The rest of close(): clear both timers.  A second call returns at once.
Close ==
  /\ closed' = TRUE
  /\ pollTimer' = FALSE
  /\ timers' = IF ~closed /\ timers > 0 THEN timers - 1 ELSE timers

\* The application calls close() on its own, not from a listener.
ApplicationCloses ==
  /\ turn = None
  /\ ~closed
  /\ Close
  /\ conn' = Aborted
  /\ UNCHANGED <<latest, held, cancelStream, turn, requests>>

\* connectStream calls openStream, which awaits fetch.
ConnectStream(deltas) ==
  IF closed
  THEN UNCHANGED <<conn, cancelStream>>
  ELSE \E c \in Connections :
         /\ conn[c].pc = "off"
         /\ conn' = [conn EXCEPT ![c] = [Off EXCEPT !.pc = "fetch", !.deltas = deltas]]
         /\ cancelStream' = c

ScheduleReconnect == timers' = IF closed THEN timers ELSE timers + 1

ReconnectTimerFires(deltas) ==
  /\ turn = None
  /\ timers > 0
  /\ timers' = timers - 1
  /\ ConnectStream(deltas)
  /\ UNCHANGED <<latest, held, closed, pollTimer, turn, requests>>

-----------------------------------------------------------------------------
(* Swapping snapshots in.                                                  *)

\* Mutant of Newer: the gate lets any revision through.
Anything(snap) == TRUE

\* applySnapshot's gate.
Newer(snap) == snap.revision > current.revision

\* applySnapshot: swap, then call the listeners, which do something only if it swapped.
Apply(snap, outcome) ==
  /\ current' = IF Newer(snap) THEN snap ELSE current
  /\ outcome # "return" => Newer(snap)

\* Mutant of CanApplyDelta: any delta to a newer revision is applied.
DeltaIsNewer(d) == d.revision > current.revision

CanApplyDelta(d) == d.from = current.revision

-----------------------------------------------------------------------------
(* A connection.                                                           *)

\* fetch resolved with a 2xx; `if (cancelled) return` comes first.
Respond(c) ==
  /\ turn = None
  /\ conn[c].pc = "fetch"
  /\ Live(c)
  /\ conn' = [conn EXCEPT ![c].pc = "read"]
  /\ UNCHANGED <<latest, held, life, cancelStream, turn, requests>>

\* Requests in flight, and those that frames already read may still cause.
Reserved == asked + MapThenSumSet(LAMBDA c : Len(conn[c].buffer), Connections)

\* The read resolves with a chunk of frames.  The code after the await runs later.
ReadChunk(c) ==
  /\ conn[c].pc = "read"
  /\ Live(c)
  /\ \E n \in 1 .. Len(conn[c].wire) :
       /\ Reserved + n <= MaxAsked
       /\ conn' = [conn EXCEPT ![c].pc = "chunk",
                               ![c].buffer = SubSeq(conn[c].wire, 1, n),
                               ![c].wire = SubSeq(@, n + 1, Len(@))]
  /\ UNCHANGED <<latest, held, life, cancelStream, turn, requests>>

\* The first frame of the buffer was handled: take the next, or test `cancelled` and
\* read again.
NextFrame(conns, c) ==
  LET rest == Tail(conns[c].buffer) IN
  [conns EXCEPT ![c] =
     IF rest # <<>> THEN [@ EXCEPT !.buffer = rest]
     ELSE IF @.cancelled THEN Off
     ELSE [@ EXCEPT !.pc = "read", !.buffer = <<>>]]

\* The turn ends with the last frame of the buffer.
EndTurn(c) == turn' = IF Len(conn[c].buffer) = 1 THEN None ELSE c

\* Mutant of Fail: a malformed frame is reported, and the connection goes on reading.
FailAndReadOn(c) ==
  IF conn[c].buffer = <<>>
  THEN /\ conn' = [conn EXCEPT ![c] = Off]
       /\ turn' = None
       /\ IF conn[c].cancelled THEN UNCHANGED timers ELSE ScheduleReconnect
  ELSE conn' = NextFrame(conn, c) /\ EndTurn(c) /\ ScheduleReconnect

\* The catch block, and the end of the read loop: unless cancelled, abort, and call
\* onError, which schedules the reconnect.
Fail(c) ==
  /\ conn' = [conn EXCEPT ![c] = Off]
  /\ turn' = None
  /\ IF conn[c].cancelled THEN UNCHANGED timers ELSE ScheduleReconnect

\* What follows applySnapshot in the turn of connection c.
AfterListeners(c, outcome) ==
  CASE outcome = "return" -> conn' = NextFrame(conn, c) /\ EndTurn(c)
                             /\ UNCHANGED life
    [] outcome = "throw"  -> Fail(c) /\ UNCHANGED <<closed, pollTimer>>
    [] outcome = "close"  -> Close /\ conn' = NextFrame(Aborted, c) /\ EndTurn(c)

InTurn(c) == conn[c].pc = "chunk" /\ turn \in {None, c}

Frame(c) == Head(conn[c].buffer)

HandleSnapshot(c, outcome) ==
  /\ InTurn(c)
  /\ Frame(c).type = "snapshot"
  /\ Apply(Frame(c).snap, outcome)
  /\ AfterListeners(c, outcome)
  /\ UNCHANGED <<latest, ready, cancelStream, requests>>

\* applyDeltaFrame on the revision the delta starts from.
HandleDelta(c, outcome) ==
  /\ InTurn(c)
  /\ Frame(c).type = "delta"
  /\ CanApplyDelta(Frame(c).delta)
  /\ Apply(ApplyUnchecked(current, Frame(c).delta), outcome)
  /\ AfterListeners(c, outcome)
  /\ UNCHANGED <<latest, ready, cancelStream, requests>>

\* applyDeltaFrame on another revision: refetch a full snapshot.
HandleUnchained(c) ==
  /\ InTurn(c)
  /\ Frame(c).type = "delta"
  /\ ~CanApplyDelta(Frame(c).delta)
  /\ asked' = asked + 1
  /\ AfterListeners(c, "return")
  /\ UNCHANGED <<latest, held, cancelStream, answers>>

\* JSON.parse throws: the rest of the chunk is dropped with the connection.
HandleMalformed(c) ==
  /\ InTurn(c)
  /\ Frame(c).type = "malformed"
  /\ Fail(c)
  /\ UNCHANGED <<latest, held, closed, pollTimer, cancelStream, requests>>

\* fetch fails or is refused, the read fails, or the server ends the stream.
StreamEnds(c) ==
  /\ "stream" \in Faults
  /\ turn = None
  /\ conn[c].pc \in {"fetch", "read"}
  /\ Live(c)
  /\ Fail(c)
  /\ UNCHANGED <<latest, held, closed, pollTimer, cancelStream, requests>>

\* An aborted fetch or read rejects, or reads the end: nothing is reported.
CancelledEnds(c) ==
  /\ turn = None
  /\ conn[c].pc \in {"fetch", "read"}
  /\ conn[c].cancelled
  /\ Fail(c)
  /\ UNCHANGED <<latest, held, closed, pollTimer, cancelStream, requests>>

-----------------------------------------------------------------------------
(* Snapshot requests.                                                      *)

\* The interval ticks whether or not the last request was answered.
PollTick ==
  /\ turn = None
  /\ pollTimer
  /\ Reserved < MaxAsked
  /\ asked' = asked + 1
  /\ UNCHANGED <<latest, held, life, streams, answers>>

\* Mutant of HandleAnswer: an answer that comes after close() is applied.
HandleAnswerAnyway(snap, outcome) ==
  /\ turn = None
  /\ snap \in answers \ {EMPTY_SNAPSHOT}
  /\ answers' = answers \ {snap}
  /\ Apply(snap, outcome)
  /\ IF outcome = "close" THEN Close /\ conn' = Aborted ELSE UNCHANGED <<life, conn>>
  /\ UNCHANGED <<latest, ready, cancelStream, turn, asked>>

\* The continuation of a poll or resync: an answer that comes after close(), and a 404,
\* change nothing; what a listener throws is caught.  The same answer twice
\* is one element of answers: applying the second would change nothing.
HandleAnswer(snap, outcome) ==
  /\ turn = None
  /\ snap \in answers
  /\ answers' = answers \ {snap}
  /\ IF closed \/ snap = EMPTY_SNAPSHOT
     THEN /\ outcome = "return"
          /\ UNCHANGED <<current, life, conn>>
     ELSE /\ Apply(snap, outcome)
          /\ IF outcome = "close" THEN Close /\ conn' = Aborted ELSE UNCHANGED <<life, conn>>
  /\ UNCHANGED <<latest, ready, cancelStream, turn, asked>>

RequestFails ==
  /\ asked > 0
  /\ asked' = asked - 1
  /\ UNCHANGED <<latest, held, life, streams, answers>>

\* The initial load settles: stored without a gate, a failure and a 404 as the empty
\* snapshot; no listener is called.
Load(snap, deltas) ==
  /\ ~ready
  /\ current' = snap
  /\ ready' = TRUE
  /\ ConnectStream(deltas)
  /\ pollTimer' = ~closed
  /\ UNCHANGED <<latest, closed, timers, turn, requests>>

-----------------------------------------------------------------------------
FrameStep(c) ==
  \/ \E o \in Outcomes : HandleSnapshot(c, o) \/ HandleDelta(c, o)
  \/ HandleUnchained(c) \/ HandleMalformed(c)

ConnectionStep(c) == Send(c) \/ Respond(c) \/ ReadChunk(c) \/ FrameStep(c)
                     \/ StreamEnds(c) \/ CancelledEnds(c)

LoadStep == \E snap \in AssembledByNow \cup {EMPTY_SNAPSHOT}, deltas \in Modes : Load(snap, deltas)

AnswerStep == \E snap \in answers, o \in Outcomes : HandleAnswer(snap, o)

Next ==
  \/ Write \/ Answer \/ RequestFails
  \/ \E c \in Connections : ConnectionStep(c)
  \/ \E deltas \in Modes : ReconnectTimerFires(deltas)
  \/ PollTick \/ AnswerStep \/ LoadStep
  \/ ApplicationCloses

Spec == Init /\ [][Next]_vars

-----------------------------------------------------------------------------
(* What makes the client correct.                                          *)

\* If no save comes between the two reads of a reader of the server (run delivery_torn
\* shows what can happen otherwise), what get and getAll read is exactly the row of the
\* revision held, whatever full frames, deltas, resyncs and polls brought it, in whatever
\* order they came.
HoldsTheRowOfItsRevision == ~TornReads => current = At(current.revision)

\* Once the initial load has settled the revision never goes back.
NeverGoesBack ==
  [][ready /\ current' # current => current'.revision > current.revision]_vars

\* "One onError, one scheduled reconnect" (stream.ts): between two turns, a client that is
\* running has either one connection under way or one reconnect pending, never both,
\* never two and never none.
OneConnectionOrReconnect ==
  ready /\ ~closed /\ turn = None =>
    Cardinality({c \in Connections : conn[c].pc # "off"}) + timers = 1

\* close() leaves nothing behind: no timer, and no connection that was not aborted,
\* wherever the client was when it was called.
ClosedLeavesNothingRunning ==
  closed => timers = 0 /\ ~pollTimer /\ \A c \in Connections : ~Live(c)

\* After close() only frames that were read before it can still be swapped in; and the
\* initial load, if it settles only then, which calls no listener.
ClosedSwapsOnlyWhatWasRead ==
  [][closed /\ ready /\ current' # current =>
       \E c \in Connections : conn[c].cancelled /\ conn[c].buffer # <<>>]_vars

\* stream.ts: after cancel, no further onSnapshot and onDelta calls are made; the test
\* "close() stops applying streamed updates".  Nothing is swapped in after close().
NothingSwappedAfterClose == [][closed /\ ready => current' = current]_vars
=============================================================================
