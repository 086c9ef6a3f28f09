---------------------------- MODULE TsSdkProofs ----------------------------
(***************************************************************************)
(* Proofs about TsSdk, for any history of rows, any server that answers    *)
(* and sends as TsSdk's does, any listeners and any number of frames and   *)
(* requests under way: the row read is the row of the revision held,       *)
(* one connection or one reconnect, and what close() leaves.               *)
(***************************************************************************)
EXTENDS TsSdk, DeltaProofs, FiniteSetTheorems

USE TsSdkAssumption

\* What a reader of the server may ever put together, or a 404.
Readings == {EMPTY_SNAPSHOT} \cup UNION {Assembled(i) : i \in 1 .. Len(History)}

WireFrames ==
  [type : {"snapshot"}, snap : Readings]
    \cup {[type |-> "delta", delta |-> ComputeDelta(p[1], p[2])] : p \in Readings \X Readings}
    \cup {[type |-> "malformed"]}

Streams == [pc : {"off", "fetch", "read", "chunk"}, deltas : BOOLEAN, cancelled : BOOLEAN,
            sent : Readings, wire : Seq(WireFrames), buffer : Seq(WireFrames)]

TypeInv ==
  /\ latest \in 0 .. Len(History)
  /\ ready \in BOOLEAN /\ closed \in BOOLEAN /\ pollTimer \in BOOLEAN
  /\ conn \in [Connections -> Streams]
  /\ \A c \in Connections : conn[c].pc = "chunk" => conn[c].buffer # <<>>
  /\ cancelStream \in Connections \cup {None}
  /\ timers \in Nat
  /\ answers \subseteq Readings

-----------------------------------------------------------------------------
(* Types.                                                                  *)

LEMMA FirstAndRest ==
  ASSUME NEW S, NEW s \in Seq(S), s # <<>>
  PROVE  Head(s) \in S /\ Tail(s) \in Seq(S)
  OBVIOUS

LEMMA FirstAndLater ==
  ASSUME NEW S, NEW s \in Seq(S), NEW n \in 1 .. Len(s)
  PROVE  /\ SubSeq(s, 1, n) \in Seq(S) /\ SubSeq(s, 1, n) # <<>>
         /\ SubSeq(s, n + 1, Len(s)) \in Seq(S)
<1>1. SubSeq(s, 1, n) \in Seq(S) /\ Len(SubSeq(s, 1, n)) = n
  OBVIOUS
<1>2. SubSeq(s, n + 1, Len(s)) \in Seq(S)
  OBVIOUS
<1> QED BY <1>1, <1>2

LEMMA OffTyped ==
  /\ <<>> \in Seq(WireFrames)
  /\ Off \in Streams /\ Off.pc = "off" /\ Off.cancelled = FALSE /\ Off.buffer = <<>>
  /\ EMPTY_SNAPSHOT \in Readings /\ 0 \in 0 .. Len(History)
<1>1. EMPTY_SNAPSHOT \in Readings /\ 0 \in 0 .. Len(History)
  <2>1. Len(History) \in Nat
    OBVIOUS
  <2> QED BY <2>1 DEF Readings
<1>2. <<>> \in Seq(WireFrames)
  OBVIOUS
<1> QED BY <1>1, <1>2 DEF Off, Streams

\* The updates of a connection that the actions make.
LEMMA StreamUpdates ==
  ASSUME NEW s \in Streams, NEW p \in {"off", "fetch", "read", "chunk"},
         NEW w \in Seq(WireFrames), NEW b \in Seq(WireFrames), NEW r \in Readings, NEW d \in BOOLEAN
  PROVE  /\ [s EXCEPT !.pc = p] \in Streams
         /\ [s EXCEPT !.buffer = b] \in Streams
         /\ [s EXCEPT !.pc = p, !.buffer = b] \in Streams
         /\ [s EXCEPT !.pc = p, !.buffer = b, !.wire = w] \in Streams
         /\ [s EXCEPT !.wire = w] \in Streams
         /\ [s EXCEPT !.wire = w, !.sent = r] \in Streams
         /\ [s EXCEPT !.cancelled = d] \in Streams
         /\ [s EXCEPT !.pc = p, !.deltas = d] \in Streams
<1>1. s = [pc |-> s.pc, deltas |-> s.deltas, cancelled |-> s.cancelled, sent |-> s.sent,
           wire |-> s.wire, buffer |-> s.buffer]
  BY DEF Streams
<1>2. /\ s.pc \in {"off", "fetch", "read", "chunk"} /\ s.deltas \in BOOLEAN
      /\ s.cancelled \in BOOLEAN /\ s.sent \in Readings
      /\ s.wire \in Seq(WireFrames) /\ s.buffer \in Seq(WireFrames)
  BY DEF Streams
<1>3. [s EXCEPT !.pc = p] \in Streams
  BY <1>1, <1>2 DEF Streams
<1>4. [s EXCEPT !.buffer = b] \in Streams
  BY <1>1, <1>2 DEF Streams
<1>5. [s EXCEPT !.pc = p, !.buffer = b] \in Streams
  BY <1>1, <1>2 DEF Streams
<1>6. [s EXCEPT !.pc = p, !.buffer = b, !.wire = w] \in Streams
  BY <1>1, <1>2 DEF Streams
<1>7. [s EXCEPT !.wire = w] \in Streams
  BY <1>1, <1>2 DEF Streams
<1>8. [s EXCEPT !.wire = w, !.sent = r] \in Streams
  BY <1>1, <1>2 DEF Streams
<1>9. [s EXCEPT !.cancelled = d] \in Streams
  BY <1>1, <1>2 DEF Streams
<1>10. [s EXCEPT !.pc = p, !.deltas = d] \in Streams
  BY <1>1, <1>2 DEF Streams
<1> QED BY <1>3, <1>4, <1>5, <1>6, <1>7, <1>8, <1>9, <1>10

\* What may stand for the connections: conn itself, or conn after close().
Conns(conns) ==
  /\ conns \in [Connections -> Streams]
  /\ \A c \in Connections : conns[c].pc = "chunk" => conns[c].buffer # <<>>

\* Taking the next frame: only the connection is changed, and it goes on unless it
\* was cancelled.
LEMMA NextFrameIs ==
  ASSUME NEW conns, Conns(conns), NEW c \in Connections, conns[c].pc = "chunk"
  PROVE  LET after == NextFrame(conns, c) IN
         /\ Conns(after)
         /\ \A d \in Connections \ {c} : after[d] = conns[d]
         /\ ~conns[c].cancelled => after[c].pc # "off" /\ ~after[c].cancelled
         /\ conns[c].cancelled => after[c].pc = "off" \/ after[c].cancelled
<1> DEFINE rest == Tail(conns[c].buffer)
           after == NextFrame(conns, c)
<1>1. conns[c] \in Streams /\ rest \in Seq(WireFrames)
  BY FirstAndRest DEF Conns, Streams
<1>2. CASE rest # <<>>
  <2>1. after = [conns EXCEPT ![c] = [conns[c] EXCEPT !.buffer = rest]]
    BY <1>2 DEF NextFrame
  <2>2. [conns[c] EXCEPT !.buffer = rest] \in Streams
    BY <1>1 DEF Streams
  <2> QED BY <1>1, <1>2, <2>1, <2>2 DEF Conns, Streams
<1>3. CASE rest = <<>> /\ conns[c].cancelled
  <2>1. after = [conns EXCEPT ![c] = Off]
    BY <1>3 DEF NextFrame, Conns
  <2>2. Off \in Streams /\ Off.pc = "off"
    BY OffTyped
  <2> QED BY <1>1, <1>3, <2>1, <2>2 DEF Conns
<1>4. CASE rest = <<>> /\ ~conns[c].cancelled
  <2>1. after = [conns EXCEPT ![c] = [conns[c] EXCEPT !.pc = "read", !.buffer = <<>>]]
    BY <1>4 DEF NextFrame, Conns
  <2>2. [conns[c] EXCEPT !.pc = "read", !.buffer = <<>>] \in Streams
    BY <1>1, StreamUpdates, OffTyped
  <2> QED BY <1>1, <1>4, <2>1, <2>2 DEF Conns, Streams
<1> QED BY <1>2, <1>3, <1>4

LEMMA AbortedIs ==
  ASSUME TypeInv
  PROVE  /\ Conns(Aborted)
         /\ \A c \in Connections : Aborted[c].pc = conn[c].pc /\ Aborted[c].buffer = conn[c].buffer
         /\ closed => Aborted = conn
         /\ ~closed => \A c \in Connections : Aborted[c].cancelled <=> conn[c].cancelled \/ c = cancelStream
<1>1. CASE closed \/ cancelStream = None
  BY <1>1 DEF Aborted, TypeInv, Conns
<1>2. CASE ~closed /\ cancelStream \in Connections
  <2>1. Aborted = [conn EXCEPT ![cancelStream] = [conn[cancelStream] EXCEPT !.cancelled = TRUE]]
    BY <1>2 DEF Aborted
  <2>2. [conn[cancelStream] EXCEPT !.cancelled = TRUE] \in Streams
    BY <1>2, StreamUpdates, OffTyped DEF TypeInv
  <2>3. conn \in [Connections -> Streams]
    BY DEF TypeInv
  <2>4. \A c \in Connections \ {cancelStream} : Aborted[c] = conn[c]
    BY <1>2, <2>1, <2>3
  <2>5. Aborted[cancelStream] = [conn[cancelStream] EXCEPT !.cancelled = TRUE]
    BY <1>2, <2>1, <2>3
  <2>6. /\ Aborted[cancelStream].pc = conn[cancelStream].pc
        /\ Aborted[cancelStream].buffer = conn[cancelStream].buffer
        /\ Aborted[cancelStream].cancelled
    BY <1>2, <2>3, <2>5 DEF Streams
  <2> QED BY <1>2, <2>1, <2>2, <2>3, <2>4, <2>6 DEF Conns, TypeInv
<1> QED BY <1>1, <1>2 DEF TypeInv

-----------------------------------------------------------------------------
(* What a step does to the life of the client.                             *)

Running(c) == conn[c].pc # "off"

\* The connections go on, except that a cancelled one may end.
Kept ==
  /\ UNCHANGED <<life, ready, cancelStream>>
  /\ \A c \in Connections :
       /\ Running(c)' => Running(c)
       /\ ~conn[c].cancelled => (Running(c) => Running(c)') /\ ~conn'[c].cancelled
       /\ conn[c].cancelled => ~Running(c)' \/ conn'[c].cancelled

\* A connection ends, and a reconnect is scheduled unless the client closed it.
Breaks(c) ==
  /\ UNCHANGED <<closed, pollTimer, ready, cancelStream>>
  /\ Running(c) /\ conn' = [conn EXCEPT ![c] = Off]
  /\ timers' = IF conn[c].cancelled \/ closed THEN timers ELSE timers + 1

\* The client is closed.
Shuts ==
  /\ UNCHANGED <<ready, cancelStream>>
  /\ closed' = TRUE /\ pollTimer' = FALSE
  /\ timers' = IF ~closed /\ timers > 0 THEN timers - 1 ELSE timers
  /\ \A c \in Connections :
       /\ Running(c)' => Running(c)
       /\ conn[c].cancelled \/ (~closed /\ c = cancelStream) => ~Running(c)' \/ conn'[c].cancelled

\* A connection is opened, or not, by the initial load or by a reconnect.
Connects ==
  /\ UNCHANGED closed
  /\ \/ ~ready /\ ready' /\ timers' = timers /\ pollTimer' = ~closed
     \/ UNCHANGED <<ready, pollTimer>> /\ timers > 0 /\ timers' = timers - 1
  /\ \E deltas \in BOOLEAN : ConnectStream(deltas)

LifeStep == Kept \/ (\E c \in Connections : Breaks(c)) \/ Shuts \/ Connects

LEMMA FailIs ==
  ASSUME TypeInv, NEW c \in Connections, Running(c), Fail(c),
         UNCHANGED <<closed, pollTimer, ready, cancelStream>>
  PROVE  Conns(conn') /\ timers' \in Nat /\ Breaks(c)
<1>1. conn' = [conn EXCEPT ![c] = Off]
  BY DEF Fail
<1>2. Conns(conn')
  BY <1>1, OffTyped DEF Conns, TypeInv
<1>3. timers' = IF conn[c].cancelled \/ closed THEN timers ELSE timers + 1
  <2>1. CASE conn[c].cancelled
    BY <2>1 DEF Fail
  <2>2. CASE ~conn[c].cancelled
    BY <2>2 DEF Fail, ScheduleReconnect
  <2> QED BY <2>1, <2>2
<1>4. timers' \in Nat
  BY <1>3 DEF TypeInv
<1> QED BY <1>1, <1>2, <1>3, <1>4 DEF Breaks

LEMMA CloseIs ==
  ASSUME TypeInv, Close
  PROVE  /\ closed' = TRUE /\ pollTimer' = FALSE /\ timers' \in Nat
         /\ timers' = IF ~closed /\ timers > 0 THEN timers - 1 ELSE timers
  BY DEF Close, TypeInv

\* What the listeners do, and the rest of the turn.
LEMMA AfterListenersIs ==
  ASSUME TypeInv, NEW c \in Connections, InTurn(c), NEW o \in {"return", "throw", "close"},
         AfterListeners(c, o), UNCHANGED <<ready, cancelStream>>
  PROVE  /\ Conns(conn') /\ timers' \in Nat /\ closed' \in BOOLEAN /\ pollTimer' \in BOOLEAN
         /\ Kept \/ Breaks(c) \/ Shuts
<1>0. conn[c].pc = "chunk" /\ Conns(conn) /\ Running(c)
  BY DEF InTurn, TypeInv, Conns, Running
<1>1. CASE o = "return"
  <2>1. conn' = NextFrame(conn, c) /\ UNCHANGED life
    BY <1>1 DEF AfterListeners
  <2>2. Kept
    BY <1>0, <2>1, NextFrameIs DEF Kept, Running
  <2> QED BY <1>0, <2>1, <2>2, NextFrameIs DEF TypeInv, life
<1>2. CASE o = "throw"
  <2>1. Fail(c) /\ UNCHANGED <<closed, pollTimer>>
    BY <1>2 DEF AfterListeners
  <2> QED BY <1>0, <2>1, FailIs DEF TypeInv
<1>3. CASE o = "close"
  <2>1. Close /\ conn' = NextFrame(Aborted, c)
    BY <1>3 DEF AfterListeners
  <2>2. Conns(Aborted) /\ Aborted[c].pc = "chunk"
    BY <1>0, AbortedIs
  <2>3. ASSUME NEW d \in Connections
        PROVE  /\ Running(d)' => Running(d)
               /\ conn[d].cancelled \/ (~closed /\ d = cancelStream) => ~Running(d)' \/ conn'[d].cancelled
    <3>1. Aborted[d].pc = conn[d].pc
      BY AbortedIs
    <3>2. conn[d].cancelled \/ (~closed /\ d = cancelStream) => Aborted[d].cancelled
      BY AbortedIs
    <3>3. CASE d = c
      BY <1>0, <2>1, <2>2, <3>2, <3>3, NextFrameIs DEF Running
    <3>4. CASE d # c
      BY <2>1, <2>2, <3>1, <3>2, <3>4, NextFrameIs DEF Running
    <3> QED BY <3>3, <3>4
  <2>4. Shuts
    BY <2>1, <2>3, CloseIs DEF Shuts
  <2> QED BY <2>1, <2>2, <2>4, NextFrameIs, CloseIs
<1> QED BY <1>1, <1>2, <1>3

\* Opening a connection.
LEMMA ConnectStreamIs ==
  ASSUME TypeInv, NEW deltas \in BOOLEAN, ConnectStream(deltas)
  PROVE  Conns(conn') /\ cancelStream' \in Connections \cup {None}
<1>1. CASE closed
  BY <1>1 DEF ConnectStream, TypeInv, Conns
<1>2. CASE ~closed
  <2>1. PICK c \in Connections :
          /\ conn' = [conn EXCEPT ![c] = [Off EXCEPT !.pc = "fetch", !.deltas = deltas]]
          /\ cancelStream' = c
    BY <1>2 DEF ConnectStream
  <2>2. [Off EXCEPT !.pc = "fetch", !.deltas = deltas] \in Streams
    BY OffTyped, StreamUpdates
  <2>3. [Off EXCEPT !.pc = "fetch", !.deltas = deltas].pc # "chunk"
    BY DEF Off
  <2> QED BY <2>1, <2>2, <2>3 DEF TypeInv, Conns
<1> QED BY <1>1, <1>2

\* A step that changes nothing but one connection, which stays on.
LEMMA OneStream ==
  ASSUME TypeInv, NEW c \in Connections, NEW s \in Streams, conn' = [conn EXCEPT ![c] = s],
         s.pc = "chunk" => s.buffer # <<>>, s.pc # "off" <=> Running(c),
         ~conn[c].cancelled, ~s.cancelled,
         UNCHANGED <<latest, ready, life, cancelStream, answers>>
  PROVE  TypeInv' /\ Kept
<1>1. conn'[c] = s /\ \A d \in Connections \ {c} : conn'[d] = conn[d]
  BY DEF TypeInv
<1>2. TypeInv'
  BY <1>1 DEF TypeInv, life
<1>3. Kept
  BY <1>1 DEF Kept, Running
<1> QED BY <1>2, <1>3

LEMMA ReadByNow ==
  ASSUME TypeInv
  PROVE  AssembledByNow \subseteq Readings /\ (latest # 0 => Assembled(latest) \subseteq Readings)
<1>1. Len(History) \in Nat
  OBVIOUS
<1>2. 1 .. latest \subseteq 1 .. Len(History)
  BY <1>1 DEF TypeInv
<1>3. latest # 0 => latest \in 1 .. Len(History)
  BY <1>1 DEF TypeInv
<1> QED BY <1>2, <1>3 DEF AssembledByNow, Readings

LEMMA SendStep ==
  ASSUME TypeInv, NEW c \in Connections, Send(c)
  PROVE  TypeInv' /\ Kept
<1>1. /\ conn[c].pc # "off" /\ ~conn[c].cancelled /\ conn[c] \in Streams
      /\ UNCHANGED <<latest, ready, life, cancelStream, answers>>
  BY DEF Send, Live, TypeInv, held, requests
<1>2. ASSUME NEW f \in WireFrames, NEW r \in Readings,
             conn' = [conn EXCEPT ![c] = [conn[c] EXCEPT !.wire = Append(conn[c].wire, f), !.sent = r]]
      PROVE  TypeInv' /\ Kept
  <2> DEFINE s == [conn[c] EXCEPT !.wire = Append(conn[c].wire, f), !.sent = r]
  <2>1. Append(conn[c].wire, f) \in Seq(WireFrames)
    BY <1>1 DEF Streams
  <2>2. s \in Streams
    BY <1>1, <2>1, OffTyped, StreamUpdates
  <2>3. s.pc = conn[c].pc /\ s.buffer = conn[c].buffer /\ s.cancelled = conn[c].cancelled
    BY <1>1 DEF Streams
  <2> HIDE DEF s
  <2>4. conn' = [conn EXCEPT ![c] = s]
    BY <1>2 DEF s
  <2> QED BY <1>1, <2>2, <2>3, <2>4, OneStream DEF TypeInv, Running
<1>3. ASSUME NEW snap \in AssembledByNow,
             conn' = [conn EXCEPT ![c].wire = Append(@, FrameFor(c, snap)),
                                  ![c].sent = IF conn[c].deltas THEN snap ELSE @]
      PROVE  TypeInv' /\ Kept
  <2> DEFINE r == IF conn[c].deltas THEN snap ELSE conn[c].sent
  <2>1. snap \in Readings /\ conn[c].sent \in Readings /\ r \in Readings
    BY <1>1, ReadByNow DEF Streams
  <2>2. FrameFor(c, snap) \in WireFrames
    <3>1. CASE FrameFor(c, snap) = [type |-> "snapshot", snap |-> snap]
      BY <2>1, <3>1 DEF WireFrames
    <3>2. CASE FrameFor(c, snap) = [type |-> "delta", delta |-> ComputeDelta(conn[c].sent, snap)]
      <4>1. <<conn[c].sent, snap>> \in Readings \X Readings
        BY <2>1
      <4> QED BY <3>2, <4>1 DEF WireFrames
    <3> QED BY <3>1, <3>2 DEF FrameFor
  <2>3. conn' = [conn EXCEPT ![c] = [conn[c] EXCEPT !.wire = Append(conn[c].wire, FrameFor(c, snap)),
                                                    !.sent = r]]
    BY <1>1, <1>3 DEF TypeInv, Streams
  <2> HIDE DEF r
  <2> QED BY <1>2, <2>1, <2>2, <2>3
<1>4. ASSUME conn' = [conn EXCEPT ![c].wire = Append(@, [type |-> "malformed"])]
      PROVE  TypeInv' /\ Kept
  <2> DEFINE f == [type |-> "malformed"]
  <2>1. f \in WireFrames
    BY DEF WireFrames
  <2>2. conn[c].sent \in Readings
    BY <1>1 DEF Streams
  <2>3. [conn[c] EXCEPT !.wire = Append(conn[c].wire, f)]
          = [conn[c] EXCEPT !.wire = Append(conn[c].wire, f), !.sent = conn[c].sent]
    BY <1>1 DEF Streams
  <2>4. conn' = [conn EXCEPT ![c] = [conn[c] EXCEPT !.wire = Append(conn[c].wire, f)]]
    BY <1>4
  <2> QED BY <1>2, <2>1, <2>2, <2>3, <2>4
<1> QED BY <1>3, <1>4 DEF Send

LEMMA RespondReadStep ==
  ASSUME TypeInv, NEW c \in Connections, Respond(c) \/ ReadChunk(c)
  PROVE  TypeInv' /\ Kept
<1>1. /\ conn[c].pc \in {"fetch", "read"} /\ ~conn[c].cancelled /\ conn[c] \in Streams
      /\ UNCHANGED <<latest, ready, life, cancelStream, answers>>
  BY DEF Respond, ReadChunk, Live, TypeInv, held, requests
<1>2. CASE Respond(c)
  <2> DEFINE s == [conn[c] EXCEPT !.pc = "read"]
  <2>1. s \in Streams
    BY <1>1, OffTyped, StreamUpdates
  <2>2. s.pc = "read" /\ s.cancelled = conn[c].cancelled
    BY <1>1 DEF Streams
  <2>3. conn' = [conn EXCEPT ![c] = s]
    BY <1>2 DEF Respond
  <2> HIDE DEF s
  <2> QED BY <1>1, <2>1, <2>2, <2>3, OneStream DEF Running
<1>3. CASE ReadChunk(c)
  <2>1. PICK n \in 1 .. Len(conn[c].wire) :
          conn' = [conn EXCEPT ![c].pc = "chunk",
                               ![c].buffer = SubSeq(conn[c].wire, 1, n),
                               ![c].wire = SubSeq(@, n + 1, Len(@))]
    BY <1>3 DEF ReadChunk
  <2> DEFINE w == conn[c].wire
             b == SubSeq(w, 1, n)
             l == SubSeq(w, n + 1, Len(w))
             s == [conn[c] EXCEPT !.pc = "chunk", !.buffer = b, !.wire = l]
  <2>2. b \in Seq(WireFrames) /\ b # <<>> /\ l \in Seq(WireFrames)
    BY <1>1, <2>1, FirstAndLater DEF Streams
  <2>3. conn' = [conn EXCEPT ![c] = s]
    BY <2>1 DEF TypeInv
  <2>4. s \in Streams
    <3> HIDE DEF b, l
    <3> QED BY <1>1, <2>2, OffTyped, StreamUpdates
  <2>5. s.pc = "chunk" /\ s.buffer = b /\ s.cancelled = conn[c].cancelled
    BY <1>1 DEF Streams
  <2> HIDE DEF s, b
  <2> QED BY <1>1, <2>2, <2>3, <2>4, <2>5, OneStream DEF Running
<1> QED BY <1>2, <1>3

LEMMA LifeStepIs ==
  ASSUME TypeInv, [Next]_vars
  PROVE  TypeInv' /\ LifeStep
<1>0. Conns(conn)
  BY DEF TypeInv, Conns
<1>1. ASSUME UNCHANGED <<ready, life, streams>>, latest' \in 0 .. Len(History), answers' \subseteq Readings
      PROVE  TypeInv' /\ LifeStep
  BY <1>1 DEF TypeInv, LifeStep, Kept, Running, life, streams
<1>2. CASE Write \/ Answer \/ RequestFails \/ PollTick \/ UNCHANGED vars
  <2>1. UNCHANGED <<ready, life, streams>>
    BY <1>2 DEF Write, Answer, RequestFails, PollTick, vars, held
  <2>2. latest' \in 0 .. Len(History)
    <3>1. Len(History) \in Nat
      OBVIOUS
    <3> QED BY <1>2, <3>1 DEF Write, Answer, RequestFails, PollTick, vars, TypeInv
  <2>3. answers' \subseteq Readings
    <3>1. CASE Answer
      <4>1. PICK snap \in IF latest = 0 THEN {EMPTY_SNAPSHOT} ELSE Assembled(latest) :
                   answers' = answers \cup {snap}
        BY <3>1 DEF Answer
      <4> QED BY <4>1, OffTyped, ReadByNow DEF TypeInv
    <3> QED BY <1>2, <3>1 DEF Write, RequestFails, PollTick, vars, TypeInv, requests
  <2> QED BY <1>1, <2>1, <2>2, <2>3
<1>3. ASSUME NEW c \in Connections, FrameStep(c)
      PROVE  TypeInv' /\ LifeStep
  <2>1. /\ InTurn(c) /\ UNCHANGED <<latest, ready, cancelStream, answers>>
    BY <1>3 DEF FrameStep, HandleSnapshot, HandleDelta, HandleUnchained, HandleMalformed,
                requests, held
  <2>2. CASE HandleMalformed(c)
    <3>1. Running(c) /\ Fail(c) /\ UNCHANGED <<closed, pollTimer>>
      BY <2>1, <2>2 DEF HandleMalformed, InTurn, Running
    <3> QED BY <2>1, <3>1, FailIs DEF TypeInv, Conns, LifeStep
  <2>3. CASE ~HandleMalformed(c)
    <3>1. PICK o \in {"return", "throw", "close"} : AfterListeners(c, o)
      BY <1>3, <2>3 DEF FrameStep, HandleSnapshot, HandleDelta, HandleUnchained
    <3> QED BY <2>1, <3>1, AfterListenersIs DEF TypeInv, Conns, LifeStep
  <2> QED BY <2>2, <2>3
<1>4. ASSUME NEW c \in Connections, StreamEnds(c) \/ CancelledEnds(c)
      PROVE  TypeInv' /\ LifeStep
  <2>1. /\ Running(c) /\ Fail(c)
        /\ UNCHANGED <<latest, ready, closed, pollTimer, cancelStream, answers>>
    BY <1>4 DEF StreamEnds, CancelledEnds, Running, held, requests
  <2> QED BY <2>1, FailIs DEF TypeInv, Conns, LifeStep
<1>5. ASSUME NEW c \in Connections, ConnectionStep(c)
      PROVE  TypeInv' /\ LifeStep
  BY <1>3, <1>4, <1>5, SendStep, RespondReadStep DEF ConnectionStep, LifeStep
<1>6. ASSUME NEW deltas \in BOOLEAN, ConnectStream(deltas),
             UNCHANGED <<latest, answers, closed>>, ready' \in BOOLEAN, timers' \in Nat,
             pollTimer' \in BOOLEAN
      PROVE  TypeInv'
  BY <1>6, ConnectStreamIs DEF TypeInv, Conns
<1>7. ASSUME NEW deltas \in Modes, ReconnectTimerFires(deltas)
      PROVE  TypeInv' /\ LifeStep
  <2>1. deltas \in BOOLEAN /\ ConnectStream(deltas)
    BY <1>7 DEF ReconnectTimerFires
  <2>2. /\ timers > 0 /\ timers' = timers - 1
        /\ UNCHANGED <<latest, answers, closed, ready, pollTimer>>
    BY <1>7 DEF ReconnectTimerFires, held, requests
  <2>3. timers' \in Nat
    BY <2>2 DEF TypeInv
  <2>4. TypeInv'
    BY <1>6, <2>1, <2>2, <2>3 DEF TypeInv
  <2>5. Connects
    BY <2>1, <2>2 DEF Connects
  <2> QED BY <2>4, <2>5 DEF LifeStep
<1>8. ASSUME LoadStep
      PROVE  TypeInv' /\ LifeStep
  <2>1. PICK snap \in AssembledByNow \cup {EMPTY_SNAPSHOT}, deltas \in Modes : Load(snap, deltas)
    BY <1>8 DEF LoadStep
  <2>2. /\ deltas \in BOOLEAN /\ ConnectStream(deltas) /\ ~ready /\ ready' = TRUE
        /\ pollTimer' = ~closed /\ UNCHANGED <<latest, answers, closed, timers>>
    BY <2>1 DEF Load, requests
  <2>3. ready' \in BOOLEAN /\ pollTimer' \in BOOLEAN
    BY <2>2
  <2>4. TypeInv'
    BY <1>6, <2>2, <2>3 DEF TypeInv
  <2>5. Connects
    BY <2>2 DEF Connects
  <2> QED BY <2>4, <2>5 DEF LifeStep
<1>9. ASSUME Close, conn' = Aborted, UNCHANGED <<latest, ready, cancelStream>>,
             answers' \subseteq Readings
      PROVE  TypeInv' /\ LifeStep
  <2>1. TypeInv'
    BY <1>9, AbortedIs, CloseIs DEF TypeInv, Conns
  <2>2. Shuts
    BY <1>9, AbortedIs, CloseIs DEF Shuts, Running
  <2> QED BY <2>1, <2>2 DEF LifeStep
<1>10. ASSUME AnswerStep
       PROVE  TypeInv' /\ LifeStep
  <2>1. PICK snap \in answers, o \in Outcomes : HandleAnswer(snap, o)
    BY <1>10 DEF AnswerStep
  <2>2. /\ UNCHANGED <<latest, ready, cancelStream, turn>> /\ answers' \subseteq Readings
        /\ UNCHANGED <<life, conn>> \/ (Close /\ conn' = Aborted)
    BY <2>1 DEF HandleAnswer, TypeInv
  <2> QED BY <1>1, <1>9, <2>2 DEF TypeInv, streams
<1>11. ASSUME ApplicationCloses
       PROVE  TypeInv' /\ LifeStep
  BY <1>9, <1>11 DEF ApplicationCloses, held, requests, TypeInv
<1> QED BY <1>2, <1>5, <1>7, <1>8, <1>10, <1>11 DEF Next

LEMMA TypeInvInductive == Spec => []TypeInv
<1>1. Init => TypeInv
  <2> SUFFICES ASSUME Init PROVE TypeInv
    OBVIOUS
  <2>1. conn \in [Connections -> Streams] /\ \A c \in Connections : conn[c].pc = "off"
    BY OffTyped DEF Init
  <2> QED BY <2>1, OffTyped DEF Init, TypeInv
<1>2. TypeInv /\ [Next]_vars => TypeInv'
  BY LifeStepIs
<1> QED BY <1>1, <1>2, PTL DEF Spec

-----------------------------------------------------------------------------
(* The row read is the row of the revision held.                           *)

\* Without torn reads the server has one snapshot of a revision.
LEMMA ReadingsAreExact ==
  ASSUME ~TornReads, NEW snap \in Readings
  PROVE  snap \in Snapshots /\ snap = At(snap.revision)
<1>1. Len(History) \in Nat
  OBVIOUS
<1>2. CASE snap = EMPTY_SNAPSHOT
  <2>1. [k \in {} |-> 0] \in [{} -> Data]
    OBVIOUS
  <2>2. [k \in {} |-> 0] \in Maps
    BY <2>1 DEF Maps
  <2> QED BY <1>2, <2>2 DEF At, EMPTY_SNAPSHOT, Snapshots, Rows
<1>3. CASE snap # EMPTY_SNAPSHOT
  <2>1. PICK i \in 1 .. Len(History) : snap \in Assembled(i)
    BY <1>3 DEF Readings
  <2>2. snap = [revision |-> i, row |-> History[i]]
    BY <2>1 DEF Assembled
  <2>3. History[i] \in Rows /\ i \in Nat /\ i # 0
    BY <1>1
  <2> QED BY <2>2, <2>3 DEF At, Snapshots
<1> QED BY <1>2, <1>3

RowInv == ~TornReads => current \in Readings

LEMMA FrameIs ==
  ASSUME TypeInv, NEW c \in Connections, InTurn(c)
  PROVE  /\ Frame(c).type = "snapshot" => Frame(c).snap \in Readings
         /\ Frame(c).type = "delta" =>
              \E old, new \in Readings : Frame(c).delta = ComputeDelta(old, new)
<1>1. conn[c].buffer \in Seq(WireFrames) /\ conn[c].buffer # <<>>
  BY DEF InTurn, TypeInv, Streams
<1>2. Frame(c) \in WireFrames
  BY <1>1, FirstAndRest DEF Frame
<1> QED BY <1>2 DEF WireFrames

LEMMA RowInvStep ==
  ASSUME TypeInv, RowInv, [Next]_vars
  PROVE  RowInv'
<1>1. SUFFICES ASSUME ~TornReads PROVE current' \in Readings
  BY DEF RowInv
<1>2. current \in Readings
  BY <1>1 DEF RowInv
<1>3. ASSUME NEW c \in Connections, NEW o \in Outcomes, HandleSnapshot(c, o)
      PROVE  current' \in Readings
  <2>1. Frame(c).snap \in Readings
    BY <1>3, FrameIs DEF HandleSnapshot
  <2> QED BY <1>2, <1>3, <2>1 DEF HandleSnapshot, Apply
<1>4. ASSUME NEW c \in Connections, NEW o \in Outcomes, HandleDelta(c, o)
      PROVE  current' \in Readings
  <2>1. PICK old \in Readings, new \in Readings : Frame(c).delta = ComputeDelta(old, new)
    BY <1>4, FrameIs DEF HandleDelta
  <2>2. current.revision = old.revision
    BY <1>4, <2>1 DEF HandleDelta, CanApplyDelta, ComputeDelta
  <2>3. current = old
    BY <1>1, <1>2, <2>2, ReadingsAreExact
  <2>4. ApplyUnchecked(current, Frame(c).delta) = new
    BY <1>1, <2>1, <2>3, ReadingsAreExact, DeltaRoundTrip
  <2>5. current' = current \/ current' = new
    BY <1>4, <2>4 DEF HandleDelta, Apply
  <2> QED BY <1>2, <2>5
<1>5. ASSUME NEW c \in Connections, ConnectionStep(c)
      PROVE  current' \in Readings
  <2>1. ASSUME HandleUnchained(c) \/ HandleMalformed(c) \/ Send(c) \/ Respond(c) \/ ReadChunk(c)
               \/ StreamEnds(c) \/ CancelledEnds(c)
        PROVE  current' = current
    BY <2>1 DEF HandleUnchained, HandleMalformed, Send, Respond, ReadChunk, StreamEnds,
                CancelledEnds, held
  <2> QED BY <1>2, <1>3, <1>4, <1>5, <2>1 DEF ConnectionStep, FrameStep
<1>6. ASSUME LoadStep PROVE current' \in Readings
  BY <1>6, ReadByNow, OffTyped DEF LoadStep, Load
<1>7. ASSUME AnswerStep PROVE current' \in Readings
  BY <1>2, <1>7 DEF AnswerStep, HandleAnswer, Apply, TypeInv
<1>8. ASSUME Write \/ Answer \/ RequestFails \/ PollTick \/ ApplicationCloses
             \/ (\E deltas \in Modes : ReconnectTimerFires(deltas)) \/ UNCHANGED vars
      PROVE  current' = current
  BY <1>8 DEF Write, Answer, RequestFails, PollTick, ApplicationCloses, ReconnectTimerFires,
              held, vars
<1> QED BY <1>2, <1>5, <1>6, <1>7, <1>8 DEF Next

\* Full frames, deltas, resyncs and polls, applied in whatever order, leave the client
\* with the row of the revision it holds, as long as the server reads none that is torn.
THEOREM TsSdkRow == Spec => []HoldsTheRowOfItsRevision
<1>1. Init => RowInv
  BY OffTyped DEF Init, RowInv
<1>2. TypeInv /\ RowInv /\ [Next]_vars => RowInv'
  BY RowInvStep
<1>3. RowInv => HoldsTheRowOfItsRevision
  BY ReadingsAreExact DEF RowInv, HoldsTheRowOfItsRevision
<1> QED BY <1>1, <1>2, <1>3, TypeInvInductive, PTL DEF Spec

\* Once loaded, whatever swaps a snapshot in goes through the gate of applySnapshot.
THEOREM TsSdkForward == Spec => NeverGoesBack
<1>1. [Next]_vars => [ready /\ current' # current => current'.revision > current.revision]_vars
  <2> SUFFICES ASSUME [Next]_vars, ready, current' # current
               PROVE  current'.revision > current.revision
    OBVIOUS
  <2>1. ASSUME NEW snap, NEW o, Apply(snap, o) PROVE current'.revision > current.revision
    BY <2>1 DEF Apply, Newer
  <2>2. ASSUME NEW c \in Connections, ConnectionStep(c) PROVE \E snap, o : Apply(snap, o)
    BY <2>2 DEF ConnectionStep, FrameStep, HandleSnapshot, HandleDelta, HandleUnchained,
                HandleMalformed, Send, Respond, ReadChunk, StreamEnds, CancelledEnds, held
  <2>3. ASSUME AnswerStep PROVE \E snap, o : Apply(snap, o)
    BY <2>3 DEF AnswerStep, HandleAnswer
  <2> QED BY <2>1, <2>2, <2>3 DEF Next, Write, Answer, RequestFails, PollTick, ApplicationCloses,
                                  ReconnectTimerFires, LoadStep, Load, held, vars
<1> QED BY <1>1, PTL DEF Spec, NeverGoesBack

-----------------------------------------------------------------------------
(* One connection or one reconnect, and nothing after close().             *)

NoneRuns == \A c \in Connections : ~Running(c)

\* While the client runs, close() would find the one connection that runs, or the one
\* timer: the connection that is on is the one whose cancel function is kept.
LifeInv ==
  /\ ~ready => timers = 0 /\ ~pollTimer /\ NoneRuns
  /\ ~closed => \A c \in Connections : ~conn[c].cancelled
  /\ ready /\ ~closed =>
       \/ timers = 1 /\ NoneRuns
       \/ /\ timers = 0 /\ cancelStream \in Connections
          /\ \A c \in Connections : Running(c) <=> c = cancelStream
  /\ ClosedLeavesNothingRunning

LEMMA LifeInvStep ==
  ASSUME TypeInv, LifeInv, LifeStep
  PROVE  LifeInv'
<1>1. CASE Kept
  <2>1. NoneRuns => NoneRuns'
    BY <1>1 DEF Kept, NoneRuns
  <2>2. ~closed => \A c \in Connections : ~conn'[c].cancelled /\ (Running(c)' <=> Running(c))
    BY <1>1 DEF Kept, LifeInv
  <2>3. ClosedLeavesNothingRunning'
    BY <1>1 DEF Kept, LifeInv, ClosedLeavesNothingRunning, Live, Running, life
  <2> QED BY <1>1, <2>1, <2>2, <2>3 DEF Kept, LifeInv, life
<1>2. ASSUME NEW c \in Connections, Breaks(c) PROVE LifeInv'
  <2>1. /\ UNCHANGED <<closed, pollTimer, ready, cancelStream>> /\ Running(c) /\ ready
        /\ timers' = IF conn[c].cancelled \/ closed THEN timers ELSE timers + 1
    BY <1>2 DEF Breaks, LifeInv, NoneRuns
  <2>2. /\ ~Running(c)' /\ ~conn'[c].cancelled
        /\ \A d \in Connections \ {c} : conn'[d] = conn[d]
    BY <1>2, OffTyped DEF Breaks, Running, TypeInv
  <2>3. CASE closed
    <3>1. timers' = timers
      BY <2>1, <2>3
    <3>2. ClosedLeavesNothingRunning'
      BY <2>1, <2>2, <2>3, <3>1 DEF LifeInv, ClosedLeavesNothingRunning, Live, Running
    <3> QED BY <2>1, <2>3, <3>2 DEF LifeInv
  <2>4. CASE ~closed
    <3>1. timers = 0 /\ \A d \in Connections : Running(d) <=> d = c
      BY <2>1, <2>4 DEF LifeInv, NoneRuns
    <3>2. ~conn[c].cancelled
      BY <2>4 DEF LifeInv
    <3>3. timers' = 1
      BY <2>1, <2>4, <3>1, <3>2
    <3>4. NoneRuns'
      BY <2>2, <3>1 DEF NoneRuns, Running
    <3>5. \A d \in Connections : ~conn'[d].cancelled
      BY <2>2, <2>4 DEF LifeInv
    <3> QED BY <2>1, <2>4, <3>3, <3>4, <3>5 DEF LifeInv, ClosedLeavesNothingRunning
  <2> QED BY <2>3, <2>4
<1>3. CASE Shuts
  <2>1. /\ UNCHANGED <<ready, cancelStream>> /\ closed' = TRUE /\ pollTimer' = FALSE
        /\ timers' = IF ~closed /\ timers > 0 THEN timers - 1 ELSE timers
    BY <1>3 DEF Shuts
  <2>2. NoneRuns => NoneRuns'
    BY <1>3 DEF Shuts, NoneRuns
  <2>3. timers' = 0
    <3>1. timers \in {0, 1} /\ (closed => timers = 0)
      BY DEF LifeInv, ClosedLeavesNothingRunning, TypeInv
    <3> QED BY <2>1, <3>1
  <2>4. ASSUME NEW c \in Connections PROVE ~Live(c)'
    <3>1. CASE ~Running(c)
      BY <1>3, <3>1 DEF Shuts, Live, Running
    <3>2. CASE Running(c)
      <4>1. conn[c].cancelled \/ (~closed /\ c = cancelStream)
        BY <3>2 DEF LifeInv, ClosedLeavesNothingRunning, Live, Running, NoneRuns, TypeInv
      <4> QED BY <1>3, <4>1 DEF Shuts, Live, Running
    <3> QED BY <3>1, <3>2
  <2> QED BY <2>1, <2>2, <2>3, <2>4 DEF LifeInv, ClosedLeavesNothingRunning
<1>4. CASE Connects
  <2>1. PICK deltas \in BOOLEAN : ConnectStream(deltas)
    BY <1>4 DEF Connects
  <2>2. NoneRuns /\ UNCHANGED closed /\ ready'
    <3>1. closed => timers = 0
      BY DEF LifeInv, ClosedLeavesNothingRunning
    <3>2. CASE ~ready
      BY <1>4, <3>2 DEF Connects, LifeInv
    <3>3. CASE ready
      BY <1>4, <3>1, <3>3 DEF Connects, LifeInv
    <3> QED BY <3>2, <3>3
  <2>3. timers' = 0
    BY <1>4 DEF Connects, LifeInv, ClosedLeavesNothingRunning
  <2>4. CASE closed
    <3>1. UNCHANGED <<conn, cancelStream>>
      BY <2>1, <2>4 DEF ConnectStream
    <3>2. ~pollTimer'
      BY <1>4, <2>4 DEF Connects, LifeInv, ClosedLeavesNothingRunning
    <3> QED BY <2>2, <2>3, <2>4, <3>1, <3>2
         DEF LifeInv, ClosedLeavesNothingRunning, Live, Running, NoneRuns
  <2>5. CASE ~closed
    <3>1. PICK c \in Connections :
            /\ conn' = [conn EXCEPT ![c] = [Off EXCEPT !.pc = "fetch", !.deltas = deltas]]
            /\ cancelStream' = c
      BY <2>1, <2>5 DEF ConnectStream
    <3>2. /\ conn'[c] = [Off EXCEPT !.pc = "fetch", !.deltas = deltas]
          /\ \A d \in Connections \ {c} : conn'[d] = conn[d]
      BY <3>1 DEF TypeInv
    <3>3. conn'[c].pc = "fetch" /\ conn'[c].cancelled = FALSE
      BY <3>2 DEF Off
    <3>4. Running(c)' /\ ~conn'[c].cancelled
      BY <3>3 DEF Running
    <3>5. \A d \in Connections \ {c} : ~Running(d)' /\ ~conn'[d].cancelled
      BY <2>2, <2>5, <3>2 DEF Running, NoneRuns, LifeInv
    <3> QED BY <2>2, <2>3, <2>5, <3>1, <3>4, <3>5 DEF LifeInv, ClosedLeavesNothingRunning
  <2> QED BY <2>4, <2>5
<1> QED BY <1>1, <1>2, <1>3, <1>4 DEF LifeStep

LEMMA LifeInvInductive == Spec => []LifeInv
<1>1. Init => LifeInv
  <2> SUFFICES ASSUME Init PROVE LifeInv
    OBVIOUS
  <2>1. \A c \in Connections : conn[c].pc = "off" /\ conn[c].cancelled = FALSE
    BY OffTyped DEF Init
  <2> QED BY <2>1 DEF Init, LifeInv, NoneRuns, Running, ClosedLeavesNothingRunning
<1>2. TypeInv /\ LifeInv /\ [Next]_vars => LifeInv'
  BY LifeStepIs, LifeInvStep
<1> QED BY <1>1, <1>2, TypeInvInductive, PTL DEF Spec

\* Every end of a connection is reported once and schedules one reconnect, whatever ends
\* it: a running client has one connection or one pending reconnect.
THEOREM TsSdkOneConnection == Spec => []OneConnectionOrReconnect
<1>1. TypeInv /\ LifeInv => OneConnectionOrReconnect
  <2> SUFFICES ASSUME LifeInv, ready, ~closed
               PROVE  Cardinality({c \in Connections : conn[c].pc # "off"}) + timers = 1
    BY DEF OneConnectionOrReconnect
  <2>1. CASE timers = 1 /\ NoneRuns
    <3>1. {c \in Connections : conn[c].pc # "off"} = {}
      BY <2>1 DEF NoneRuns, Running
    <3>2. Cardinality({c \in Connections : conn[c].pc # "off"}) = 0
      BY <3>1, FS_EmptySet
    <3> QED BY <2>1, <3>2
  <2>2. CASE /\ timers = 0 /\ cancelStream \in Connections
             /\ \A c \in Connections : Running(c) <=> c = cancelStream
    <3>1. {c \in Connections : conn[c].pc # "off"} = {cancelStream}
      BY <2>2 DEF Running
    <3>2. Cardinality({c \in Connections : conn[c].pc # "off"}) = 1
      BY <3>1, FS_Singleton
    <3> QED BY <2>2, <3>2
  <2> QED BY <2>1, <2>2 DEF LifeInv
<1> QED BY <1>1, TypeInvInductive, LifeInvInductive, PTL

\* Wherever the client was when close() was called, nothing is left behind.
THEOREM TsSdkClosed == Spec => []ClosedLeavesNothingRunning
<1>1. LifeInv => ClosedLeavesNothingRunning
  BY DEF LifeInv
<1> QED BY <1>1, LifeInvInductive, PTL

\* An answer that comes after close() is dropped, and nothing is read from a connection
\* that close() aborted: only the rest of a chunk that was read can still be swapped in.
THEOREM TsSdkClosedSwaps == Spec => ClosedSwapsOnlyWhatWasRead
<1>1. TypeInv /\ LifeInv /\ [Next]_vars
        => [closed /\ ready /\ current' # current =>
              \E c \in Connections : conn[c].cancelled /\ conn[c].buffer # <<>>]_vars
  <2> SUFFICES ASSUME TypeInv, LifeInv, [Next]_vars, closed, ready, current' # current
               PROVE  \E c \in Connections : conn[c].cancelled /\ conn[c].buffer # <<>>
    OBVIOUS
  <2>1. ASSUME NEW c \in Connections, ConnectionStep(c) PROVE InTurn(c)
    BY <2>1 DEF ConnectionStep, FrameStep, HandleSnapshot, HandleDelta, HandleUnchained,
                HandleMalformed, Send, Respond, ReadChunk, StreamEnds, CancelledEnds, held
  <2>2. ~AnswerStep
    BY DEF AnswerStep, HandleAnswer
  <2>3. PICK c \in Connections : InTurn(c)
    BY <2>1, <2>2 DEF Next, Write, Answer, RequestFails, PollTick, ApplicationCloses,
                      ReconnectTimerFires, LoadStep, Load, held, vars
  <2> QED BY <2>3 DEF InTurn, TypeInv, LifeInv, ClosedLeavesNothingRunning, Live
<1> QED BY <1>1, TypeInvInductive, LifeInvInductive, PTL DEF Spec, ClosedSwapsOnlyWhatWasRead
=============================================================================
