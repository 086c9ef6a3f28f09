--------------------------- MODULE DeliveryProofs ---------------------------
(***************************************************************************)
(* Proofs about Delivery, for any contents, faults, buffers and numbers of *)
(* writes: types, that only newer snapshots are swapped in, that a quiet   *)
(* connection has delivered everything, that full frames are never staler  *)
(* than their revision (and so implement ConfigFeed), and that deltas are  *)
(* exact as long as no write falls between the two reads of a reader.      *)
(***************************************************************************)
EXTENDS Delivery, DeltaProofs, Functions

USE DeliveryAssumption

-----------------------------------------------------------------------------
(* Types.                                                                  *)

\* A load is only ever caused by a write, so that there is a row to load.
TypeInv ==
  /\ TypeOK
  /\ pending > 0 \/ listener.pc = "version" => log # <<>>

\* The log, and the server's side of it.
ServerOK ==
  /\ log \in Seq(Contents)
  /\ session \in BOOLEAN
  /\ pending \in Nat
  /\ listener \in [pc : {"wait", "version", "publish"}, snap : Snapshots]
  /\ missed \in BOOLEAN
  /\ pending > 0 \/ listener.pc = "version" => log # <<>>

\* The connection.
ConnectionOK ==
  /\ channel \in Seq(Snapshots) /\ Len(channel) <= Buffer
  /\ handler \in [pc : {"off", "arrived", "subscribe", "reload", "initial", "loop"},
                  deltas : BOOLEAN, since : Nat, revision : Nat,
                  hasBaseline : BOOLEAN, lastSent : Snapshots]
  /\ wire \in Seq(Frames)

\* The client.
ClientOK ==
  /\ current \in Snapshots
  /\ live \in BOOLEAN
  /\ stream \in [pc : {"off", "open", "apply", "resync"}, snap : Snapshots]
  /\ fetch \in [Fetchers -> [pc : {"idle", "environment", "version", "answer"},
                             snap : Snapshots]]

LEMMA TypeParts == TypeInv <=> ServerOK /\ ConnectionOK /\ ClientOK
BY DEF TypeInv, TypeOK, LogTypeOK, ServerOK, ConnectionOK, ClientOK

LEMMA EmptyTyped == EmptySnapshot \in Snapshots
<1>1. EmptyMap \in Maps
  <2>1. EmptyMap \in [{} -> Data]
    BY DEF EmptyMap
  <2>2. {} \in SUBSET Keys
    OBVIOUS
  <2> QED BY <2>1, <2>2 DEF Maps
<1> QED BY <1>1 DEF EmptySnapshot, Snapshots, Rows

LEMMA IdleTyped ==
  /\ IdleListener \in [pc : {"wait", "version", "publish"}, snap : Snapshots]
  /\ IdleHandler \in [pc : {"off", "arrived", "subscribe", "reload", "initial", "loop"},
                      deltas : BOOLEAN, since : Nat, revision : Nat,
                      hasBaseline : BOOLEAN, lastSent : Snapshots]
  /\ {IdleStream, OpenStream, [OpenStream EXCEPT !.pc = "resync"]}
       \subseteq [pc : {"off", "open", "apply", "resync"}, snap : Snapshots]
  /\ {IdleFetch, StartFetch}
       \subseteq [pc : {"idle", "environment", "version", "answer"}, snap : Snapshots]
BY EmptyTyped DEF IdleListener, IdleHandler, IdleStream, OpenStream, IdleFetch, StartFetch

\* What the two reads of a reader give.
LEMMA ReadsTyped ==
  ASSUME ServerOK
  PROVE  /\ DeliveryRevision \in Nat
         /\ ReadEnvironment \in Snapshots
         /\ ReadEnvironment.revision = DeliveryRevision
         /\ \A snap \in Snapshots : log # <<>> =>
              /\ ReadVersion(snap) \in Snapshots
              /\ ReadVersion(snap) = [revision |-> snap.revision, row |-> CurrentVersion]
<1>1. DeliveryRevision \in Nat
  BY DEF ServerOK, DeliveryRevision
<1>2. ReadEnvironment \in Snapshots /\ ReadEnvironment.revision = DeliveryRevision
  BY <1>1, EmptyTyped DEF ReadEnvironment, Snapshots, EmptySnapshot
<1>3. ASSUME log # <<>> PROVE CurrentVersion \in Rows
  BY <1>3 DEF ServerOK, CurrentVersion
<1> QED BY <1>1, <1>2, <1>3 DEF ReadVersion, Snapshots

\* Patching a map with changes gives a map.
LEMMA PatchTyped ==
  ASSUME NEW base \in Maps, NEW c \in Changes
  PROVE  Patch(base, c) \in Maps
<1> DEFINE D == (DOMAIN base \cup DOMAIN c.set) \ c.remove
<1>1. c.set \in Maps
  BY DEF Changes
<1>2. D \subseteq Keys
  BY <1>1, MapsAreFunctions
<1>3. \A k \in D : (IF k \in DOMAIN c.set THEN c.set[k] ELSE base[k]) \in Data
  BY <1>1, MapsAreFunctions
<1>4. Patch(base, c) \in [D -> Data]
  BY <1>3 DEF Patch
<1> QED BY <1>2, <1>4 DEF Maps

\* A delta between snapshots can be sent, and applied to any snapshot.
LEMMA DeltasTyped ==
  ASSUME NEW old \in Snapshots, NEW new \in Snapshots
  PROVE  /\ ComputeDelta(old, new) \in Deltas
         /\ \A d \in Deltas : ApplyUnchecked(old, d) \in Snapshots
<1>1. /\ old.row.values \in Maps /\ old.row.targeting \in Maps
      /\ new.row.values \in Maps /\ new.row.targeting \in Maps
      /\ old.revision \in Nat /\ new.revision \in Nat
  BY DEF Snapshots, Rows
<1>2. ComputeDelta(old, new) \in Deltas
  BY <1>1, DiffIsChanges DEF ComputeDelta, Deltas
<1>3. ASSUME NEW d \in Deltas PROVE ApplyUnchecked(old, d) \in Snapshots
  <2>1. d.revision \in Nat /\ d.values \in Changes /\ d.targeting \in Changes
    BY DEF Deltas
  <2> QED BY <1>1, <2>1, PatchTyped DEF ApplyUnchecked, Snapshots, Rows
<1> QED BY <1>2, <1>3

LEMMA FrameTyped ==
  ASSUME ConnectionOK, NEW snap \in Snapshots
  PROVE  /\ Frame(snap) \in Frames
         /\ Baseline(snap) \in [pc : {"off", "arrived", "subscribe", "reload", "initial", "loop"},
                                deltas : BOOLEAN, since : Nat, revision : Nat,
                                hasBaseline : BOOLEAN, lastSent : Snapshots]
<1>1. handler.lastSent \in Snapshots
  BY DEF ConnectionOK
<1>2. Frame(snap) \in Frames
  BY <1>1, DeltasTyped DEF Frame, Frames
<1>3. CASE handler.deltas
  BY <1>2, <1>3 DEF Baseline, ConnectionOK
<1>4. CASE ~handler.deltas
  BY <1>2, <1>4 DEF Baseline, ConnectionOK
<1> QED BY <1>3, <1>4

LEMMA InitType == Init => TypeInv
<1> SUFFICES ASSUME Init PROVE TypeInv
  OBVIOUS
<1>1. ServerOK
  <2>1. log \in Seq(Contents) /\ log = <<>> /\ pending = 0
    BY DEF Init, LogInit
  <2>2. listener \in [pc : {"wait", "version", "publish"}, snap : Snapshots]
    BY IdleTyped DEF Init
  <2>3. listener.pc = "wait"
    BY DEF Init, IdleListener
  <2>4. session \in BOOLEAN /\ missed \in BOOLEAN
    BY DEF Init
  <2> QED BY <2>1, <2>2, <2>3, <2>4 DEF ServerOK
<1>2. ConnectionOK
  BY IdleTyped DEF Init, ConnectionOK
<1>3. ClientOK
  BY IdleTyped, EmptyTyped DEF Init, ClientOK
<1> QED BY <1>1, <1>2, <1>3, TypeParts

LEMMA StepType == TypeInv /\ [Next]_vars => TypeInv'
<1> SUFFICES ASSUME ServerOK, ConnectionOK, ClientOK, [Next]_vars
             PROVE  ServerOK' /\ ConnectionOK' /\ ClientOK'
  BY DEF TypeInv, TypeOK, LogTypeOK, ServerOK, ConnectionOK, ClientOK
<1> USE DEF server, connection, client
<1>1. ASSUME NEW c \in Contents, Commit(c) PROVE ServerOK' /\ ConnectionOK' /\ ClientOK'
  <2>1. log' \in Seq(Contents) /\ log' # <<>>
    BY <1>1 DEF Commit, Publish, ServerOK
  <2>2. pending' \in Nat /\ missed' \in BOOLEAN
    BY <1>1 DEF Commit, ServerOK
  <2>3. ServerOK'
    BY <1>1, <2>1, <2>2 DEF Commit, ServerOK
  <2> QED BY <1>1, <2>3 DEF Commit, ConnectionOK, ClientOK
<1>2. CASE LoseSession
  <2>1. pending' = 0 /\ session' \in BOOLEAN /\ missed' \in BOOLEAN
    BY <1>2 DEF LoseSession
  <2>2. ServerOK'
    BY <1>2, <2>1 DEF LoseSession, ServerOK
  <2> QED BY <1>2, <2>2 DEF LoseSession, ConnectionOK, ClientOK
<1>3. CASE ListenerStep
  <2>1. CASE Reconnect
    <3>1. ServerOK'
      BY <2>1 DEF Reconnect, ServerOK
    <3> QED BY <2>1, <3>1 DEF Reconnect, ConnectionOK, ClientOK
  <2>2. CASE LoadEnvironment
    <3>1. listener' \in [pc : {"wait", "version", "publish"}, snap : Snapshots]
      BY <2>2, ReadsTyped DEF LoadEnvironment
    <3>2. pending' \in Nat /\ log # <<>>
      BY <2>2 DEF LoadEnvironment, ServerOK
    <3>3. ServerOK'
      BY <2>2, <3>1, <3>2 DEF LoadEnvironment, ServerOK
    <3> QED BY <2>2, <3>3 DEF LoadEnvironment, ConnectionOK, ClientOK
  <2>3. CASE LoadVersion
    <3>1. listener.snap \in Snapshots /\ log # <<>>
      BY <2>3 DEF LoadVersion, ServerOK
    <3>2. listener' \in [pc : {"wait", "version", "publish"}, snap : Snapshots]
      BY <2>3, <3>1, ReadsTyped DEF LoadVersion
    <3>3. ServerOK'
      BY <2>3, <3>1, <3>2 DEF LoadVersion, ServerOK
    <3> QED BY <2>3, <3>3 DEF LoadVersion, ConnectionOK, ClientOK
  <2>4. CASE PublishSnapshot
    <3>1. listener.snap \in Snapshots
      BY DEF ServerOK
    <3>2. Enqueue(channel, listener.snap) \in Seq(Snapshots)
          /\ Len(Enqueue(channel, listener.snap)) <= Buffer
      <4>1. CASE Len(channel) < Buffer
        BY <3>1, <4>1 DEF Enqueue, ConnectionOK
      <4>2. CASE ~(Len(channel) < Buffer)
        <5>1. channel # <<>> /\ Len(channel) = Buffer
          BY <4>2 DEF ConnectionOK
        <5>2. Tail(channel) \in Seq(Snapshots) /\ Len(Tail(channel)) = Buffer - 1
          BY <5>1 DEF ConnectionOK
        <5> QED BY <3>1, <4>2, <5>2 DEF Enqueue
      <4> QED BY <4>1, <4>2
    <3>3. ConnectionOK'
      BY <2>4, <3>2 DEF PublishSnapshot, ConnectionOK
    <3>4. listener' = IdleListener /\ listener'.pc = "wait" /\ pending' = pending
      BY <2>4 DEF PublishSnapshot, IdleListener
    <3>5. ServerOK'
      BY <2>4, <3>4, IdleTyped DEF PublishSnapshot, ServerOK
    <3> QED BY <2>4, <3>3, <3>5 DEF PublishSnapshot, ClientOK
  <2> QED BY <1>3, <2>1, <2>2, <2>3, <2>4 DEF ListenerStep
<1>4. CASE HandlerStep
  <2>1. CASE StreamEnvironment \/ Subscribe \/ ReloadEnvironment \/ SkipInitial
    <3>1. ConnectionOK'
      BY <2>1, ReadsTyped
         DEF StreamEnvironment, Subscribe, ReloadEnvironment, SkipInitial, ConnectionOK
    <3> QED BY <2>1, <3>1
         DEF StreamEnvironment, Subscribe, ReloadEnvironment, SkipInitial, ServerOK, ClientOK
  <2>2. ASSUME NEW snap \in Snapshots, WriteFrame(snap)
        PROVE  wire' \in Seq(Frames)
               /\ handler' \in [pc : {"off", "arrived", "subscribe", "reload", "initial", "loop"},
                                deltas : BOOLEAN, since : Nat, revision : Nat,
                                hasBaseline : BOOLEAN, lastSent : Snapshots]
    BY <2>2, FrameTyped DEF WriteFrame, ConnectionOK
  <2>3. CASE SendInitial
    <3>1. [EmptySnapshot EXCEPT !.revision = handler.revision] \in Snapshots
      BY EmptyTyped DEF ConnectionOK, Snapshots, EmptySnapshot
    <3>2. ConnectionOK'
      BY <2>2, <2>3, <3>1, ReadsTyped DEF SendInitial, ConnectionOK
    <3> QED BY <2>3, <3>2 DEF SendInitial, ServerOK, ClientOK
  <2>4. CASE Forward
    <3>1. Head(channel) \in Snapshots /\ Tail(channel) \in Seq(Snapshots)
          /\ Len(Tail(channel)) <= Buffer
      BY <2>4 DEF Forward, ConnectionOK
    <3>2. ConnectionOK'
      BY <2>2, <2>4, <3>1 DEF Forward, ConnectionOK
    <3> QED BY <2>4, <3>2 DEF Forward, ServerOK, ClientOK
  <2> QED BY <1>4, <2>1, <2>3, <2>4 DEF HandlerStep
<1>5. CASE StreamStep
  <2>1. ASSUME NEW deltas \in Modes, Connect(deltas) PROVE ServerOK' /\ ConnectionOK' /\ ClientOK'
    <3>1. [IdleHandler EXCEPT !.pc = "arrived", !.deltas = deltas, !.since = current.revision]
            \in [pc : {"off", "arrived", "subscribe", "reload", "initial", "loop"},
                 deltas : BOOLEAN, since : Nat, revision : Nat,
                 hasBaseline : BOOLEAN, lastSent : Snapshots]
      BY IdleTyped DEF ClientOK, Snapshots, IdleHandler
    <3>2. ConnectionOK'
      BY <2>1, <3>1 DEF Connect, ConnectionOK
    <3>3. ClientOK'
      BY <2>1, IdleTyped DEF Connect, ClientOK
    <3> QED BY <2>1, <3>2, <3>3 DEF Connect, ServerOK
  <2>2. ASSUME wire # <<>>
        PROVE  Head(wire) \in Frames /\ Tail(wire) \in Seq(Frames)
    BY <2>2 DEF ConnectionOK
  <2>3. CASE ReceiveSnapshot
    <3>1. Head(wire).snap \in Snapshots
      BY <2>2, <2>3 DEF ReceiveSnapshot, Frames
    <3> QED BY <2>2, <2>3, <3>1 DEF ReceiveSnapshot, ConnectionOK, ClientOK, ServerOK
  <2>4. CASE ReceiveDelta
    <3>1. Head(wire).delta \in Deltas
      BY <2>2, <2>4 DEF ReceiveDelta, Frames
    <3>2. ApplyUnchecked(current, Head(wire).delta) \in Snapshots
      BY <3>1, DeltasTyped DEF ClientOK
    <3> QED BY <2>2, <2>4, <3>2 DEF ReceiveDelta, ConnectionOK, ClientOK, ServerOK
  <2>5. CASE ReceiveUnchained
    <3>1. ClientOK'
      BY <2>5, IdleTyped DEF ReceiveUnchained, ClientOK
    <3> QED BY <2>2, <2>5, <3>1 DEF ReceiveUnchained, ConnectionOK, ServerOK
  <2>6. CASE ApplyFrame
    <3>1. ClientOK'
      BY <2>6, IdleTyped DEF ApplyFrame, Apply, ClientOK
    <3> QED BY <2>6, <3>1 DEF ApplyFrame, ConnectionOK, ServerOK
  <2>7. CASE StreamClosed
    <3>1. ClientOK'
      BY <2>7, IdleTyped DEF StreamClosed, ClientOK
    <3> QED BY <2>7, <3>1 DEF StreamClosed, ConnectionOK, ServerOK
  <2> QED BY <1>5, <2>1, <2>3, <2>4, <2>5, <2>6, <2>7 DEF StreamStep
<1>6. ASSUME NEW f \in Fetchers, FetchDone(f), ClientOK
      PROVE  /\ fetch' \in [Fetchers -> [pc : {"idle", "environment", "version", "answer"},
                                         snap : Snapshots]]
             /\ stream' \in [pc : {"off", "open", "apply", "resync"}, snap : Snapshots]
  BY <1>6, IdleTyped DEF FetchDone, ClientOK
<1>7. ASSUME NEW f \in Fetchers, FetchStep(f) PROVE ServerOK' /\ ConnectionOK' /\ ClientOK'
  <2>1. CASE FetchEnvironment(f)
    <3>1. ClientOK'
      BY <2>1, ReadsTyped DEF FetchEnvironment, ClientOK
    <3> QED BY <2>1, <3>1 DEF FetchEnvironment, ConnectionOK, ServerOK
  <2>2. CASE FetchVersion(f)
    <3>1. fetch[f].snap \in Snapshots
      BY DEF ClientOK
    <3>2. ReadVersion(fetch[f].snap) \in Snapshots
      BY <2>2, <3>1, ReadsTyped DEF FetchVersion
    <3>3. ClientOK'
      BY <2>2, <3>2 DEF FetchVersion, ClientOK
    <3> QED BY <2>2, <3>3 DEF FetchVersion, ConnectionOK, ServerOK
  <2>3. CASE FetchApply(f)
    <3>1. current' \in Snapshots
      BY <2>3 DEF FetchApply, Apply, ClientOK
    <3>2. ClientOK'
      BY <1>6, <2>3, <3>1 DEF FetchApply, ClientOK
    <3> QED BY <2>3, <3>2 DEF FetchApply, ConnectionOK, ServerOK
  <2>4. CASE FetchGivesUp(f)
    <3>1. ClientOK'
      BY <1>6, <2>4 DEF FetchGivesUp, ClientOK
    <3>2. ServerOK'
      BY <2>4 DEF FetchGivesUp, ServerOK
    <3> QED BY <2>4, <3>1, <3>2 DEF FetchGivesUp, ConnectionOK
  <2> QED BY <1>7, <2>1, <2>2, <2>3, <2>4 DEF FetchStep
<1>8. CASE Ready
  <2>1. PICK snap \in Snapshots : ReadyLoads(snap)
    BY <1>8, EmptyTyped DEF Ready, ClientOK, Fetchers
  <2>2. ClientOK'
    BY <1>6, <2>1 DEF ReadyLoads, ClientOK, Fetchers
  <2> QED BY <2>1, <2>2 DEF ReadyLoads, ConnectionOK, ServerOK
<1>9. CASE PollTick
  <2>1. ClientOK'
    BY <1>9, IdleTyped DEF PollTick, ClientOK
  <2> QED BY <1>9, <2>1 DEF PollTick, ConnectionOK, ServerOK
<1>10. CASE LoadFails
  <2>1. listener' \in [pc : {"wait", "version", "publish"}, snap : Snapshots]
    BY <1>10, IdleTyped DEF LoadFails
  <2>2. log' = log /\ session' = session /\ pending' = pending /\ missed' = TRUE
        /\ listener.pc = "version"
    BY <1>10 DEF LoadFails
  <2>3. log # <<>>
    BY <2>2 DEF ServerOK
  <2>4. ServerOK'
    BY <2>1, <2>2, <2>3 DEF ServerOK
  <2> QED BY <1>10, <2>4 DEF LoadFails, ConnectionOK, ClientOK
<1>11. CASE ReloadFails \/ InitialFails
  <2>1. ServerOK'
    BY <1>11 DEF ReloadFails, InitialFails, ServerOK
  <2>2. ConnectionOK'
    BY <1>11 DEF ReloadFails, InitialFails, ConnectionOK
  <2> QED BY <1>11, <2>1, <2>2 DEF ReloadFails, InitialFails, ClientOK
<1>12. CASE EndStream \/ LoseStream
  <2>1. ConnectionOK'
    <3>1. wire' \in Seq(Frames)
      <4>1. wire' = wire \/ wire' = <<>>
        BY <1>12 DEF EndStream, LoseStream
      <4>2. wire \in Seq(Frames) /\ <<>> \in Seq(Frames)
        BY DEF ConnectionOK
      <4> QED BY <4>1, <4>2
    <3>2. channel' = <<>> /\ handler' = IdleHandler
      BY <1>12 DEF EndStream, LoseStream
    <3>3. channel' \in Seq(Snapshots) /\ Len(channel') <= Buffer
      BY <3>2 DEF DeliveryAssumption
    <3> QED BY <3>1, <3>2, <3>3, IdleTyped DEF ConnectionOK
  <2>2. ClientOK'
    BY <1>12, IdleTyped DEF EndStream, LoseStream, ClientOK
  <2> QED BY <1>12, <2>1, <2>2 DEF EndStream, LoseStream, ServerOK
<1>13. CASE UNCHANGED vars
  BY <1>13 DEF vars, ServerOK, ConnectionOK, ClientOK
<1> QED BY <1>1, <1>2, <1>3, <1>4, <1>5, <1>7, <1>8, <1>9, <1>10, <1>11, <1>12, <1>13
        DEF Next, Fault

\* The types of delivery, whatever fails: in particular a channel never holds more than
\* its buffer.
THEOREM DeliveryTypeCorrect == Spec => []TypeOK
<1>1. TypeInv => TypeOK
  BY DEF TypeInv
<1> QED BY <1>1, InitType, StepType, PTL DEF Spec

-----------------------------------------------------------------------------
(* What is in flight, and where it comes from.                             *)

SnapshotFrame(s) == [type |-> "snapshot", snap |-> s]
DeltaFrame(d) == [type |-> "delta", delta |-> d]

\* A snapshot some actor holds and may pass on, the client's included.
InFlight(s) ==
  \/ listener.pc = "publish" /\ s = listener.snap
  \/ s \in Range(channel)
  \/ SnapshotFrame(s) \in Range(wire)
  \/ handler.hasBaseline /\ s = handler.lastSent
  \/ stream.pc = "apply" /\ s = stream.snap
  \/ \E f \in Fetchers : fetch[f].pc = "answer" /\ s = fetch[f].snap
  \/ s = current

DeltaInFlight(d) == DeltaFrame(d) \in Range(wire)

\* The revision a reader has read, and not yet the row.
HalfRead(r) ==
  \/ listener.pc = "version" /\ r = listener.snap.revision
  \/ handler.pc = "initial" /\ r = handler.revision
  \/ \E f \in Fetchers : fetch[f].pc = "version" /\ r = fetch[f].snap.revision

\* A snapshot whose row is read now.
Built(s) ==
  /\ log # <<>>
  /\ \E r \in Nat : HalfRead(r) /\ s = [revision |-> r, row |-> CurrentVersion]

\* A snapshot the client makes by applying a delta.
Patched(s) ==
  \E d \in Deltas : DeltaInFlight(d) /\ Chains(d) /\ s = ApplyUnchecked(current, d)

LEMMA RangeOfEmpty == \A x : x \notin Range(<<>>)
BY DEF Range

LEMMA RangeOfAppend ==
  ASSUME NEW S, NEW q \in Seq(S), NEW e \in S
  PROVE  \A x : x \in Range(Append(q, e)) <=> x \in Range(q) \/ x = e
<1> DEFINE a == Append(q, e)
<1>1. DOMAIN a = 1 .. Len(q) + 1 /\ DOMAIN q = 1 .. Len(q)
  OBVIOUS
<1>2. (\A i \in 1 .. Len(q) : a[i] = q[i]) /\ a[Len(q) + 1] = e
  OBVIOUS
<1>3. ASSUME NEW x \in Range(a) PROVE x \in Range(q) \/ x = e
  <2>1. PICK i \in 1 .. Len(q) + 1 : x = a[i]
    BY <1>1, <1>3 DEF Range
  <2> QED BY <1>1, <1>2, <2>1 DEF Range
<1>4. ASSUME NEW x, x \in Range(q) \/ x = e PROVE x \in Range(a)
  <2>1. CASE x = e
    BY <1>1, <1>2, <2>1 DEF Range
  <2>2. CASE x \in Range(q)
    <3>1. PICK i \in 1 .. Len(q) : x = q[i]
      BY <1>1, <2>2 DEF Range
    <3>2. x = a[i] /\ i \in DOMAIN a
      BY <1>1, <1>2, <3>1
    <3> QED BY <3>2 DEF Range
  <2> QED BY <1>4, <2>1, <2>2
<1> QED BY <1>3, <1>4

LEMMA RangeOfTail ==
  ASSUME NEW S, NEW q \in Seq(S), q # <<>>
  PROVE  \A x : x \in Range(q) <=> x = Head(q) \/ x \in Range(Tail(q))
<1> DEFINE t == Tail(q)
<1>1. Len(q) \in Nat \ {0} /\ DOMAIN q = 1 .. Len(q) /\ DOMAIN t = 1 .. Len(q) - 1
  OBVIOUS
<1>2. Head(q) = q[1] /\ \A i \in 1 .. Len(q) - 1 : t[i] = q[i + 1]
  OBVIOUS
<1>3. ASSUME NEW x \in Range(q) PROVE x = Head(q) \/ x \in Range(t)
  <2>1. PICK i \in 1 .. Len(q) : x = q[i]
    BY <1>1, <1>3 DEF Range
  <2>2. CASE i = 1
    BY <1>2, <2>1, <2>2
  <2>3. CASE i # 1
    <3>1. i - 1 \in DOMAIN t /\ t[i - 1] = q[i]
      BY <1>1, <1>2, <2>3
    <3> QED BY <2>1, <3>1 DEF Range
  <2> QED BY <2>2, <2>3
<1>4. ASSUME NEW x, x = Head(q) \/ x \in Range(t) PROVE x \in Range(q)
  <2>1. CASE x = Head(q)
    BY <1>1, <1>2, <2>1 DEF Range
  <2>2. CASE x \in Range(t)
    <3>1. PICK i \in 1 .. Len(q) - 1 : x = t[i]
      BY <1>1, <2>2 DEF Range
    <3>2. x = q[i + 1] /\ i + 1 \in DOMAIN q
      BY <1>1, <1>2, <3>1
    <3> QED BY <3>2 DEF Range
  <2> QED BY <1>4, <2>1, <2>2
<1> QED BY <1>3, <1>4

\* Publishing to a channel adds the snapshot; a full one loses its oldest.
LEMMA RangeOfEnqueue ==
  ASSUME ConnectionOK, NEW s \in Snapshots
  PROVE  /\ Range(Enqueue(channel, s)) \subseteq Range(channel) \cup {s}
         /\ s \in Range(Enqueue(channel, s))
         /\ \A x \in Range(channel) : x \in Range(Enqueue(channel, s)) \/ x = Head(channel)
         /\ channel # <<>> => Head(channel) \in Range(channel)
<1>1. channel \in Seq(Snapshots) /\ Len(channel) <= Buffer /\ Buffer > 0
  BY DEF ConnectionOK, DeliveryAssumption
<1>2. CASE Len(channel) < Buffer
  <2>1. Enqueue(channel, s) = Append(channel, s)
    BY <1>2 DEF Enqueue
  <2>2. channel # <<>> => Head(channel) \in Range(channel)
    BY <1>1, RangeOfTail
  <2>3. \A x : x \in Range(Enqueue(channel, s)) <=> x \in Range(channel) \/ x = s
    BY <1>1, <2>1, RangeOfAppend
  <2> QED BY <2>2, <2>3
<1>3. CASE ~(Len(channel) < Buffer)
  <2>1. channel # <<>> /\ Enqueue(channel, s) = Append(Tail(channel), s)
    BY <1>1, <1>3 DEF Enqueue
  <2>2. Tail(channel) \in Seq(Snapshots)
    BY <1>1, <2>1
  <2>3. \A x : x \in Range(channel) <=> x = Head(channel) \/ x \in Range(Tail(channel))
    BY <1>1, <2>1, RangeOfTail
  <2>4. \A x : x \in Range(Enqueue(channel, s)) <=> x \in Range(Tail(channel)) \/ x = s
    BY <2>1, <2>2, RangeOfAppend
  <2> QED BY <2>1, <2>3, <2>4
<1> QED BY <1>2, <1>3

\* The frame at the head of the wire is a snapshot in flight or a delta in flight.
LEMMA HeadOfWire ==
  ASSUME ConnectionOK, wire # <<>>
  PROVE  /\ Head(wire) \in Range(wire) /\ Head(wire) \in Frames
         /\ \A x : x \in Range(Tail(wire)) => x \in Range(wire)
         /\ Head(wire).type = "snapshot" => /\ Head(wire) = SnapshotFrame(Head(wire).snap)
                                           /\ Head(wire).snap \in Snapshots
         /\ Head(wire).type = "delta" => /\ Head(wire) = DeltaFrame(Head(wire).delta)
                                        /\ Head(wire).delta \in Deltas
<1>1. wire \in Seq(Frames)
  BY DEF ConnectionOK
<1>2. \A x : x \in Range(wire) <=> x = Head(wire) \/ x \in Range(Tail(wire))
  BY <1>1, RangeOfTail
<1>3. Head(wire) \in Frames
  BY <1>1
<1>4. Head(wire).type = "snapshot" => /\ Head(wire) = SnapshotFrame(Head(wire).snap)
                                      /\ Head(wire).snap \in Snapshots
  BY <1>3 DEF Frames, SnapshotFrame
<1>5. Head(wire).type = "delta" => /\ Head(wire) = DeltaFrame(Head(wire).delta)
                                   /\ Head(wire).delta \in Deltas
  BY <1>3 DEF Frames, DeltaFrame
<1> QED BY <1>2, <1>3, <1>4, <1>5

\* What handleStream puts on the wire.
LEMMA FrameCases ==
  ASSUME NEW x
  PROVE  \/ Frame(x) = SnapshotFrame(x)
         \/ /\ Frame(x) = DeltaFrame(ComputeDelta(handler.lastSent, x))
            /\ handler.deltas /\ handler.hasBaseline
BY DEF Frame, SnapshotFrame, DeltaFrame

LEMMA RangeOfWrite ==
  ASSUME ConnectionOK, NEW x \in Snapshots, WriteFrame(x)
  PROVE  /\ \A y : y \in Range(wire)' <=> y \in Range(wire) \/ y = Frame(x)
         /\ handler'.hasBaseline => handler'.lastSent \in {x, handler.lastSent}
         /\ handler'.hasBaseline /\ handler'.lastSent # x => handler.hasBaseline
         /\ handler'.pc = "loop"
<1>1. wire \in Seq(Frames) /\ Frame(x) \in Frames /\ wire' = Append(wire, Frame(x))
  BY FrameTyped DEF ConnectionOK, WriteFrame
<1>2. \A y : y \in Range(wire)' <=> y \in Range(wire) \/ y = Frame(x)
  BY <1>1, RangeOfAppend
<1>3. handler' = Baseline(x)
  BY DEF WriteFrame
<1>4. CASE handler.deltas
  BY <1>2, <1>3, <1>4 DEF Baseline, ConnectionOK
<1>5. CASE ~handler.deltas
  BY <1>2, <1>3, <1>5 DEF Baseline, ConnectionOK
<1> QED BY <1>4, <1>5

\* A snapshot in flight was in flight before the step, or is built or patched by it.
LEMMA Flow ==
  ASSUME ServerOK, ConnectionOK, ClientOK, [Next]_vars, NEW s, InFlight(s)'
  PROVE  InFlight(s) \/ Built(s) \/ Patched(s) \/ s = EmptySnapshot
<1> USE DEF server, connection, client
<1> DEFINE Sourced == InFlight(s) \/ Built(s) \/ Patched(s) \/ s = EmptySnapshot
<1>1. ASSUME NEW c \in Contents, Commit(c) PROVE Sourced
  BY <1>1 DEF Commit, InFlight
<1>2. CASE LoseSession \/ Reconnect \/ LoadEnvironment \/ LoadFails
  BY <1>2 DEF LoseSession, Reconnect, LoadEnvironment, LoadFails, IdleListener, InFlight
<1>3. CASE LoadVersion
  <2>1. CASE s = listener'.snap
    <3>1. listener.snap \in Snapshots /\ log # <<>>
      BY <1>3 DEF LoadVersion, ServerOK
    <3>2. s = [revision |-> listener.snap.revision, row |-> CurrentVersion]
      BY <1>3, <2>1, <3>1, ReadsTyped DEF LoadVersion
    <3>3. listener.snap.revision \in Nat /\ HalfRead(listener.snap.revision)
      BY <1>3, <3>1 DEF LoadVersion, HalfRead, Snapshots
    <3> QED BY <3>1, <3>2, <3>3 DEF Built
  <2>2. CASE s # listener'.snap
    BY <1>3, <2>2 DEF LoadVersion, InFlight
  <2> QED BY <2>1, <2>2
<1>4. CASE PublishSnapshot
  <2>1. listener.snap \in Snapshots /\ listener'.pc = "wait"
    BY <1>4 DEF PublishSnapshot, IdleListener, ServerOK
  <2>2. s \in Range(channel)' => s \in Range(channel) \/ s = listener.snap
    BY <1>4, <2>1, RangeOfEnqueue DEF PublishSnapshot
  <2> QED BY <1>4, <2>1, <2>2 DEF PublishSnapshot, InFlight
<1>5. CASE \/ StreamEnvironment \/ Subscribe \/ ReloadEnvironment \/ SkipInitial
           \/ ReloadFails \/ InitialFails
  <2>1. handler'.hasBaseline = handler.hasBaseline /\ handler'.lastSent = handler.lastSent
    BY <1>5 DEF StreamEnvironment, Subscribe, ReloadEnvironment, SkipInitial,
                ReloadFails, InitialFails, ConnectionOK
  <2> QED BY <1>5, <2>1 DEF StreamEnvironment, Subscribe, ReloadEnvironment, SkipInitial,
                            ReloadFails, InitialFails, InFlight
<1>6. ASSUME NEW x \in Snapshots, WriteFrame(x), \A y : y \in Range(channel)' => y \in Range(channel),
             UNCHANGED <<listener, client>>
      PROVE  InFlight(s) \/ s = x
  <2>1. SnapshotFrame(s) \in Range(wire)' => SnapshotFrame(s) \in Range(wire) \/ s = x
    <3>1. SnapshotFrame(s) = Frame(x) => s = x
      BY FrameCases DEF SnapshotFrame, DeltaFrame
    <3> QED BY <1>6, <3>1, RangeOfWrite
  <2>2. handler'.hasBaseline /\ s = handler'.lastSent
          => s = x \/ (handler.hasBaseline /\ s = handler.lastSent)
    BY <1>6, RangeOfWrite
  <2> QED BY <1>6, <2>1, <2>2 DEF InFlight
<1>7. CASE SendInitial
  <2> DEFINE e == [EmptySnapshot EXCEPT !.revision = handler.revision]
  <2>1. e \in Snapshots /\ e.revision = handler.revision /\ handler.revision \in Nat /\ log # <<>>
    BY <1>7, EmptyTyped DEF SendInitial, ConnectionOK, Snapshots, EmptySnapshot
  <2>2. ReadVersion(e) \in Snapshots
        /\ ReadVersion(e) = [revision |-> handler.revision, row |-> CurrentVersion]
    BY <2>1, ReadsTyped
  <2>3. InFlight(s) \/ s = ReadVersion(e)
    BY <1>6, <1>7, <2>2 DEF SendInitial
  <2>4. HalfRead(handler.revision)
    BY <1>7 DEF SendInitial, HalfRead
  <2> QED BY <2>1, <2>2, <2>3, <2>4 DEF Built
<1>8. CASE Forward
  <2>1. channel \in Seq(Snapshots) /\ channel # <<>> /\ Head(channel) \in Snapshots
    BY <1>8 DEF Forward, ConnectionOK
  <2>2. \A y : y \in Range(channel) <=> y = Head(channel) \/ y \in Range(Tail(channel))
    BY <2>1, RangeOfTail
  <2>3. InFlight(s) \/ s = Head(channel)
    BY <1>6, <1>8, <2>1, <2>2 DEF Forward
  <2> QED BY <2>2, <2>3 DEF InFlight
<1>9. CASE EndStream
  <2>1. ~handler'.hasBaseline /\ s \notin Range(channel)'
    BY <1>9, RangeOfEmpty DEF EndStream, IdleHandler
  <2> QED BY <1>9, <2>1 DEF EndStream, InFlight
<1>10. CASE LoseStream
  <2>1. ~handler'.hasBaseline /\ s \notin Range(channel)' /\ SnapshotFrame(s) \notin Range(wire)'
        /\ stream'.pc = "off"
    BY <1>10, RangeOfEmpty DEF LoseStream, IdleHandler, IdleStream
  <2> QED BY <1>10, <2>1 DEF LoseStream, InFlight
<1>11. ASSUME NEW deltas \in Modes, Connect(deltas) PROVE Sourced
  <2>1. ~handler'.hasBaseline /\ stream'.pc = "open"
    BY <1>11 DEF Connect, IdleHandler, OpenStream
  <2> QED BY <1>11, <2>1 DEF Connect, InFlight
<1>12. CASE ReceiveSnapshot
  <2>1. SnapshotFrame(Head(wire).snap) \in Range(wire)
        /\ \A x : x \in Range(wire)' => x \in Range(wire)
    BY <1>12, HeadOfWire DEF ReceiveSnapshot
  <2>2. stream' = [pc |-> "apply", snap |-> Head(wire).snap]
    BY <1>12 DEF ReceiveSnapshot
  <2> QED BY <1>12, <2>1, <2>2 DEF ReceiveSnapshot, InFlight
<1>13. CASE ReceiveDelta
  <2>1. /\ DeltaInFlight(Head(wire).delta) /\ Head(wire).delta \in Deltas
        /\ Chains(Head(wire).delta)
        /\ \A x : x \in Range(wire)' => x \in Range(wire)
    BY <1>13, HeadOfWire DEF ReceiveDelta, DeltaInFlight
  <2>2. CASE s = ApplyUnchecked(current, Head(wire).delta)
    BY <2>1, <2>2 DEF Patched
  <2>3. CASE s # ApplyUnchecked(current, Head(wire).delta)
    <3>1. stream' = [pc |-> "apply", snap |-> ApplyUnchecked(current, Head(wire).delta)]
      BY <1>13 DEF ReceiveDelta
    <3> QED BY <1>13, <2>1, <2>3, <3>1 DEF ReceiveDelta, InFlight
  <2> QED BY <2>2, <2>3
<1>14. CASE ReceiveUnchained
  <2>1. \A x : x \in Range(wire)' => x \in Range(wire)
    BY <1>14, HeadOfWire DEF ReceiveUnchained
  <2>2. stream'.pc = "resync" /\ fetch'["resync"].pc = "environment"
        /\ \A f \in Fetchers : fetch'[f].pc = "answer" => fetch'[f] = fetch[f]
    BY <1>14 DEF ReceiveUnchained, OpenStream, StartFetch, ClientOK, Fetchers
  <2> QED BY <1>14, <2>1, <2>2 DEF ReceiveUnchained, InFlight
<1>15. ASSUME NEW x, InFlight(x), Apply(x) PROVE InFlight(current')
  BY <1>15 DEF Apply, InFlight
<1>16. CASE ApplyFrame
  <2>1. InFlight(stream.snap) /\ stream'.pc = "open"
    BY <1>16 DEF ApplyFrame, InFlight, OpenStream
  <2>2. InFlight(current')
    BY <1>15, <1>16, <2>1 DEF ApplyFrame
  <2> QED BY <1>16, <2>1, <2>2 DEF ApplyFrame, InFlight
<1>17. CASE StreamClosed
  BY <1>17 DEF StreamClosed, IdleStream, InFlight
<1>18. CASE PollTick
  <2>1. \A f \in Fetchers : fetch'[f].pc = "answer" => fetch'[f] = fetch[f]
    BY <1>18 DEF PollTick, StartFetch, ClientOK
  <2> QED BY <1>18, <2>1 DEF PollTick, InFlight
<1>19. ASSUME NEW f \in Fetchers, FetchEnvironment(f) PROVE Sourced
  <2>1. \A g \in Fetchers : fetch'[g].pc = "answer" => fetch'[g] = fetch[g]
    BY <1>19 DEF FetchEnvironment, ClientOK
  <2> QED BY <1>19, <2>1 DEF FetchEnvironment, InFlight
<1>20. ASSUME NEW f \in Fetchers, FetchVersion(f) PROVE Sourced
  <2>1. fetch[f].snap \in Snapshots /\ log # <<>>
    BY <1>20 DEF FetchVersion, ClientOK
  <2>2. fetch' = [fetch EXCEPT ![f] = [pc |-> "answer", snap |-> ReadVersion(fetch[f].snap)]]
    BY <1>20 DEF FetchVersion
  <2>3. fetch'[f].snap = [revision |-> fetch[f].snap.revision, row |-> CurrentVersion]
        /\ \A g \in Fetchers \ {f} : fetch'[g] = fetch[g]
    BY <2>1, <2>2, ReadsTyped DEF ClientOK
  <2>4. CASE s = fetch'[f].snap
    <3>1. fetch[f].snap.revision \in Nat /\ HalfRead(fetch[f].snap.revision)
      BY <1>20, <2>1 DEF FetchVersion, HalfRead, Snapshots
    <3> QED BY <2>1, <2>3, <2>4, <3>1 DEF Built
  <2>5. CASE s # fetch'[f].snap
    BY <1>20, <2>3, <2>5 DEF FetchVersion, InFlight
  <2> QED BY <2>4, <2>5
<1>21. ASSUME NEW f \in Fetchers, FetchDone(f)
       PROVE  /\ \A g \in Fetchers : fetch'[g].pc = "answer" => fetch'[g] = fetch[g]
              /\ stream'.pc = "apply" => stream' = stream
  BY <1>21 DEF FetchDone, IdleFetch, OpenStream, ClientOK
<1>22. ASSUME NEW f \in Fetchers, FetchApply(f) PROVE Sourced
  <2>1. InFlight(fetch[f].snap)
    BY <1>22 DEF FetchApply, InFlight
  <2>2. InFlight(current')
    BY <1>15, <1>22, <2>1 DEF FetchApply
  <2> QED BY <1>21, <1>22, <2>2 DEF FetchApply, InFlight
<1>23. ASSUME NEW f \in Fetchers, FetchGivesUp(f) PROVE Sourced
  BY <1>21, <1>23 DEF FetchGivesUp, InFlight
<1>24. CASE Ready
  <2>1. PICK x : ReadyLoads(x) /\ (InFlight(x) \/ x = EmptySnapshot)
    BY <1>24 DEF Ready, InFlight, Fetchers
  <2>2. "ready" \in Fetchers /\ FetchDone("ready") /\ current' = x
    BY <2>1 DEF ReadyLoads, Fetchers
  <2> QED BY <1>21, <2>1, <2>2 DEF ReadyLoads, InFlight
<1>25. CASE UNCHANGED vars
  BY <1>25 DEF vars, InFlight
<1> QED BY <1>1, <1>2, <1>3, <1>4, <1>5, <1>7, <1>8, <1>9, <1>10, <1>11, <1>12, <1>13, <1>14,
           <1>16, <1>17, <1>18, <1>19, <1>20, <1>22, <1>23, <1>24, <1>25
        DEF Next, ListenerStep, HandlerStep, StreamStep, FetchStep, Fault

\* A revision half-read was half-read before the step, or is read by it; no write falls
\* between the two reads unless TornReads.
LEMMA HalfReadFlow ==
  ASSUME ServerOK, ConnectionOK, ClientOK, [Next]_vars, NEW r, HalfRead(r)'
  PROVE  \/ HalfRead(r) /\ (TornReads \/ log' = log)
         \/ r = DeliveryRevision /\ log' = log
         \/ "reload" \in Faults /\ r = handler.revision /\ log' = log
<1> USE DEF server, connection, client
<1> DEFINE Sourced == \/ HalfRead(r) /\ (TornReads \/ log' = log)
                      \/ r = DeliveryRevision /\ log' = log
                      \/ "reload" \in Faults /\ r = handler.revision /\ log' = log
<1>1. ASSUME NEW c \in Contents, Commit(c) PROVE Sourced
  <2>1. HalfRead(r)
    BY <1>1 DEF Commit, HalfRead
  <2>2. ~NoHalfRead
    BY <2>1 DEF HalfRead, NoHalfRead
  <2> QED BY <1>1, <2>1, <2>2 DEF Commit
<1>2. CASE LoseSession \/ Reconnect
  BY <1>2 DEF LoseSession, Reconnect, HalfRead
<1>3. CASE LoadEnvironment
  <2>1. listener'.snap.revision = DeliveryRevision
    BY <1>3, ReadsTyped DEF LoadEnvironment
  <2> QED BY <1>3, <2>1 DEF LoadEnvironment, HalfRead
<1>4. CASE LoadVersion \/ PublishSnapshot \/ LoadFails
  <2>1. listener'.pc # "version"
    BY <1>4 DEF LoadVersion, PublishSnapshot, LoadFails, IdleListener
  <2> QED BY <1>4, <2>1 DEF LoadVersion, PublishSnapshot, LoadFails, HalfRead
<1>5. CASE ReloadEnvironment
  <2>1. handler'.revision = DeliveryRevision
    BY <1>5 DEF ReloadEnvironment, ConnectionOK
  <2> QED BY <1>5, <2>1 DEF ReloadEnvironment, HalfRead
<1>6. CASE ReloadFails
  <2>1. handler'.revision = handler.revision
    BY <1>6 DEF ReloadFails, ConnectionOK
  <2> QED BY <1>6, <2>1 DEF ReloadFails, HalfRead
<1>7. CASE \/ StreamEnvironment \/ Subscribe \/ SkipInitial \/ InitialFails
           \/ EndStream \/ LoseStream
  <2>1. handler'.pc # "initial"
    <3>1. CASE StreamEnvironment \/ Subscribe \/ SkipInitial \/ InitialFails
      <4>1. handler'.pc \in {"subscribe", "reload", "loop"}
        BY <3>1 DEF StreamEnvironment, Subscribe, SkipInitial, InitialFails, ConnectionOK
      <4> QED BY <4>1
    <3>2. CASE EndStream \/ LoseStream
      BY <3>2 DEF EndStream, LoseStream, IdleHandler
    <3> QED BY <1>7, <3>1, <3>2
  <2> QED BY <1>7, <2>1 DEF StreamEnvironment, Subscribe, SkipInitial, InitialFails, EndStream,
                            LoseStream, HalfRead
<1>8. CASE SendInitial \/ Forward
  <2>1. ASSUME NEW x, WriteFrame(x) PROVE handler'.pc = "loop"
    <3>1. CASE handler.deltas
      BY <2>1, <3>1 DEF WriteFrame, Baseline, ConnectionOK
    <3>2. CASE ~handler.deltas
      BY <2>1, <3>2 DEF WriteFrame, Baseline, ConnectionOK
    <3> QED BY <3>1, <3>2
  <2> QED BY <1>8, <2>1 DEF SendInitial, Forward, HalfRead
<1>9. ASSUME NEW deltas \in Modes, Connect(deltas) PROVE Sourced
  <2>1. handler'.pc # "initial"
    BY <1>9 DEF Connect, IdleHandler
  <2> QED BY <1>9, <2>1 DEF Connect, HalfRead
<1>10. CASE ReceiveSnapshot \/ ReceiveDelta \/ ApplyFrame \/ StreamClosed
  BY <1>10 DEF ReceiveSnapshot, ReceiveDelta, ApplyFrame, StreamClosed, HalfRead
<1>11. CASE ReceiveUnchained \/ PollTick
  <2>1. \A f \in Fetchers : fetch'[f].pc = "version" => fetch'[f] = fetch[f]
    BY <1>11 DEF ReceiveUnchained, PollTick, StartFetch, ClientOK
  <2> QED BY <1>11, <2>1 DEF ReceiveUnchained, PollTick, HalfRead
<1>12. ASSUME NEW f \in Fetchers, FetchEnvironment(f) PROVE Sourced
  <2>1. fetch'[f].snap.revision = DeliveryRevision
        /\ \A g \in Fetchers \ {f} : fetch'[g] = fetch[g]
    BY <1>12, ReadsTyped DEF FetchEnvironment, ClientOK
  <2> QED BY <1>12, <2>1 DEF FetchEnvironment, HalfRead
<1>13. ASSUME NEW f \in Fetchers, FetchVersion(f) PROVE Sourced
  <2>1. \A g \in Fetchers : fetch'[g].pc = "version" => fetch'[g] = fetch[g]
    BY <1>13 DEF FetchVersion, ClientOK
  <2> QED BY <1>13, <2>1 DEF FetchVersion, HalfRead
<1>14. ASSUME NEW f \in Fetchers, FetchDone(f)
       PROVE  \A g \in Fetchers : fetch'[g].pc = "version" => fetch'[g] = fetch[g]
  BY <1>14 DEF FetchDone, IdleFetch, ClientOK
<1>15. ASSUME NEW f \in Fetchers, FetchApply(f) \/ FetchGivesUp(f) PROVE Sourced
  BY <1>14, <1>15 DEF FetchApply, FetchGivesUp, HalfRead
<1>16. CASE Ready
  <2>1. "ready" \in Fetchers /\ FetchDone("ready") /\ UNCHANGED <<log, server, connection>>
    BY <1>16 DEF Ready, ReadyLoads, Fetchers
  <2> QED BY <1>14, <2>1 DEF HalfRead
<1>17. CASE UNCHANGED vars
  BY <1>17 DEF vars, HalfRead
<1> QED BY <1>1, <1>2, <1>3, <1>4, <1>5, <1>6, <1>7, <1>8, <1>9, <1>10, <1>11, <1>12, <1>13,
           <1>15, <1>16, <1>17
        DEF Next, ListenerStep, HandlerStep, StreamStep, FetchStep, Fault

\* A delta in flight was in flight before the step, or is the difference of a snapshot
\* in flight and one in flight or built.
LEMMA DeltaFlow ==
  ASSUME ServerOK, ConnectionOK, ClientOK, [Next]_vars, NEW d, DeltaInFlight(d)'
  PROVE  \/ DeltaInFlight(d)
         \/ /\ handler.deltas /\ log' = log
            /\ \E old, new \in Snapshots : /\ InFlight(old) /\ (InFlight(new) \/ Built(new))
                                          /\ d = ComputeDelta(old, new)
<1> USE DEF server, connection, client
<1> DEFINE Sourced == \/ DeltaInFlight(d)
                      \/ /\ handler.deltas /\ log' = log
                         /\ \E old, new \in Snapshots :
                              /\ InFlight(old) /\ (InFlight(new) \/ Built(new))
                              /\ d = ComputeDelta(old, new)
<1>1. ASSUME NEW x \in Snapshots, WriteFrame(x), InFlight(x) \/ Built(x), log' = log PROVE Sourced
  <2>1. DeltaInFlight(d) \/ DeltaFrame(d) = Frame(x)
    BY <1>1, RangeOfWrite DEF DeltaInFlight
  <2>2. CASE DeltaFrame(d) = Frame(x)
    <3>1. d = ComputeDelta(handler.lastSent, x) /\ handler.deltas /\ handler.hasBaseline
      BY <2>2, FrameCases DEF SnapshotFrame, DeltaFrame
    <3>2. handler.lastSent \in Snapshots /\ InFlight(handler.lastSent)
      BY <3>1 DEF InFlight, ConnectionOK
    <3> QED BY <1>1, <3>1, <3>2
  <2> QED BY <2>1, <2>2
<1>2. CASE SendInitial
  <2> DEFINE e == [EmptySnapshot EXCEPT !.revision = handler.revision]
  <2>1. e \in Snapshots /\ e.revision = handler.revision /\ handler.revision \in Nat /\ log # <<>>
    BY <1>2, EmptyTyped DEF SendInitial, ConnectionOK, Snapshots, EmptySnapshot
  <2>2. ReadVersion(e) \in Snapshots
        /\ ReadVersion(e) = [revision |-> handler.revision, row |-> CurrentVersion]
    BY <2>1, ReadsTyped
  <2>3. HalfRead(handler.revision)
    BY <1>2 DEF SendInitial, HalfRead
  <2>4. Built(ReadVersion(e))
    BY <2>1, <2>2, <2>3 DEF Built
  <2> QED BY <1>1, <1>2, <2>2, <2>4 DEF SendInitial
<1>3. CASE Forward
  <2>1. channel \in Seq(Snapshots) /\ channel # <<>> /\ Head(channel) \in Snapshots
    BY <1>3 DEF Forward, ConnectionOK
  <2>2. Head(channel) \in Range(channel)
    BY <2>1, RangeOfTail
  <2> QED BY <1>1, <1>3, <2>1, <2>2 DEF Forward, InFlight
<1>4. CASE LoseStream
  BY <1>4, RangeOfEmpty DEF LoseStream, DeltaInFlight
<1>5. CASE ReceiveSnapshot \/ ReceiveDelta \/ ReceiveUnchained
  BY <1>5, HeadOfWire DEF ReceiveSnapshot, ReceiveDelta, ReceiveUnchained, DeltaInFlight
<1>6. CASE wire' = wire
  BY <1>6 DEF DeltaInFlight
<1>7. \/ wire' = wire
      \/ SendInitial \/ Forward \/ LoseStream
      \/ ReceiveSnapshot \/ ReceiveDelta \/ ReceiveUnchained
  BY DEF Next, vars, ListenerStep, HandlerStep, StreamStep, FetchStep, Fault, Commit,
         LoseSession, Reconnect, LoadEnvironment, LoadVersion, LoadFails, PublishSnapshot,
         StreamEnvironment, Subscribe, ReloadEnvironment, ReloadFails, SkipInitial,
         InitialFails, EndStream, Connect, ApplyFrame, StreamClosed, PollTick,
         FetchEnvironment, FetchVersion, FetchApply, FetchGivesUp, Ready, ReadyLoads
<1> QED BY <1>2, <1>3, <1>4, <1>5, <1>6, <1>7

\* The database moves by writes, which move nothing else that is in flight.
LEMMA LogSteps ==
  ASSUME ServerOK, [Next]_vars
  PROVE  \/ log' = log
         \/ \E c \in Contents : Commit(c) /\ log' = Append(log, c)
BY DEF Next, vars, ListenerStep, HandlerStep, StreamStep, FetchStep, Fault, Commit, Publish,
       LoseSession, Reconnect, LoadEnvironment, LoadVersion, LoadFails, PublishSnapshot,
       StreamEnvironment, Subscribe, ReloadEnvironment, ReloadFails, SkipInitial, SendInitial,
       InitialFails, Forward, EndStream, Connect, ReceiveSnapshot, ReceiveDelta,
       ReceiveUnchained, ApplyFrame, StreamClosed, LoseStream, PollTick,
       FetchEnvironment, FetchVersion, FetchApply, FetchGivesUp, Ready, ReadyLoads

\* What the log holds, it holds for good.
LEMMA LogGrows ==
  ASSUME ServerOK, [Next]_vars
  PROVE  /\ Len(log) \in Nat /\ Len(log') \in Nat
         /\ Len(log) <= Len(log')
         /\ \A i \in 1 .. Len(log) : log'[i] = log[i]
         /\ DOMAIN log = 1 .. Len(log) /\ DOMAIN log' = 1 .. Len(log')
<1>1. CASE log' = log
  BY <1>1 DEF ServerOK
<1>2. CASE \E c \in Contents : log' = Append(log, c)
  BY <1>2 DEF ServerOK
<1> QED BY <1>1, <1>2, LogSteps

\* Everything in flight is a snapshot.
LEMMA InFlightTyped ==
  ASSUME ServerOK, ConnectionOK, ClientOK
  PROVE  /\ \A s : InFlight(s) => s \in Snapshots
         /\ \A d : DeltaInFlight(d) => d \in Deltas
         /\ \A r : HalfRead(r) => r \in Nat
         /\ \A s : Built(s) => s \in Snapshots /\ s.row = log[Len(log)] /\ HalfRead(s.revision)
<1>1. \A x \in Range(channel) : x \in Snapshots
  BY DEF Range, ConnectionOK
<1>2. \A x \in Range(wire) : x \in Frames
  BY DEF Range, ConnectionOK
<1>3. \A s : SnapshotFrame(s) \in Frames => s \in Snapshots
  BY DEF SnapshotFrame, Frames
<1>4. \A d : DeltaFrame(d) \in Frames => d \in Deltas
  BY DEF DeltaFrame, Frames
<1>5. \A s : InFlight(s) => s \in Snapshots
  BY <1>1, <1>2, <1>3 DEF InFlight, ServerOK, ConnectionOK, ClientOK
<1>6. \A r : HalfRead(r) => r \in Nat
  BY DEF HalfRead, Snapshots, ServerOK, ConnectionOK, ClientOK
<1>7. log # <<>> => CurrentVersion \in Rows /\ CurrentVersion = log[Len(log)]
  BY DEF ServerOK, CurrentVersion
<1>8. \A s : Built(s) => s \in Snapshots /\ s.row = log[Len(log)] /\ HalfRead(s.revision)
  BY <1>6, <1>7 DEF Built, Snapshots
<1> QED BY <1>2, <1>4, <1>5, <1>6, <1>8 DEF DeltaInFlight

-----------------------------------------------------------------------------
(* The client's goroutines.                                                *)

\* Until Ready has returned nothing else of the client runs, and afterwards it never
\* runs again.
ReadyFirst ==
  /\ live => fetch["ready"] = IdleFetch
  /\ ~live => /\ current = EmptySnapshot /\ stream.pc = "off" /\ handler.pc = "off"
              /\ fetch["poll"].pc = "idle" /\ fetch["resync"].pc = "idle"

\* The client never falls behind the revision it connected with.
SinceIsHeld == handler.since <= current.revision

\* runStream waits for its resync, and there is no other.
ResyncWaited == fetch["resync"].pc # "idle" <=> stream.pc = "resync"

ClientInv == ReadyFirst /\ SinceIsHeld /\ ResyncWaited

LEMMA NoNegative ==
  ASSUME ClientOK
  PROVE  current.revision \in Nat
BY DEF ClientOK, Snapshots

LEMMA ReadyFirstStep ==
  ASSUME ServerOK, ConnectionOK, ClientOK, [Next]_vars, ReadyFirst
  PROVE  ReadyFirst'
<1> USE DEF server, connection, client
<1>1. CASE UNCHANGED <<client, handler>>
  BY <1>1 DEF ReadyFirst
<1>2. CASE HandlerStep \/ ReloadFails \/ InitialFails
  <2>1. handler.pc # "off" /\ UNCHANGED client
    BY <1>2 DEF HandlerStep, StreamEnvironment, Subscribe, ReloadEnvironment, SkipInitial,
                SendInitial, Forward, ReloadFails, InitialFails
  <2> QED BY <2>1 DEF ReadyFirst
<1>3. CASE EndStream
  <2>1. handler'.pc = "off" /\ UNCHANGED client
    BY <1>3 DEF EndStream, IdleHandler
  <2> QED BY <2>1 DEF ReadyFirst
<1>4. CASE StreamStep \/ LoseStream
  <2>1. live' = live /\ (live \/ stream.pc # "off")
    BY <1>4 DEF StreamStep, Connect, ReceiveSnapshot, ReceiveDelta, ReceiveUnchained, ApplyFrame,
                StreamClosed, LoseStream
  <2>2. fetch' = fetch \/ fetch' = [fetch EXCEPT !["resync"] = StartFetch]
    BY <1>4 DEF StreamStep, Connect, ReceiveSnapshot, ReceiveDelta, ReceiveUnchained, ApplyFrame,
                StreamClosed, LoseStream
  <2>3. live
    BY <2>1 DEF ReadyFirst
  <2>4. fetch'["ready"] = fetch["ready"]
    BY <2>2 DEF ClientOK, Fetchers
  <2> QED BY <2>1, <2>3, <2>4 DEF ReadyFirst
<1>5. CASE PollTick
  <2>1. live /\ live' /\ fetch'["ready"] = fetch["ready"]
    BY <1>5 DEF PollTick, ClientOK, Fetchers
  <2> QED BY <2>1 DEF ReadyFirst
<1>6. ASSUME NEW f \in Fetchers, FetchStep(f) PROVE ReadyFirst'
  <2>1. f = "ready" => /\ ~live /\ UNCHANGED <<current, live, stream, handler>>
                       /\ fetch'["poll"] = fetch["poll"] /\ fetch'["resync"] = fetch["resync"]
    <3> SUFFICES ASSUME f = "ready"
                 PROVE  /\ ~live /\ UNCHANGED <<current, live, stream, handler>>
                        /\ fetch'["poll"] = fetch["poll"] /\ fetch'["resync"] = fetch["resync"]
      OBVIOUS
    <3>1. FetchEnvironment("ready") \/ FetchVersion("ready")
      BY <1>6 DEF FetchStep, FetchApply, FetchGivesUp
    <3>2. fetch["ready"].pc # "idle"
      BY <3>1 DEF FetchEnvironment, FetchVersion
    <3>3. ~live
      BY <3>2 DEF ReadyFirst, IdleFetch
    <3>4. UNCHANGED <<current, live, stream, handler>>
          /\ \A g \in Fetchers \ {"ready"} : fetch'[g] = fetch[g]
      BY <3>1 DEF FetchEnvironment, FetchVersion, ClientOK
    <3> QED BY <3>3, <3>4 DEF Fetchers
  <2>2. f # "ready" => live /\ live' /\ fetch'["ready"] = fetch["ready"]
    <3>1. fetch[f].pc # "idle" /\ live' = live
      BY <1>6 DEF FetchStep, FetchEnvironment, FetchVersion, FetchApply, FetchGivesUp
    <3>2. f # "ready" => live
      BY <3>1 DEF ReadyFirst, Fetchers
    <3>3. f # "ready" => fetch'["ready"] = fetch["ready"]
      BY <1>6 DEF FetchStep, FetchEnvironment, FetchVersion, FetchApply, FetchGivesUp, FetchDone,
                  ClientOK, Fetchers
    <3> QED BY <3>1, <3>2, <3>3
  <2> QED BY <2>1, <2>2 DEF ReadyFirst
<1>7. CASE Ready
  <2>1. live' /\ fetch'["ready"] = IdleFetch
    BY <1>7 DEF Ready, ReadyLoads, FetchDone, ClientOK, Fetchers
  <2> QED BY <2>1 DEF ReadyFirst
<1>8. CASE (\E c \in Contents : Commit(c)) \/ ListenerStep \/ LoseSession \/ LoadFails \/ UNCHANGED vars
  BY <1>1, <1>8 DEF Commit, ListenerStep, Reconnect, LoadEnvironment, LoadVersion, PublishSnapshot,
                    LoseSession, LoadFails, vars
<1> QED BY <1>2, <1>3, <1>4, <1>5, <1>6, <1>7, <1>8 DEF Next, Fault

\* Ready is the one way round the gate, and it is over before anything else starts.
LEMMA SwapsAreNewer ==
  ASSUME ServerOK, ConnectionOK, ClientOK, [Next]_vars, ReadyFirst
  PROVE  \/ current' = current
         \/ current'.revision > current.revision /\ InFlight(current')
         \/ /\ ~live /\ current = EmptySnapshot /\ log' = log /\ handler' = handler
            /\ current' = EmptySnapshot \/ InFlight(current')
<1> USE DEF server, connection, client
<1>1. ASSUME NEW s \in Snapshots, InFlight(s), Apply(s)
      PROVE  current' = current \/ (current'.revision > current.revision /\ InFlight(current'))
  BY <1>1 DEF Apply
<1>2. CASE ApplyFrame
  <2>1. stream.snap \in Snapshots /\ InFlight(stream.snap) /\ Apply(stream.snap)
    BY <1>2 DEF ApplyFrame, InFlight, ClientOK
  <2> QED BY <1>1, <2>1
<1>3. ASSUME NEW f \in Fetchers, FetchApply(f)
      PROVE  current' = current \/ (current'.revision > current.revision /\ InFlight(current'))
  <2>1. fetch[f].snap \in Snapshots /\ InFlight(fetch[f].snap) /\ Apply(fetch[f].snap)
    BY <1>3 DEF FetchApply, InFlight, ClientOK
  <2> QED BY <1>1, <2>1
<1>4. CASE Ready
  <2>1. ~live /\ current = EmptySnapshot
    BY <1>4 DEF Ready, ReadyFirst, IdleFetch
  <2>2. current' = EmptySnapshot \/ InFlight(current')
    <3>1. CASE fetch["ready"].pc = "answer" /\ ReadyLoads(fetch["ready"].snap)
      BY <3>1 DEF ReadyLoads, InFlight, Fetchers
    <3>2. CASE ReadyLoads(EmptySnapshot)
      BY <3>2 DEF ReadyLoads
    <3> QED BY <1>4, <3>1, <3>2 DEF Ready
  <2>3. log' = log /\ handler' = handler
    BY <1>4 DEF Ready, ReadyLoads
  <2> QED BY <2>1, <2>2, <2>3
<1>5. \/ current' = current \/ ApplyFrame \/ Ready
      \/ \E f \in Fetchers : FetchApply(f)
  BY DEF Next, vars, ListenerStep, HandlerStep, StreamStep, FetchStep, Fault, Commit,
         LoseSession, Reconnect, LoadEnvironment, LoadVersion, LoadFails, PublishSnapshot,
         StreamEnvironment, Subscribe, ReloadEnvironment, ReloadFails, SkipInitial, SendInitial,
         InitialFails, Forward, EndStream, Connect, ReceiveSnapshot, ReceiveDelta,
         ReceiveUnchained, StreamClosed, LoseStream, PollTick,
         FetchEnvironment, FetchVersion, FetchGivesUp
<1> QED BY <1>2, <1>3, <1>4, <1>5

LEMMA SinceIsHeldStep ==
  ASSUME ServerOK, ConnectionOK, ClientOK, ClientOK', [Next]_vars, ReadyFirst, SinceIsHeld
  PROVE  SinceIsHeld'
<1> USE DEF server, connection, client
<1>1. current.revision \in Nat /\ current'.revision \in Nat /\ handler.since \in Nat
  BY DEF ClientOK, ConnectionOK, Snapshots
<1>2. current'.revision >= current.revision
  BY <1>1, SwapsAreNewer DEF EmptySnapshot
<1>3. CASE handler'.since = handler.since \/ handler'.since = 0
  BY <1>1, <1>2, <1>3 DEF SinceIsHeld
<1>4. ASSUME NEW deltas \in Modes, Connect(deltas) PROVE SinceIsHeld'
  <2>1. handler'.since = current.revision /\ current' = current
    BY <1>4 DEF Connect, IdleHandler
  <2> QED BY <1>1, <2>1 DEF SinceIsHeld
<1>5. ASSUME NEW x, WriteFrame(x) PROVE handler'.since = handler.since
  <2>1. CASE handler.deltas
    BY <1>5, <2>1 DEF WriteFrame, Baseline, ConnectionOK
  <2>2. CASE ~handler.deltas
    BY <1>5, <2>2 DEF WriteFrame, Baseline, ConnectionOK
  <2> QED BY <2>1, <2>2
<1>6. CASE HandlerStep
  <2>1. CASE SendInitial \/ Forward
    BY <1>3, <1>5, <2>1 DEF SendInitial, Forward
  <2>2. CASE StreamEnvironment \/ Subscribe \/ ReloadEnvironment \/ SkipInitial
    <3>1. handler'.since = handler.since
      BY <2>2 DEF StreamEnvironment, Subscribe, ReloadEnvironment, SkipInitial, ConnectionOK
    <3> QED BY <1>3, <3>1
  <2> QED BY <1>6, <2>1, <2>2 DEF HandlerStep
<1>7. CASE ReloadFails \/ InitialFails
  <2>1. handler'.since = handler.since
    BY <1>7 DEF ReloadFails, InitialFails, ConnectionOK
  <2> QED BY <1>3, <2>1
<1>8. CASE EndStream \/ LoseStream
  <2>1. handler'.since = 0
    BY <1>8 DEF EndStream, LoseStream, IdleHandler
  <2> QED BY <1>3, <2>1
<1>9. CASE handler' = handler
  BY <1>3, <1>9
<1>10. \/ handler' = handler \/ HandlerStep \/ ReloadFails \/ InitialFails \/ EndStream \/ LoseStream
       \/ \E deltas \in Modes : Connect(deltas)
  BY DEF Next, vars, ListenerStep, StreamStep, FetchStep, Fault, Commit,
         LoseSession, Reconnect, LoadEnvironment, LoadVersion, LoadFails, PublishSnapshot,
         ReceiveSnapshot, ReceiveDelta, ApplyFrame,
         ReceiveUnchained, StreamClosed, PollTick, Ready, ReadyLoads,
         FetchEnvironment, FetchVersion, FetchApply, FetchGivesUp
<1> QED BY <1>4, <1>6, <1>7, <1>8, <1>9, <1>10

LEMMA ResyncWaitedStep ==
  ASSUME ServerOK, ConnectionOK, ClientOK, [Next]_vars, ResyncWaited
  PROVE  ResyncWaited'
<1> USE DEF server, connection, client
<1>1. CASE UNCHANGED <<stream, fetch>>
  BY <1>1 DEF ResyncWaited
<1>2. ASSUME UNCHANGED fetch, stream.pc # "resync", stream'.pc # "resync" PROVE ResyncWaited'
  BY <1>2 DEF ResyncWaited
<1>3. ASSUME NEW deltas \in Modes, Connect(deltas) PROVE ResyncWaited'
  BY <1>2, <1>3 DEF Connect, OpenStream
<1>4. CASE ReceiveSnapshot \/ ReceiveDelta
  <2>1. UNCHANGED fetch /\ stream.pc = "open" /\ stream'.pc = "apply"
    BY <1>4 DEF ReceiveSnapshot, ReceiveDelta
  <2> QED BY <1>2, <2>1
<1>5. CASE ReceiveUnchained
  <2>1. fetch'["resync"].pc = "environment" /\ stream'.pc = "resync"
    BY <1>5 DEF ReceiveUnchained, StartFetch, OpenStream, ClientOK, Fetchers
  <2> QED BY <2>1 DEF ResyncWaited
<1>6. CASE ApplyFrame \/ StreamClosed \/ LoseStream
  BY <1>2, <1>6 DEF ApplyFrame, StreamClosed, LoseStream, OpenStream, IdleStream
<1>7. CASE PollTick
  <2>1. fetch'["resync"] = fetch["resync"] /\ UNCHANGED stream
    BY <1>7 DEF PollTick, ClientOK, Fetchers
  <2> QED BY <2>1 DEF ResyncWaited
<1>8. ASSUME NEW f \in Fetchers, FetchEnvironment(f) \/ FetchVersion(f) PROVE ResyncWaited'
  <2>1. \/ fetch'["resync"] = fetch["resync"]
        \/ fetch'["resync"].pc # "idle" /\ fetch["resync"].pc # "idle"
    <3>1. CASE f = "resync"
      BY <1>8, <3>1 DEF FetchEnvironment, FetchVersion, ClientOK
    <3>2. CASE f # "resync"
      BY <1>8, <3>2 DEF FetchEnvironment, FetchVersion, ClientOK, Fetchers
    <3> QED BY <3>1, <3>2
  <2>2. UNCHANGED stream
    BY <1>8 DEF FetchEnvironment, FetchVersion
  <2> QED BY <2>1, <2>2 DEF ResyncWaited
<1>9. ASSUME NEW f \in Fetchers, FetchDone(f) PROVE ResyncWaited'
  <2>1. CASE f = "resync"
    <3>1. fetch'["resync"].pc = "idle" /\ stream'.pc = "open"
      BY <1>9, <2>1 DEF FetchDone, IdleFetch, OpenStream, ClientOK, Fetchers
    <3> QED BY <3>1 DEF ResyncWaited
  <2>2. CASE f # "resync"
    <3>1. fetch'["resync"] = fetch["resync"] /\ UNCHANGED stream
      BY <1>9, <2>2 DEF FetchDone, ClientOK, Fetchers
    <3> QED BY <3>1 DEF ResyncWaited
  <2> QED BY <2>1, <2>2
<1>10. CASE Ready
  <2>1. FetchDone("ready") /\ "ready" \in Fetchers
    BY <1>10 DEF Ready, ReadyLoads, Fetchers
  <2> QED BY <1>9, <2>1
<1>11. ASSUME NEW f \in Fetchers, FetchStep(f) PROVE ResyncWaited'
  BY <1>8, <1>9, <1>11 DEF FetchStep, FetchApply, FetchGivesUp
<1>12. \/ UNCHANGED <<stream, fetch>> \/ StreamStep \/ LoseStream \/ PollTick \/ Ready
       \/ \E f \in Fetchers : FetchStep(f)
  BY DEF Next, vars, ListenerStep, HandlerStep, Fault, Commit,
         LoseSession, Reconnect, LoadEnvironment, LoadVersion, LoadFails, PublishSnapshot,
         StreamEnvironment, Subscribe, ReloadEnvironment, ReloadFails, SkipInitial, SendInitial,
         InitialFails, Forward, EndStream
<1> QED BY <1>1, <1>3, <1>4, <1>5, <1>6, <1>7, <1>10, <1>11, <1>12 DEF StreamStep

LEMMA ClientInvInductive ==
  /\ Init => ClientInv
  /\ TypeInv /\ TypeInv' /\ ClientInv /\ [Next]_vars => ClientInv'
<1>1. Init => ClientInv
  <2> SUFFICES ASSUME Init PROVE ClientInv
    OBVIOUS
  <2>1. ReadyFirst
    BY DEF Init, ReadyFirst, IdleStream, IdleHandler, IdleFetch, Fetchers
  <2>2. SinceIsHeld
    BY DEF Init, SinceIsHeld, IdleHandler, EmptySnapshot
  <2>3. ResyncWaited
    BY DEF Init, ResyncWaited, IdleStream, IdleFetch, Fetchers
  <2> QED BY <2>1, <2>2, <2>3 DEF ClientInv
<1>2. TypeInv /\ TypeInv' /\ ClientInv /\ [Next]_vars => ClientInv'
  <2> SUFFICES ASSUME ServerOK, ConnectionOK, ClientOK, ClientOK', [Next]_vars,
                      ReadyFirst, SinceIsHeld, ResyncWaited
               PROVE  ReadyFirst' /\ SinceIsHeld' /\ ResyncWaited'
    BY DEF ClientInv, TypeInv, TypeOK, LogTypeOK, ServerOK, ConnectionOK, ClientOK
  <2> QED BY ReadyFirstStep, SinceIsHeldStep, ResyncWaitedStep
<1> QED BY <1>1, <1>2

\* The property of the runs, for any buffer and any number of writes: once Ready has
\* returned the snapshot only ever moves to a strictly newer revision, whatever order
\* the answers of stream, resync and poll arrive in.
THEOREM DeliveryOnlyNewer == Spec => OnlyNewerIsSwappedIn
<1>1. TypeInv /\ ClientInv /\ [Next]_vars
        => [live /\ current' # current => current'.revision > current.revision]_vars
  <2> SUFFICES ASSUME ServerOK, ConnectionOK, ClientOK, [Next]_vars, ReadyFirst,
                      live, current' # current
               PROVE  current'.revision > current.revision
    BY TypeParts DEF ClientInv
  <2> QED BY SwapsAreNewer
<1> QED BY <1>1, InitType, StepType, ClientInvInductive, PTL DEF Spec, OnlyNewerIsSwappedIn

-----------------------------------------------------------------------------
(* Nothing runs ahead of the database.                                     *)

KnownInv ==
  /\ \A s \in Snapshots : InFlight(s) => s.revision <= Len(log)
  /\ \A r \in Nat : HalfRead(r) => r <= Len(log)
  /\ \A d \in Deltas : DeltaInFlight(d) => d.revision <= Len(log)
  /\ handler.revision <= Len(log)

LEMMA HandlerRevision ==
  ASSUME ServerOK, ConnectionOK, ClientOK, [Next]_vars
  PROVE  handler'.revision \in {0, handler.revision, DeliveryRevision}
<1> USE DEF server, connection, client
<1>1. ASSUME NEW x, WriteFrame(x) PROVE handler'.revision = handler.revision
  <2>1. CASE handler.deltas
    BY <1>1, <2>1 DEF WriteFrame, Baseline, ConnectionOK
  <2>2. CASE ~handler.deltas
    BY <1>1, <2>2 DEF WriteFrame, Baseline, ConnectionOK
  <2> QED BY <2>1, <2>2
<1>2. CASE SendInitial \/ Forward
  BY <1>1, <1>2 DEF SendInitial, Forward
<1>3. CASE StreamEnvironment \/ ReloadEnvironment
  BY <1>3 DEF StreamEnvironment, ReloadEnvironment, ConnectionOK
<1>4. CASE Subscribe \/ SkipInitial \/ ReloadFails \/ InitialFails
  <2>1. handler'.revision = handler.revision
    BY <1>4 DEF Subscribe, SkipInitial, ReloadFails, InitialFails, ConnectionOK
  <2> QED BY <2>1
<1>5. CASE EndStream \/ LoseStream \/ \E deltas \in Modes : Connect(deltas)
  <2>1. EndStream \/ LoseStream => handler'.revision = 0
    BY DEF EndStream, LoseStream, IdleHandler
  <2>2. ASSUME NEW deltas \in Modes, Connect(deltas) PROVE handler'.revision = 0
    BY <2>2 DEF Connect, IdleHandler
  <2> QED BY <1>5, <2>1, <2>2
<1>6. CASE handler' = handler
  BY <1>6
<1>7. \/ handler' = handler
      \/ SendInitial \/ Forward \/ StreamEnvironment \/ ReloadEnvironment
      \/ Subscribe \/ SkipInitial \/ ReloadFails \/ InitialFails \/ EndStream \/ LoseStream
      \/ \E deltas \in Modes : Connect(deltas)
  BY DEF Next, vars, ListenerStep, HandlerStep, StreamStep, FetchStep, Fault, Commit,
         LoseSession, Reconnect, LoadEnvironment, LoadVersion, LoadFails, PublishSnapshot,
         ReceiveSnapshot, ReceiveDelta, ApplyFrame,
         ReceiveUnchained, StreamClosed, PollTick, Ready, ReadyLoads,
         FetchEnvironment, FetchVersion, FetchApply, FetchGivesUp
<1> QED BY <1>2, <1>3, <1>4, <1>5, <1>6, <1>7

LEMMA KnownInvStep ==
  ASSUME ServerOK, ConnectionOK, ClientOK, [Next]_vars, KnownInv
  PROVE  KnownInv'
<1>1. Len(log) \in Nat /\ Len(log') \in Nat /\ Len(log) <= Len(log')
  BY LogGrows
<1>2. \A s : Built(s) => s \in Snapshots /\ s.revision <= Len(log)
  BY InFlightTyped DEF KnownInv
<1>3. ASSUME NEW d \in Deltas, DeltaInFlight(d) PROVE d.revision <= Len(log)
  BY <1>3 DEF KnownInv
<1>4. ASSUME NEW s \in Snapshots, InFlight(s)' PROVE s.revision <= Len(log')
  <2>1. InFlight(s) \/ Built(s) \/ Patched(s) \/ s = EmptySnapshot
    BY <1>4, Flow
  <2>2. CASE InFlight(s) \/ Built(s)
    BY <1>1, <1>2, <2>2 DEF KnownInv, Snapshots
  <2>3. CASE Patched(s)
    <3>1. PICK d \in Deltas : DeltaInFlight(d) /\ s = ApplyUnchecked(current, d)
      BY <2>3 DEF Patched
    <3>2. s.revision = d.revision /\ d.revision \in Nat
      BY <3>1 DEF ApplyUnchecked, Deltas
    <3> QED BY <1>1, <1>3, <3>1, <3>2
  <2>4. CASE s = EmptySnapshot
    BY <1>1, <2>4 DEF EmptySnapshot
  <2> QED BY <2>1, <2>2, <2>3, <2>4
<1>5. ASSUME NEW r \in Nat, HalfRead(r)' PROVE r <= Len(log')
  <2>1. HalfRead(r) \/ r = Len(log) \/ r = handler.revision
    BY <1>5, HalfReadFlow DEF DeliveryRevision
  <2>2. r <= Len(log)
    BY <1>1, <2>1 DEF KnownInv
  <2> QED BY <1>1, <2>2
<1>6. ASSUME NEW d \in Deltas, DeltaInFlight(d)' PROVE d.revision <= Len(log')
  <2>1. CASE DeltaInFlight(d)
    BY <1>1, <2>1 DEF KnownInv, Deltas
  <2>2. CASE \E old, new \in Snapshots : /\ InFlight(old) /\ (InFlight(new) \/ Built(new))
                                        /\ d = ComputeDelta(old, new)
    <3>1. PICK old \in Snapshots, new \in Snapshots :
                 (InFlight(new) \/ Built(new)) /\ d = ComputeDelta(old, new)
      BY <2>2
    <3>2. d.revision = new.revision /\ new.revision \in Nat /\ new.revision <= Len(log)
      BY <1>2, <3>1 DEF KnownInv, ComputeDelta, Snapshots
    <3> QED BY <1>1, <3>2
  <2> QED BY <1>6, <2>1, <2>2, DeltaFlow
<1>7. handler'.revision <= Len(log')
  BY <1>1, HandlerRevision DEF KnownInv, DeliveryRevision, ConnectionOK
<1> QED BY <1>4, <1>5, <1>6, <1>7 DEF KnownInv

\* At the start nothing is in flight but the empty snapshot.
LEMMA InitInFlight ==
  ASSUME Init
  PROVE  /\ \A s : InFlight(s) => s = EmptySnapshot
         /\ \A r : ~HalfRead(r)
         /\ \A d : ~DeltaInFlight(d)
<1>1. \A s : InFlight(s) => s = EmptySnapshot
  BY RangeOfEmpty DEF Init, InFlight, IdleListener, IdleHandler, IdleStream, IdleFetch, StartFetch
<1>2. \A r : ~HalfRead(r)
  BY DEF Init, HalfRead, IdleListener, IdleHandler, IdleFetch, StartFetch
<1>3. \A d : ~DeltaInFlight(d)
  BY RangeOfEmpty DEF Init, DeltaInFlight
<1> QED BY <1>1, <1>2, <1>3

LEMMA KnownInvInductive ==
  /\ Init => KnownInv
  /\ TypeInv /\ KnownInv /\ [Next]_vars => KnownInv'
<1>1. Init => KnownInv
  <2> SUFFICES ASSUME Init PROVE KnownInv
    OBVIOUS
  <2>1. log = <<>> /\ handler.revision = 0
    BY DEF Init, LogInit, IdleHandler
  <2> QED BY <2>1, InitInFlight DEF KnownInv, EmptySnapshot
<1>2. TypeInv /\ KnownInv /\ [Next]_vars => KnownInv'
  BY KnownInvStep, TypeParts
<1> QED BY <1>1, <1>2

-----------------------------------------------------------------------------
(* No update is missed.                                                    *)

\* What is queued for the client is no newer than what the Listener is loading, which
\* is therefore what a full channel must keep.
OrderInv ==
  listener.pc # "wait" => \A s \in Snapshots : s \in Range(channel) => s.revision <= listener.snap.revision

\* The latest revision is on its way to the client, or there.
Reaching ==
  \/ pending > 0
  \/ listener.pc # "wait" /\ listener.snap.revision = DeliveryRevision
  \/ handler.pc = "initial" /\ handler.revision = DeliveryRevision
  \/ \E s \in Snapshots : s \in Range(channel) /\ s.revision = DeliveryRevision
  \/ \E s \in Snapshots : SnapshotFrame(s) \in Range(wire) /\ s.revision = DeliveryRevision
  \/ \E d \in Deltas : DeltaInFlight(d) /\ d.revision = DeliveryRevision
  \/ stream.pc = "apply" /\ stream.snap.revision = DeliveryRevision
  \/ fetch["resync"].pc = "environment"
  \/ fetch["resync"].pc \in {"version", "answer"} /\ fetch["resync"].snap.revision = DeliveryRevision
  \/ current.revision = DeliveryRevision

\* Once handleStream has reloaded the environment, as long as nothing was lost.
ReachInv == ~missed /\ handler.pc \in {"initial", "loop"} => Reaching

LEMMA OrderInvStep ==
  ASSUME ServerOK, ConnectionOK, ClientOK, [Next]_vars, KnownInv, OrderInv
  PROVE  OrderInv'
<1> USE DEF server, connection, client
<1>1. CASE LoadEnvironment
  <2>1. listener'.snap.revision = Len(log) /\ channel' = channel
    BY <1>1, ReadsTyped DEF LoadEnvironment, DeliveryRevision
  <2>2. \A s \in Snapshots : s \in Range(channel) => s.revision <= Len(log)
    BY DEF KnownInv, InFlight
  <2> QED BY <2>1, <2>2 DEF OrderInv
<1>2. CASE LoadVersion
  <2>1. listener.snap \in Snapshots /\ log # <<>> /\ channel' = channel
    BY <1>2 DEF LoadVersion, ServerOK
  <2>2. listener'.snap.revision = listener.snap.revision /\ listener.pc # "wait"
    BY <1>2, <2>1, ReadsTyped DEF LoadVersion
  <2> QED BY <2>1, <2>2 DEF OrderInv
<1>3. CASE LoadFails \/ PublishSnapshot
  <2>1. listener'.pc = "wait"
    BY <1>3 DEF LoadFails, PublishSnapshot, IdleListener
  <2> QED BY <2>1 DEF OrderInv
<1>4. CASE listener' = listener /\ \A x : x \in Range(channel)' => x \in Range(channel)
  BY <1>4 DEF OrderInv
<1>5. CASE Forward
  <2>1. channel \in Seq(Snapshots) /\ channel # <<>>
    BY <1>5 DEF Forward, ConnectionOK
  <2>2. \A x : x \in Range(channel)' => x \in Range(channel)
    BY <1>5, <2>1, RangeOfTail DEF Forward
  <2> QED BY <1>4, <1>5, <2>2 DEF Forward
<1>6. CASE EndStream \/ LoseStream
  <2>1. \A x : x \in Range(channel)' => x \in Range(channel)
    BY <1>6, RangeOfEmpty DEF EndStream, LoseStream
  <2> QED BY <1>4, <1>6, <2>1 DEF EndStream, LoseStream
<1>7. \/ UNCHANGED <<listener, channel>>
      \/ LoadEnvironment \/ LoadVersion \/ LoadFails \/ PublishSnapshot
      \/ Forward \/ EndStream \/ LoseStream
  BY DEF Next, vars, ListenerStep, HandlerStep, StreamStep, FetchStep, Fault, Commit,
         LoseSession, Reconnect, StreamEnvironment, Subscribe, ReloadEnvironment, ReloadFails,
         SkipInitial, SendInitial, InitialFails, Connect, ReceiveSnapshot, ReceiveDelta,
         ReceiveUnchained, ApplyFrame, StreamClosed, PollTick,
         FetchEnvironment, FetchVersion, FetchApply, FetchGivesUp, Ready, ReadyLoads
<1> QED BY <1>1, <1>2, <1>3, <1>4, <1>5, <1>6, <1>7

\* A frame carries the revision of the snapshot it is made from.
LEMMA FrameRevision ==
  ASSUME ServerOK, ConnectionOK, ClientOK, NEW x \in Snapshots, WriteFrame(x),
         x.revision = DeliveryRevision, DeliveryRevision' = DeliveryRevision
  PROVE  Reaching'
<1>1. Frame(x) \in Range(wire)'
  BY RangeOfWrite
<1>2. CASE Frame(x) = SnapshotFrame(x)
  BY <1>1, <1>2 DEF Reaching
<1>3. CASE Frame(x) = DeltaFrame(ComputeDelta(handler.lastSent, x))
  <2>1. ComputeDelta(handler.lastSent, x) \in Deltas
        /\ ComputeDelta(handler.lastSent, x).revision = x.revision
    BY DeltasTyped DEF ComputeDelta, ConnectionOK
  <2> QED BY <1>1, <1>3, <2>1 DEF Reaching, DeltaInFlight
<1> QED BY <1>2, <1>3, FrameCases

\* Each step hands the latest revision on, or records the loss, or leaves it where it is.
LEMMA ReachInvStep ==
  ASSUME ServerOK, ConnectionOK, ClientOK, [Next]_vars, KnownInv, OrderInv,
         ReadyFirst, SinceIsHeld, ResyncWaited, ReachInv
  PROVE  ReachInv'
<1> USE DEF server, connection, client
<1> SUFFICES ASSUME ~missed', handler'.pc \in {"initial", "loop"}
             PROVE  Reaching'
  BY DEF ReachInv
<1>0. DeliveryRevision \in Nat /\ current.revision \in Nat /\ current.revision <= DeliveryRevision
  BY DEF KnownInv, InFlight, ServerOK, ClientOK, Snapshots, DeliveryRevision
<1>1. ASSUME NEW c \in Contents, Commit(c) PROVE Reaching'
  <2>1. session
    BY <1>1 DEF Commit
  <2>2. pending' = pending + 1 /\ pending \in Nat
    BY <1>1, <2>1 DEF Commit, ServerOK
  <2>3. pending' > 0
    BY <2>2
  <2> QED BY <2>3 DEF Reaching
<1>2. CASE LoseSession
  <2>1. ~missed /\ ~(pending > 0) /\ handler' = handler
    BY <1>2 DEF LoseSession
  <2>2. Reaching
    BY <2>1 DEF ReachInv
  <2> QED BY <1>2, <2>1, <2>2 DEF LoseSession, Reaching, DeliveryRevision, DeltaInFlight
<1>3. CASE Reconnect
  BY <1>3 DEF Reconnect, ReachInv, Reaching, DeliveryRevision, DeltaInFlight
<1>4. CASE LoadEnvironment
  <2>1. listener'.pc = "version" /\ listener'.snap.revision = DeliveryRevision'
    BY <1>4, ReadsTyped DEF LoadEnvironment, DeliveryRevision
  <2> QED BY <2>1 DEF Reaching
<1>5. CASE LoadVersion
  <2>1. listener.snap \in Snapshots /\ log # <<>>
    BY <1>5 DEF LoadVersion, ServerOK
  <2>2. listener'.snap.revision = listener.snap.revision /\ listener'.pc # "wait"
    BY <1>5, <2>1, ReadsTyped DEF LoadVersion
  <2>3. Reaching
    BY <1>5 DEF LoadVersion, ReachInv
  <2> QED BY <1>5, <2>2, <2>3 DEF LoadVersion, Reaching, DeliveryRevision, DeltaInFlight
<1>6. CASE PublishSnapshot
  <2>1. listener.snap \in Snapshots /\ handler' = handler /\ log' = log /\ Reaching
    BY <1>6 DEF PublishSnapshot, ReachInv, ServerOK
  <2>2. channel' = Enqueue(channel, listener.snap)
    BY <1>6, <2>1 DEF PublishSnapshot, Subscribed
  <2>3. CASE listener.snap.revision = DeliveryRevision
    <3>1. listener.snap \in Range(channel)'
      BY <2>1, <2>2, RangeOfEnqueue
    <3> QED BY <2>1, <2>3, <3>1 DEF Reaching, DeliveryRevision
  <2>4. CASE \E s \in Snapshots : s \in Range(channel) /\ s.revision = DeliveryRevision
    <3>1. PICK s \in Snapshots : s \in Range(channel) /\ s.revision = DeliveryRevision
      BY <2>4
    <3>2. CASE s \in Range(channel)'
      BY <2>1, <3>1, <3>2 DEF Reaching, DeliveryRevision
    <3>3. CASE s \notin Range(channel)'
      <4>1. s.revision <= listener.snap.revision
        BY <1>6, <3>1 DEF PublishSnapshot, OrderInv
      <4>2. listener.snap.revision \in Nat /\ listener.snap.revision <= DeliveryRevision
        BY <1>6, <2>1 DEF PublishSnapshot, KnownInv, InFlight, DeliveryRevision, Snapshots
      <4>3. listener.snap.revision = DeliveryRevision
        BY <1>0, <3>1, <4>1, <4>2
      <4> QED BY <2>3, <4>3
    <3> QED BY <3>2, <3>3
  <2>5. CASE /\ listener.snap.revision # DeliveryRevision
             /\ ~\E s \in Snapshots : s \in Range(channel) /\ s.revision = DeliveryRevision
    BY <1>6, <2>1, <2>5 DEF PublishSnapshot, Reaching, DeliveryRevision, DeltaInFlight
  <2> QED BY <2>3, <2>4, <2>5
<1>7. CASE LoadFails \/ ReloadFails \/ InitialFails
  BY <1>7 DEF LoadFails, ReloadFails, InitialFails
<1>8. CASE StreamEnvironment \/ Subscribe \/ EndStream \/ LoseStream
  <2>1. StreamEnvironment \/ Subscribe => handler'.pc \in {"subscribe", "reload"}
    BY DEF StreamEnvironment, Subscribe, ConnectionOK
  <2>2. EndStream \/ LoseStream => handler'.pc = "off"
    BY DEF EndStream, LoseStream, IdleHandler
  <2> QED BY <1>8, <2>1, <2>2
<1>9. CASE ReloadEnvironment
  <2>1. handler'.pc = "initial" /\ handler'.revision = DeliveryRevision'
    BY <1>9 DEF ReloadEnvironment, ConnectionOK, DeliveryRevision
  <2> QED BY <2>1 DEF Reaching
<1>10. CASE SendInitial
  <2> DEFINE e == [EmptySnapshot EXCEPT !.revision = handler.revision]
  <2>1. e \in Snapshots /\ e.revision = handler.revision /\ log # <<>>
    BY <1>10, EmptyTyped DEF SendInitial, ConnectionOK, Snapshots, EmptySnapshot
  <2>2. ReadVersion(e) \in Snapshots /\ ReadVersion(e).revision = handler.revision
    <3>1. ReadVersion(e) \in Snapshots
          /\ ReadVersion(e) = [revision |-> e.revision, row |-> CurrentVersion]
      BY <2>1, ReadsTyped
    <3> QED BY <2>1, <3>1
  <2>3. WriteFrame(ReadVersion(e)) /\ DeliveryRevision' = DeliveryRevision /\ Reaching
    BY <1>10 DEF SendInitial, DeliveryRevision, ReachInv
  <2>4. CASE handler.revision = DeliveryRevision
    BY <2>2, <2>3, <2>4, FrameRevision
  <2>5. CASE handler.revision # DeliveryRevision
    <3>1. \A y : y \in Range(wire) => y \in Range(wire)'
      BY <2>2, <2>3, RangeOfWrite
    <3> QED BY <1>10, <2>3, <2>5, <3>1 DEF SendInitial, Reaching, DeltaInFlight
  <2> QED BY <2>4, <2>5
<1>11. CASE SkipInitial
  <2>1. UNCHANGED <<log, server, channel, wire, client>> /\ Reaching
    BY <1>11 DEF SkipInitial, ReachInv
  <2>2. CASE handler.revision = DeliveryRevision
    <3>1. handler.revision <= current.revision
      <4>1. CASE log = <<>>
        BY <1>0, <2>2, <4>1 DEF DeliveryRevision
      <4>2. CASE ~Behind(handler.since)
        BY <1>0, <4>2 DEF Behind, SinceIsHeld, ConnectionOK
      <4> QED BY <1>11, <4>1, <4>2 DEF SkipInitial
    <3>2. current'.revision = DeliveryRevision'
      BY <1>0, <2>1, <2>2, <3>1 DEF DeliveryRevision
    <3> QED BY <3>2 DEF Reaching
  <2>3. CASE handler.revision # DeliveryRevision
    BY <2>1, <2>3 DEF Reaching, DeliveryRevision, DeltaInFlight
  <2> QED BY <2>2, <2>3
<1>12. CASE Forward
  <2>1. channel \in Seq(Snapshots) /\ channel # <<>> /\ Head(channel) \in Snapshots
        /\ channel' = Tail(channel)
    BY <1>12 DEF Forward, ConnectionOK
  <2>2. \A x : x \in Range(channel) <=> x = Head(channel) \/ x \in Range(channel)'
    BY <2>1, RangeOfTail
  <2>3. WriteFrame(Head(channel)) /\ DeliveryRevision' = DeliveryRevision /\ Reaching
    BY <1>12 DEF Forward, DeliveryRevision, ReachInv
  <2>4. CASE Head(channel).revision = DeliveryRevision
    BY <2>1, <2>3, <2>4, FrameRevision
  <2>5. CASE Head(channel).revision # DeliveryRevision
    <3>1. \A y : y \in Range(wire) => y \in Range(wire)'
      BY <2>1, <2>3, RangeOfWrite
    <3>2. handler.pc # "initial"
      BY <1>12 DEF Forward
    <3> QED BY <1>12, <2>2, <2>3, <2>5, <3>1, <3>2 DEF Forward, Reaching, DeltaInFlight
  <2> QED BY <2>4, <2>5
<1>13. ASSUME NEW deltas \in Modes, Connect(deltas) PROVE Reaching'
  <2>1. handler'.pc = "arrived"
    BY <1>13 DEF Connect, IdleHandler
  <2> QED BY <2>1
<1>14. CASE ReceiveSnapshot
  <2>1. Reaching
    BY <1>14 DEF ReceiveSnapshot, ReachInv
  <2>2. wire \in Seq(Frames) /\ wire # <<>> /\ wire' = Tail(wire)
        /\ stream' = [pc |-> "apply", snap |-> Head(wire).snap] /\ stream.pc = "open"
    BY <1>14 DEF ReceiveSnapshot, ConnectionOK
  <2>3. \A x : x \in Range(wire) <=> x = Head(wire) \/ x \in Range(wire)'
    BY <2>2, RangeOfTail
  <2>4. \A s : SnapshotFrame(s) = Head(wire) => s = stream'.snap
    BY <2>2 DEF SnapshotFrame
  <2>5. \A d : DeltaFrame(d) # Head(wire)
    BY <1>14 DEF ReceiveSnapshot, DeltaFrame
  <2>6. UNCHANGED <<log, server, channel, handler, current, live, fetch>>
    BY <1>14 DEF ReceiveSnapshot
  <2>7. stream'.pc = "apply"
    BY <2>2
  <2>8. CASE stream'.snap.revision = DeliveryRevision
    BY <2>6, <2>7, <2>8 DEF Reaching, DeliveryRevision
  <2>9. CASE stream'.snap.revision # DeliveryRevision
    <3>1. \A s : SnapshotFrame(s) \in Range(wire) /\ s.revision = DeliveryRevision
                   => SnapshotFrame(s) \in Range(wire)'
      BY <2>3, <2>4, <2>9
    <3>2. \A d : DeltaInFlight(d) => DeltaInFlight(d)'
      BY <2>3, <2>5 DEF DeltaInFlight
    <3> QED BY <2>1, <2>2, <2>6, <3>1, <3>2 DEF Reaching, DeliveryRevision
  <2> QED BY <2>8, <2>9
<1>15. CASE ReceiveDelta
  <2>1. Reaching
    BY <1>15 DEF ReceiveDelta, ReachInv
  <2>2. wire \in Seq(Frames) /\ wire # <<>> /\ wire' = Tail(wire) /\ stream.pc = "open"
        /\ stream' = [pc |-> "apply", snap |-> ApplyUnchecked(current, Head(wire).delta)]
    BY <1>15 DEF ReceiveDelta, ConnectionOK
  <2>3. \A x : x \in Range(wire) <=> x = Head(wire) \/ x \in Range(wire)'
    BY <2>2, RangeOfTail
  <2>4. stream'.pc = "apply" /\ stream'.snap.revision = Head(wire).delta.revision
    BY <2>2 DEF ApplyUnchecked
  <2>5. \A s : SnapshotFrame(s) # Head(wire)
    BY <1>15 DEF ReceiveDelta, SnapshotFrame
  <2>6. \A d : DeltaFrame(d) = Head(wire) => d.revision = stream'.snap.revision
    BY <2>4 DEF DeltaFrame
  <2>7. UNCHANGED <<log, server, channel, handler, current, live, fetch>>
    BY <1>15 DEF ReceiveDelta
  <2>8. CASE stream'.snap.revision = DeliveryRevision
    BY <2>4, <2>7, <2>8 DEF Reaching, DeliveryRevision
  <2>9. CASE stream'.snap.revision # DeliveryRevision
    <3>1. \A s : SnapshotFrame(s) \in Range(wire) => SnapshotFrame(s) \in Range(wire)'
      BY <2>3, <2>5
    <3>2. \A d : DeltaInFlight(d) /\ d.revision = DeliveryRevision => DeltaInFlight(d)'
      BY <2>3, <2>6, <2>9 DEF DeltaInFlight
    <3> QED BY <2>1, <2>2, <2>7, <3>1, <3>2 DEF Reaching, DeliveryRevision
  <2> QED BY <2>8, <2>9
<1>16. CASE ReceiveUnchained
  <2>1. fetch'["resync"].pc = "environment"
    BY <1>16 DEF ReceiveUnchained, StartFetch, ClientOK, Fetchers
  <2> QED BY <2>1 DEF Reaching
\* The gate lets the latest revision in.
<1>17. ASSUME NEW s \in Snapshots, InFlight(s), Apply(s), log' = log,
              s.revision = DeliveryRevision \/ current.revision = DeliveryRevision
       PROVE  Reaching'
  <2>1. s.revision \in Nat /\ s.revision <= DeliveryRevision
    BY <1>17 DEF KnownInv, Snapshots, DeliveryRevision
  <2>2. current'.revision = DeliveryRevision
    BY <1>0, <1>17, <2>1 DEF Apply
  <2> QED BY <1>17, <2>2 DEF Reaching, DeliveryRevision
<1>18. CASE ApplyFrame
  <2>1. /\ stream.snap \in Snapshots /\ InFlight(stream.snap) /\ Apply(stream.snap)
        /\ UNCHANGED <<log, server, connection, live, fetch>> /\ stream'.pc = "open" /\ Reaching
    BY <1>18 DEF ApplyFrame, InFlight, ClientOK, OpenStream, ReachInv
  <2>2. CASE stream.snap.revision = DeliveryRevision \/ current.revision = DeliveryRevision
    BY <1>17, <2>1, <2>2
  <2>3. CASE ~(stream.snap.revision = DeliveryRevision \/ current.revision = DeliveryRevision)
    BY <2>1, <2>3 DEF Reaching, DeliveryRevision, DeltaInFlight
  <2> QED BY <2>2, <2>3
<1>19. CASE StreamClosed
  <2>1. handler'.pc = "off"
    BY <1>19 DEF StreamClosed
  <2> QED BY <2>1
<1>20. CASE PollTick
  <2>1. fetch'["resync"] = fetch["resync"] /\ Reaching
    BY <1>20 DEF PollTick, ClientOK, Fetchers, ReachInv
  <2> QED BY <1>20, <2>1 DEF PollTick, Reaching, DeliveryRevision, DeltaInFlight
<1>21. ASSUME NEW f \in Fetchers, FetchEnvironment(f) PROVE Reaching'
  <2>1. UNCHANGED <<log, server, connection, current, live, stream>> /\ Reaching
    BY <1>21 DEF FetchEnvironment, ReachInv
  <2>2. CASE f = "resync"
    <3>1. fetch'["resync"].pc = "version" /\ fetch'["resync"].snap.revision = DeliveryRevision'
      BY <1>21, <2>1, <2>2, ReadsTyped DEF FetchEnvironment, ClientOK, DeliveryRevision
    <3> QED BY <3>1 DEF Reaching
  <2>3. CASE f # "resync"
    <3>1. fetch'["resync"] = fetch["resync"]
      BY <1>21, <2>3 DEF FetchEnvironment, ClientOK, Fetchers
    <3> QED BY <2>1, <3>1 DEF Reaching, DeliveryRevision, DeltaInFlight
  <2> QED BY <2>2, <2>3
<1>22. ASSUME NEW f \in Fetchers, FetchVersion(f) PROVE Reaching'
  <2>1. UNCHANGED <<log, server, connection, current, live, stream>> /\ Reaching /\ log # <<>>
    BY <1>22 DEF FetchVersion, ReachInv
  <2>2. CASE f = "resync"
    <3>1. fetch["resync"].snap \in Snapshots /\ fetch["resync"].pc = "version"
      BY <1>22, <2>2 DEF FetchVersion, ClientOK
    <3>2. fetch' = [fetch EXCEPT !["resync"] =
                      [pc |-> "answer", snap |-> ReadVersion(fetch["resync"].snap)]]
      BY <1>22, <2>2 DEF FetchVersion
    <3>3. fetch'["resync"].pc = "answer"
          /\ fetch'["resync"].snap = ReadVersion(fetch["resync"].snap)
      BY <3>2 DEF ClientOK, Fetchers
    <3>4. fetch'["resync"].snap.revision = fetch["resync"].snap.revision
      BY <2>1, <3>1, <3>3, ReadsTyped
    <3> QED BY <2>1, <3>1, <3>3, <3>4 DEF Reaching, DeliveryRevision, DeltaInFlight
  <2>3. CASE f # "resync"
    <3>1. fetch'["resync"] = fetch["resync"]
      BY <1>22, <2>3 DEF FetchVersion, ClientOK, Fetchers
    <3> QED BY <2>1, <3>1 DEF Reaching, DeliveryRevision, DeltaInFlight
  <2> QED BY <2>2, <2>3
<1>23. ASSUME NEW f \in Fetchers, FetchDone(f)
       PROVE  /\ f # "resync" => UNCHANGED stream /\ fetch'["resync"] = fetch["resync"]
              /\ f = "resync" => stream'.pc = "open"
  BY <1>23 DEF FetchDone, OpenStream, ClientOK, Fetchers
<1>24. ASSUME NEW f \in Fetchers, FetchApply(f) PROVE Reaching'
  <2>1. /\ fetch[f].snap \in Snapshots /\ InFlight(fetch[f].snap) /\ Apply(fetch[f].snap)
        /\ UNCHANGED <<log, server, connection, live>> /\ Reaching /\ fetch[f].pc = "answer"
    BY <1>24 DEF FetchApply, InFlight, ClientOK, ReachInv
  <2>2. CASE fetch[f].snap.revision = DeliveryRevision \/ current.revision = DeliveryRevision
    BY <1>17, <2>1, <2>2
  <2>3. CASE f # "resync" /\ current.revision # DeliveryRevision
    <3>1. UNCHANGED stream /\ fetch'["resync"] = fetch["resync"]
      BY <1>23, <1>24, <2>3 DEF FetchApply
    <3> QED BY <2>1, <2>3, <3>1 DEF Reaching, DeliveryRevision, DeltaInFlight
  <2>4. CASE f = "resync" /\ fetch[f].snap.revision # DeliveryRevision
                         /\ current.revision # DeliveryRevision
    <3>1. stream.pc # "apply"
      BY <2>1, <2>4 DEF ResyncWaited
    <3> QED BY <2>1, <2>4, <3>1 DEF Reaching, DeliveryRevision, DeltaInFlight
  <2> QED BY <2>2, <2>3, <2>4
<1>25. ASSUME NEW f \in Fetchers, FetchGivesUp(f) PROVE Reaching'
  <2>1. f # "resync"
    BY <1>25 DEF FetchGivesUp
  <2>2. UNCHANGED stream /\ fetch'["resync"] = fetch["resync"]
    BY <1>23, <1>25, <2>1 DEF FetchGivesUp
  <2>3. ~missed /\ UNCHANGED <<log, session, pending, listener, connection, current, live>>
    BY <1>25 DEF FetchGivesUp
  <2>4. Reaching
    BY <2>3 DEF ReachInv
  <2> QED BY <2>2, <2>3, <2>4 DEF Reaching, DeliveryRevision, DeltaInFlight
<1>26. CASE Ready
  <2>1. ~live /\ handler.pc = "off"
    BY <1>26 DEF Ready, ReadyFirst, IdleFetch
  <2>2. handler'.pc = "off"
    BY <1>26, <2>1 DEF Ready, ReadyLoads
  <2> QED BY <2>2
<1>27. CASE UNCHANGED vars
  BY <1>27 DEF vars, ReachInv, Reaching, DeliveryRevision, DeltaInFlight
<1> QED BY <1>1, <1>2, <1>3, <1>4, <1>5, <1>6, <1>7, <1>8, <1>9, <1>10, <1>11, <1>12, <1>13,
           <1>14, <1>15, <1>16, <1>18, <1>19, <1>20, <1>21, <1>22, <1>24, <1>25, <1>26, <1>27
        DEF Next, ListenerStep, HandlerStep, StreamStep, FetchStep, Fault

\* No update is missed, for any buffer, any number of writes, deltas or not and
\* whatever fails: a connection on which nothing is under way, and of which nothing was
\* lost, has delivered the latest revision.
THEOREM DeliveryQuietDelivered == Spec => []QuietMeansDelivered
<1> DEFINE Inv == ClientInv /\ KnownInv /\ OrderInv /\ ReachInv
<1>1. Init => OrderInv /\ ReachInv
  BY DEF Init, OrderInv, ReachInv, IdleListener, IdleHandler
<1>2. TypeInv /\ Inv /\ [Next]_vars => OrderInv' /\ ReachInv'
  <2> SUFFICES ASSUME ServerOK, ConnectionOK, ClientOK, [Next]_vars, KnownInv, OrderInv, ReachInv,
                      ReadyFirst, SinceIsHeld, ResyncWaited
               PROVE  OrderInv' /\ ReachInv'
    BY TypeParts DEF ClientInv
  <2> QED BY OrderInvStep, ReachInvStep
<1>3. TypeInv /\ Inv => QuietMeansDelivered
  <2> SUFFICES ASSUME ServerOK, ConnectionOK, ClientOK, ReachInv, ResyncWaited, Quiet, ~missed
               PROVE  current.revision = DeliveryRevision
    BY TypeParts DEF ClientInv, QuietMeansDelivered
  <2>1. fetch["resync"].pc = "idle"
    BY DEF Quiet, ResyncWaited
  <2>2. Reaching
    BY DEF Quiet, ReachInv
  <2>3. /\ pending = 0 /\ listener.pc = "wait" /\ handler.pc = "loop" /\ stream.pc = "open"
        /\ \A s : s \notin Range(channel) /\ SnapshotFrame(s) \notin Range(wire)
        /\ \A d : ~DeltaInFlight(d)
    BY RangeOfEmpty DEF Quiet, IdleListener, DeltaInFlight
  <2> QED BY <2>1, <2>2, <2>3 DEF Reaching
<1> QED BY <1>1, <1>2, <1>3, InitType, StepType, ClientInvInductive, KnownInvInductive, PTL
        DEF Spec

-----------------------------------------------------------------------------
(* Full frames: what is in flight is never staler than its revision.       *)

\* No delta is asked for, and none is sent.
FullFrames == handler.deltas = FALSE /\ \A d \in Deltas : ~DeltaInFlight(d)

Fresh == \A s \in Snapshots : InFlight(s) => s = EmptySnapshot \/ NotStale(s)

FreshInv == FullFrames /\ Fresh

LEMMA NotStaleForGood ==
  ASSUME ServerOK, [Next]_vars, NEW s \in Snapshots, NotStale(s)
  PROVE  NotStale(s)'
<1>1. /\ Len(log) \in Nat /\ Len(log') \in Nat /\ Len(log) <= Len(log')
      /\ \A i \in 1 .. Len(log) : log'[i] = log[i]
      /\ DOMAIN log = 1 .. Len(log) /\ DOMAIN log' = 1 .. Len(log')
  BY LogGrows
<1>2. s.revision \in Nat /\ s.revision <= Len(log)
  BY DEF NotStale, Snapshots
<1>3. PICK i \in DOMAIN log : i >= s.revision /\ log[i] = s.row
  BY DEF NotStale
<1>4. i \in DOMAIN log' /\ log'[i] = s.row
  BY <1>1, <1>3
<1> QED BY <1>1, <1>2, <1>3, <1>4 DEF NotStale

LEMMA DeltasAskedFor ==
  ASSUME ConnectionOK, [Next]_vars
  PROVE  handler'.deltas \in {handler.deltas, FALSE} \cup Modes
<1> USE DEF server, connection, client
<1>1. ASSUME NEW x, WriteFrame(x) PROVE handler'.deltas = handler.deltas
  <2>1. CASE handler.deltas
    BY <1>1, <2>1 DEF WriteFrame, Baseline, ConnectionOK
  <2>2. CASE ~handler.deltas
    BY <1>1, <2>2 DEF WriteFrame, Baseline, ConnectionOK
  <2> QED BY <2>1, <2>2
<1>2. CASE SendInitial \/ Forward
  BY <1>1, <1>2 DEF SendInitial, Forward
<1>3. CASE \/ StreamEnvironment \/ ReloadEnvironment \/ Subscribe \/ SkipInitial
           \/ ReloadFails \/ InitialFails
  <2>1. handler'.deltas = handler.deltas
    BY <1>3 DEF StreamEnvironment, ReloadEnvironment, Subscribe, SkipInitial, ReloadFails,
                InitialFails, ConnectionOK
  <2> QED BY <2>1
<1>4. CASE EndStream \/ LoseStream
  <2>1. handler'.deltas = FALSE
    BY <1>4 DEF EndStream, LoseStream, IdleHandler
  <2> QED BY <2>1
<1>5. ASSUME NEW deltas \in Modes, Connect(deltas)
      PROVE  handler'.deltas \in {handler.deltas, FALSE} \cup Modes
  <2>1. handler'.deltas = deltas
    BY <1>5 DEF Connect, IdleHandler
  <2> QED BY <2>1
<1>6. CASE handler' = handler
  BY <1>6
<1>7. \/ handler' = handler
      \/ SendInitial \/ Forward \/ StreamEnvironment \/ ReloadEnvironment
      \/ Subscribe \/ SkipInitial \/ ReloadFails \/ InitialFails \/ EndStream \/ LoseStream
      \/ \E deltas \in Modes : Connect(deltas)
  BY DEF Next, vars, ListenerStep, HandlerStep, StreamStep, FetchStep, Fault, Commit,
         LoseSession, Reconnect, LoadEnvironment, LoadVersion, LoadFails, PublishSnapshot,
         ReceiveSnapshot, ReceiveDelta, ApplyFrame,
         ReceiveUnchained, StreamClosed, PollTick, Ready, ReadyLoads,
         FetchEnvironment, FetchVersion, FetchApply, FetchGivesUp
<1> QED BY <1>2, <1>3, <1>4, <1>5, <1>6, <1>7

LEMMA FreshInvInductive ==
  ASSUME Modes \subseteq {FALSE}
  PROVE  /\ Init => FreshInv
         /\ TypeInv /\ KnownInv /\ FreshInv /\ [Next]_vars => FreshInv'
<1>1. Init => FreshInv
  <2> SUFFICES ASSUME Init PROVE FreshInv
    OBVIOUS
  <2>1. handler.deltas = FALSE
    BY DEF Init, IdleHandler
  <2> QED BY <2>1, InitInFlight DEF FreshInv, FullFrames, Fresh
<1>2. TypeInv /\ KnownInv /\ FreshInv /\ [Next]_vars => FreshInv'
  <2> SUFFICES ASSUME ServerOK, ConnectionOK, ClientOK, [Next]_vars, KnownInv, FullFrames, Fresh
               PROVE  FullFrames' /\ Fresh'
    BY TypeParts DEF FreshInv
  <2>1. handler'.deltas = FALSE
    BY DeltasAskedFor DEF FullFrames
  <2>2. FullFrames'
    BY <2>1, DeltaFlow DEF FullFrames
  <2>3. ASSUME NEW s \in Snapshots, InFlight(s)' PROVE s = EmptySnapshot \/ NotStale(s)'
    <3>1. InFlight(s) \/ Built(s) \/ Patched(s) \/ s = EmptySnapshot
      BY <2>3, Flow
    <3>2. CASE InFlight(s)
      BY <3>2, NotStaleForGood DEF Fresh
    <3>3. CASE Built(s)
      <4>1. s.row = log[Len(log)] /\ s.revision \in Nat /\ s.revision <= Len(log) /\ log # <<>>
        BY <3>3, InFlightTyped DEF Built, KnownInv, Snapshots
      <4>2. Len(log) \in DOMAIN log
        BY <4>1 DEF ServerOK
      <4>3. NotStale(s)
        BY <4>1, <4>2 DEF NotStale, ServerOK
      <4> QED BY <4>3, NotStaleForGood
    <3>4. ~Patched(s)
      BY DEF Patched, FullFrames
    <3> QED BY <3>1, <3>2, <3>3, <3>4
  <2> QED BY <2>2, <2>3 DEF Fresh
<1> QED BY <1>1, <1>2

\* With full frames the client never serves a row older than the revision it reports,
\* although every reader of the database loads the two separately.
THEOREM DeliveryNeverStaler ==
  ASSUME Modes \subseteq {FALSE}
  PROVE  Spec => []NeverStalerThanRevision
<1>1. /\ Init => FreshInv
      /\ TypeInv /\ KnownInv /\ FreshInv /\ [Next]_vars => FreshInv'
  BY FreshInvInductive
<1>2. TypeInv /\ FreshInv => NeverStalerThanRevision
  <2>1. TypeInv => current \in Snapshots
    BY DEF TypeInv, TypeOK
  <2> QED BY <2>1 DEF FreshInv, Fresh, InFlight, NeverStalerThanRevision
<1> QED BY <1>1, <1>2, InitType, StepType, KnownInvInductive, PTL DEF Spec

\* With full frames delivery implements ConfigFeed: every step is a write, a swap to a
\* newer revision, the first load of a row, or nothing the reader can see.
THEOREM DeliveryImplementsFeed ==
  ASSUME Modes \subseteq {FALSE}
  PROVE  Spec => ImplementsConfigFeed
<1>1. /\ Init => FreshInv
      /\ TypeInv /\ KnownInv /\ FreshInv /\ [Next]_vars => FreshInv'
  BY FreshInvInductive
<1>2. Init => Feed!FeedInit
  BY DEF Init, LogInit, EmptySnapshot, Feed!FeedInit, Feed!LogInit
<1>3. TypeInv /\ ClientInv /\ KnownInv /\ FreshInv /\ [Next]_vars => [Feed!FeedNext]_(Feed!feedVars)
  <2> SUFFICES ASSUME ServerOK, ConnectionOK, ClientOK, [Next]_vars, ReadyFirst, KnownInv, Fresh
               PROVE  Feed!FeedNext \/ UNCHANGED <<log, current.revision, current.row>>
    BY TypeParts DEF ClientInv, FreshInv, Feed!feedVars
  <2> USE DEF server, connection, client
  <2>1. current.revision \in Nat /\ Len(log) \in Nat /\ DOMAIN log = 1 .. Len(log)
    BY LogGrows DEF ClientOK, Snapshots
  <2>2. CASE log' # log
    <3>1. PICK c \in Contents : Commit(c)
      BY <2>2, LogSteps
    <3>2. Feed!Write
      BY <3>1 DEF Commit, Feed!Write, Feed!LogNext, Publish, Feed!Publish
    <3> QED BY <3>2 DEF Feed!FeedNext
  <2>3. CASE log' = log /\ current' = current
    BY <2>3
  <2>4. ASSUME NEW s \in Snapshots, s = current', s.revision > current.revision, NotStale(s),
               log' = log
        PROVE  Feed!Swap
    <3>1. s.revision \in Nat /\ s.revision <= Len(log)
      BY <2>4 DEF NotStale, Snapshots
    <3>2. current'.revision \in current.revision + 1 .. Len(log)
      BY <2>1, <2>4, <3>1
    <3>3. PICK i \in DOMAIN log : i >= s.revision /\ log[i] = s.row
      BY <2>4 DEF NotStale
    <3>4. i \in current'.revision .. Len(log) /\ current'.row = log[i]
      BY <2>1, <2>4, <3>1, <3>3
    <3> QED BY <2>4, <3>2, <3>4 DEF Feed!Swap
  <2>5. CASE log' = log /\ current'.revision > current.revision /\ InFlight(current')
    <3>1. current' \in Snapshots /\ current' # EmptySnapshot
      BY <2>1, <2>5, InFlightTyped DEF EmptySnapshot
    <3>2. NotStale(current')
      BY <2>5, <3>1 DEF Fresh
    <3> QED BY <2>4, <2>5, <3>1, <3>2 DEF Feed!FeedNext
  <2>6. CASE /\ log' = log /\ current = EmptySnapshot /\ current' # EmptySnapshot
             /\ InFlight(current')
    <3>1. current' \in Snapshots
      BY <2>6, InFlightTyped
    <3>2. NotStale(current')
      BY <2>6, <3>1 DEF Fresh
    <3>3. current.revision = 0 /\ current.row = EmptySnapshot.row /\ current'.revision \in Nat
      BY <2>6, <3>1 DEF EmptySnapshot, Snapshots
    <3>4. CASE current'.revision = 0
      <4>1. PICK i \in DOMAIN log : log[i] = current'.row
        BY <3>2 DEF NotStale
      <4>2. i \in 1 .. Len(log) /\ current'.row = log[i]
        BY <2>1, <4>1
      <4>3. Feed!FirstRow
        BY <2>6, <3>3, <3>4, <4>2 DEF Feed!FirstRow
      <4> QED BY <4>3 DEF Feed!FeedNext
    <3>5. CASE current'.revision # 0
      BY <2>4, <2>6, <3>1, <3>2, <3>3, <3>5 DEF Feed!FeedNext
    <3> QED BY <3>4, <3>5
  <2> QED BY <2>2, <2>3, <2>5, <2>6, SwapsAreNewer
<1> QED BY <1>1, <1>2, <1>3, InitType, StepType, ClientInvInductive, KnownInvInductive, PTL
        DEF Spec, ImplementsConfigFeed, Feed!FeedSpec

-----------------------------------------------------------------------------
(* Undisturbed reads: what is in flight is exactly what its revision made  *)
(* live, deltas included.                                                  *)

Exact(s) ==
  \/ s = EmptySnapshot
  \/ s.revision \in 1 .. Len(log) /\ s.row = log[s.revision]

ExactReads == \A r \in Nat : HalfRead(r) => r = Len(log)

ExactSnapshots == \A s \in Snapshots : InFlight(s) => Exact(s)

\* A delta was computed between two snapshots that were exact.
ExactDelta(d) ==
  \E old, new \in Snapshots : Exact(old) /\ Exact(new) /\ d = ComputeDelta(old, new)

ExactDeltas == \A d \in Deltas : DeltaInFlight(d) => ExactDelta(d)

ExactInv == ExactReads /\ ExactSnapshots /\ ExactDeltas

LEMMA ExactForGood ==
  ASSUME ServerOK, [Next]_vars, NEW s \in Snapshots, Exact(s)
  PROVE  Exact(s)'
<1>1. /\ Len(log) \in Nat /\ Len(log') \in Nat /\ Len(log) <= Len(log')
      /\ \A i \in 1 .. Len(log) : log'[i] = log[i]
  BY LogGrows
<1>2. CASE s = EmptySnapshot
  BY <1>2 DEF Exact
<1>3. CASE s.revision \in 1 .. Len(log) /\ s.row = log[s.revision]
  <2>1. s.revision \in 1 .. Len(log') /\ s.row = log'[s.revision]
    BY <1>1, <1>3
  <2> QED BY <2>1 DEF Exact
<1> QED BY <1>2, <1>3 DEF Exact

\* A revision names one exact snapshot, which is why comparing d.from with the revision
\* held is enough to apply a delta.
LEMMA ExactIsUnique ==
  ASSUME ServerOK, NEW a \in Snapshots, NEW b \in Snapshots, Exact(a), Exact(b),
         a.revision = b.revision
  PROVE  a = b
<1>1. EmptySnapshot.revision = 0 /\ Len(log) \in Nat
  BY DEF EmptySnapshot, ServerOK
<1>2. a = EmptySnapshot <=> a.revision = 0
  BY <1>1 DEF Exact
<1>3. b = EmptySnapshot <=> b.revision = 0
  BY <1>1 DEF Exact
<1>4. CASE a.revision = 0
  BY <1>2, <1>3, <1>4
<1>5. CASE a.revision # 0
  <2>1. a.row = log[a.revision] /\ b.row = log[b.revision]
    BY <1>2, <1>3, <1>5 DEF Exact
  <2> QED BY <2>1 DEF Snapshots
<1> QED BY <1>4, <1>5

LEMMA ExactInvStep ==
  ASSUME TornReads = FALSE, "reload" \notin Faults,
         ServerOK, ConnectionOK, ClientOK, [Next]_vars, ExactReads, ExactSnapshots, ExactDeltas
  PROVE  ExactReads' /\ ExactSnapshots' /\ ExactDeltas'
<1>1. ExactReads'
  <2>1. ASSUME NEW r \in Nat, HalfRead(r)' PROVE r = Len(log')
    <3>1. log' = log /\ (HalfRead(r) \/ r = DeliveryRevision)
      BY <2>1, HalfReadFlow
    <3> QED BY <3>1 DEF ExactReads, DeliveryRevision
  <2> QED BY <2>1 DEF ExactReads
<1>2. ASSUME NEW s, Built(s) PROVE s \in Snapshots /\ Exact(s)
  <2>1. s \in Snapshots /\ s.row = log[Len(log)] /\ HalfRead(s.revision) /\ log # <<>>
    BY <1>2, InFlightTyped DEF Built
  <2>2. s.revision = Len(log)
    BY <2>1, InFlightTyped DEF ExactReads
  <2>3. s.revision \in 1 .. Len(log)
    BY <2>1, <2>2 DEF ServerOK
  <2> QED BY <2>1, <2>2, <2>3 DEF Exact
<1>3. ExactSnapshots'
  <2>1. ASSUME NEW s \in Snapshots, InFlight(s)' PROVE Exact(s)'
    <3>1. InFlight(s) \/ Built(s) \/ Patched(s) \/ s = EmptySnapshot
      BY <2>1, Flow
    <3>2. CASE InFlight(s) \/ Built(s)
      <4>1. Exact(s)
        BY <1>2, <3>2 DEF ExactSnapshots
      <4> QED BY <4>1, ExactForGood
    <3>3. CASE Patched(s)
      <4>1. PICK d \in Deltas : DeltaInFlight(d) /\ Chains(d) /\ s = ApplyUnchecked(current, d)
        BY <3>3 DEF Patched
      <4>2. PICK old \in Snapshots, new \in Snapshots :
                   Exact(old) /\ Exact(new) /\ d = ComputeDelta(old, new)
        BY <4>1 DEF ExactDeltas, ExactDelta
      <4>3. current \in Snapshots /\ Exact(current)
        BY DEF ClientOK, ExactSnapshots, InFlight
      <4>4. old.revision = current.revision
        BY <4>1, <4>2 DEF Chains, ComputeDelta
      <4>5. old = current
        BY <4>2, <4>3, <4>4, ExactIsUnique
      <4>6. s = new
        BY <4>1, <4>2, <4>5, DeltaRoundTrip
      <4> QED BY <4>2, <4>6, ExactForGood
    <3>4. CASE s = EmptySnapshot
      BY <3>4 DEF Exact
    <3> QED BY <3>1, <3>2, <3>3, <3>4
  <2> QED BY <2>1 DEF ExactSnapshots
<1>4. ExactDeltas'
  <2>1. ASSUME NEW d \in Deltas, DeltaInFlight(d)' PROVE ExactDelta(d)
    <3>1. CASE DeltaInFlight(d)
      BY <3>1 DEF ExactDeltas
    <3>2. ASSUME NEW old \in Snapshots, NEW new \in Snapshots, InFlight(old),
                 InFlight(new) \/ Built(new), d = ComputeDelta(old, new)
          PROVE  ExactDelta(d)
      <4>1. Exact(old) /\ Exact(new)
        BY <1>2, <3>2 DEF ExactSnapshots
      <4> QED BY <3>2, <4>1 DEF ExactDelta
    <3> QED BY <2>1, <3>1, <3>2, DeltaFlow
  <2>2. ASSUME NEW d \in Deltas, ExactDelta(d) PROVE ExactDelta(d)'
    <3>1. PICK old \in Snapshots, new \in Snapshots :
                 Exact(old) /\ Exact(new) /\ d = ComputeDelta(old, new)
      BY <2>2 DEF ExactDelta
    <3>2. Exact(old)' /\ Exact(new)'
      BY <3>1, ExactForGood
    <3> QED BY <3>1, <3>2 DEF ExactDelta
  <2> QED BY <2>1, <2>2 DEF ExactDeltas
<1> QED BY <1>1, <1>3, <1>4

\* While no write falls between the two reads of a reader and no reload fails, what the
\* client serves is exactly the row of the revision it reports, through any mixture of
\* full frames, deltas over dropped revisions, resyncs and polls.
THEOREM DeliveryExact ==
  ASSUME TornReads = FALSE, "reload" \notin Faults
  PROVE  Spec => []ExactAtRevision
<1>1. Init => ExactInv
  <2> SUFFICES ASSUME Init PROVE ExactInv
    OBVIOUS
  <2> QED BY InitInFlight DEF ExactInv, ExactReads, ExactSnapshots, ExactDeltas, Exact
<1>2. TypeInv /\ ExactInv /\ [Next]_vars => ExactInv'
  BY ExactInvStep, TypeParts DEF ExactInv
<1>3. TypeInv /\ ExactInv => ExactAtRevision
  <2> SUFFICES ASSUME ClientOK, ExactSnapshots, current.revision > 0
               PROVE  current.row = log[current.revision]
    BY TypeParts DEF ExactInv, ExactAtRevision
  <2>1. Exact(current) /\ EmptySnapshot.revision = 0
    BY DEF ExactSnapshots, InFlight, ClientOK, EmptySnapshot
  <2> QED BY <2>1 DEF Exact
<1> QED BY <1>1, <1>2, <1>3, InitType, StepType, PTL DEF Spec
=============================================================================
