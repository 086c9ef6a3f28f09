----------------------------- MODULE GoSdkProofs -----------------------------
(***************************************************************************)
(* What a Go client's goroutines keep between them, for any number of      *)
(* callers, listeners, hashes and writes: types, that drift is reported,   *)
(* that a closed client learns nothing, that every listener is told, and   *)
(* in which order.                                                         *)
(***************************************************************************)
EXTENDS GoSdk, TLAPS

\* Frames come from states that the server has had.
TypeInv == GoTypeOK /\ arrived.upto <= Len(history)

\* The part of it that is about the goroutines.
ThreadsOK ==
  /\ thread \in [Threads -> [pc : UNION {Places(t) : t \in Threads}, snap : Snapshots,
                             todo : SUBSET Listeners]]
  /\ \A t \in Threads : thread[t].pc \in Places(t)

USE GoSdkAssumption

\* The types of everything but the goroutines.
RestOK ==
  /\ history \in Seq(Snapshots) /\ Len(history) \in 1 .. MaxHistory
  /\ current \in Snapshots
  /\ warned \in Hashes \cup {NoHash}
  /\ subscription \in [Listeners -> {"before", "on", "after"}]
  /\ started \in BOOLEAN /\ closed \in BOOLEAN
  /\ readies \in Nat
  /\ arrived \in [left : 0 .. MaxFrames, upto : 0 .. MaxHistory]
  /\ arrived.upto <= Len(history)
  /\ heard \in [Listeners -> SUBSET Nat]
  /\ audience \subseteq Listeners
  /\ reported \subseteq Hashes
  /\ closedAt \in Nat

LEMMA TypeParts == TypeInv <=> ThreadsOK /\ RestOK
BY DEF TypeInv, GoTypeOK, ThreadsOK, RestOK

LEMMA InitType == Init => TypeInv
<1> SUFFICES ASSUME Init PROVE TypeInv
  OBVIOUS
<1>1. EmptySnapshot \in Snapshots
  BY DEF EmptySnapshot, Snapshots
<1>2. history \in Seq(Snapshots) /\ Len(history) = 1
  BY <1>1 DEF Init
<1>3. \A t \in Threads : (IF t \in Callers THEN "ready" ELSE "off") \in Places(t)
  BY DEF Threads, Places, Applying
<1>4. ThreadsOK
  BY <1>1, <1>3 DEF Init, Idle, ThreadsOK
<1>5. RestOK
  <2>1. NoFrames \in [left : 0 .. MaxFrames, upto : 0 .. MaxHistory] /\ NoFrames.upto = 0
    BY DEF NoFrames
  <2>2. Len(history) \in 1 .. MaxHistory
    BY <1>2
  <2>3. /\ subscription \in [Listeners -> {"before", "on", "after"}]
        /\ heard \in [Listeners -> SUBSET Nat]
    BY DEF Init
  <2>4. /\ current \in Snapshots /\ warned \in Hashes \cup {NoHash}
        /\ started \in BOOLEAN /\ closed \in BOOLEAN /\ readies \in Nat
        /\ audience \subseteq Listeners /\ reported \subseteq Hashes /\ closedAt \in Nat
    BY <1>1 DEF Init
  <2>5. arrived \in [left : 0 .. MaxFrames, upto : 0 .. MaxHistory]
        /\ arrived.upto <= Len(history)
    BY <1>2, <2>1 DEF Init
  <2> QED BY <1>2, <2>2, <2>3, <2>4, <2>5 DEF RestOK
<1> QED BY <1>4, <1>5, TypeParts

\* A goroutine that goes on to a place of its own keeps all of them well typed.
LEMMA ThreadTyped ==
  ASSUME ThreadsOK, NEW t \in Threads,
         NEW pc \in Places(t), NEW snap \in Snapshots, NEW todo \in SUBSET Listeners,
         thread' = [thread EXCEPT ![t] = [pc |-> pc, snap |-> snap, todo |-> todo]]
  PROVE  ThreadsOK'
<1>1. pc \in UNION {Places(u) : u \in Threads}
  OBVIOUS
<1> QED BY <1>1 DEF ThreadsOK

\* One that is idle there.
LEMMA IdleTyped ==
  ASSUME ThreadsOK, NEW t \in Threads, NEW pc \in Places(t),
         thread' = [thread EXCEPT ![t] = Idle(pc)]
  PROVE  ThreadsOK'
<1>1. EmptySnapshot \in Snapshots
  BY DEF EmptySnapshot, Snapshots
<1> QED BY <1>1, ThreadTyped DEF Idle

\* One that only changes its place.
LEMMA GotoTyped ==
  ASSUME ThreadsOK, NEW t \in Threads, NEW pc \in Places(t), Goto(t, pc)
  PROVE  ThreadsOK'
<1>1. thread[t] \in [pc : UNION {Places(u) : u \in Threads}, snap : Snapshots,
                     todo : SUBSET Listeners]
  BY DEF ThreadsOK
<1>2. [thread[t] EXCEPT !.pc = pc] = [pc |-> pc, snap |-> thread[t].snap, todo |-> thread[t].todo]
  BY <1>1
<1>3. thread' = [thread EXCEPT ![t] = [pc |-> pc, snap |-> thread[t].snap,
                                       todo |-> thread[t].todo]]
  BY <1>2 DEF Goto, ThreadsOK
<1>4. thread[t].snap \in Snapshots /\ thread[t].todo \in SUBSET Listeners
  BY <1>1
<1> QED BY <1>3, <1>4, ThreadTyped

LEMMA LatestTyped ==
  ASSUME RestOK
  PROVE  /\ Latest \in Snapshots
         /\ Latest.revision \in Nat
         /\ \A i \in 1 .. Len(history) : history[i] \in Snapshots
<1>1. \A i \in 1 .. Len(history) : history[i] \in Snapshots
  BY DEF RestOK
<1>2. Len(history) \in 1 .. Len(history)
  BY DEF RestOK
<1> QED BY <1>1, <1>2 DEF Latest, Snapshots

LEMMA StepType == TypeInv /\ [Next]_vars => TypeInv'
<1> SUFFICES ASSUME ThreadsOK, RestOK, [Next]_vars PROVE ThreadsOK' /\ RestOK'
  BY DEF TypeInv, GoTypeOK, ThreadsOK, RestOK
<1> USE DEF app, ghosts
<1>1. ASSUME NEW h \in Hashes, Write(h) \/ ChangeSchema(h) PROVE ThreadsOK' /\ RestOK'
  <2>1. PICK snap \in Snapshots : ServerMoves(snap)
    <3>1. [revision |-> Latest.revision + 1, schemaHash |-> h] \in Snapshots
      BY LatestTyped DEF Snapshots
    <3>2. [Latest EXCEPT !.schemaHash = h] \in Snapshots
      BY LatestTyped DEF Snapshots
    <3> QED BY <1>1, <3>1, <3>2 DEF Write, ChangeSchema
  <2>2. ThreadsOK'
    BY <2>1 DEF ServerMoves, ThreadsOK
  <2> QED BY <2>1, <2>2 DEF ServerMoves, RestOK
<1>2. ASSUME NEW t \in Threads, Fetch(t), readies' \in Nat
      PROVE  ThreadsOK' /\ RestOK'
  <2>1. (IF t \in Callers THEN "store" ELSE "apply") \in Places(t)
    BY DEF Places, Applying
  <2>2. ThreadsOK'
    BY <1>2, <2>1, LatestTyped, ThreadTyped DEF Fetch
  <2> QED BY <1>2, <2>2 DEF Fetch, RestOK
<1>3. ASSUME NEW c \in Callers, Load(c) \/ LoadNothing(c) PROVE ThreadsOK' /\ RestOK'
  <2>1. readies' \in Nat
    BY <1>3 DEF Load, LoadNothing, Answered, RestOK
  <2>2. CASE Load(c)
    BY <1>2, <2>1, <2>2 DEF Load, Threads
  <2>3. CASE LoadNothing(c)
    <3>1. ThreadsOK'
      BY <2>3, IdleTyped DEF LoadNothing, Places, Threads
    <3> QED BY <2>1, <2>3, <3>1 DEF LoadNothing, RestOK
  <2> QED BY <1>3, <2>2, <2>3
<1>4. ASSUME NEW t \in Threads, CheckSchemaDrift(t) PROVE ThreadsOK' /\ RestOK'
  <2>1. (IF t \in Callers THEN "start" ELSE "notify") \in Places(t)
    BY DEF Places, Applying
  <2>2. ThreadsOK'
    BY <1>4, <2>1, GotoTyped DEF CheckSchemaDrift
  <2>3. thread[t].snap.schemaHash \in Hashes \cup {Expected}
    BY DEF ThreadsOK, Snapshots
  <2>4. warned' \in Hashes \cup {NoHash} /\ reported' \subseteq Hashes
    BY <1>4, <2>3 DEF CheckSchemaDrift, Drifted, RestOK
  <2> QED BY <1>4, <2>2, <2>4 DEF CheckSchemaDrift, RestOK
<1>5. ASSUME NEW c \in Callers, Store(c) \/ Start(c) PROVE ThreadsOK' /\ RestOK'
  <2>1. c \in Threads
    BY DEF Threads
  <2>2. CASE Store(c)
    <3>1. (IF thread[c].snap.revision = 0 THEN "start" ELSE "drift") \in Places(c)
      BY DEF Places
    <3>2. ThreadsOK'
      BY <2>1, <2>2, <3>1, GotoTyped DEF Store
    <3>3. thread[c].snap \in Snapshots
      BY <2>1 DEF ThreadsOK
    <3> QED BY <2>2, <3>2, <3>3 DEF Store, RestOK
  <2>3. CASE Start(c)
    <3>1. \A t \in Threads :
            /\ Idle("ready").pc = "ready" /\ Idle("connect").pc = "connect"
            /\ Idle("wait").pc = "wait"
      BY DEF Idle
    <3>2. EmptySnapshot \in Snapshots
      BY DEF EmptySnapshot, Snapshots
    <3>3. \A t \in Threads :
            \/ thread'[t] = thread[t]
            \/ \E pc \in Places(t) : thread'[t] = [pc |-> pc, snap |-> EmptySnapshot, todo |-> {}]
      BY <2>3 DEF Start, Idle, Places, Threads
    <3>4. \A t \in Threads :
            /\ thread'[t] \in [pc : UNION {Places(u) : u \in Threads}, snap : Snapshots,
                               todo : SUBSET Listeners]
            /\ thread'[t].pc \in Places(t)
      <4> SUFFICES ASSUME NEW t \in Threads
                   PROVE  /\ thread'[t] \in [pc : UNION {Places(u) : u \in Threads},
                                               snap : Snapshots, todo : SUBSET Listeners]
                          /\ thread'[t].pc \in Places(t)
        OBVIOUS
      <4>1. CASE thread'[t] = thread[t]
        BY <4>1 DEF ThreadsOK
      <4>2. ASSUME NEW pc \in Places(t),
                   thread'[t] = [pc |-> pc, snap |-> EmptySnapshot, todo |-> {}]
            PROVE  /\ thread'[t] \in [pc : UNION {Places(u) : u \in Threads},
                                        snap : Snapshots, todo : SUBSET Listeners]
                   /\ thread'[t].pc \in Places(t)
        <5>1. pc \in UNION {Places(u) : u \in Threads}
          OBVIOUS
        <5> QED BY <3>2, <4>2, <5>1
      <4> QED BY <3>3, <4>1, <4>2
    <3>5. thread' = [t \in Threads |-> thread'[t]]
      BY <2>3 DEF Start
    <3>6. ThreadsOK'
      BY <3>4, <3>5 DEF ThreadsOK
    <3> QED BY <2>3, <3>6 DEF Start, RestOK, MayStart
  <2> QED BY <1>5, <2>2, <2>3
<1>6. ASSUME NEW t \in {"stream", "poll"}, ApplyStep(t) PROVE ThreadsOK' /\ RestOK'
  <2>1. t \in Threads /\ t \notin Callers
    BY DEF Threads
  <2>2. Applying \subseteq Places(t) /\ Back(t) \in Places(t)
    BY <2>1 DEF Places, Back
  <2>3. thread[t] \in [pc : UNION {Places(u) : u \in Threads}, snap : Snapshots,
                       todo : SUBSET Listeners]
    BY <2>1 DEF ThreadsOK
  <2>4. thread[t].snap \in Snapshots /\ thread[t].todo \in SUBSET Listeners
    BY <2>3
  <2>5. Registered \in SUBSET Listeners
    BY DEF Registered
  <2>6. CASE Apply(t)
    <3>1. ThreadsOK'
      BY <2>1, <2>2, <2>6, GotoTyped DEF Apply, Swap, Applying
    <3> QED BY <2>4, <2>5, <2>6, <3>1 DEF Apply, Swap, RestOK
  <2>7. CASE ApplyStale(t) \/ Called(t)
    <3>1. ThreadsOK'
      BY <2>1, <2>2, <2>7, IdleTyped DEF ApplyStale, Called
    <3> QED BY <2>7, <3>1 DEF ApplyStale, Called, RestOK
  <2>8. CASE CheckSchemaDrift(t)
    BY <1>4, <2>1, <2>8
  <2>9. CASE CopyListeners(t)
    <3>1. thread' = [thread EXCEPT ![t] = [pc |-> "call", snap |-> thread[t].snap,
                                           todo |-> Registered]]
      BY <2>9 DEF CopyListeners
    <3>2. ThreadsOK'
      BY <2>1, <2>2, <2>4, <2>5, <3>1, ThreadTyped DEF Applying
    <3> QED BY <2>9, <3>2 DEF CopyListeners, RestOK
  <2>10. ASSUME NEW l \in Listeners, CallListener(t, l) PROVE ThreadsOK' /\ RestOK'
    <3>1. thread' = [thread EXCEPT ![t] = [pc |-> "call", snap |-> thread[t].snap,
                                           todo |-> thread[t].todo \ {l}]]
      <4>1. [thread[t] EXCEPT !.todo = thread[t].todo \ {l}]
              = [pc |-> "call", snap |-> thread[t].snap, todo |-> thread[t].todo \ {l}]
        BY <2>3, <2>10 DEF CallListener, At
      <4> QED BY <2>1, <2>10, <4>1 DEF CallListener, ThreadsOK
    <3>2. thread[t].todo \ {l} \in SUBSET Listeners
      BY <2>4
    <3>3. ThreadsOK'
      BY <2>1, <2>2, <2>4, <3>1, <3>2, ThreadTyped DEF Applying
    <3>4. thread[t].snap.revision \in Nat
      BY <2>4 DEF Snapshots
    <3> QED BY <2>10, <3>3, <3>4 DEF CallListener, RestOK
  <2> QED BY <1>6, <2>6, <2>7, <2>8, <2>9, <2>10 DEF ApplyStep
<1>7. ASSUME StreamStep PROVE ThreadsOK' /\ RestOK'
  <2>1. /\ "stream" \in Threads
        /\ {"connect", "read", "fetch", "off", "apply"} \subseteq Places("stream")
    BY DEF Threads, Places, Applying
  <2>2. NoFrames \in [left : 0 .. MaxFrames, upto : 0 .. MaxHistory] /\ NoFrames.upto = 0
    BY DEF NoFrames, RestOK
  <2>3. ASSUME TakeFrame
        PROVE  /\ arrived' \in [left : 0 .. MaxFrames, upto : 0 .. MaxHistory]
               /\ arrived'.upto <= Len(history)
    BY <2>2, <2>3 DEF TakeFrame, RestOK
  <2>4. ASSUME NEW snap \in Carried, Frame(snap) PROVE ThreadsOK' /\ RestOK'
    <3>1. snap \in Snapshots
      BY LatestTyped DEF Carried, RestOK
    <3>2. [Idle("apply") EXCEPT !.snap = snap] = [pc |-> "apply", snap |-> snap, todo |-> {}]
      BY DEF Idle
    <3>4. thread' = [thread EXCEPT !["stream"] = [pc |-> "apply", snap |-> snap, todo |-> {}]]
      BY <2>4, <3>2 DEF Frame
    <3>3. ThreadsOK'
      BY <2>1, <3>1, <3>4, ThreadTyped
    <3> QED BY <2>3, <2>4, <3>3 DEF Frame, RestOK
  <2>5. CASE FrameUnchained
    <3>1. ThreadsOK'
      BY <2>1, <2>5, GotoTyped DEF FrameUnchained
    <3> QED BY <2>3, <2>5, <3>1 DEF FrameUnchained, RestOK
  <2>6. CASE FrameMalformed
    <3>1. ThreadsOK'
      BY <2>6 DEF FrameMalformed, ThreadsOK
    <3> QED BY <2>3, <2>6, <3>1 DEF FrameMalformed, RestOK
  <2>7. CASE Drop \/ StreamEnds
    <3>1. ThreadsOK'
      BY <2>1, <2>7, GotoTyped DEF Drop, StreamEnds
    <3> QED BY <2>2, <2>7, <3>1 DEF Drop, StreamEnds, RestOK
  <2>8. CASE Connect \/ ResyncFails
    <3>1. ThreadsOK'
      BY <2>1, <2>8, GotoTyped DEF Connect, ResyncFails
    <3> QED BY <2>8, <3>1 DEF Connect, ResyncFails, RestOK
  <2>9. ASSUME NEW n \in 1 .. MaxFrames, Arrive(n) PROVE ThreadsOK' /\ RestOK'
    <3>1. ThreadsOK'
      BY <2>9 DEF Arrive, ThreadsOK
    <3> QED BY <2>9, <3>1 DEF Arrive, RestOK
  <2>10. CASE Resync
    <3>1. readies' \in Nat
      BY <2>10 DEF Resync, RestOK
    <3> QED BY <1>2, <2>1, <2>10, <3>1 DEF Resync
  <2>11. CASE ApplyStep("stream")
    BY <1>6, <2>11
  <2> QED BY <1>7, <2>4, <2>5, <2>6, <2>7, <2>8, <2>9, <2>10, <2>11 DEF StreamStep, StreamRuns
<1>8. ASSUME PollStep PROVE ThreadsOK' /\ RestOK'
  <2>1. "poll" \in Threads /\ "off" \in Places("poll")
    BY DEF Threads, Places
  <2>2. CASE Poll
    <3>1. readies' \in Nat
      BY <2>2 DEF Poll, RestOK
    <3> QED BY <1>2, <2>1, <2>2, <3>1 DEF Poll
  <2>3. CASE PollEnds
    <3>1. ThreadsOK'
      BY <2>1, <2>3, GotoTyped DEF PollEnds
    <3> QED BY <2>3, <3>1 DEF PollEnds, RestOK
  <2> QED BY <1>6, <1>8, <2>2, <2>3 DEF PollStep
<1>9. ASSUME NEW l \in Listeners, OnChange(l) \/ Unsubscribe(l) PROVE ThreadsOK' /\ RestOK'
  <2>1. ThreadsOK'
    BY <1>9 DEF OnChange, Unsubscribe, ThreadsOK
  <2> QED BY <1>9, <2>1 DEF OnChange, Unsubscribe, RestOK
<1>10. CASE Close
  <2>1. ThreadsOK'
    BY <1>10 DEF Close, ThreadsOK
  <2> QED BY <1>10, <2>1, LatestTyped DEF Close, RestOK
<1>11. CASE UNCHANGED vars
  BY <1>11 DEF vars, ThreadsOK, RestOK
<1> QED
  <2>1. ASSUME NEW c \in Callers, ReadyStep(c) PROVE ThreadsOK' /\ RestOK'
    BY <1>4, <1>5, <2>1 DEF ReadyStep, Threads
  <2> QED BY <1>1, <1>3, <1>7, <1>8, <1>9, <1>10, <1>11, <2>1 DEF Next

\* The types of a client, whatever its goroutines do.
THEOREM GoTypeCorrect == Spec => []GoTypeOK
<1>1. TypeInv => GoTypeOK
  BY DEF TypeInv
<1> QED BY <1>1, InitType, StepType, PTL DEF Spec

-----------------------------------------------------------------------------
(* The background goroutines.                                              *)

\* They run only once they were started.
RunInv == started \/ (At("stream", "off") /\ At("poll", "off"))

\* A step of Ready's that leaves started alone, or no step of a goroutine, keeps it.
LEMMA RunKept ==
  ASSUME RunInv, ThreadsOK, started' = started,
         \/ thread' = thread
         \/ \E c \in Callers : \E new : thread' = [thread EXCEPT ![c] = new]
  PROVE  RunInv'
<1>1. thread'["stream"] = thread["stream"] /\ thread'["poll"] = thread["poll"]
  BY GoSdkAssumption DEF ThreadsOK, Threads
<1> QED BY <1>1 DEF RunInv, At

LEMMA StepRun == TypeInv /\ RunInv /\ [Next]_vars => RunInv'
<1> SUFFICES ASSUME ThreadsOK, RunInv, [Next]_vars PROVE RunInv'
  BY TypeParts
<1> USE DEF app, ghosts
<1>1. ASSUME NEW t \in {"stream", "poll"}, ~At(t, "off"), started' = started PROVE RunInv'
  BY <1>1 DEF RunInv
<1>2. ASSUME NEW t \in {"stream", "poll"}, ApplyStep(t) PROVE RunInv'
  <2>1. ~At(t, "off")
    BY <1>2 DEF ApplyStep, Apply, ApplyStale, CheckSchemaDrift, CopyListeners, CallListener,
                Called, At
  <2>2. started' = started
    BY <1>2 DEF ApplyStep, Apply, ApplyStale, CheckSchemaDrift, CopyListeners, CallListener,
                Called, Swap
  <2> QED BY <1>1, <2>1, <2>2
<1>3. ASSUME StreamStep PROVE RunInv'
  <2>1. CASE ApplyStep("stream")
    BY <1>2, <2>1
  <2>2. CASE ~ApplyStep("stream")
    <3>1. ~At("stream", "off")
      BY <1>3, <2>2 DEF StreamStep, StreamRuns, Frame, FrameUnchained, FrameMalformed, TakeFrame,
                Resync, ResyncFails, StreamEnds, Connect, Arrive, Drop, At
    <3>2. started' = started
      BY <1>3, <2>2 DEF StreamStep, StreamRuns, Frame, FrameUnchained, FrameMalformed, Fetch,
                Resync, ResyncFails, StreamEnds, Connect, Arrive, Drop
    <3> QED BY <1>1, <3>1, <3>2
  <2> QED BY <2>1, <2>2
<1>4. ASSUME PollStep PROVE RunInv'
  <2>1. CASE ApplyStep("poll")
    BY <1>2, <2>1
  <2>2. CASE Poll \/ PollEnds
    BY <1>1, <2>2 DEF Poll, PollEnds, Fetch, At
  <2> QED BY <1>4, <2>1, <2>2 DEF PollStep
<1>5. ASSUME NEW c \in Callers, Load(c) \/ LoadNothing(c) \/ Store(c) \/ CheckSchemaDrift(c)
      PROVE  RunInv'
  <2>1. started' = started
    BY <1>5 DEF Load, LoadNothing, Store, CheckSchemaDrift, Fetch
  <2>2. \E new : thread' = [thread EXCEPT ![c] = new]
    BY <1>5 DEF Load, LoadNothing, Store, CheckSchemaDrift, Fetch, Goto
  <2> QED BY <2>1, <2>2, RunKept
<1>6. ASSUME NEW c \in Callers, Start(c) PROVE RunInv'
  <2>1. CASE started'
    BY <2>1 DEF RunInv
  <2>2. CASE ~started'
    <3>1. ~MayStart /\ ~started
      BY <1>6, <2>2 DEF Start
    <3>2. thread'["stream"] = thread["stream"] /\ thread'["poll"] = thread["poll"]
      BY <1>6, <3>1 DEF Start, Threads
    <3> QED BY <3>1, <3>2 DEF RunInv, At
  <2> QED BY <2>1, <2>2
<1>7. ASSUME \/ \E h \in Hashes : Write(h) \/ ChangeSchema(h)
             \/ \E l \in Listeners : OnChange(l) \/ Unsubscribe(l)
             \/ Close
             \/ UNCHANGED vars
      PROVE  RunInv'
  <2>1. UNCHANGED <<started, thread>>
    BY <1>7 DEF Write, ChangeSchema, ServerMoves, OnChange, Unsubscribe, Close, vars
  <2> QED BY <2>1, RunKept
<1> QED BY <1>3, <1>4, <1>5, <1>6, <1>7 DEF Next, ReadyStep

-----------------------------------------------------------------------------
(* Drift.                                                                  *)

\* The snapshot served is one whose hash was reported, or a goroutine is about to.
DriftInv ==
  /\ warned \in reported \cup {NoHash}
  /\ current.revision > 0 =>
       \/ current.schemaHash \in reported \cup {Expected}
       \/ \E t \in Threads : At(t, "drift") /\ thread[t].snap = current

\* Whatever leaves current and the reports alone, and every goroutine that is in
\* checkSchemaDrift there, keeps it.
LEMMA DriftKept ==
  ASSUME DriftInv, UNCHANGED <<current, warned, reported>>,
         \A t \in Threads : At(t, "drift") => thread'[t] = thread[t]
  PROVE  DriftInv'
BY DEF DriftInv, At

\* A goroutine that is elsewhere may do what it likes.
LEMMA DriftKeptBy ==
  ASSUME DriftInv, ThreadsOK, UNCHANGED <<current, warned, reported>>,
         NEW t \in Threads, ~At(t, "drift"), NEW new, thread' = [thread EXCEPT ![t] = new]
  PROVE  DriftInv'
<1>1. \A u \in Threads : At(u, "drift") => thread'[u] = thread[u]
  BY DEF ThreadsOK, At
<1> QED BY <1>1, DriftKept

\* A snapshot that is swapped in, by a goroutine that goes to checkSchemaDrift.
LEMMA DriftSwapped ==
  ASSUME DriftInv, ThreadsOK, NEW t \in Threads, Goto(t, "drift"),
         current' = thread[t].snap, UNCHANGED <<warned, reported>>
  PROVE  DriftInv'
<1>1. thread'[t].pc = "drift" /\ thread'[t].snap = thread[t].snap
  BY DEF Goto, ThreadsOK
<1> QED BY <1>1 DEF DriftInv, At

LEMMA StepDrift == TypeInv /\ RunInv /\ DriftInv /\ [Next]_vars => DriftInv'
<1> SUFFICES ASSUME ThreadsOK, RestOK, RunInv, DriftInv, [Next]_vars PROVE DriftInv'
  BY TypeParts
<1> USE DEF app, ghosts
<1>1. ASSUME NEW t \in Threads, CheckSchemaDrift(t) PROVE DriftInv'
  <2> DEFINE h == thread[t].snap.schemaHash
  <2>1. h \in Hashes \cup {Expected}
    BY DEF ThreadsOK, Snapshots
  <2>2. warned' \in reported' \cup {NoHash} /\ h \in reported' \cup {Expected}
    BY <1>1, <2>1 DEF CheckSchemaDrift, Drifted, DriftInv
  <2>3. reported \subseteq reported' /\ current' = current
    BY <1>1 DEF CheckSchemaDrift
  <2>4. \A u \in Threads \ {t} : thread'[u] = thread[u]
    BY <1>1 DEF CheckSchemaDrift, Goto, ThreadsOK
  <2>5. CASE current.revision > 0 /\ current.schemaHash \notin reported \cup {Expected}
    <3>1. PICK u \in Threads : At(u, "drift") /\ thread[u].snap = current
      BY <2>5 DEF DriftInv
    <3>2. CASE u = t
      BY <2>2, <2>3, <3>1, <3>2 DEF DriftInv
    <3>3. CASE u # t
      BY <2>2, <2>3, <2>4, <3>1, <3>3 DEF DriftInv, At
    <3> QED BY <3>2, <3>3
  <2>6. CASE ~(current.revision > 0 /\ current.schemaHash \notin reported \cup {Expected})
    BY <2>2, <2>3, <2>6 DEF DriftInv
  <2> QED BY <2>5, <2>6
<1>2. ASSUME NEW t \in Threads, Fetch(t), ~At(t, "drift") PROVE DriftInv'
  BY <1>2, DriftKeptBy DEF Fetch
<1>3. ASSUME NEW c \in Callers, Load(c) \/ LoadNothing(c) PROVE DriftInv'
  <2>1. c \in Threads /\ ~At(c, "drift")
    BY <1>3 DEF Threads, Load, LoadNothing, At
  <2>2. CASE Load(c)
    BY <1>2, <2>1, <2>2 DEF Load
  <2>3. CASE LoadNothing(c)
    BY <2>1, <2>3, DriftKeptBy DEF LoadNothing
  <2> QED BY <1>3, <2>2, <2>3
<1>4. ASSUME NEW c \in Callers, Store(c) PROVE DriftInv'
  <2>1. c \in Threads
    BY DEF Threads
  <2>2. CASE thread[c].snap.revision = 0
    BY <1>4, <2>2 DEF Store, DriftInv
  <2>3. CASE thread[c].snap.revision # 0
    BY <1>4, <2>1, <2>3, DriftSwapped DEF Store
  <2> QED BY <2>2, <2>3
<1>5. ASSUME NEW c \in Callers, Start(c) PROVE DriftInv'
  <2>1. MayStart => ~At("stream", "drift") /\ ~At("poll", "drift")
    BY DEF MayStart, RunInv, At
  <2>2. \A t \in Threads : At(t, "drift") => thread'[t] = thread[t]
    BY <1>5, <2>1 DEF Start, At
  <2>3. UNCHANGED <<current, warned, reported>>
    BY <1>5 DEF Start
  <2> QED BY <2>2, <2>3, DriftKept
<1>6. ASSUME NEW t \in {"stream", "poll"}, ApplyStep(t) PROVE DriftInv'
  <2>1. t \in Threads
    BY DEF Threads
  <2>2. CASE Apply(t)
    BY <2>1, <2>2, DriftSwapped DEF Apply, Swap
  <2>3. CASE CheckSchemaDrift(t)
    BY <1>1, <2>1, <2>3
  <2>4. CASE ApplyStale(t) \/ CopyListeners(t) \/ Called(t)
    BY <2>1, <2>4, DriftKeptBy DEF ApplyStale, CopyListeners, Called, At
  <2>5. ASSUME NEW l \in Listeners, CallListener(t, l) PROVE DriftInv'
    BY <2>1, <2>5, DriftKeptBy DEF CallListener, At
  <2> QED BY <1>6, <2>2, <2>3, <2>4, <2>5 DEF ApplyStep
<1>7. ASSUME StreamStep PROVE DriftInv'
  <2>1. "stream" \in Threads
    BY DEF Threads
  <2>2. CASE Drop \/ StreamEnds \/ Connect \/ ResyncFails \/ FrameUnchained
    BY <2>1, <2>2, DriftKeptBy
       DEF Drop, StreamEnds, Connect, ResyncFails, FrameUnchained, TakeFrame, At, Goto
  <2>3. CASE FrameMalformed
    BY <2>3, DriftKept DEF FrameMalformed
  <2>4. ASSUME NEW n \in 1 .. MaxFrames, Arrive(n) PROVE DriftInv'
    BY <2>4, DriftKept DEF Arrive
  <2>5. ASSUME NEW snap \in Carried, Frame(snap) PROVE DriftInv'
    BY <2>1, <2>5, DriftKeptBy DEF Frame, TakeFrame, At
  <2>6. CASE Resync
    BY <1>2, <2>1, <2>6 DEF Resync, At
  <2>7. CASE ApplyStep("stream")
    BY <1>6, <2>7
  <2> QED BY <1>7, <2>2, <2>3, <2>4, <2>5, <2>6, <2>7 DEF StreamStep, StreamRuns
<1>8. ASSUME PollStep PROVE DriftInv'
  <2>1. "poll" \in Threads
    BY DEF Threads
  <2>2. CASE Poll
    BY <1>2, <2>1, <2>2 DEF Poll, At
  <2>3. CASE PollEnds
    BY <2>1, <2>3, DriftKeptBy DEF PollEnds, At, Goto
  <2> QED BY <1>6, <1>8, <2>2, <2>3 DEF PollStep
<1>9. ASSUME \/ \E h \in Hashes : Write(h) \/ ChangeSchema(h)
             \/ \E l \in Listeners : OnChange(l) \/ Unsubscribe(l)
             \/ Close
             \/ UNCHANGED vars
      PROVE  DriftInv'
  <2>1. UNCHANGED <<current, warned, reported, thread>>
    BY <1>9 DEF Write, ChangeSchema, ServerMoves, OnChange, Unsubscribe, Close, vars
  <2> QED BY <2>1, DriftKept
<1> QED
  <2>1. ASSUME NEW c \in Callers, ReadyStep(c) PROVE DriftInv'
    BY <1>1, <1>4, <1>5, <2>1 DEF ReadyStep, Threads
  <2> QED BY <1>3, <1>7, <1>8, <1>9, <2>1 DEF Next

\* A snapshot with another schema than the one expected never goes unnoticed, however
\* the calls of Ready, the stream and the poll overtake each other.
THEOREM DriftAlwaysReported == Spec => []DriftIsReported
<1>1. Init => DriftInv
  BY DEF Init, DriftInv, EmptySnapshot
<1>2. DriftInv => DriftIsReported
  BY DEF DriftInv, DriftIsReported, At
<1>3. Init => RunInv
  BY DEF Init, RunInv, At, Idle, Threads
<1> QED BY <1>1, <1>2, <1>3, InitType, StepType, StepRun, StepDrift, PTL DEF Spec

-----------------------------------------------------------------------------
(* Close.                                                                  *)

\* Nothing in the client is ahead of the server.
KnownInv ==
  /\ \A i \in 1 .. Len(history) : history[i].revision <= Latest.revision
  /\ \A t \in Threads : thread[t].snap.revision <= Latest.revision

\* While the history stays, it is enough that no snapshot comes from elsewhere.
LEMMA KnownKept ==
  ASSUME KnownInv, history' = history,
         \A t \in Threads : thread'[t].snap.revision <= Latest.revision
  PROVE  KnownInv'
BY DEF KnownInv, Latest

\* One goroutine has another snapshot, or the one it had.
LEMMA KnownKeptBy ==
  ASSUME KnownInv, ThreadsOK, history' = history,
         NEW t \in Threads, NEW new, thread' = [thread EXCEPT ![t] = new],
         new.snap.revision <= Latest.revision
  PROVE  KnownInv'
<1>1. \A u \in Threads : thread'[u].snap.revision <= Latest.revision
  BY DEF KnownInv, ThreadsOK
<1> QED BY <1>1, KnownKept

\* It has the one it had.
LEMMA KnownKeptAt ==
  ASSUME KnownInv, ThreadsOK, history' = history, NEW t \in Threads, NEW pc, Goto(t, pc)
  PROVE  KnownInv'
<1>1. \A u \in Threads : thread'[u].snap = thread[u].snap
  BY DEF Goto, ThreadsOK
<1> QED BY <1>1, KnownKept DEF KnownInv

LEMMA StepKnown == TypeInv /\ KnownInv /\ [Next]_vars => KnownInv'
<1> SUFFICES ASSUME ThreadsOK, RestOK, KnownInv, [Next]_vars PROVE KnownInv'
  BY TypeParts
<1> USE DEF app, ghosts
<1>1. ASSUME NEW snap \in Snapshots, ServerMoves(snap), snap.revision >= Latest.revision
      PROVE  KnownInv'
  <2>1. /\ Len(history') = Len(history) + 1
        /\ \A i \in 1 .. Len(history) : history'[i] = history[i]
        /\ history'[Len(history) + 1] = snap
    BY <1>1 DEF ServerMoves, RestOK
  <2>2. Latest' = snap
    BY <2>1 DEF Latest
  <2>3. snap.revision \in Nat /\ Latest.revision \in Nat
    BY LatestTyped DEF Snapshots
  <2>4. \A i \in 1 .. Len(history') : history'[i].revision <= snap.revision
    <3> SUFFICES ASSUME NEW i \in 1 .. Len(history') PROVE history'[i].revision <= snap.revision
      OBVIOUS
    <3>1. CASE i = Len(history) + 1
      BY <2>1, <2>3, <3>1
    <3>2. CASE i # Len(history) + 1
      <4>1. i \in 1 .. Len(history)
        BY <2>1, <3>2 DEF RestOK
      <4>2. history[i].revision \in Nat
        BY <4>1, LatestTyped DEF Snapshots
      <4>3. history[i].revision <= Latest.revision
        BY <4>1 DEF KnownInv
      <4> QED BY <1>1, <2>1, <2>3, <4>1, <4>2, <4>3
    <3> QED BY <3>1, <3>2
  <2>5. \A t \in Threads : thread'[t].snap.revision <= snap.revision
    <3> SUFFICES ASSUME NEW t \in Threads PROVE thread'[t].snap.revision <= snap.revision
      OBVIOUS
    <3>1. thread[t].snap.revision \in Nat /\ thread[t].snap.revision <= Latest.revision
      BY DEF ThreadsOK, Snapshots, KnownInv
    <3>2. thread' = thread
      BY <1>1 DEF ServerMoves
    <3> QED BY <1>1, <2>3, <3>1, <3>2
  <2> QED BY <2>2, <2>4, <2>5 DEF KnownInv
<1>2. ASSUME NEW h \in Hashes, Write(h) \/ ChangeSchema(h) PROVE KnownInv'
  <2>1. /\ [revision |-> Latest.revision + 1, schemaHash |-> h] \in Snapshots
        /\ [Latest EXCEPT !.schemaHash = h] \in Snapshots
        /\ [Latest EXCEPT !.schemaHash = h].revision = Latest.revision
    BY LatestTyped DEF Snapshots
  <2>2. Latest.revision \in Nat
    BY LatestTyped DEF Snapshots
  <2>3. CASE Write(h)
    BY <1>1, <2>1, <2>2, <2>3 DEF Write
  <2>4. CASE ChangeSchema(h)
    <3>1. PICK snap \in Snapshots : ServerMoves(snap) /\ snap.revision = Latest.revision
      BY <2>1, <2>4 DEF ChangeSchema
    <3> QED BY <1>1, <2>2, <3>1
  <2> QED BY <1>2, <2>3, <2>4
<1>3. Idle("x").snap.revision <= Latest.revision /\ Latest.revision <= Latest.revision
  BY LatestTyped DEF Idle, EmptySnapshot
<1>4. ASSUME NEW t \in Threads, Fetch(t) PROVE KnownInv'
  BY <1>3, <1>4, KnownKeptBy DEF Fetch
<1>5. ASSUME NEW pc, NEW t \in Threads, thread' = [thread EXCEPT ![t] = Idle(pc)],
             history' = history
      PROVE  KnownInv'
  <2>1. Idle(pc).snap.revision <= Latest.revision
    BY <1>3 DEF Idle
  <2> QED BY <1>5, <2>1, KnownKeptBy
<1>6. ASSUME NEW c \in Callers, Load(c) \/ LoadNothing(c) \/ Store(c) PROVE KnownInv'
  <2>1. c \in Threads
    BY DEF Threads
  <2>2. CASE Load(c)
    BY <1>4, <2>1, <2>2 DEF Load
  <2>3. CASE LoadNothing(c)
    BY <1>5, <2>1, <2>3 DEF LoadNothing
  <2>4. CASE Store(c)
    BY <2>1, <2>4, KnownKeptAt DEF Store
  <2> QED BY <1>6, <2>2, <2>3, <2>4
<1>7. ASSUME NEW t \in Threads, CheckSchemaDrift(t) PROVE KnownInv'
  BY <1>7, KnownKeptAt DEF CheckSchemaDrift
<1>8. ASSUME NEW c \in Callers, Start(c) PROVE KnownInv'
  <2>1. \A t \in Threads : thread'[t].snap \in {thread[t].snap, EmptySnapshot}
    BY <1>8 DEF Start, Idle
  <2>2. EmptySnapshot.revision <= Latest.revision
    BY LatestTyped DEF EmptySnapshot
  <2>3. history' = history
    BY <1>8 DEF Start
  <2> QED BY <2>1, <2>2, <2>3, KnownKept DEF KnownInv
<1>9. ASSUME NEW t \in {"stream", "poll"}, ApplyStep(t) PROVE KnownInv'
  <2>1. t \in Threads
    BY DEF Threads
  <2>2. thread[t].snap.revision <= Latest.revision
    BY <2>1 DEF KnownInv
  <2>3. CASE Apply(t) \/ CheckSchemaDrift(t)
    BY <2>1, <2>3, KnownKeptAt DEF Apply, Swap, CheckSchemaDrift
  <2>4. CASE ApplyStale(t) \/ Called(t)
    BY <1>5, <2>1, <2>4 DEF ApplyStale, Called
  <2>5. CASE CopyListeners(t)
    BY <2>1, <2>2, <2>5, KnownKeptBy DEF CopyListeners
  <2>6. ASSUME NEW l \in Listeners, CallListener(t, l) PROVE KnownInv'
    <3>1. \A u \in Threads : thread'[u].snap = thread[u].snap
      BY <2>6 DEF CallListener, ThreadsOK
    <3> QED BY <2>6, <3>1, KnownKept DEF CallListener, KnownInv
  <2> QED BY <1>9, <2>3, <2>4, <2>5, <2>6 DEF ApplyStep
<1>10. ASSUME StreamStep PROVE KnownInv'
  <2>1. "stream" \in Threads
    BY DEF Threads
  <2>2. CASE Drop \/ StreamEnds \/ Connect \/ ResyncFails \/ FrameUnchained
    BY <2>1, <2>2, KnownKeptAt DEF Drop, StreamEnds, Connect, ResyncFails, FrameUnchained
  <2>3. CASE FrameMalformed \/ \E n \in 1 .. MaxFrames : Arrive(n)
    BY <2>3, KnownKept DEF FrameMalformed, Arrive, KnownInv
  <2>4. ASSUME NEW snap \in Carried, Frame(snap) PROVE KnownInv'
    <3>1. snap.revision <= Latest.revision
      BY DEF Carried, KnownInv, RestOK
    <3>2. [Idle("apply") EXCEPT !.snap = snap].snap = snap
      BY DEF Idle
    <3> QED BY <2>1, <2>4, <3>1, <3>2, KnownKeptBy DEF Frame
  <2>5. CASE Resync
    BY <1>4, <2>1, <2>5 DEF Resync
  <2>6. CASE ApplyStep("stream")
    BY <1>9, <2>6
  <2> QED BY <1>10, <2>2, <2>3, <2>4, <2>5, <2>6 DEF StreamStep, StreamRuns
<1>11. ASSUME PollStep PROVE KnownInv'
  <2>1. "poll" \in Threads
    BY DEF Threads
  <2>2. CASE Poll
    BY <1>4, <2>1, <2>2 DEF Poll
  <2>3. CASE PollEnds
    BY <2>1, <2>3, KnownKeptAt DEF PollEnds
  <2> QED BY <1>9, <1>11, <2>2, <2>3 DEF PollStep
<1>12. ASSUME \/ \E l \in Listeners : OnChange(l) \/ Unsubscribe(l)
              \/ Close
              \/ UNCHANGED vars
       PROVE  KnownInv'
  <2>1. UNCHANGED <<history, thread>>
    BY <1>12 DEF OnChange, Unsubscribe, Close, vars
  <2> QED BY <2>1, KnownKept DEF KnownInv
<1> QED
  <2>1. ASSUME NEW c \in Callers, ReadyStep(c) PROVE KnownInv'
    BY <1>6, <1>7, <1>8, <2>1 DEF ReadyStep, Threads
  <2> QED BY <1>2, <1>6, <1>10, <1>11, <1>12, <2>1 DEF Next

\* What the goroutines of a closed client have yet to apply, and the frames that have
\* arrived, are from before Close.
ClosedInv ==
  closed /\ started =>
    /\ \A t \in {"stream", "poll"} : At(t, "apply") => thread[t].snap.revision <= closedAt
    /\ \A i \in 1 .. arrived.upto : history[i].revision <= closedAt

\* Nothing arrives and nobody gets to apply anything.
LEMMA ClosedKept ==
  ASSUME ClosedInv, RestOK, UNCHANGED <<history, started, closed, closedAt>>,
         arrived' = arrived \/ arrived'.upto = 0,
         \A t \in {"stream", "poll"} :
           thread'[t].pc = "apply" => At(t, "apply") /\ thread'[t].snap = thread[t].snap
  PROVE  ClosedInv'
<1>1. 1 .. arrived'.upto \subseteq 1 .. arrived.upto
  BY DEF RestOK
<1> QED BY <1>1 DEF ClosedInv, At

\* A goroutine that goes on to something else.
LEMMA ClosedKeptBy ==
  ASSUME ClosedInv, RestOK, ThreadsOK, UNCHANGED <<history, started, closed, closedAt>>,
         arrived' = arrived \/ arrived'.upto = 0,
         NEW t \in Threads, NEW new, thread' = [thread EXCEPT ![t] = new],
         new.pc # "apply" \/ t \in Callers
  PROVE  ClosedInv'
<1>1. \A u \in {"stream", "poll"} :
        thread'[u].pc = "apply" => At(u, "apply") /\ thread'[u].snap = thread[u].snap
  BY DEF ThreadsOK, At
<1> QED BY <1>1, ClosedKept

\* It only goes to another place.
LEMMA ClosedKeptAt ==
  ASSUME ClosedInv, RestOK, ThreadsOK, UNCHANGED <<history, started, closed, closedAt>>,
         arrived' = arrived \/ arrived'.upto = 0,
         NEW t \in Threads, NEW pc, Goto(t, pc), pc # "apply"
  PROVE  ClosedInv'
<1>1. \A u \in {"stream", "poll"} :
        thread'[u].pc = "apply" => At(u, "apply") /\ thread'[u].snap = thread[u].snap
  BY DEF Goto, ThreadsOK, At
<1> QED BY <1>1, ClosedKept

LEMMA StepClosed == TypeInv /\ RunInv /\ KnownInv /\ ClosedInv /\ [Next]_vars => ClosedInv'
<1> SUFFICES ASSUME ThreadsOK, RestOK, RunInv, KnownInv, ClosedInv, [Next]_vars PROVE ClosedInv'
  BY TypeParts
<1> USE DEF app, ghosts
<1>1. ASSUME NEW h \in Hashes, Write(h) \/ ChangeSchema(h) PROVE ClosedInv'
  <2>1. PICK snap : ServerMoves(snap)
    BY <1>1 DEF Write, ChangeSchema
  <2>2. \A i \in 1 .. arrived.upto : history'[i] = history[i]
    BY <2>1 DEF ServerMoves, RestOK
  <2> QED BY <2>1, <2>2 DEF ServerMoves, ClosedInv, At
<1>2. ASSUME NEW t \in {"stream", "poll"}, Fetch(t), UNCHANGED readies PROVE ClosedInv'
  BY <1>2 DEF Fetch, MayFetch, Cancelled, ClosedInv
<1>3. ASSUME NEW c \in Callers, Load(c) \/ LoadNothing(c) PROVE ClosedInv'
  BY <1>3, ClosedKeptBy DEF Load, LoadNothing, Fetch, Threads
<1>4. ASSUME NEW c \in Callers, Store(c) PROVE ClosedInv'
  BY <1>4, ClosedKeptAt DEF Store, Threads
<1>5. ASSUME NEW t \in Threads, CheckSchemaDrift(t) PROVE ClosedInv'
  BY <1>5, ClosedKeptAt DEF CheckSchemaDrift
<1>6. ASSUME NEW c \in Callers, Start(c) PROVE ClosedInv'
  <2>1. CASE MayStart
    BY <1>6, <2>1 DEF Start, MayStart, ClosedInv
  <2>2. CASE ~MayStart
    <3>1. thread'["stream"] = thread["stream"] /\ thread'["poll"] = thread["poll"]
      BY <1>6, <2>2, GoSdkAssumption DEF Start, Threads
    <3>2. UNCHANGED <<history, closed, closedAt, arrived>> /\ started' = started
      BY <1>6, <2>2 DEF Start, RestOK
    <3> QED BY <3>1, <3>2, ClosedKept DEF At
  <2> QED BY <2>1, <2>2
<1>7. ASSUME NEW t \in {"stream", "poll"}, ApplyStep(t) PROVE ClosedInv'
  <2>1. t \in Threads
    BY DEF Threads
  <2>2. CASE Apply(t)
    BY <2>1, <2>2, ClosedKeptAt DEF Apply, Swap
  <2>3. CASE CheckSchemaDrift(t)
    BY <1>5, <2>1, <2>3
  <2>4. CASE ApplyStale(t) \/ Called(t) \/ CopyListeners(t)
    BY <2>1, <2>4, ClosedKeptBy DEF ApplyStale, Called, CopyListeners, Idle, Back
  <2>5. ASSUME NEW l \in Listeners, CallListener(t, l) PROVE ClosedInv'
    <3>1. \A u \in Threads : thread'[u].pc = thread[u].pc /\ thread'[u].snap = thread[u].snap
      BY <2>5 DEF CallListener, ThreadsOK
    <3> QED BY <2>5, <3>1, ClosedKept DEF CallListener, Threads, At
  <2> QED BY <1>7, <2>2, <2>3, <2>4, <2>5 DEF ApplyStep
<1>8. ASSUME StreamStep PROVE ClosedInv'
  <2>1. "stream" \in Threads /\ NoFrames.upto = 0
    BY DEF Threads, NoFrames
  <2>2. ASSUME TakeFrame PROVE arrived'.upto \in {arrived.upto, 0}
    BY <2>1, <2>2 DEF TakeFrame, RestOK
  <2>3. CASE Drop \/ StreamEnds \/ Connect \/ ResyncFails
    BY <2>1, <2>3, ClosedKeptAt DEF Drop, StreamEnds, Connect, ResyncFails
  <2>4. CASE FrameUnchained \/ FrameMalformed
    <3>1. \A t \in {"stream", "poll"} :
            thread'[t].pc = "apply" => At(t, "apply") /\ thread'[t].snap = thread[t].snap
      <4>1. CASE FrameUnchained
        BY <2>1, <4>1 DEF FrameUnchained, Goto, ThreadsOK, At, Threads
      <4>2. CASE FrameMalformed
        BY <4>2 DEF FrameMalformed, At
      <4> QED BY <2>4, <4>1, <4>2
    <3>2. 1 .. arrived'.upto \subseteq 1 .. arrived.upto
      BY <2>2, <2>4 DEF FrameUnchained, FrameMalformed, RestOK
    <3> QED BY <2>4, <3>1, <3>2 DEF FrameUnchained, FrameMalformed, ClosedInv, At
  <2>5. ASSUME NEW n \in 1 .. MaxFrames, Arrive(n) PROVE ClosedInv'
    BY <2>5 DEF Arrive, Cancelled, ClosedInv
  <2>6. ASSUME NEW snap \in Carried, Frame(snap) PROVE ClosedInv'
    <3>1. thread'["stream"].snap = snap /\ thread'["poll"] = thread["poll"]
      BY <2>1, <2>6 DEF Frame, Idle, ThreadsOK
    <3>2. 1 .. arrived'.upto \subseteq 1 .. arrived.upto
      BY <2>2, <2>6 DEF Frame, RestOK
    <3>3. closed /\ started => snap.revision <= closedAt
      BY DEF Carried, ClosedInv
    <3> QED BY <2>6, <3>1, <3>2, <3>3 DEF Frame, ClosedInv, At
  <2>7. CASE Resync
    BY <1>2, <2>7 DEF Resync
  <2>8. CASE ApplyStep("stream")
    BY <1>7, <2>8
  <2> QED BY <1>8, <2>3, <2>4, <2>5, <2>6, <2>7, <2>8 DEF StreamStep, StreamRuns
<1>9. ASSUME PollStep PROVE ClosedInv'
  <2>1. "poll" \in Threads
    BY DEF Threads
  <2>2. CASE Poll
    BY <1>2, <2>2 DEF Poll
  <2>3. CASE PollEnds
    BY <2>1, <2>3, ClosedKeptAt DEF PollEnds
  <2> QED BY <1>7, <1>9, <2>2, <2>3 DEF PollStep
<1>10. ASSUME \/ \E l \in Listeners : OnChange(l) \/ Unsubscribe(l)
              \/ UNCHANGED vars
       PROVE  ClosedInv'
  <2>1. UNCHANGED <<history, started, closed, closedAt, arrived, thread>>
    BY <1>10 DEF OnChange, Unsubscribe, vars
  <2> QED BY <2>1, ClosedKept DEF At
<1>11. CASE Close
  <2>1. UNCHANGED <<history, thread, arrived>> /\ closedAt' = Latest.revision
    BY <1>11 DEF Close
  <2>2. 1 .. arrived.upto \subseteq 1 .. Len(history)
    BY DEF RestOK
  <2> QED BY <2>1, <2>2 DEF ClosedInv, KnownInv, Threads, At
<1> QED
  <2>1. ASSUME NEW c \in Callers, ReadyStep(c) PROVE ClosedInv'
    BY <1>4, <1>5, <1>6, <2>1 DEF ReadyStep, Threads
  <2> QED BY <1>1, <1>3, <1>8, <1>9, <1>10, <1>11, <2>1 DEF Next

\* A closed client swaps in nothing that was written after Close, but what a later Ready
\* has fetched: the context of its goroutines ended, and what had arrived was older.
THEOREM ClosedAlwaysLearnsNothing == Spec => ClosedLearnsNothing
<1>1. Init => RunInv /\ KnownInv /\ ClosedInv
  BY DEF Init, RunInv, KnownInv, ClosedInv, At, Idle, Threads, EmptySnapshot, Latest
<1>2. TypeInv /\ RunInv /\ ClosedInv /\ [Next]_vars =>
        [closed /\ current' # current =>
           \/ current'.revision <= closedAt
           \/ \E c \in Callers : At(c, "store") /\ current' = thread[c].snap]_vars
  <2> SUFFICES ASSUME RunInv, ClosedInv, Next, closed, current' # current
               PROVE  \/ current'.revision <= closedAt
                      \/ \E c \in Callers : At(c, "store") /\ current' = thread[c].snap
    BY DEF vars
  <2> USE DEF app, ghosts
  <2>1. ASSUME NEW t \in {"stream", "poll"}, ApplyStep(t) PROVE current'.revision <= closedAt
    <3>1. At(t, "apply") /\ current' = thread[t].snap
      BY <2>1 DEF ApplyStep, Apply, ApplyStale, CheckSchemaDrift, CopyListeners, CallListener,
                  Called, Swap
    <3>2. started
      BY <3>1 DEF RunInv, At
    <3> QED BY <3>1, <3>2 DEF ClosedInv
  <2>2. CASE StreamStep
    <3>1. ApplyStep("stream")
      BY <2>2 DEF StreamStep, StreamRuns, Frame, FrameUnchained, FrameMalformed, Fetch,
                  Resync, ResyncFails, StreamEnds, Connect, Arrive, Drop
    <3> QED BY <2>1, <3>1
  <2>3. CASE PollStep
    <3>1. ApplyStep("poll")
      BY <2>3 DEF PollStep, Poll, PollEnds, Fetch
    <3> QED BY <2>1, <3>1
  <2>4. ASSUME NEW c \in Callers, Load(c) \/ LoadNothing(c) \/ ReadyStep(c)
        PROVE  At(c, "store") /\ current' = thread[c].snap
    BY <2>4 DEF Load, LoadNothing, ReadyStep, Fetch, Store, CheckSchemaDrift, Start
  <2>5. ASSUME \/ \E h \in Hashes : Write(h) \/ ChangeSchema(h)
               \/ \E l \in Listeners : OnChange(l) \/ Unsubscribe(l)
               \/ Close
        PROVE  FALSE
    BY <2>5 DEF Write, ChangeSchema, ServerMoves, OnChange, Unsubscribe, Close
  <2> QED BY <2>2, <2>3, <2>4, <2>5, <2>1 DEF Next
<1> QED BY <1>1, <1>2, InitType, StepType, StepRun, StepKnown, StepClosed, PTL
        DEF Spec, ClosedLearnsNothing

-----------------------------------------------------------------------------
(* Announcements.                                                          *)

Background == {"stream", "poll"}

\* A goroutine is past the swap and not done with its snapshot.
Swapped(t) == thread[t].pc \in {"drift", "notify", "call"}

\* It will call listener l with the revision served.
Announcing(t, l) ==
  /\ thread[t].snap.revision = current.revision
  /\ At(t, "drift") \/ At(t, "notify") \/ (At(t, "call") /\ l \in thread[t].todo)

\* Whoever was registered at the swap and still is has been called, or will be.
HeardInv ==
  /\ \A l \in audience : subscription[l] # "before"
  /\ \A l \in audience \cap Registered :
       current.revision \in heard[l] \/ \E t \in Background : Announcing(t, l)

LEMMA BackgroundThreads == Background \subseteq Threads /\ Background \cap Callers = {}
BY DEF Background, Threads

\* Goroutines that announce nothing may do what they like.
LEMMA HeardKept ==
  ASSUME HeardInv, UNCHANGED <<current, subscription, audience, heard>>,
         \A t \in Background : Swapped(t) => thread'[t] = thread[t]
  PROVE  HeardInv'
<1>1. \A t \in Background, l \in Listeners : Announcing(t, l) => Announcing(t, l)'
  BY DEF Announcing, Swapped, At
<1> QED BY <1>1 DEF HeardInv, Registered

LEMMA HeardKeptBy ==
  ASSUME HeardInv, ThreadsOK, UNCHANGED <<current, subscription, audience, heard>>,
         NEW t \in Threads, t \in Callers \/ ~Swapped(t), NEW new, thread' = [thread EXCEPT ![t] = new]
  PROVE  HeardInv'
<1>1. \A u \in Background : Swapped(u) => thread'[u] = thread[u]
  BY BackgroundThreads DEF ThreadsOK
<1> QED BY <1>1, HeardKept

\* A goroutine that goes on to announce what it has.
LEMMA HeardOn ==
  ASSUME HeardInv, ThreadsOK, UNCHANGED <<current, subscription, audience>>,
         \A l \in Listeners : heard[l] \subseteq heard'[l],
         NEW t \in Background,
         \A u \in Background \ {t} : thread'[u] = thread[u],
         \A l \in Registered : Announcing(t, l) => Announcing(t, l)' \/ current.revision \in heard'[l],
         audience \subseteq Listeners
  PROVE  HeardInv'
<1>1. \A u \in Background \ {t}, l \in Listeners : Announcing(u, l) => Announcing(u, l)'
  BY DEF Announcing, At
<1>2. Registered' = Registered
  BY DEF Registered
<1> QED BY <1>1, <1>2 DEF HeardInv

LEMMA StepHeard == TypeInv /\ RunInv /\ HeardInv /\ [Next]_vars => HeardInv'
<1> SUFFICES ASSUME ThreadsOK, RestOK, RunInv, HeardInv, [Next]_vars PROVE HeardInv'
  BY TypeParts
<1> USE DEF app, ghosts
<1>1. ASSUME NEW t \in Threads, CheckSchemaDrift(t) PROVE HeardInv'
  <2>1. /\ At(t, "drift") /\ Goto(t, IF t \in Callers THEN "start" ELSE "notify")
        /\ UNCHANGED <<current, subscription, audience, heard>>
    BY <1>1 DEF CheckSchemaDrift
  <2>2. CASE t \in Callers
    BY <2>1, <2>2, HeardKeptBy DEF Goto
  <2>3. CASE t \notin Callers
    <3>1. t \in Background
      BY <2>3 DEF Threads, Background
    <3>2. thread'[t].pc = "notify" /\ thread'[t].snap = thread[t].snap
      BY <2>1, <2>3 DEF Goto, ThreadsOK
    <3>3. \A u \in Background \ {t} : thread'[u] = thread[u]
      BY <2>1, BackgroundThreads DEF Goto, ThreadsOK
    <3>4. \A l \in Registered : Announcing(t, l) => Announcing(t, l)'
      BY <2>1, <3>2 DEF Announcing, At
    <3> QED BY <2>1, <3>1, <3>3, <3>4, HeardOn DEF RestOK
  <2> QED BY <2>2, <2>3
<1>2. ASSUME NEW t \in Threads, Fetch(t), ~Swapped(t) PROVE HeardInv'
  BY <1>2, HeardKeptBy DEF Fetch
<1>3. ASSUME NEW c \in Callers, Load(c) \/ LoadNothing(c) PROVE HeardInv'
  <2>1. c \in Threads /\ ~Swapped(c)
    BY <1>3 DEF Threads, Load, LoadNothing, At, Swapped
  <2> QED BY <1>2, <1>3, <2>1, HeardKeptBy DEF Load, LoadNothing
<1>4. ASSUME NEW c \in Callers, Store(c) PROVE HeardInv'
  BY <1>4 DEF Store, HeardInv
<1>5. ASSUME NEW c \in Callers, Start(c) PROVE HeardInv'
  <2>1. MayStart => ~Swapped("stream") /\ ~Swapped("poll")
    BY DEF MayStart, RunInv, At, Swapped
  <2>2. \A t \in Background : Swapped(t) => thread'[t] = thread[t]
    BY <1>5, <2>1, BackgroundThreads DEF Start, Background
  <2>3. UNCHANGED <<current, subscription, audience, heard>>
    BY <1>5 DEF Start
  <2> QED BY <2>2, <2>3, HeardKept
<1>6. ASSUME NEW t \in Background, ApplyStep(t) PROVE HeardInv'
  <2>1. t \in Threads /\ t \notin Callers
    BY BackgroundThreads
  <2>2. CASE Apply(t)
    <3>1. thread'[t].pc = "drift" /\ thread'[t].snap = thread[t].snap
      BY <2>1, <2>2 DEF Apply, Swap, Goto, ThreadsOK
    <3>2. /\ current' = thread[t].snap /\ audience' = Registered
          /\ UNCHANGED <<subscription, heard>>
      BY <2>2 DEF Apply, Swap
    <3>3. \A l \in audience' : subscription'[l] # "before" /\ Announcing(t, l)'
      BY <3>1, <3>2 DEF Registered, Announcing, At
    <3> QED BY <3>3 DEF HeardInv
  <2>3. CASE CheckSchemaDrift(t)
    BY <1>1, <2>1, <2>3
  <2>4. CASE ApplyStale(t)
    BY <2>1, <2>4, HeardKeptBy DEF ApplyStale, At, Swapped
  <2>5. ASSUME UNCHANGED <<current, subscription, audience>>,
               \A l \in Listeners : heard[l] \subseteq heard'[l],
               NEW new, thread' = [thread EXCEPT ![t] = new],
               \A l \in Registered :
                 Announcing(t, l) => Announcing(t, l)' \/ current.revision \in heard'[l]
        PROVE  HeardInv'
    <3>1. \A u \in Background \ {t} : thread'[u] = thread[u]
      BY <2>5, BackgroundThreads DEF ThreadsOK
    <3> QED BY <2>5, <3>1, HeardOn DEF RestOK
  <2>6. CASE CopyListeners(t)
    <3>1. /\ thread'[t].pc = "call" /\ thread'[t].snap = thread[t].snap
          /\ thread'[t].todo = Registered /\ UNCHANGED <<current, subscription, audience, heard>>
      BY <2>1, <2>6 DEF CopyListeners, ThreadsOK
    <3>2. \A l \in Registered : Announcing(t, l) => Announcing(t, l)'
      BY <3>1 DEF Announcing, At
    <3> QED BY <2>5, <2>6, <3>1, <3>2 DEF CopyListeners
  <2>7. ASSUME NEW l \in Listeners, CallListener(t, l) PROVE HeardInv'
    <3>1. /\ UNCHANGED <<current, subscription, audience>>
          /\ thread' = [thread EXCEPT ![t] = [thread[t] EXCEPT !.todo = thread[t].todo \ {l}]]
      BY <2>7 DEF CallListener
    <3>2. /\ \A k \in Listeners : heard[k] \subseteq heard'[k]
          /\ thread[t].snap.revision \in heard'[l]
      BY <2>7 DEF CallListener, RestOK
    <3>3. /\ thread'[t].pc = thread[t].pc /\ thread'[t].snap = thread[t].snap
          /\ thread'[t].todo = thread[t].todo \ {l}
      BY <2>1, <3>1 DEF ThreadsOK
    <3>4. \A k \in Registered :
            Announcing(t, k) => Announcing(t, k)' \/ current.revision \in heard'[k]
      BY <3>1, <3>2, <3>3 DEF Announcing, At
    <3> QED BY <2>5, <3>1, <3>2, <3>4
  <2>8. CASE Called(t)
    <3>1. /\ UNCHANGED <<current, subscription, audience, heard>>
          /\ At(t, "call") /\ thread[t].todo = {}
      BY <2>8 DEF Called
    <3>2. \A l \in Registered : ~Announcing(t, l)
      BY <3>1 DEF Announcing, At
    <3> QED BY <2>5, <2>8, <3>1, <3>2 DEF Called
  <2> QED BY <1>6, <2>2, <2>3, <2>4, <2>6, <2>7, <2>8 DEF ApplyStep
<1>7. ASSUME StreamStep PROVE HeardInv'
  <2>1. "stream" \in Threads
    BY DEF Threads
  <2>2. CASE Drop \/ StreamEnds \/ Connect \/ ResyncFails \/ FrameUnchained
    BY <2>1, <2>2, HeardKeptBy
       DEF Drop, StreamEnds, Connect, ResyncFails, FrameUnchained, TakeFrame, At, Goto, Swapped
  <2>3. CASE FrameMalformed
    BY <2>3, HeardKept DEF FrameMalformed
  <2>4. ASSUME NEW n \in 1 .. MaxFrames, Arrive(n) PROVE HeardInv'
    BY <2>4, HeardKept DEF Arrive
  <2>5. ASSUME NEW snap \in Carried, Frame(snap) PROVE HeardInv'
    BY <2>1, <2>5, HeardKeptBy DEF Frame, TakeFrame, At, Swapped
  <2>6. CASE Resync
    BY <1>2, <2>1, <2>6 DEF Resync, At, Swapped
  <2>7. CASE ApplyStep("stream")
    BY <1>6, <2>7 DEF Background
  <2> QED BY <1>7, <2>2, <2>3, <2>4, <2>5, <2>6, <2>7 DEF StreamStep, StreamRuns
<1>8. ASSUME PollStep PROVE HeardInv'
  <2>1. "poll" \in Threads /\ "poll" \in Background
    BY DEF Threads, Background
  <2>2. CASE Poll
    BY <1>2, <2>1, <2>2 DEF Poll, At, Swapped
  <2>3. CASE PollEnds
    BY <2>1, <2>3, HeardKeptBy DEF PollEnds, At, Goto, Swapped
  <2> QED BY <1>6, <1>8, <2>1, <2>2, <2>3 DEF PollStep
<1>9. ASSUME NEW l \in Listeners, OnChange(l) \/ Unsubscribe(l) PROVE HeardInv'
  <2>1. /\ UNCHANGED <<current, audience, heard, thread>>
        /\ \A k \in Listeners : subscription[k] # "before" => subscription'[k] # "before"
        /\ \A k \in Registered' : subscription[k] # "before" => k \in Registered
    BY <1>9 DEF OnChange, Unsubscribe, Registered, RestOK
  <2>2. \A t \in Background, k \in Listeners : Announcing(t, k) => Announcing(t, k)'
    BY <2>1 DEF Announcing, At
  <2> QED BY <2>1, <2>2 DEF HeardInv, RestOK
<1>10. ASSUME (\E h \in Hashes : Write(h) \/ ChangeSchema(h)) \/ Close \/ UNCHANGED vars
       PROVE  HeardInv'
  <2>1. UNCHANGED <<current, subscription, audience, heard, thread>>
    BY <1>10 DEF Write, ChangeSchema, ServerMoves, Close, vars
  <2> QED BY <2>1, HeardKept
<1> QED
  <2>1. ASSUME NEW c \in Callers, ReadyStep(c) PROVE HeardInv'
    BY <1>1, <1>4, <1>5, <2>1 DEF ReadyStep, Threads
  <2> QED BY <1>3, <1>7, <1>8, <1>9, <1>10, <2>1 DEF Next

\* No listener misses the snapshot that is served, though the listeners are copied and
\* called after the locks are released, by two goroutines at a time.
THEOREM ChangesAlwaysHeard == Spec => []ChangesAreHeard
<1>1. Init => RunInv /\ HeardInv
  BY DEF Init, RunInv, HeardInv, At, Idle, Threads
<1>2. HeardInv => ChangesAreHeard
  BY DEF HeardInv, ChangesAreHeard, Announcing, At, Background
<1> QED BY <1>1, <1>2, InitType, StepType, StepRun, StepHeard, PTL DEF Spec

-----------------------------------------------------------------------------
(* The order of announcements, with one Ready.                             *)

\* Nobody was told of a revision newer than the one served.
ToldInv ==
  /\ \A l \in Listeners : \A r \in heard[l] : r <= current.revision
  /\ \A t \in Background : Swapped(t) => thread[t].snap.revision <= current.revision

\* A Ready that was answered is the only one under way, and stores before it starts the
\* goroutines, so that its store, which has no gate, comes before any announcement.
OnceInv ==
  /\ ~started => \A l \in Listeners : heard[l] = {}
  /\ readies = 0 => ~started /\ \A c \in Callers : At(c, "ready")
  /\ readies <= 1 =>
       /\ \A c, d \in Callers : ~At(c, "ready") /\ ~At(d, "ready") => c = d
       /\ \A c \in Callers : At(c, "store") => ~started
       /\ ToldInv

\* The goroutines go on, and swap nothing in.
LEMMA ToldKept ==
  ASSUME ToldInv, UNCHANGED <<current, heard>>,
         \A t \in Background :
           Swapped(t)' => Swapped(t) /\ thread'[t].snap = thread[t].snap
  PROVE  ToldInv'
BY DEF ToldInv

\* A step that no Ready takes.
LEMMA OnceKept ==
  ASSUME OnceInv, UNCHANGED <<readies, started>>,
         \A c \in Callers : thread'[c] = thread[c],
         ~started => heard' = heard,
         ToldInv => ToldInv'
  PROVE  OnceInv'
BY DEF OnceInv, At

\* A step of a goroutine that swaps nothing in.
LEMMA OnceKeptBy ==
  ASSUME OnceInv, ThreadsOK, UNCHANGED <<readies, started, current, heard>>,
         NEW t \in Background, NEW new, thread' = [thread EXCEPT ![t] = new],
         new.pc \in {"drift", "notify", "call"} => Swapped(t) /\ new.snap = thread[t].snap
  PROVE  OnceInv'
<1>1. \A c \in Callers : thread'[c] = thread[c]
  BY BackgroundThreads DEF ThreadsOK, Threads
<1>2. \A u \in Background :
        Swapped(u)' => Swapped(u) /\ thread'[u].snap = thread[u].snap
  BY BackgroundThreads DEF ThreadsOK, Swapped
<1> QED BY <1>1, <1>2, OnceKept, ToldKept

LEMMA OnceKeptAt ==
  ASSUME OnceInv, ThreadsOK, UNCHANGED <<readies, started, current, heard>>,
         NEW t \in Background, NEW pc, Goto(t, pc),
         pc \in {"drift", "notify", "call"} => Swapped(t)
  PROVE  OnceInv'
<1>1. thread' = [thread EXCEPT ![t] = [thread[t] EXCEPT !.pc = pc]]
  BY DEF Goto
<1>2. [thread[t] EXCEPT !.pc = pc].pc = pc /\ [thread[t] EXCEPT !.pc = pc].snap = thread[t].snap
  BY BackgroundThreads DEF ThreadsOK
<1> QED BY <1>1, <1>2, OnceKeptBy

LEMMA RevisionsAreNaturals ==
  ASSUME ThreadsOK, RestOK
  PROVE  /\ current.revision \in Nat
         /\ \A t \in Threads : thread[t].snap.revision \in Nat
         /\ \A l \in Listeners : heard[l] \subseteq Nat
<1>1. \A t \in Threads : thread[t].snap \in Snapshots
  BY DEF ThreadsOK
<1> QED BY <1>1 DEF RestOK, Snapshots

LEMMA StepOnce == TypeInv /\ RunInv /\ OnceInv /\ [Next]_vars => OnceInv'
<1> SUFFICES ASSUME ThreadsOK, RestOK, RunInv, OnceInv, [Next]_vars PROVE OnceInv'
  BY TypeParts
<1> USE DEF app, ghosts
<1>1. ASSUME NEW c \in Callers, Load(c) \/ LoadNothing(c) PROVE OnceInv'
  <2>1. /\ readies \in Nat /\ readies' = readies + 1 /\ UNCHANGED <<current, started, heard>>
        /\ \A t \in Threads \ {c} : thread'[t] = thread[t]
    BY <1>1 DEF Load, LoadNothing, Answered, Fetch, RestOK, ThreadsOK
  <2>2. \A t \in Background : thread'[t] = thread[t]
    BY <2>1, BackgroundThreads
  <2>3. ToldInv => ToldInv'
    BY <2>1, <2>2, ToldKept DEF Swapped
  <2>4. CASE readies = 0
    <3>1. ~started /\ \A d \in Callers : At(d, "ready")
      BY <2>4 DEF OnceInv
    <3>2. \A d \in Callers \ {c} : At(d, "ready")'
      BY <2>1, <3>1 DEF At, Threads
    <3>3. readies' = 1
      BY <2>1, <2>4
    <3>4. ToldInv'
      BY <2>3, <2>4 DEF OnceInv
    <3> QED BY <2>1, <3>1, <3>2, <3>3, <3>4 DEF OnceInv
  <2>5. CASE readies # 0
    <3>1. ~(readies' <= 1) /\ readies' # 0
      BY <2>1, <2>5
    <3> QED BY <2>1, <3>1 DEF OnceInv
  <2> QED BY <2>4, <2>5
<1>2. ASSUME NEW c \in Callers, UNCHANGED <<readies, heard>>, ~At(c, "ready"),
             started' = started \/ ~At(c, "store"),
             started => started',
             \A d \in Callers \ {c} : thread'[d] = thread[d],
             thread'[c].pc # "store",
             readies <= 1 => ToldInv'
      PROVE  OnceInv'
  <2>1. readies # 0
    BY <1>2 DEF OnceInv
  <2>2. \A d \in Callers \ {c} : readies <= 1 => At(d, "ready")'
    BY <1>2 DEF OnceInv, At
  <2>3. ~started' => \A l \in Listeners : heard'[l] = {}
    BY <1>2 DEF OnceInv
  <2>4. \A d \in Callers : readies <= 1 => ~At(d, "store")'
    BY <1>2, <2>2 DEF At
  <2> QED BY <1>2, <2>1, <2>2, <2>3, <2>4 DEF OnceInv
<1>3. ASSUME NEW c \in Callers, Store(c) PROVE OnceInv'
  <2>1. /\ UNCHANGED <<readies, started, heard>> /\ At(c, "store")
        /\ Goto(c, IF thread[c].snap.revision = 0 THEN "start" ELSE "drift")
    BY <1>3 DEF Store
  <2>2. (\A t \in Threads \ {c} : thread'[t] = thread[t]) /\ thread'[c].pc # "store"
    BY <2>1 DEF Goto, ThreadsOK, Threads
  <2>3. ASSUME readies <= 1 PROVE ToldInv'
    <3>1. ~started /\ \A l \in Listeners : heard'[l] = {}
      BY <2>1, <2>3 DEF OnceInv
    <3>2. \A t \in Background : thread'[t].pc = "off"
      BY <2>2, <3>1, BackgroundThreads DEF RunInv, At, Background
    <3> QED BY <3>1, <3>2 DEF ToldInv, Swapped
  <2> QED BY <1>2, <2>1, <2>2, <2>3 DEF At, Threads
<1>4. ASSUME NEW c \in Callers, CheckSchemaDrift(c) PROVE OnceInv'
  <2>1. /\ UNCHANGED <<readies, started, heard, current>> /\ At(c, "drift") /\ Goto(c, "start")
    BY <1>4 DEF CheckSchemaDrift
  <2>2. (\A t \in Threads \ {c} : thread'[t] = thread[t]) /\ thread'[c].pc # "store"
    BY <2>1 DEF Goto, ThreadsOK, Threads
  <2>3. ToldInv => ToldInv'
    BY <2>1, <2>2, BackgroundThreads, ToldKept DEF Swapped
  <2> QED BY <1>2, <2>1, <2>2, <2>3 DEF At, Threads, OnceInv
<1>5. ASSUME NEW c \in Callers, Start(c) PROVE OnceInv'
  <2>1. UNCHANGED <<readies, heard, current>> /\ At(c, "start") /\ (started => started')
    BY <1>5 DEF Start
  <2>2. (\A d \in Callers \ {c} : thread'[d] = thread[d]) /\ thread'[c].pc = "ready"
    BY <1>5 DEF Start, Threads, Idle
  <2>3. \A t \in Background : thread'[t] = thread[t] \/ thread'[t].pc \in {"connect", "wait"}
    BY <1>5, BackgroundThreads DEF Start, Idle, Background
  <2>4. ToldInv => ToldInv'
    BY <2>1, <2>3, ToldKept DEF Swapped
  <2> QED BY <1>2, <2>1, <2>2, <2>4 DEF At, OnceInv
<1>6. ASSUME NEW t \in Background, ApplyStep(t) PROVE OnceInv'
  <2>1. t \in Threads /\ t \notin Callers /\ UNCHANGED <<readies, started>>
    BY <1>6, BackgroundThreads DEF ApplyStep, Apply, ApplyStale, CheckSchemaDrift, CopyListeners,
                                   CallListener, Called
  <2>2. thread[t].snap.revision \in Nat /\ current.revision \in Nat
    BY <2>1, RevisionsAreNaturals
  <2>3. CASE Apply(t)
    <3>1. /\ thread'[t].snap = thread[t].snap
          /\ \A u \in Threads \ {t} : thread'[u] = thread[u]
      BY <2>1, <2>3 DEF Apply, Swap, Goto, ThreadsOK
    <3>2. /\ current' = thread[t].snap /\ heard' = heard
          /\ current'.revision > current.revision
      BY <2>3 DEF Apply, Swap, Newer
    <3>3. ASSUME ToldInv PROVE ToldInv'
      <4>1. \A l \in Listeners : \A r \in heard'[l] : r <= current'.revision
        BY <2>2, <3>2, <3>3, RevisionsAreNaturals DEF ToldInv
      <4>2. ASSUME NEW u \in Background, Swapped(u)'
            PROVE  thread'[u].snap.revision <= current'.revision
        <5>1. CASE u = t
          BY <2>2, <3>1, <3>2, <5>1
        <5>2. CASE u # t
          <6>1. thread'[u] = thread[u] /\ thread[u].snap.revision \in Nat
            BY <3>1, <5>2, BackgroundThreads, RevisionsAreNaturals
          <6>2. thread[u].snap.revision <= current.revision
            BY <3>3, <4>2, <6>1 DEF ToldInv, Swapped
          <6> QED BY <2>2, <3>2, <6>1, <6>2
        <5> QED BY <5>1, <5>2
      <4> QED BY <4>1, <4>2 DEF ToldInv
    <3> QED BY <2>1, <3>1, <3>2, <3>3, OnceKept DEF Threads
  <2>4. CASE CheckSchemaDrift(t)
    BY <2>1, <2>4, OnceKeptAt DEF CheckSchemaDrift, Swapped, At
  <2>5. CASE ApplyStale(t) \/ Called(t)
    BY <2>1, <2>5, OnceKeptBy DEF ApplyStale, Called, Idle, Back
  <2>6. CASE CopyListeners(t)
    BY <2>1, <2>6, OnceKeptBy DEF CopyListeners, Swapped, At
  <2>7. ASSUME NEW l \in Listeners, CallListener(t, l) PROVE OnceInv'
    <3>1. /\ UNCHANGED current
          /\ heard' = [heard EXCEPT ![l] = @ \cup {thread[t].snap.revision}]
          /\ thread' = [thread EXCEPT ![t].todo = @ \ {l}] /\ Swapped(t)
      BY <2>7 DEF CallListener, At, Swapped
    <3>2. started
      BY <3>1 DEF RunInv, Swapped, At, Background
    <3>3. \A u \in Threads : thread'[u].pc = thread[u].pc /\ thread'[u].snap = thread[u].snap
      BY <3>1 DEF ThreadsOK
    <3>4. \A c \in Callers : thread'[c] = thread[c]
      BY <2>1, <3>1 DEF ThreadsOK, Threads
    <3>5. ASSUME ToldInv PROVE ToldInv'
      <4>1. thread[t].snap.revision <= current.revision
        BY <3>1, <3>5 DEF ToldInv
      <4>2. \A k \in Listeners : \A r \in heard'[k] : r <= current'.revision
        BY <3>1, <3>5, <4>1 DEF ToldInv, RestOK
      <4>3. \A u \in Background : Swapped(u)' => thread'[u].snap.revision <= current'.revision
        BY <3>1, <3>3, <3>5, BackgroundThreads DEF ToldInv, Swapped
      <4> QED BY <4>2, <4>3 DEF ToldInv
    <3> QED BY <2>1, <3>2, <3>4, <3>5, OnceKept
  <2> QED BY <1>6, <2>3, <2>4, <2>5, <2>6, <2>7 DEF ApplyStep
<1>7. ASSUME NEW t \in Background, Fetch(t), UNCHANGED readies PROVE OnceInv'
  <2> DEFINE new == [pc |-> "apply", snap |-> Latest, todo |-> {}]
  <2>1. thread' = [thread EXCEPT ![t] = new] /\ UNCHANGED <<started, current, heard>>
    BY <1>7, BackgroundThreads DEF Fetch
  <2>2. new.pc = "apply"
    OBVIOUS
  <2> HIDE DEF new
  <2> QED BY <1>7, <2>1, <2>2, OnceKeptBy
<1>8. ASSUME StreamStep PROVE OnceInv'
  <2>1. "stream" \in Background
    BY DEF Background
  <2>2. CASE Drop \/ StreamEnds \/ Connect \/ ResyncFails \/ FrameUnchained
    BY <2>1, <2>2, OnceKeptAt DEF Drop, StreamEnds, Connect, ResyncFails, FrameUnchained
  <2>3. ASSUME UNCHANGED <<readies, started, current, heard, thread>> PROVE OnceInv'
    BY <2>3, OnceKept, ToldKept DEF Swapped
  <2>4. CASE FrameMalformed \/ \E n \in 1 .. MaxFrames : Arrive(n)
    BY <2>3, <2>4 DEF FrameMalformed, Arrive
  <2>5. ASSUME NEW snap \in Carried, Frame(snap) PROVE OnceInv'
    <3>1. [Idle("apply") EXCEPT !.snap = snap].pc = "apply"
      BY DEF Idle
    <3> QED BY <2>1, <2>5, <3>1, OnceKeptBy DEF Frame
  <2>6. CASE Resync
    BY <2>1, <2>6, <1>7 DEF Resync
  <2>7. CASE ApplyStep("stream")
    BY <1>6, <2>1, <2>7
  <2> QED BY <1>8, <2>2, <2>4, <2>5, <2>6, <2>7 DEF StreamStep, StreamRuns
<1>9. ASSUME PollStep PROVE OnceInv'
  <2>1. "poll" \in Background
    BY DEF Background
  <2>2. CASE Poll
    BY <2>1, <2>2, <1>7 DEF Poll
  <2>3. CASE PollEnds
    BY <2>1, <2>3, OnceKeptAt DEF PollEnds
  <2> QED BY <1>6, <1>9, <2>1, <2>2, <2>3 DEF PollStep
<1>10. ASSUME \/ \E h \in Hashes : Write(h) \/ ChangeSchema(h)
              \/ \E l \in Listeners : OnChange(l) \/ Unsubscribe(l)
              \/ Close
              \/ UNCHANGED vars
       PROVE  OnceInv'
  <2>1. UNCHANGED <<readies, started, current, heard, thread>>
    BY <1>10 DEF Write, ChangeSchema, ServerMoves, OnChange, Unsubscribe, Close, vars
  <2> QED BY <2>1, OnceKept, ToldKept DEF Swapped
<1> QED
  <2>1. ASSUME NEW c \in Callers, ReadyStep(c) PROVE OnceInv'
    BY <1>3, <1>4, <1>5, <2>1 DEF ReadyStep
  <2> QED BY <1>1, <1>8, <1>9, <1>10, <2>1 DEF Next

\* The listeners are called without a lock, in any order, but with one Ready what comes
\* late was overtaken by the revision served.
THEOREM OutOfOrderOvertaken == Spec => OutOfOrderOnlyWhenOvertaken
<1>1. Init => RunInv /\ OnceInv
  BY DEF Init, RunInv, OnceInv, ToldInv, Swapped, At, Idle, Threads, Background
<1>2. TypeInv /\ OnceInv /\ [Next]_vars =>
        [readies <= 1 =>
           \A l \in Listeners : \A r \in heard'[l] \ heard[l] :
             (\E newer \in heard[l] : newer > r) => current.revision > r]_vars
  <2> SUFFICES ASSUME ThreadsOK, RestOK, OnceInv, [Next]_vars, readies <= 1,
                      NEW l \in Listeners, NEW r \in heard'[l] \ heard[l],
                      NEW newer \in heard[l], newer > r
               PROVE  current.revision > r
    BY TypeParts
  <2>1. newer <= current.revision /\ newer \in Nat /\ current.revision \in Nat
    BY RevisionsAreNaturals DEF OnceInv, ToldInv
  <2>2. r \in Nat
    <3>1. heard' \in [Listeners -> SUBSET Nat]
      BY StepType, TypeParts DEF TypeInv, GoTypeOK
    <3> QED BY <3>1
  <2> QED BY <2>1, <2>2
<1> QED BY <1>1, <1>2, InitType, StepType, StepRun, StepOnce, PTL
        DEF Spec, OutOfOrderOnlyWhenOvertaken
=============================================================================
