---------------------------- MODULE ServerProofs ----------------------------
(***************************************************************************)
(* Proofs about Server, for any instances, requests, keys and names: that  *)
(* only an interruption leaves the default organization without an owner,  *)
(* that streams are fed until the last handler is done, that the trail of  *)
(* a key is exact, that 409 is answered only when all is taken, and that   *)
(* a guess goes uncounted only beside another one.                         *)
(***************************************************************************)
EXTENDS Server, SequenceTheorems, WellFoundedInduction, TLAPS

USE ServerAssumption

\* An instance from start to exit.
AppMoves(i) ==
  \/ StartApp(i) \/ AppRuns(i) \/ SignalApp(i) \/ Drained(i)
  \/ TimesOut(i) \/ ExitApp(i) \/ CrashApp(i)

\* A request, from its arrival to its answer.
RequestMoves(r) ==
  \/ Login(r) \/ LoginRefused(r) \/ Stream(r) \/ CreateKey(r) \/ RevokeKey(r) \/ Create(r)
  \/ BodyEnds(r) \/ HandlerRuns(r) \/ Blocks(r) \/ Unblocks(r) \/ HangsUp(r)

LEMMA StepCases ==
  ASSUME [Next]_vars
  PROVE  \/ \E i \in Instances : AppMoves(i)
         \/ \E r \in Requests : RequestMoves(r)
         \/ Tick
         \/ UNCHANGED vars
BY DEF Next, AppMoves, RequestMoves

-----------------------------------------------------------------------------
(* Types.                                                                  *)

Phases == {"down", "count", "create", "enroll", "bind", "serving", "draining", "stopping"}

AppOK ==
  /\ phase \in [Instances -> Phases]
  /\ listener \in [Instances -> {"off", "running", "cancelled"}]
  /\ overdue \in [Instances -> BOOLEAN]
  /\ admin \in {"none", "user", "owner"}
  /\ starts \in Nat
  /\ interrupted \in BOOLEAN

Pcs == {"new", "done", "refused", "reading", "turnedAway", "checking", "lookup", "opening", "streaming", "blocked",
        "creating", "revoking", "revoked", "inserting", "inserted"}

\* What a request may be about.
Args == {<<>>} \cup {<<k>> : k \in Keys} \cup OrgNames \cup ProjectSlugs

RequestsOK ==
  /\ kind \in [Requests -> Kinds]
  /\ pc \in [Requests -> Pcs]
  /\ on \in [Requests -> Instances \cup {None}]
  /\ arg \in [Requests -> Args]
  /\ attempt \in [Requests -> Nat]

TypeInv == AppOK /\ RequestsOK

LEMMA AppMovesTyped ==
  ASSUME AppOK, NEW i \in Instances, AppMoves(i)
  PROVE  AppOK'
<1>1. CASE StartApp(i) \/ SignalApp(i)
  BY <1>1 DEF StartApp, SignalApp, Start, Signal, Proceed, In, AppOK, Phases
<1>2. CASE AppRuns(i)
  <2>1. CASE CountUsers(i)
    BY <2>1 DEF CountUsers, Serve, Proceed, AppOK, Phases
  <2>2. CASE CreateUser(i)
    BY <2>2 DEF CreateUser, Proceed, AppOK, Phases
  <2>3. CASE Enroll(i)
    BY <2>3 DEF Enroll, Serve, Proceed, AppOK, Phases
  <2>4. CASE SeedFails(i)
    <3>1. interrupted' \in BOOLEAN
      BY <2>4 DEF SeedFails
    <3> QED BY <2>4, <3>1 DEF SeedFails, Proceed, AppOK, Phases
  <2>5. CASE Listen(i) \/ BindFails(i) \/ ListenerEnds(i)
    BY <2>5 DEF Listen, BindFails, CancelListener, ListenerEnds, Proceed, AppOK, Phases
  <2> QED BY <1>2, <2>1, <2>2, <2>3, <2>4, <2>5 DEF AppRuns
<1>3. CASE Drained(i) \/ TimesOut(i)
  BY <1>3 DEF Drained, TimesOut, ShutdownReturns, CancelListener, Proceed, AppOK, Phases
<1>4. CASE ExitApp(i)
  BY <1>4 DEF ExitApp, Exit, Proceed, AppOK, Phases
<1>5. CASE CrashApp(i)
  <2>1. interrupted' \in BOOLEAN
    BY <1>5 DEF CrashApp, Crash
  <2> QED BY <1>5, <2>1 DEF CrashApp, Crash, Proceed, AppOK, Phases
<1> QED BY <1>1, <1>2, <1>3, <1>4, <1>5 DEF AppMoves

\* A step of a handler, and of the clock, leaves the instances alone.
LEMMA HandlersKeepApp ==
  ASSUME (\E r \in Requests : RequestMoves(r)) \/ Tick \/ UNCHANGED vars
  PROVE  UNCHANGED app
BY DEF RequestMoves, Tick, vars, Rest, BodyEnds, BodyRead, BodyFails, BodyDiscarded, Login, LoginRefused, Stream, CreateKey, RevokeKey, Create,
       HandlerRuns, Blocks, Unblocks, HangsUp, LoginFails, LoginSucceeds, StreamRuns, Guard, Open,
       SeesShutdown, AdminRuns, CommitKey, RevokeApiKey, CommitRevoke, Insert, CommitCreate, Fails

\* A request is moved on by its own handler only.
LEMMA RequestMovesAlone ==
  ASSUME RequestsOK, NEW r \in Requests, RequestMoves(r)
  PROVE  /\ RequestsOK'
         /\ kind' = kind
         /\ \A q \in Requests \ {r} : /\ pc'[q] = pc[q] /\ on'[q] = on[q] /\ arg'[q] = arg[q]
                                      /\ attempt'[q] = attempt[q]
         /\ on'[r] \in {on[r], None} \/ (At(r, "new") /\ on'[r] \in Instances /\ Accepting(on'[r]))
<1> DEFINE Moved ==
      /\ RequestsOK'
      /\ kind' = kind
      /\ \A q \in Requests \ {r} : /\ pc'[q] = pc[q] /\ on'[q] = on[q] /\ arg'[q] = arg[q]
                                   /\ attempt'[q] = attempt[q]
      /\ on'[r] \in {on[r], None} \/ (At(r, "new") /\ on'[r] \in Instances /\ Accepting(on'[r]))
<1>1. ASSUME NEW i \in Instances, NEW p \in Pcs, Arrives(r, i, p), kind' = kind, attempt' = attempt,
             arg' = arg \/ \E a \in Args : arg' = [arg EXCEPT ![r] = a]
      PROVE  Moved
  BY <1>1 DEF Arrives, RequestsOK
<1>2. ASSUME NEW p \in Pcs, Answer(r, p) \/ Goto(r, p), kind' = kind, attempt' = attempt, arg' = arg
      PROVE  Moved
  BY <1>2 DEF Answer, Goto, RequestsOK
<1>3. CASE Login(r) \/ LoginRefused(r) \/ CreateKey(r)
  BY <1>1, <1>3 DEF Login, LoginRefused, CreateKey, Rest, Pcs
<1>4. CASE Stream(r) \/ RevokeKey(r)
  <2>1. PICK i \in Instances, k \in Keys, p \in {"lookup", "revoking"} :
               /\ Arrives(r, i, p) /\ arg' = [arg EXCEPT ![r] = <<k>>]
               /\ kind' = kind /\ attempt' = attempt
    BY <1>4 DEF Stream, RevokeKey
  <2>2. <<k>> \in Args /\ p \in Pcs
    BY DEF Args, Pcs
  <2> QED BY <1>1, <2>1, <2>2
<1>5. CASE Create(r)
  <2>1. PICK i \in Instances, a \in OrgNames \cup ProjectSlugs :
               /\ Arrives(r, i, "reading") /\ arg' = [arg EXCEPT ![r] = a]
               /\ kind' = kind /\ attempt' = attempt
    BY <1>5 DEF Create
  <2>2. a \in Args
    BY DEF Args
  <2> QED BY <1>1, <2>1, <2>2 DEF Pcs
<1>6. CASE BodyFails(r) \/ BodyDiscarded(r) \/ LoginFails(r) \/ LoginSucceeds(r) \/ CommitKey(r) \/ CommitRevoke(r)
           \/ CommitCreate(r) \/ Fails(r)
  BY <1>2, <1>6 DEF BodyFails, BodyDiscarded, LoginFails, LoginSucceeds, CommitKey, CommitRevoke, CommitCreate,
                    Fails, Rest, Pcs
<1>7. CASE Guard(r) \/ Open(r) \/ SeesShutdown(r) \/ Blocks(r) \/ Unblocks(r) \/ HangsUp(r)
           \/ RevokeApiKey(r)
  BY <1>2, <1>7 DEF Guard, Open, SeesShutdown, Blocks, Unblocks, HangsUp, RevokeApiKey, Rest, Pcs
<1>8. CASE Insert(r)
  <2>1. /\ kind' = kind /\ arg' = arg
        /\ \/ (Goto(r, "inserted") \/ Answer(r, "refused")) /\ attempt' = attempt
           \/ attempt' = [attempt EXCEPT ![r] = @ + 1] /\ UNCHANGED <<pc, on>>
    BY <1>8 DEF Insert
  <2>2. CASE Goto(r, "inserted") /\ attempt' = attempt
    BY <1>2, <2>1, <2>2 DEF Pcs
  <2>3. CASE Answer(r, "refused") /\ attempt' = attempt
    BY <1>2, <2>1, <2>3 DEF Pcs
  <2>4. CASE attempt' = [attempt EXCEPT ![r] = @ + 1] /\ UNCHANGED <<pc, on>>
    BY <2>1, <2>4 DEF RequestsOK
  <2> QED BY <2>1, <2>2, <2>3, <2>4
<1>9. CASE BodyRead(r)
  <2>1. PICK p \in {"checking", "creating", "inserting"} : Goto(r, p)
    BY <1>9 DEF BodyRead
  <2> QED BY <1>2, <1>9, <2>1 DEF BodyRead, Rest, Pcs
<1> QED BY <1>3, <1>4, <1>5, <1>6, <1>7, <1>8, <1>9
        DEF RequestMoves, BodyEnds, HandlerRuns, StreamRuns, AdminRuns

\* What an instance does, its handlers see only when it ends: then they are gone.
LEMMA AppMovesHandlers ==
  ASSUME RequestsOK, NEW i \in Instances, AppMoves(i)
  PROVE  /\ RequestsOK'
         /\ UNCHANGED <<kind, arg, attempt, db, alone>>
         /\ \/ UNCHANGED <<pc, on>>
            \/ Kill(i)
         /\ \A r \in Requests : pc'[r] = pc[r] \/ pc'[r] = "done"
<1>1. CASE UNCHANGED Handlers
  BY <1>1 DEF Handlers, RequestsOK
<1>2. CASE Kill(i)
  BY <1>2 DEF Kill, RequestsOK, Pcs
<1>3. UNCHANGED Handlers \/ Kill(i)
  BY DEF AppMoves, StartApp, AppRuns, SignalApp, Drained, TimesOut, ExitApp, CrashApp
<1> QED BY <1>1, <1>2, <1>3

LEMMA TypeInvInductive ==
  /\ Init => TypeInv
  /\ TypeInv /\ [Next]_vars => TypeInv'
<1>1. Init => TypeInv
  <2> SUFFICES ASSUME Init PROVE AppOK /\ RequestsOK
    BY DEF TypeInv
  <2>1. AppOK
    BY DEF Init, LifecycleInit, AppOK, Phases
  <2>2. RequestsOK
    BY DEF Init, RequestsOK, Pcs, Args, ServerAssumption
  <2> QED BY <2>1, <2>2
<1>2. TypeInv /\ [Next]_vars => TypeInv'
  <2> SUFFICES ASSUME AppOK, RequestsOK, [Next]_vars PROVE AppOK' /\ RequestsOK'
    BY DEF TypeInv
  <2>1. ASSUME NEW i \in Instances, AppMoves(i) PROVE AppOK' /\ RequestsOK'
    BY <2>1, AppMovesTyped, AppMovesHandlers
  <2>2. ASSUME UNCHANGED app PROVE AppOK'
    BY <2>2 DEF app, AppOK
  <2>3. ASSUME NEW r \in Requests, RequestMoves(r) PROVE AppOK' /\ RequestsOK'
    <3>1. UNCHANGED app
      BY <2>3, HandlersKeepApp
    <3> QED BY <2>2, <2>3, <3>1, RequestMovesAlone
  <2>4. CASE Tick \/ UNCHANGED vars
    <3>1. UNCHANGED app
      BY <2>4, HandlersKeepApp
    <3>2. RequestsOK'
      BY <2>4 DEF Tick, vars, RequestsOK
    <3> QED BY <2>2, <3>1, <3>2
  <2> QED BY <2>1, <2>3, <2>4, StepCases
<1> QED BY <1>1, <1>2

-----------------------------------------------------------------------------
(* Seeding.                                                                *)

LEMMA OwnerStep ==
  ASSUME AppOK, NEW i \in Instances, AppMoves(i), OwnerlessOnlyIfInterrupted
  PROVE  OwnerlessOnlyIfInterrupted'
<1>1. \A j \in Instances \ {i} : phase'[j] = phase[j]
  BY DEF AppMoves, StartApp, AppRuns, SignalApp, Drained, TimesOut, ExitApp, CrashApp,
         Start, CountUsers, CreateUser, Enroll, SeedFails, Listen, BindFails, ListenerEnds,
         Signal, ShutdownReturns, CancelListener, Exit, Crash, Serve, Proceed, AppOK
<1>2. interrupted => interrupted'
  BY DEF AppMoves, StartApp, AppRuns, SignalApp, Drained, TimesOut, ExitApp, CrashApp,
         Start, CountUsers, CreateUser, Enroll, SeedFails, Listen, BindFails, ListenerEnds,
         Signal, ShutdownReturns, Exit, Crash
<1>3. phase[i] # "enroll" \/ phase'[i] = "enroll" \/ interrupted' \/ admin' = "owner"
  BY DEF AppMoves, StartApp, AppRuns, SignalApp, Drained, TimesOut, ExitApp, CrashApp, In,
         Start, CountUsers, CreateUser, Enroll, SeedFails, Listen, BindFails, ListenerEnds,
         Signal, ShutdownReturns, Exit, Crash
<1>4. admin' = admin \/ admin' = "owner" \/ phase'[i] = "enroll"
  BY DEF AppMoves, StartApp, AppRuns, SignalApp, Drained, TimesOut, ExitApp, CrashApp, AppOK,
         Start, CountUsers, CreateUser, Enroll, SeedFails, Listen, BindFails, ListenerEnds,
         Signal, ShutdownReturns, Exit, Crash, Proceed
<1> SUFFICES ASSUME admin' = "user", ~interrupted'
             PROVE  \E j \in Instances : phase'[j] = "enroll"
  BY DEF OwnerlessOnlyIfInterrupted, In
<1>5. CASE phase'[i] = "enroll"
  BY <1>5
<1>6. CASE phase'[i] # "enroll"
  <2>1. admin = "user" /\ ~interrupted /\ phase[i] # "enroll"
    BY <1>2, <1>3, <1>4, <1>6
  <2>2. PICK j \in Instances : phase[j] = "enroll"
    BY <2>1 DEF OwnerlessOnlyIfInterrupted, In
  <2> QED BY <1>1, <2>1, <2>2
<1> QED BY <1>5, <1>6

\* However many instances start at once, only one that is cut short between the
\* statements of seedAdmin leaves the default organization without its owner.
THEOREM ServerOwnerless == Spec => []OwnerlessOnlyIfInterrupted
<1>1. Init => OwnerlessOnlyIfInterrupted
  BY DEF Init, LifecycleInit, OwnerlessOnlyIfInterrupted
<1>2. TypeInv /\ OwnerlessOnlyIfInterrupted /\ [Next]_vars => OwnerlessOnlyIfInterrupted'
  <2> SUFFICES ASSUME AppOK, OwnerlessOnlyIfInterrupted, [Next]_vars
               PROVE  OwnerlessOnlyIfInterrupted'
    BY DEF TypeInv
  <2>1. CASE UNCHANGED app
    BY <2>1 DEF app, OwnerlessOnlyIfInterrupted, In
  <2>2. (\E i \in Instances : AppMoves(i)) \/ UNCHANGED app
    BY StepCases, HandlersKeepApp
  <2> QED BY <2>1, <2>2, OwnerStep
<1> QED BY <1>1, <1>2, TypeInvInductive, PTL DEF Spec

-----------------------------------------------------------------------------
(* Shutting down.                                                          *)

\* The Listener runs from before the first request is accepted until srv.Shutdown has
\* returned, and an instance has handlers only from then on or if that was overdue.
FedInv ==
  /\ \A i \in Instances : phase[i] \in {"bind", "serving", "draining"} => listener[i] = "running"
  /\ \A r \in Requests, i \in Instances :
       on[r] = i => \/ phase[i] \in {"serving", "draining"}
                    \/ phase[i] = "stopping" /\ overdue[i]

LEMMA FedInvAppStep ==
  ASSUME AppOK, RequestsOK, NEW i \in Instances, AppMoves(i), FedInv
  PROVE  FedInv'
<1> DEFINE Fed(j) ==
      /\ phase[j] \in {"bind", "serving", "draining"} => listener[j] = "running"
      /\ \A r \in Requests :
           on[r] = j => \/ phase[j] \in {"serving", "draining"}
                        \/ phase[j] = "stopping" /\ overdue[j]
<1>1. \A j \in Instances : Fed(j)
  BY DEF FedInv
<1>2. \A j \in Instances \ {i} : phase'[j] = phase[j] /\ listener'[j] = listener[j] /\ overdue'[j] = overdue[j]
  BY DEF AppMoves, StartApp, AppRuns, SignalApp, Drained, TimesOut, ExitApp, CrashApp,
         Start, CountUsers, CreateUser, Enroll, SeedFails, Listen, BindFails, ListenerEnds,
         Signal, ShutdownReturns, CancelListener, Exit, Crash, Serve, Proceed, AppOK
<1>3. \A r \in Requests : on'[r] = on[r] \/ on'[r] = None
  BY AppMovesHandlers DEF Kill, RequestsOK
<1>4. None \notin Instances
  BY DEF ServerAssumption
<1>5. ASSUME NEW j \in Instances \ {i} PROVE Fed(j)'
  BY <1>1, <1>2, <1>3, <1>4, <1>5
<1>6. Fed(i)'
  <2>1. CASE StartApp(i)
    BY <1>1, <2>1 DEF StartApp, Start, In, Proceed, Handlers, AppOK
  <2>2. CASE AppRuns(i)
    <3>1. CASE CountUsers(i) \/ CreateUser(i) \/ Enroll(i) \/ SeedFails(i)
      <4>1. phase[i] \in {"count", "create", "enroll"}
        BY <3>1 DEF CountUsers, CreateUser, Enroll, SeedFails, In
      <4>2. \A r \in Requests : on[r] # i
        BY <1>1, <4>1
      <4>3. phase'[i] \in {"bind", "serving", "draining"} => listener'[i] = "running"
        BY <3>1 DEF CountUsers, CreateUser, Enroll, SeedFails, Serve, Proceed, AppOK
      <4> QED BY <1>3, <1>4, <4>2, <4>3
    <3>2. CASE Listen(i)
      BY <1>1, <2>2, <3>2 DEF AppRuns, Handlers, Listen, In, Proceed, AppOK
    <3>3. CASE BindFails(i)
      BY <1>1, <2>2, <3>3 DEF AppRuns, Handlers, BindFails, CancelListener, In, Proceed, AppOK
    <3>4. CASE ListenerEnds(i)
      BY <1>1, <2>2, <3>4 DEF AppRuns, Handlers, ListenerEnds, AppOK
    <3> QED BY <2>2, <3>1, <3>2, <3>3, <3>4 DEF AppRuns
  <2>3. CASE SignalApp(i)
    BY <1>1, <2>3 DEF SignalApp, Signal, Proceed, Handlers, AppOK
  <2>4. CASE Drained(i)
    BY <1>1, <2>4 DEF Drained, ShutdownReturns, CancelListener, Proceed, OnInstance, Handlers, AppOK
  <2>5. CASE TimesOut(i)
    BY <1>1, <2>5 DEF TimesOut, ShutdownReturns, CancelListener, Proceed, Handlers, AppOK
  <2>6. CASE ExitApp(i) \/ CrashApp(i)
    <3>1. phase'[i] = "down" /\ Kill(i)
      BY <2>6 DEF ExitApp, CrashApp, Exit, Crash, Proceed, AppOK
    <3>2. \A r \in Requests : on'[r] # i
      BY <1>4, <3>1 DEF Kill, OnInstance
    <3> QED BY <3>1, <3>2
  <2> QED BY <2>1, <2>2, <2>3, <2>4, <2>5, <2>6 DEF AppMoves
<1> QED BY <1>5, <1>6 DEF FedInv

\* A stream that an instance serves is fed until the last handler is done, unless
\* srv.Shutdown gave up: whatever signals, timeouts and crashes fall between.
THEOREM ServerStreamsFed == Spec => []StreamsAreFed
<1>1. Init => FedInv
  BY DEF Init, LifecycleInit, FedInv, ServerAssumption
<1>2. TypeInv /\ FedInv /\ [Next]_vars => FedInv'
  <2> SUFFICES ASSUME AppOK, RequestsOK, FedInv, [Next]_vars PROVE FedInv'
    BY DEF TypeInv
  <2>1. ASSUME NEW r \in Requests, RequestMoves(r) PROVE FedInv'
    <3>1. UNCHANGED <<phase, listener, overdue>>
      BY <2>1, HandlersKeepApp DEF app
    <3>2. \A q \in Requests \ {r} : on'[q] = on[q]
      BY <2>1, RequestMovesAlone
    <3>3. on'[r] \in {on[r], None} \/ (on'[r] \in Instances /\ phase[on'[r]] \in {"serving", "draining"})
      BY <2>1, RequestMovesAlone DEF Accepting
    <3>4. None \notin Instances
      BY DEF ServerAssumption
    <3> QED BY <3>1, <3>2, <3>3, <3>4 DEF FedInv
  <2>2. CASE Tick \/ UNCHANGED vars
    <3>1. UNCHANGED <<phase, listener, overdue, on>>
      BY <2>2, HandlersKeepApp DEF app, Tick, vars
    <3> QED BY <3>1 DEF FedInv
  <2> QED BY <2>1, <2>2, StepCases, FedInvAppStep
<1>3. FedInv => StreamsAreFed
  BY DEF FedInv, StreamsAreFed, OnInstance
<1> QED BY <1>1, <1>2, <1>3, TypeInvInductive, PTL DEF Spec

-----------------------------------------------------------------------------
(* The trail of a key.                                                     *)

\* A transaction that has deleted the row of a key is the only one, and the key is still
\* in api_key for everybody else.
TrailInv ==
  /\ trail \in [Keys -> {<<>>, <<"create">>, <<"create", "revoke">>}]
  /\ TrailsAreExact
  /\ \A r \in Requests : pc[r] \in {"revoking", "revoked"} => \E k \in Keys : arg[r] = <<k>>
  /\ \A r \in Requests, k \in Keys : At(r, "revoked") /\ arg[r] = <<k>> => k \in keys
  /\ \A r, q \in Requests : At(r, "revoked") /\ At(q, "revoked") /\ arg[r] = arg[q] => r = q

LEMMA AppendTwo == ASSUME NEW a, NEW b PROVE Append(<<a>>, b) = <<a, b>>
<1> DEFINE s == Append(<<a>>, b)
           t == <<a, b>>
<1>1. /\ s \in Seq({a, b}) /\ Len(s) = 2 /\ s[1] = a /\ s[2] = b
      /\ t \in Seq({a, b}) /\ Len(t) = 2 /\ t[1] = a /\ t[2] = b
  <2>1. <<a>> \in Seq({a, b}) /\ Len(<<a>>) = 1 /\ <<a>>[1] = a
    OBVIOUS
  <2>2. s \in Seq({a, b}) /\ Len(s) = 2
    BY <2>1
  <2>3. s[1] = a /\ s[2] = b
    BY <2>1
  <2> QED BY <2>2, <2>3
<1> HIDE DEF s, t
<1>2. s = t
  BY <1>1, SeqEqual
<1> QED BY <1>2 DEF s, t

\* Nothing else has to do with the trails.
LEMMA OthersKeepTrails ==
  ASSUME RequestsOK, NEW r \in Requests, RequestMoves(r),
         ~CommitKey(r), ~RevokeKey(r), ~RevokeApiKey(r), ~CommitRevoke(r)
  PROVE  UNCHANGED <<keys, trail>> /\ pc'[r] \notin {"revoking", "revoked"}
<1>1. UNCHANGED <<keys, trail>>
  BY DEF RequestMoves, Rest, db, BodyEnds, BodyRead, BodyFails, BodyDiscarded,
         Login, LoginRefused, Stream, CreateKey, Create,
         HandlerRuns, Blocks, Unblocks, HangsUp, LoginFails, LoginSucceeds, StreamRuns, Guard, Open,
         SeesShutdown, AdminRuns, Insert, CommitCreate, Fails
<1>2. pc'[r] \notin {"revoking", "revoked"}
  <2>1. CASE Login(r) \/ LoginRefused(r) \/ Stream(r) \/ CreateKey(r) \/ Create(r)
    BY <2>1 DEF Login, LoginRefused, Stream, CreateKey, Create, Arrives, Answer, RequestsOK
  <2>2. CASE \/ LoginFails(r) \/ LoginSucceeds(r) \/ StreamRuns(r)
             \/ Blocks(r) \/ Unblocks(r) \/ HangsUp(r)
    BY <2>2 DEF LoginFails, LoginSucceeds, StreamRuns, Guard, Open, SeesShutdown, Blocks, Unblocks,
                HangsUp, Goto, Answer, RequestsOK
  <2>3. CASE Insert(r) \/ CommitCreate(r) \/ Fails(r)
    BY <2>3 DEF Insert, CommitCreate, Fails, At, Goto, Answer, RequestsOK
  <2>4. CASE BodyEnds(r)
    BY <2>4 DEF BodyEnds, BodyRead, BodyFails, BodyDiscarded, Goto, Answer, RequestsOK
  <2> QED BY <2>1, <2>2, <2>3, <2>4 DEF RequestMoves, HandlerRuns, AdminRuns
<1> QED BY <1>1, <1>2

LEMMA TrailInvStep ==
  ASSUME RequestsOK, NEW r \in Requests, RequestMoves(r), TrailInv
  PROVE  TrailInv'
<1>0. \A q \in Requests \ {r} : pc'[q] = pc[q] /\ arg'[q] = arg[q]
  BY RequestMovesAlone
<1>1. ASSUME UNCHANGED <<keys, trail>>, pc'[r] \notin {"revoking", "revoked"} PROVE TrailInv'
  BY <1>0, <1>1 DEF TrailInv, TrailsAreExact, At
<1>2. CASE CommitKey(r)
  <2>1. PICK k \in Keys : /\ trail[k] = <<>> /\ keys' = keys \cup {k}
                          /\ trail' = [trail EXCEPT ![k] = <<"create">>]
    BY <1>2 DEF CommitKey
  <2>2. pc'[r] = "done"
    BY <1>2 DEF CommitKey, Answer, RequestsOK
  <2>3. trail' \in [Keys -> {<<>>, <<"create">>, <<"create", "revoke">>}]
    BY <2>1 DEF TrailInv
  <2>4. \A j \in Keys \ {k} : trail'[j] = trail[j] /\ (j \in keys' <=> j \in keys)
    BY <2>1 DEF TrailInv
  <2>5. trail'[k] = <<"create">> /\ k \in keys'
    BY <2>1 DEF TrailInv
  <2>6. TrailsAreExact'
    <3> SUFFICES ASSUME NEW j \in Keys
                 PROVE  trail'[j] \in IF j \in keys' THEN {<<"create">>}
                                    ELSE {<<>>, <<"create", "revoke">>}
      BY DEF TrailsAreExact
    <3>1. CASE j = k
      BY <2>5, <3>1
    <3>2. CASE j # k
      BY <2>4, <3>2 DEF TrailInv, TrailsAreExact
    <3> QED BY <3>1, <3>2
  <2> QED BY <1>0, <2>1, <2>2, <2>3, <2>6 DEF TrailInv, At
<1>3. CASE RevokeKey(r)
  <2>1. PICK k \in Keys : arg'[r] = <<k>> /\ pc'[r] = "revoking" /\ UNCHANGED <<keys, trail>>
    BY <1>3 DEF RevokeKey, Arrives, db, RequestsOK
  <2> QED BY <1>0, <2>1 DEF TrailInv, TrailsAreExact, At
<1>4. CASE RevokeApiKey(r)
  <2>1. /\ At(r, "revoking") /\ Unlocked(arg[r][1]) /\ UNCHANGED <<arg, keys, trail>>
        /\ (arg[r][1] \in keys /\ pc'[r] = "revoked") \/ pc'[r] = "refused"
    BY <1>4 DEF RevokeApiKey, Goto, Answer, Rest, db, RequestsOK
  <2>2. PICK k \in Keys : arg[r] = <<k>>
    BY <2>1 DEF TrailInv, At
  <2>3. arg[r][1] = k
    BY <2>2
  <2>4. CASE pc'[r] = "refused"
    BY <1>1, <2>1, <2>4
  <2>5. CASE k \in keys /\ pc'[r] = "revoked"
    <3>1. \A q \in Requests : At(q, "revoked") => arg[q] # arg[r]
      BY <2>1, <2>2, <2>3 DEF Unlocked
    <3>2. \A j \in Keys : arg[r] = <<j>> => j \in keys
      BY <2>2, <2>5
    <3> QED BY <1>0, <2>1, <2>2, <2>5, <3>1, <3>2 DEF TrailInv, TrailsAreExact, At
  <2> QED BY <2>1, <2>3, <2>4, <2>5
<1>5. CASE CommitRevoke(r)
  <2>1. PICK k \in Keys : arg[r] = <<k>>
    BY <1>5 DEF CommitRevoke, TrailInv, At
  <2>2. k \in keys /\ trail[k] = <<"create">>
    BY <1>5, <2>1 DEF CommitRevoke, TrailInv, TrailsAreExact
  <2>3. /\ keys' = keys \ {k} /\ trail' = [trail EXCEPT ![k] = Append(trail[k], "revoke")]
        /\ pc'[r] = "done" /\ UNCHANGED arg
    BY <1>5, <2>1 DEF CommitRevoke, Answer, RequestsOK
  <2>4. Append(trail[k], "revoke") = <<"create", "revoke">>
    BY <2>2, AppendTwo, Zenon
  <2>5. trail' \in [Keys -> {<<>>, <<"create">>, <<"create", "revoke">>}]
    BY <2>3, <2>4 DEF TrailInv
  <2>6. \A j \in Keys \ {k} : trail'[j] = trail[j] /\ (j \in keys' <=> j \in keys)
    BY <2>3 DEF TrailInv
  <2>7. trail'[k] = <<"create", "revoke">> /\ k \notin keys'
    BY <2>3, <2>4 DEF TrailInv
  <2>8. TrailsAreExact'
    BY <2>6, <2>7 DEF TrailInv, TrailsAreExact
  <2>9. ASSUME NEW q \in Requests, NEW j \in Keys, At(q, "revoked")', arg'[q] = <<j>> PROVE j \in keys'
    <3>1. q # r /\ At(q, "revoked") /\ arg[q] = <<j>>
      BY <1>0, <2>3, <2>9 DEF At
    <3>2. j \in keys /\ j # k
      BY <1>5, <2>1, <3>1 DEF TrailInv, CommitRevoke
    <3> QED BY <2>3, <3>2
  <2> QED BY <1>0, <2>3, <2>5, <2>8, <2>9 DEF TrailInv, At
<1> QED BY <1>1, <1>2, <1>3, <1>4, <1>5, OthersKeepTrails

\* Every change of a key is recorded once, whatever requests race, fail or die with
\* their process.
THEOREM ServerTrailsExact == Spec => []TrailsAreExact
<1>1. Init => TrailInv
  <2> SUFFICES ASSUME Init PROVE TrailInv
    OBVIOUS
  <2>1. trail = [k \in Keys |-> IF k \in keys THEN <<"create">> ELSE <<>>] /\ \A r \in Requests : pc[r] = "new"
    BY DEF Init
  <2>2. TrailsAreExact
    BY <2>1 DEF TrailsAreExact
  <2> QED BY <2>1, <2>2 DEF TrailInv, At
<1>2. TypeInv /\ TrailInv /\ [Next]_vars => TrailInv'
  <2> SUFFICES ASSUME RequestsOK, TrailInv, [Next]_vars PROVE TrailInv'
    BY DEF TypeInv
  <2>1. ASSUME UNCHANGED <<arg, keys, trail>>, \A r \in Requests : pc'[r] = pc[r] \/ pc'[r] = "done"
        PROVE  TrailInv'
    BY <2>1 DEF TrailInv, TrailsAreExact, At
  <2>2. ASSUME NEW i \in Instances, AppMoves(i) PROVE TrailInv'
    BY <2>1, <2>2, AppMovesHandlers DEF db
  <2>3. CASE Tick \/ UNCHANGED vars
    BY <2>1, <2>3 DEF Tick, vars, db
  <2> QED BY <2>2, <2>3, StepCases, TrailInvStep
<1>3. TrailInv => TrailsAreExact
  BY DEF TrailInv
<1> QED BY <1>1, <1>2, <1>3, TypeInvInductive, PTL DEF Spec

-----------------------------------------------------------------------------
(* Slugs.                                                                  *)

Creates(r) == kind[r] \in {"createOrg", "createProject"}

\* The first m candidates of a request are taken.
Taken(r, m) == \A n \in Nat : n < m => <<kind[r], Candidate(r, n)>> \in slugs

\* The candidates that handleCreateOrganization has passed over are taken.
SlugInv ==
  \A r \in Requests : Creates(r) =>
    /\ pc[r] \in {"new", "reading", "inserting", "inserted", "done", "refused"}
    /\ At(r, "new") => attempt[r] = 0
    /\ attempt[r] < Attempts(r)
    /\ Taken(r, attempt[r])
    /\ At(r, "refused") => Taken(r, Attempts(r))

LEMMA AttemptsTyped == \A r \in Requests : Attempts(r) \in Nat \ {0}
BY DEF Attempts, ServerAssumption

LEMMA SlugInvStep ==
  ASSUME RequestsOK, NEW r \in Requests, RequestMoves(r), SlugInv
  PROVE  SlugInv'
<1> DEFINE Slug(q) == Creates(q) =>
      /\ pc[q] \in {"new", "reading", "inserting", "inserted", "done", "refused"}
      /\ At(q, "new") => attempt[q] = 0
      /\ attempt[q] < Attempts(q)
      /\ Taken(q, attempt[q])
      /\ At(q, "refused") => Taken(q, Attempts(q))
<1>1. kind' = kind /\ slugs \subseteq slugs'
  <2>1. kind' = kind
    BY RequestMovesAlone
  <2>2. slugs' = slugs \/ slugs' = slugs \cup {Row(r)}
    BY DEF RequestMoves, Rest, db, BodyEnds, BodyRead, BodyFails, BodyDiscarded,
           Login, LoginRefused, Stream, CreateKey, RevokeKey, Create,
           HandlerRuns, Blocks, Unblocks, HangsUp, LoginFails, LoginSucceeds, StreamRuns, Guard, Open,
           SeesShutdown, AdminRuns, CommitKey, RevokeApiKey, CommitRevoke, Insert, CommitCreate, Fails
  <2> QED BY <2>1, <2>2
\* What is taken stays taken, as long as the name is the same.
<1>2. ASSUME NEW q \in Requests, arg'[q] = arg[q], NEW m, Taken(q, m) PROVE Taken(q, m)'
  <2>1. \A n \in Nat : Candidate(q, n)' = Candidate(q, n)
    BY <1>1, <1>2 DEF Candidate
  <2> QED BY <1>1, <1>2, <2>1 DEF Taken
<1>3. \A q \in Requests : Attempts(q)' = Attempts(q) /\ (Creates(q)' <=> Creates(q))
  BY <1>1 DEF Attempts, Creates
<1>4. ASSUME NEW q \in Requests \ {r} PROVE Slug(q)'
  <2>1. pc'[q] = pc[q] /\ arg'[q] = arg[q] /\ attempt'[q] = attempt[q] /\ Slug(q)
    BY RequestMovesAlone DEF SlugInv
  <2> QED BY <1>2, <1>3, <2>1 DEF At
<1>5. Slug(r)'
  <2> SUFFICES ASSUME Creates(r) PROVE Slug(r)'
    BY <1>3
  <2>0. /\ Slug(r) /\ attempt[r] \in Nat /\ Attempts(r) \in Nat \ {0}
    BY AttemptsTyped DEF SlugInv, RequestsOK
  <2>1. Create(r) \/ BodyRead(r) \/ BodyFails(r) \/ Insert(r) \/ CommitCreate(r) \/ Fails(r)
    BY <2>0 DEF RequestMoves, Creates, BodyEnds, BodyDiscarded, Login, LoginRefused, Stream, CreateKey, RevokeKey,
           HandlerRuns, Blocks, Unblocks, HangsUp, LoginFails, LoginSucceeds, StreamRuns, Guard, Open,
           SeesShutdown, AdminRuns, CommitKey, RevokeApiKey, CommitRevoke, At
  <2>2. CASE Create(r)
    <3>1. At(r, "new") /\ pc'[r] = "reading" /\ attempt' = attempt
      BY <2>2 DEF Create, Arrives, RequestsOK
    <3>2. attempt'[r] = 0
      BY <2>0, <3>1
    <3>3. Taken(r, attempt[r])'
      BY <3>2 DEF Taken
    <3> QED BY <1>3, <2>0, <3>1, <3>2, <3>3 DEF At
  <2>3. CASE BodyRead(r) \/ BodyFails(r) \/ CommitCreate(r) \/ Fails(r)
    <3>1. pc'[r] \in {"inserting", "done"} /\ attempt' = attempt /\ arg' = arg
      BY <2>3 DEF BodyRead, BodyFails, Goto, Creates, CommitCreate, Fails, Answer, Rest, RequestsOK
    <3> QED BY <1>2, <1>3, <2>0, <3>1 DEF At
  <2>4. CASE Insert(r)
    <3>1. arg' = arg /\ At(r, "inserting")
      BY <2>4 DEF Insert
    <3>2. CASE Row(r) \notin slugs
      <4>1. pc'[r] = "inserted" /\ attempt' = attempt
        BY <2>4, <3>2 DEF Insert, Goto, RequestsOK
      <4> QED BY <1>2, <1>3, <2>0, <3>1, <4>1 DEF At
    <3>3. CASE Row(r) \in slugs
      <4> SUFFICES ASSUME NEW n, n = attempt[r] + 1 PROVE Slug(r)'
        OBVIOUS
      <4>1. Taken(r, n)
        BY <2>0, <3>3 DEF Taken, Row
      <4>2. Taken(r, n)'
        BY <1>2, <3>1, <4>1
      <4>3. CASE n < Attempts(r)
        <5>1. attempt'[r] = n /\ pc' = pc
          BY <2>4, <3>3, <4>3 DEF Insert, RequestsOK
        <5>2. Taken(r, attempt[r])'
          BY <4>2, <5>1
        <5> QED BY <1>3, <2>0, <3>1, <4>3, <5>1, <5>2 DEF At
      <4>4. CASE ~(n < Attempts(r))
        <5>1. attempt' = attempt /\ pc'[r] = "refused"
          BY <2>4, <3>3, <4>4 DEF Insert, Answer, RequestsOK
        <5>2. n = Attempts(r)
          BY <2>0, <4>4
        <5>3. Taken(r, Attempts(r))'
          BY <1>3, <4>2, <5>2
        <5>4. Taken(r, attempt[r])'
          BY <1>2, <2>0, <3>1, <5>1
        <5> QED BY <1>3, <2>0, <5>1, <5>3, <5>4 DEF At
      <4> QED BY <4>3, <4>4
    <3> QED BY <3>2, <3>3
  <2> QED BY <2>1, <2>2, <2>3, <2>4
<1> QED BY <1>4, <1>5 DEF SlugInv

\* A 409 is answered only when every candidate of the request is taken, for good,
\* whatever was inserted or rolled back while each was looked at.
THEOREM ServerConflicts == Spec => []ConflictMeansTaken
<1>1. Init => SlugInv
  <2> SUFFICES ASSUME Init PROVE SlugInv
    OBVIOUS
  <2>1. \A r \in Requests : pc[r] = "new" /\ attempt[r] = 0
    BY DEF Init
  <2>2. \A r \in Requests : Taken(r, 0)
    BY DEF Taken
  <2> QED BY <2>1, <2>2, AttemptsTyped DEF SlugInv, At
<1>2. TypeInv /\ SlugInv /\ [Next]_vars => SlugInv'
  <2> SUFFICES ASSUME RequestsOK, SlugInv, [Next]_vars PROVE SlugInv'
    BY DEF TypeInv
  <2>1. ASSUME UNCHANGED <<kind, arg, attempt, slugs>>,
               \A r \in Requests : pc'[r] = pc[r] \/ pc'[r] = "done"
        PROVE  SlugInv'
    BY <2>1 DEF SlugInv, Creates, Attempts, Taken, Candidate, At
  <2>2. ASSUME NEW i \in Instances, AppMoves(i) PROVE SlugInv'
    BY <2>1, <2>2, AppMovesHandlers DEF db
  <2>3. CASE Tick \/ UNCHANGED vars
    BY <2>1, <2>3 DEF Tick, vars, db
  <2> QED BY <2>2, <2>3, StepCases, SlugInvStep
<1>3. SlugInv => ConflictMeansTaken
  <2> SUFFICES ASSUME SlugInv, NEW r \in Requests, At(r, "refused"), Creates(r),
                      NEW n \in 0 .. Attempts(r) - 1
               PROVE  <<kind[r], Candidate(r, n)>> \in slugs
    BY DEF ConflictMeansTaken, Creates
  <2>1. Taken(r, Attempts(r)) /\ n \in Nat /\ n < Attempts(r)
    BY AttemptsTyped DEF SlugInv
  <2> QED BY <2>1 DEF Taken
<1> QED BY <1>1, <1>2, <1>3, TypeInvInductive, PTL DEF Spec

-----------------------------------------------------------------------------
(* The window of failed logins.                                            *)

Hits == Seq(0 .. Window)

\* A nonempty set of natural numbers has a least one.
LEMMA LeastOf ==
  ASSUME NEW S \in SUBSET Nat, S # {}
  PROVE  \E x \in S : \A y \in S : x <= y
<1> DEFINE R == {ss \in Nat \X Nat : ss[1] < ss[2]}
<1>1. IsWellFoundedOn(R, Nat)
  BY NatLessThanWellFounded, Zenon DEF OpToRel
<1>2. PICK x \in S : \A y \in S : ~(<<y, x>> \in R)
  <2> HIDE DEF R
  <2> QED BY <1>1, WFMin
<1>3. \A y \in S : x <= y
  <2> SUFFICES ASSUME NEW y \in S PROVE ~(y < x)
    OBVIOUS
  <2>1. <<y, x>> \notin R
    BY <1>2
  <2>2. y \in Nat /\ x \in Nat
    OBVIOUS
  <2>3. y < x => <<y, x>> \in R
    BY <2>2
  <2> QED BY <2>1, <2>3
<1> QED BY <1>3

\* One round of pruneLocked's loop.
KeepOne(kept, age) == IF age < Window THEN Append(kept, age) ELSE kept

\* What the recursion of Kept says of a function k on 0 .. m.
KeptUpTo(h, m, k) == k = [n \in 0 .. m |-> IF n = 0 THEN <<>> ELSE KeepOne(k[n - 1], h[n])]

LEMMA KeptExists ==
  ASSUME NEW h, NEW N \in Nat
  PROVE  \E k : KeptUpTo(h, N, k)
<1> DEFINE Bad == {m \in Nat : ~ \E k : KeptUpTo(h, m, k)}
<1>1. SUFFICES ASSUME Bad # {} PROVE FALSE
  OBVIOUS
<1>2. PICK m \in Bad : \A y \in Bad : m <= y
  BY <1>1, LeastOf, Bad \subseteq Nat
<1>3. m # 0
  <2>1. KeptUpTo(h, 0, [n \in 0 .. 0 |-> <<>>])
    BY DEF KeptUpTo
  <2> QED BY <2>1
<1>4. m - 1 \in Nat /\ m \in Nat
  BY <1>3
<1>5. PICK k : KeptUpTo(h, m - 1, k)
  BY <1>2, <1>4
<1> DEFINE t == [n \in 0 .. m |-> IF n = m THEN KeepOne(k[m - 1], h[m]) ELSE k[n]]
<1>6. \A n \in 0 .. m - 1 : k[n] = IF n = 0 THEN <<>> ELSE KeepOne(k[n - 1], h[n])
  BY <1>5 DEF KeptUpTo
<1>7. ASSUME NEW n \in 0 .. m
      PROVE  t[n] = IF n = 0 THEN <<>> ELSE KeepOne(t[n - 1], h[n])
  BY <1>3, <1>4, <1>6
<1>8. t = [n \in 0 .. m |-> IF n = 0 THEN <<>> ELSE KeepOne(t[n - 1], h[n])]
  <2>1. t = [n \in 0 .. m |-> t[n]]
    OBVIOUS
  <2> HIDE DEF t
  <2> QED BY <2>1, <1>7
<1> HIDE DEF t
<1> QED BY <1>8 DEF KeptUpTo

\* Kept is what its recursion says.
LEMMA KeptIs ==
  ASSUME NEW h \in Hits
  PROVE  /\ Kept(h)[0] = <<>>
         /\ \A n \in 1 .. Len(h) : Kept(h)[n] = KeepOne(Kept(h)[n - 1], h[n])
<1> DEFINE k == Kept(h)
           N == Len(h)
<1>1. N \in Nat
  BY DEF Hits
<1>2. KeptUpTo(h, N, k)
  <2>1. k = CHOOSE f : KeptUpTo(h, N, f)
    BY DEF Kept, KeptUpTo, KeepOne
  <2> HIDE DEF k, N
  <2> QED BY <2>1, <1>1, KeptExists
<1>3. \A n \in 0 .. N : k[n] = IF n = 0 THEN <<>> ELSE KeepOne(k[n - 1], h[n])
  <2> HIDE DEF k
  <2> QED BY <1>2 DEF KeptUpTo
<1> HIDE DEF k
<1>4. 0 \in 0 .. N /\ \A n \in 1 .. N : n \in 0 .. N /\ n # 0
  BY <1>1
<1>5. k[0] = <<>>
  BY <1>3, <1>4
<1>6. \A n \in 1 .. N : k[n] = KeepOne(k[n - 1], h[n])
  BY <1>3, <1>4
<1> QED BY <1>5, <1>6 DEF k

Young == Seq(0 .. Window - 1)

\* Only hits younger than the window are kept.
LEMMA KeptYoung ==
  ASSUME NEW h \in Hits
  PROVE  \A n \in 0 .. Len(h) : Kept(h)[n] \in Young
<1> DEFINE k == Kept(h)
           N == Len(h)
           Bad == {n \in 0 .. N : k[n] \notin Young}
<1>1. SUFFICES ASSUME Bad # {} PROVE FALSE
  OBVIOUS
<1>2. PICK m \in Bad : \A y \in Bad : m <= y
  BY <1>1, LeastOf, Bad \subseteq Nat
<1>3. k[0] = <<>> /\ \A n \in 1 .. N : k[n] = KeepOne(k[n - 1], h[n])
  BY KeptIs
<1> HIDE DEF k
<1>4. N \in Nat /\ \A n \in 1 .. N : h[n] \in 0 .. Window
  BY LimiterAssumption DEF Hits
<1>5. m \in 1 .. N
  <2>1. <<>> \in Young
    BY DEF Young
  <2> QED BY <1>2, <1>3, <1>4, <2>1
<1>6. m - 1 \in 0 .. N /\ k[m - 1] \in Young
  BY <1>2, <1>4, <1>5
<1>7. ASSUME NEW s \in Young, NEW age \in 0 .. Window PROVE KeepOne(s, age) \in Young
  <2>1. CASE age < Window
    <3>1. age \in 0 .. Window - 1
      BY <2>1, LimiterAssumption
    <3> QED BY <2>1, <3>1 DEF KeepOne, Young
  <2>2. CASE ~(age < Window)
    BY <2>2 DEF KeepOne
  <2> QED BY <2>1, <2>2
<1>8. k[m] \in Young
  BY <1>3, <1>4, <1>5, <1>6, <1>7
<1> QED BY <1>2, <1>8

\* Pruning what was pruned changes nothing.
LEMMA PruneOfYoung ==
  ASSUME NEW h \in Young
  PROVE  h \in Hits /\ Prune(h) = h
<1> DEFINE k == Kept(h)
           N == Len(h)
           Copied(n) == k[n] \in Young /\ Len(k[n]) = n /\ \A j \in 1 .. n : k[n][j] = h[j]
           Bad == {n \in 0 .. N : ~Copied(n)}
<1>1. /\ N \in Nat /\ h \in Hits
      /\ \A n \in 1 .. N : h[n] \in 0 .. Window - 1 /\ h[n] < Window
  BY LimiterAssumption DEF Young, Hits
<1>2. k[0] = <<>> /\ \A n \in 1 .. N : k[n] = KeepOne(k[n - 1], h[n])
  BY <1>1, KeptIs
<1>3. \A n \in 1 .. N : k[n] = Append(k[n - 1], h[n])
  BY <1>1, <1>2 DEF KeepOne
<1> HIDE DEF k
<1>4. Bad = {}
  <2>1. SUFFICES ASSUME Bad # {} PROVE FALSE
    OBVIOUS
  <2>2. PICK m \in Bad : \A y \in Bad : m <= y
    BY <2>1, LeastOf, Bad \subseteq Nat
  <2>3. Copied(0)
    BY <1>2 DEF Young
  <2>4. m \in 1 .. N
    BY <1>1, <2>2, <2>3
  <2>5. m - 1 \in 0 .. N /\ Copied(m - 1)
    BY <1>1, <2>2, <2>4
  <2>6. k[m] = Append(k[m - 1], h[m]) /\ h[m] \in 0 .. Window - 1
    BY <1>1, <1>3, <2>4
  <2>7. /\ k[m] \in Young /\ Len(k[m]) = m
        /\ \A j \in 1 .. m - 1 : k[m][j] = k[m - 1][j]
        /\ k[m][m] = h[m]
    BY <2>4, <2>5, <2>6 DEF Young
  <2>8. Copied(m)
    BY <2>4, <2>5, <2>7
  <2> QED BY <2>2, <2>8
<1>5. Copied(N)
  BY <1>1, <1>4
<1>6. k[N] = h
  BY <1>1, <1>5 DEF Young
<1> QED BY <1>1, <1>6 DEF Prune, k

\* What is kept is no more for being older.
LEMMA OlderIsFewer ==
  ASSUME NEW h \in Hits
  PROVE  Older(h) \in Hits /\ Len(Prune(Older(h))) <= Len(Prune(h))
<1> DEFINE g == Older(h)
           N == Len(h)
           kg == Kept(g)
           kh == Kept(h)
           Bad == {n \in 0 .. N : ~(Len(kg[n]) <= Len(kh[n]))}
<1>1. N \in Nat /\ Window \in Nat /\ DOMAIN h = 1 .. N /\ \A n \in 1 .. N : h[n] \in 0 .. Window
  BY LimiterAssumption DEF Hits
<1>2. /\ g \in Hits /\ Len(g) = N
      /\ \A n \in 1 .. N : g[n] \in 0 .. Window /\ (g[n] < Window => h[n] < Window)
  <2> DEFINE a(n) == IF h[n] < Window THEN h[n] + 1 ELSE Window
  <2>1. g = [n \in 1 .. N |-> a(n)]
    BY <1>1 DEF Older
  <2>2. \A n \in 1 .. N : a(n) \in 0 .. Window /\ (a(n) < Window => h[n] < Window)
    BY <1>1
  <2> HIDE DEF g, a
  <2>3. g \in [1 .. N -> 0 .. Window]
    BY <2>1, <2>2
  <2> QED BY <1>1, <2>1, <2>2, <2>3 DEF Hits
<1>3. /\ kg[0] = <<>> /\ \A n \in 1 .. N : kg[n] = KeepOne(kg[n - 1], g[n])
      /\ kh[0] = <<>> /\ \A n \in 1 .. N : kh[n] = KeepOne(kh[n - 1], h[n])
  BY <1>2, KeptIs
<1>4. \A n \in 0 .. N : kg[n] \in Young /\ kh[n] \in Young
  BY <1>2, KeptYoung
<1> HIDE DEF g, kg, kh
<1>5. Bad = {}
  <2>1. SUFFICES ASSUME Bad # {} PROVE FALSE
    OBVIOUS
  <2>2. PICK m \in Bad : \A y \in Bad : m <= y
    BY <2>1, LeastOf, Bad \subseteq Nat
  <2>3. m \in 1 .. N
    BY <1>1, <1>3, <2>2
  <2>4. m - 1 \in 0 .. N /\ Len(kg[m - 1]) <= Len(kh[m - 1])
    BY <1>1, <2>2, <2>3
  <2>5. ASSUME NEW s \in Young, NEW age
        PROVE  Len(KeepOne(s, age)) = IF age < Window THEN Len(s) + 1 ELSE Len(s)
    BY DEF KeepOne, Young
  <2>6. Len(kg[m]) = IF g[m] < Window THEN Len(kg[m - 1]) + 1 ELSE Len(kg[m - 1])
    <3>1. kg[m] = KeepOne(kg[m - 1], g[m]) /\ kg[m - 1] \in Young
      BY <1>3, <1>4, <2>3, <2>4
    <3> QED BY <2>5, <3>1
  <2>7. Len(kh[m]) = IF h[m] < Window THEN Len(kh[m - 1]) + 1 ELSE Len(kh[m - 1])
    <3>1. kh[m] = KeepOne(kh[m - 1], h[m]) /\ kh[m - 1] \in Young
      BY <1>3, <1>4, <2>3, <2>4
    <3> QED BY <2>5, <3>1
  <2>8. Len(kg[m - 1]) \in Nat /\ Len(kh[m - 1]) \in Nat
    BY <1>4, <2>4 DEF Young
  <2>9. Len(kg[m]) <= Len(kh[m])
    BY <1>2, <2>3, <2>4, <2>6, <2>7, <2>8
  <2> QED BY <2>2, <2>9
<1>6. Len(kg[N]) <= Len(kh[N])
  BY <1>1, <1>5
<1> QED BY <1>2, <1>6 DEF Prune, g, kg, kh

\* What pruning and recording make of the window.
LEMMA Pruned ==
  ASSUME NEW h \in Hits
  PROVE  /\ Prune(h) \in Hits /\ Prune(Prune(h)) = Prune(h) /\ Len(Prune(h)) \in Nat
         /\ Recorded(h) \in Hits
         /\ Recorded(h) = Prune(h) => ~UnderLimit(h)
<1>1. Prune(h) \in Young
  <2>1. Len(h) \in 0 .. Len(h)
    BY DEF Hits
  <2> QED BY <2>1, KeptYoung DEF Prune
<1>2. Prune(h) \in Hits /\ Prune(Prune(h)) = Prune(h)
  BY <1>1, PruneOfYoung
<1>3. Len(Prune(h)) \in Nat
  BY <1>1 DEF Young
<1>4. Append(Prune(h), 0) \in Hits /\ Append(Prune(h), 0) # Prune(h)
  <2>1. 0 \in 0 .. Window
    BY LimiterAssumption
  <2>2. Append(Prune(h), 0) \in Hits /\ Len(Append(Prune(h), 0)) = Len(Prune(h)) + 1
    BY <1>2, <2>1 DEF Hits
  <2>3. Len(Prune(h)) + 1 # Len(Prune(h))
    BY <1>3
  <2> QED BY <2>2, <2>3
<1> QED BY <1>2, <1>3, <1>4 DEF Recorded, Allow, UnderLimit

\* A login past underLimit, and not past allow.
Guessing(r) == kind[r] = "login" /\ pc[r] \in {"reading", "checking"}

\* A login that is alone at its instance found the window not full, and it is not full
\* still: nobody else can have recorded a failure there since.
LoginInv ==
  /\ hits \in [Instances -> Hits]
  /\ alone \in [Requests -> BOOLEAN]
  /\ \A r \in Requests : Guessing(r) =>
       /\ on[r] \in Instances
       /\ alone[r] => UnderLimit(hits[on[r]]) /\ LoginsAt(on[r]) = {r}

\* Only a password is checked.
CheckingLogins == \A r \in Requests : At(r, "checking") => kind[r] = "login"

\* Logins that go on, while their window does not fill.
LEMMA LoginsGoOn ==
  ASSUME LoginInv, kind' = kind, hits' \in [Instances -> Hits], alone' \in [Requests -> BOOLEAN],
         \A q \in Requests : Guessing(q)' =>
           /\ Guessing(q) /\ on'[q] = on[q]
           /\ alone'[q] => /\ alone[q]
                           /\ Len(Prune(hits'[on[q]])) <= Len(Prune(hits[on[q]]))
  PROVE  LoginInv'
<1> SUFFICES ASSUME NEW r \in Requests, Guessing(r)'
             PROVE  /\ on'[r] \in Instances
                    /\ alone'[r] => /\ UnderLimit(hits'[on'[r]])
                                    /\ (LoginsAt(on[r]) = {r})'
  BY DEF LoginInv
<1>1. on[r] \in Instances /\ on'[r] = on[r] /\ (alone'[r] => alone[r])
  BY DEF LoginInv
<1>2. CASE ~alone'[r]
  BY <1>1, <1>2
<1>3. CASE alone'[r]
  <2>1. UnderLimit(hits[on[r]]) /\ LoginsAt(on[r]) = {r}
    BY <1>1, <1>3 DEF LoginInv
  <2>2. hits[on[r]] \in Hits /\ hits'[on[r]] \in Hits
    BY <1>1 DEF LoginInv
  <2>3. Len(Prune(hits[on[r]])) \in Nat /\ Len(Prune(hits'[on[r]])) \in Nat
    BY <2>2, Pruned
  <2>4. UnderLimit(hits'[on[r]])
    BY <1>3, <2>1, <2>3, LimiterAssumption DEF UnderLimit
  <2>5. \A q \in Requests : Guessing(q)' /\ on'[q] = on'[r] => q = r
    BY <1>1, <2>1 DEF LoginsAt, OnInstance, Guessing
  <2> QED BY <1>1, <2>4, <2>5 DEF LoginsAt, OnInstance, Guessing
<1> QED BY <1>2, <1>3

\* A login that arrives alone finds the window not full; one that does not arrive alone
\* makes all of them there overlapped.
LEMMA LoginArrives ==
  ASSUME LoginInv, RequestsOK, NEW r \in Requests, Login(r)
  PROVE  LoginInv'
<1>1. PICK i \in Instances :
        /\ UnderLimit(hits[i])
        /\ Arrives(r, i, "reading")
        /\ hits' = [hits EXCEPT ![i] = Prune(hits[i])]
        /\ alone' = IF LoginsAt(i) = {} THEN alone
                    ELSE [q \in Requests |-> alone[q] /\ q \notin LoginsAt(i) \cup {r}]
  BY DEF Login
<1>2. /\ hits[i] \in Hits /\ Prune(hits[i]) \in Hits
      /\ Prune(Prune(hits[i])) = Prune(hits[i])
  BY Pruned DEF LoginInv
<1>3. /\ hits' \in [Instances -> Hits] /\ hits'[i] = Prune(hits[i])
      /\ \A j \in Instances \ {i} : hits'[j] = hits[j]
  BY <1>1, <1>2 DEF LoginInv
<1>4. alone' \in [Requests -> BOOLEAN]
  BY <1>1, Zenon DEF LoginInv
<1>5. /\ pc[r] = "new" /\ pc'[r] = "reading" /\ on'[r] = i /\ kind[r] = "login" /\ kind' = kind
      /\ \A q \in Requests \ {r} : pc'[q] = pc[q] /\ on'[q] = on[q]
  BY <1>1 DEF Login, Arrives, At, RequestsOK
<1>6. UnderLimit(hits'[i])
  BY <1>1, <1>2, <1>3 DEF UnderLimit
<1> SUFFICES ASSUME NEW q \in Requests, Guessing(q)'
             PROVE  /\ on'[q] \in Instances
                    /\ alone'[q] => /\ UnderLimit(hits'[on'[q]])
                                    /\ (LoginsAt(on[q]) = {q})'
  BY <1>3, <1>4 DEF LoginInv
<1>7. CASE q = r
  <2>1. CASE LoginsAt(i) = {}
    <3>1. \A p \in Requests : Guessing(p)' /\ on'[p] = i => p = r
      BY <1>5, <2>1 DEF LoginsAt, OnInstance, Guessing
    <3> QED BY <1>5, <1>6, <1>7, <3>1 DEF LoginsAt, OnInstance, Guessing
  <2>2. CASE LoginsAt(i) # {}
    <3>1. ~alone'[r]
      BY <1>1, <2>2
    <3> QED BY <1>5, <1>7, <3>1
  <2> QED BY <2>1, <2>2
<1>8. CASE q # r
  <2>1. Guessing(q) /\ on'[q] = on[q] /\ on[q] \in Instances
    BY <1>5, <1>8 DEF LoginInv, Guessing
  <2>2. CASE on[q] = i
    <3>1. q \in LoginsAt(i)
      BY <2>1, <2>2 DEF LoginsAt, OnInstance, Guessing
    <3>2. ~alone'[q]
      BY <1>1, <3>1
    <3> QED BY <2>1, <3>2
  <2>3. CASE on[q] # i
    <3>1. alone'[q] => alone[q]
      BY <1>1
    <3>2. alone[q] => UnderLimit(hits[on[q]]) /\ LoginsAt(on[q]) = {q}
      BY <2>1 DEF LoginInv
    <3>3. hits'[on[q]] = hits[on[q]]
      BY <1>3, <2>1, <2>3
    <3>4. alone[q] => \A p \in Requests : Guessing(p)' /\ on'[p] = on[q] => p = q
      BY <1>5, <2>3, <3>2 DEF LoginsAt, OnInstance, Guessing
    <3>5. alone'[q] => UnderLimit(hits'[on'[q]])
      BY <2>1, <3>1, <3>2, <3>3
    <3>6. alone'[q] => (LoginsAt(on[q]) = {q})'
      BY <2>1, <3>1, <3>4 DEF LoginsAt, OnInstance, Guessing
    <3> QED BY <2>1, <3>5, <3>6
  <2> QED BY <2>2, <2>3
<1> QED BY <1>7, <1>8

\* A login that ends counts its failure where no other one is alone.
LEMMA LoginEnds ==
  ASSUME LoginInv, CheckingLogins, RequestsOK, NEW r \in Requests,
         BodyFails(r) \/ LoginRefused(r) \/ LoginFails(r) \/ LoginSucceeds(r)
  PROVE  LoginInv'
<1>1. /\ kind' = kind /\ pc'[r] \notin {"reading", "checking"}
      /\ \A q \in Requests \ {r} : pc'[q] = pc[q] /\ on'[q] = on[q]
      /\ alone' = alone \/ alone' = [alone EXCEPT ![r] = TRUE]
  BY DEF BodyFails, LoginRefused, LoginFails, LoginSucceeds, Arrives, Answer, RequestsOK
<1>2. /\ alone' \in [Requests -> BOOLEAN]
      /\ \A q \in Requests \ {r} : alone'[q] = alone[q]
  BY <1>1 DEF LoginInv
<1>0. \A q \in Requests : Guessing(q)' => q # r /\ Guessing(q) /\ on'[q] = on[q]
  BY <1>1 DEF Guessing
<1>3. CASE BodyFails(r) \/ LoginSucceeds(r)
  <2>1. hits' = hits
    BY <1>3 DEF BodyFails, LoginSucceeds
  <2>2. \A q \in Requests : Guessing(q) => Len(Prune(hits[on[q]])) \in Nat
    BY Pruned DEF LoginInv
  <2>3. hits' \in [Instances -> Hits]
    BY <2>1 DEF LoginInv
  <2>4. \A q \in Requests : Guessing(q)' =>
          /\ Guessing(q) /\ on'[q] = on[q]
          /\ alone'[q] => alone[q] /\ Len(Prune(hits'[on[q]])) <= Len(Prune(hits[on[q]]))
    BY <1>0, <1>2, <2>1, <2>2
  <2> QED BY <1>1, <1>2, <2>3, <2>4, LoginsGoOn
<1>4. CASE LoginRefused(r)
  <2>1. PICK i \in Instances : hits' = [hits EXCEPT ![i] = Prune(hits[i])]
    BY <1>4 DEF LoginRefused
  <2>2. \A j \in Instances : /\ hits[j] \in Hits /\ Prune(hits[j]) \in Hits
                             /\ Prune(Prune(hits[j])) = Prune(hits[j])
                             /\ Len(Prune(hits[j])) \in Nat
    BY Pruned DEF LoginInv
  <2>3. hits' \in [Instances -> Hits]
    BY <2>1, <2>2 DEF LoginInv
  <2>4. \A j \in Instances : Prune(hits'[j]) = Prune(hits[j])
    BY <2>1, <2>2 DEF LoginInv
  <2>5. \A q \in Requests : Guessing(q)' =>
          /\ Guessing(q) /\ on'[q] = on[q]
          /\ alone'[q] => alone[q] /\ Len(Prune(hits'[on[q]])) <= Len(Prune(hits[on[q]]))
    BY <1>0, <1>2, <2>2, <2>4 DEF LoginInv
  <2> QED BY <1>1, <1>2, <2>3, <2>5, LoginsGoOn
<1>5. CASE LoginFails(r)
  <2> DEFINE i == on[r]
  <2>1. Guessing(r) /\ hits' = [hits EXCEPT ![i] = Recorded(hits[i])]
    BY <1>5 DEF LoginFails, CheckingLogins, Guessing, At
  <2>2. i \in Instances
    BY <2>1 DEF LoginInv
  <2>3. \A j \in Instances : hits[j] \in Hits /\ Recorded(hits[j]) \in Hits /\ Len(Prune(hits[j])) \in Nat
    BY Pruned DEF LoginInv
  <2>4. hits' \in [Instances -> Hits] /\ \A j \in Instances \ {i} : hits'[j] = hits[j]
    BY <2>1, <2>2, <2>3 DEF LoginInv
  <2>5. \A q \in Requests \ {r} : Guessing(q) /\ alone[q] => on[q] # i
    BY <2>1 DEF LoginInv, LoginsAt, OnInstance, Guessing
  <2>6. \A q \in Requests : Guessing(q)' =>
          /\ Guessing(q) /\ on'[q] = on[q]
          /\ alone'[q] => alone[q] /\ Len(Prune(hits'[on[q]])) <= Len(Prune(hits[on[q]]))
    <3> SUFFICES ASSUME NEW q \in Requests, Guessing(q)'
                 PROVE  /\ Guessing(q) /\ on'[q] = on[q]
                        /\ alone'[q] => alone[q] /\ Len(Prune(hits'[on[q]])) <= Len(Prune(hits[on[q]]))
      OBVIOUS
    <3>1. q # r /\ Guessing(q) /\ on'[q] = on[q] /\ alone'[q] = alone[q]
      BY <1>0, <1>2
    <3>2. on[q] \in Instances
      BY <3>1 DEF LoginInv
    <3>3. alone[q] => hits'[on[q]] = hits[on[q]]
      BY <2>4, <2>5, <3>1, <3>2
    <3>4. alone[q] => Len(Prune(hits'[on[q]])) <= Len(Prune(hits[on[q]]))
      BY <2>3, <3>2, <3>3
    <3> QED BY <3>1, <3>4
  <2> QED BY <1>1, <1>2, <2>4, <2>6, LoginsGoOn
<1> QED BY <1>3, <1>4, <1>5

\* The steps of other requests, and of instances, leave the logins that go on their
\* window.
LEMMA OthersKeepLogins ==
  ASSUME LoginInv, RequestsOK, UNCHANGED <<kind, alone>>,
         \A q \in Requests : Guessing(q)' => Guessing(q) /\ on'[q] = on[q],
         \/ UNCHANGED hits
         \/ Tick
         \/ \E i \in Instances : Kill(i)
  PROVE  LoginInv'
<1>1. \A j \in Instances : /\ hits[j] \in Hits /\ Len(Prune(hits[j])) \in Nat
                           /\ Older(hits[j]) \in Hits
                           /\ Len(Prune(Older(hits[j]))) <= Len(Prune(hits[j]))
  BY Pruned, OlderIsFewer DEF LoginInv
<1>2. \A q \in Requests : Guessing(q) => on[q] \in Instances
  BY DEF LoginInv
<1>3. alone' \in [Requests -> BOOLEAN]
  BY DEF LoginInv
<1>4. CASE UNCHANGED hits
  <2>1. hits' \in [Instances -> Hits]
    BY <1>4 DEF LoginInv
  <2>2. \A q \in Requests : Guessing(q)' =>
          /\ Guessing(q) /\ on'[q] = on[q]
          /\ alone'[q] => alone[q] /\ Len(Prune(hits'[on[q]])) <= Len(Prune(hits[on[q]]))
    BY <1>1, <1>2, <1>4
  <2> QED BY <1>3, <2>1, <2>2, LoginsGoOn
<1>5. CASE Tick
  <2>1. hits' = [i \in Instances |-> Older(hits[i])]
    BY <1>5 DEF Tick
  <2>2. hits' \in [Instances -> Hits]
    BY <1>1, <2>1
  <2>3. \A q \in Requests : Guessing(q)' =>
          /\ Guessing(q) /\ on'[q] = on[q]
          /\ alone'[q] => alone[q] /\ Len(Prune(hits'[on[q]])) <= Len(Prune(hits[on[q]]))
    BY <1>1, <1>2, <2>1
  <2> QED BY <1>3, <2>2, <2>3, LoginsGoOn
<1>6. ASSUME NEW i \in Instances, Kill(i) PROVE LoginInv'
  <2>1. /\ hits' = [hits EXCEPT ![i] = <<>>]
        /\ \A q \in Requests : Guessing(q)' => on[q] # i
    BY <1>6 DEF Kill, OnInstance
  <2>2. <<>> \in Hits
    BY DEF Hits
  <2>3. hits' \in [Instances -> Hits]
    BY <2>1, <2>2 DEF LoginInv
  <2>4. \A j \in Instances \ {i} : hits'[j] = hits[j]
    BY <2>1 DEF LoginInv
  <2>5. \A q \in Requests : Guessing(q)' =>
          /\ Guessing(q) /\ on'[q] = on[q]
          /\ alone'[q] => alone[q] /\ Len(Prune(hits'[on[q]])) <= Len(Prune(hits[on[q]]))
    BY <1>1, <1>2, <2>1, <2>4
  <2> QED BY <1>3, <2>3, <2>5, LoginsGoOn
<1> QED BY <1>4, <1>5, <1>6

LEMMA CheckingStep ==
  ASSUME CheckingLogins, RequestsOK, [Next]_vars
  PROVE  CheckingLogins'
<1>1. ASSUME kind' = kind, \A q \in Requests : pc'[q] = pc[q] \/ pc'[q] # "checking"
      PROVE  CheckingLogins'
  BY <1>1 DEF CheckingLogins, At
<1>2. ASSUME NEW i \in Instances, AppMoves(i) PROVE CheckingLogins'
  BY <1>1, <1>2, AppMovesHandlers
<1>3. ASSUME NEW r \in Requests, RequestMoves(r) PROVE CheckingLogins'
  <2>1. kind' = kind /\ \A q \in Requests \ {r} : pc'[q] = pc[q]
    BY <1>3, RequestMovesAlone
  <2>2. CASE BodyRead(r)
    <3>1. pc'[r] = "checking" => kind[r] = "login"
      BY <2>2 DEF BodyRead, Goto, RequestsOK
    <3> QED BY <2>1, <3>1 DEF CheckingLogins, At
  <2>3. CASE ~BodyRead(r)
    <3>1. pc'[r] = pc[r] \/ pc'[r] # "checking"
      BY <1>3, <2>3 DEF RequestMoves, BodyEnds, BodyFails, BodyDiscarded, HandlerRuns, StreamRuns,
             AdminRuns, Login, LoginRefused, LoginFails, LoginSucceeds, Stream, CreateKey, RevokeKey,
             Create, Blocks, Unblocks, HangsUp, Guard, Open, SeesShutdown, CommitKey, RevokeApiKey,
             CommitRevoke, Insert, CommitCreate, Fails, Arrives, Answer, Goto, RequestsOK
    <3> QED BY <1>1, <2>1, <3>1
  <2> QED BY <2>2, <2>3
<1>4. CASE Tick \/ UNCHANGED vars
  BY <1>1, <1>4 DEF Tick, vars
<1> QED BY <1>2, <1>3, <1>4, StepCases

LEMMA LoginInvStep ==
  ASSUME LoginInv, CheckingLogins, RequestsOK, [Next]_vars
  PROVE  LoginInv'
<1>1. ASSUME NEW i \in Instances, AppMoves(i) PROVE LoginInv'
  <2>1. /\ UNCHANGED <<kind, alone>> /\ (UNCHANGED <<pc, on>> \/ Kill(i))
        /\ \A r \in Requests : pc'[r] = pc[r] \/ pc'[r] = "done"
    BY <1>1, AppMovesHandlers
  <2>2. UNCHANGED hits \/ Kill(i)
    BY <1>1 DEF AppMoves, StartApp, AppRuns, SignalApp, Drained, TimesOut, ExitApp, CrashApp, Handlers
  <2>3. \A q \in Requests : Guessing(q)' => Guessing(q) /\ on'[q] = on[q]
    BY <2>1 DEF Kill, OnInstance, Guessing
  <2> QED BY <2>1, <2>2, <2>3, OthersKeepLogins
<1>2. ASSUME NEW r \in Requests, RequestMoves(r) PROVE LoginInv'
  <2>1. CASE Login(r)
    BY <2>1, LoginArrives
  <2>2. CASE BodyFails(r) \/ LoginRefused(r) \/ LoginFails(r) \/ LoginSucceeds(r)
    BY <2>2, LoginEnds
  <2>3. CASE ~(Login(r) \/ BodyFails(r) \/ LoginRefused(r) \/ LoginFails(r) \/ LoginSucceeds(r))
    <3>1. UNCHANGED <<hits, alone>>
      BY <1>2, <2>3 DEF RequestMoves, BodyEnds, BodyRead, BodyDiscarded, HandlerRuns, StreamRuns,
             AdminRuns, Rest, Stream, CreateKey, RevokeKey, Create, Blocks, Unblocks, HangsUp, Guard,
             Open, SeesShutdown, CommitKey, RevokeApiKey, CommitRevoke, Insert, CommitCreate, Fails
    <3>2. /\ kind' = kind
          /\ \A q \in Requests \ {r} : pc'[q] = pc[q] /\ on'[q] = on[q]
      BY <1>2, RequestMovesAlone
    <3>3. Guessing(r)' => Guessing(r) /\ on'[r] = on[r]
      <4>1. CASE BodyRead(r)
        BY <3>2, <4>1 DEF BodyRead, Goto, Guessing, At
      <4>2. CASE CreateKey(r) \/ Create(r)
        BY <3>2, <4>2 DEF CreateKey, Create, Guessing
      <4>3. CASE ~(BodyRead(r) \/ CreateKey(r) \/ Create(r))
        <5>1. pc'[r] \notin {"reading", "checking"}
          BY <1>2, <2>3, <4>3 DEF RequestMoves, BodyEnds, BodyDiscarded, HandlerRuns, StreamRuns,
             AdminRuns, Stream, RevokeKey, Blocks, Unblocks, HangsUp, Guard, Open, SeesShutdown,
             CommitKey, RevokeApiKey, CommitRevoke, Insert, CommitCreate, Fails, Arrives, Answer,
             Goto, At, RequestsOK
        <5> QED BY <5>1 DEF Guessing
      <4> QED BY <4>1, <4>2, <4>3
    <3>4. \A q \in Requests : Guessing(q)' => Guessing(q) /\ on'[q] = on[q]
      BY <3>2, <3>3 DEF Guessing
    <3> QED BY <3>1, <3>2, <3>4, OthersKeepLogins
  <2> QED BY <2>1, <2>2, <2>3
<1>3. CASE Tick \/ UNCHANGED vars
  <2>1. /\ UNCHANGED <<kind, pc, on, alone>>
        /\ Tick \/ UNCHANGED hits
    BY <1>3 DEF Tick, vars
  <2>2. \A q \in Requests : Guessing(q)' => Guessing(q) /\ on'[q] = on[q]
    BY <2>1 DEF Guessing
  <2> QED BY <2>1, <2>2, OthersKeepLogins
<1> QED BY <1>1, <1>2, <1>3, StepCases

\* A failed login whose failure is not recorded overlapped another one of the same client
\* at the same instance: one at a time nobody gets more than MaxAttempts guesses in a
\* window, for any window, limit, clock and number of instances.
THEOREM ServerGuessesCounted == Spec => UncountedGuessOverlapped
<1> DEFINE Counted ==
      \A r \in Requests :
        At(r, "checking") /\ pc'[r] = "refused" /\ hits'[on[r]] = Prune(hits[on[r]]) => ~alone[r]
<1>1. Init => LoginInv /\ CheckingLogins
  <2> SUFFICES ASSUME Init PROVE LoginInv /\ CheckingLogins
    OBVIOUS
  <2>1. <<>> \in Hits
    BY DEF Hits
  <2>2. hits \in [Instances -> Hits] /\ alone \in [Requests -> BOOLEAN]
    BY <2>1 DEF Init
  <2>3. \A r \in Requests : pc[r] = "new"
    BY DEF Init
  <2> QED BY <2>2, <2>3 DEF LoginInv, CheckingLogins, Guessing, At
<1>2. TypeInv /\ LoginInv /\ CheckingLogins /\ [Next]_vars => LoginInv' /\ CheckingLogins'
  BY LoginInvStep, CheckingStep DEF TypeInv
<1>3. TypeInv /\ LoginInv /\ CheckingLogins /\ [Next]_vars => [Counted]_vars
  <2> SUFFICES ASSUME RequestsOK, LoginInv, CheckingLogins, [Next]_vars, NEW r \in Requests,
                      pc[r] = "checking", pc'[r] = "refused",
                      hits'[on[r]] = Prune(hits[on[r]]), alone[r]
               PROVE  FALSE
    BY DEF TypeInv, At
  <2>1. ASSUME NEW i \in Instances, AppMoves(i) PROVE FALSE
    BY <2>1, AppMovesHandlers
  <2>2. ASSUME NEW q \in Requests, RequestMoves(q) PROVE LoginFails(r)
    <3>1. q = r
      BY <2>2, RequestMovesAlone
    <3> QED BY <2>2, <3>1 DEF RequestMoves, BodyEnds, BodyRead, BodyFails, BodyDiscarded,
             HandlerRuns, StreamRuns, AdminRuns, Rest, Login,
             LoginRefused, LoginSucceeds, Stream, CreateKey,
             RevokeKey, Create, Blocks, Unblocks, HangsUp, Guard, Open, SeesShutdown, CommitKey,
             RevokeApiKey, CommitRevoke, Insert, CommitCreate, Fails, Arrives, Answer, Goto, At,
             RequestsOK
  <2>3. ~Tick /\ ~UNCHANGED vars
    BY DEF Tick, vars
  <2>4. LoginFails(r)
    BY <2>1, <2>2, <2>3, StepCases
  <2>5. on[r] \in Instances /\ hits[on[r]] \in Hits /\ UnderLimit(hits[on[r]])
    BY DEF LoginInv, CheckingLogins, Guessing, At
  <2>6. hits'[on[r]] = Recorded(hits[on[r]])
    BY <2>4, <2>5 DEF LoginFails, LoginInv
  <2> QED BY <2>5, <2>6, Pruned
<1> QED BY <1>1, <1>2, <1>3, TypeInvInductive, PTL DEF Spec, UncountedGuessOverlapped
=============================================================================
