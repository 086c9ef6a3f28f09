------------------------------- MODULE Server -------------------------------
(***************************************************************************)
(* The server as a whole: instances that start, seed, serve and shut down  *)
(* (AppLifecycle), and the requests their handlers work on: logins, under  *)
(* the limiter of the instance (LoginLimiter), streams, the creation and   *)
(* revocation of API keys, and the creation of organizations and projects. *)
(* ConfigStore, OrgMembers and Delivery have the other handlers.           *)
(*                                                                         *)
(* A request is made once.  A step of a handler is one SQL statement with  *)
(* the Go code around it; the last write of a transaction, its audit row   *)
(* and the COMMIT are one step.                                            *)
(***************************************************************************)
EXTENDS AppLifecycle, LoginLimiter, TLC

CONSTANTS
  Requests,          \* requests, each made at most once, to any instance
  Workloads,         \* what they are: functions from Requests to Kinds
  Keys,              \* api_key ids
  None,              \* no instance
  OrgNames,          \* display names: sequences of words and punctuation
  Words,             \* runs of letters and digits
  ProjectSlugs,
  MaxSlugAttempts    \* maxSlugAttempts of handleCreateOrganization

Kinds == {"login", "stream", "createKey", "revokeKey", "createOrg", "createProject"}

ASSUME ServerAssumption ==
  /\ Workloads \subseteq [Requests -> Kinds]
  /\ MaxSlugAttempts \in Nat \ {0}
  /\ None \notin Instances

VARIABLES
  kind,     \* the workload
  pc,       \* where the handler of a request is, or what it answered
  on,       \* the instance whose handler works on a request, or None
  arg,      \* the key, the name or the slug that a request is about
  attempt,  \* slugs that handleCreateOrganization found taken
  hits,     \* loginLimiter.hits of every instance, of one client
  keys,     \* ids in api_key
  trail,    \* audit_log by key: what was recorded about it, in order
  slugs,    \* <<kind, slug>> of the organizations and projects there are
  alone     \* history: no login was in flight at the instance together with this one

db == <<keys, trail, slugs>>

vars == <<app, kind, pc, on, arg, attempt, hits, db, alone>>

\* pc is "new", at last "done" or "refused" (401, 404, 409, 429), and in between
\* "reading" the client's body, in handleLogin past underLimit; "turnedAway" by it, while
\* net/http discards the body; "checking" the password; "lookup" in apiKeyGuard; in
\* handleStream "opening" up to its loop, "streaming" in the select and "blocked" in a
\* write; "creating" or "revoking" a key, "revoked" before the commit; or "inserting" an
\* organization or project, "inserted" before the commit.

At(r, p) == pc[r] = p

Goto(r, p) == pc' = [pc EXCEPT ![r] = p] /\ UNCHANGED on

\* The response is complete, or was given up.
Answer(r, p) == pc' = [pc EXCEPT ![r] = p] /\ on' = [on EXCEPT ![r] = None]

\* Nothing but where the request is changes.
Rest == UNCHANGED <<app, kind, arg, attempt, hits, db, alone>>

OnInstance(i) == {r \in Requests : on[r] = i}

Init ==
  /\ LifecycleInit
  /\ kind \in Workloads
  /\ pc = [r \in Requests |-> "new"]
  /\ on = [r \in Requests |-> None]
  /\ arg = [r \in Requests |-> <<>>]
  /\ attempt = [r \in Requests |-> 0]
  /\ hits = [i \in Instances |-> <<>>]
  /\ keys = IF admin = "owner" THEN Keys ELSE {}
  /\ trail = [k \in Keys |-> IF k \in keys THEN <<"create">> ELSE <<>>]
  /\ slugs = {<<"createOrg", <<"default">>>>}    \* the rbac migration
  /\ alone = [r \in Requests |-> TRUE]

\* A request arrives at an instance, and gets as far as p.
Arrives(r, i, p) ==
  /\ At(r, "new")
  /\ Accepting(i)
  /\ pc' = [pc EXCEPT ![r] = p]
  /\ on' = [on EXCEPT ![r] = i]

-----------------------------------------------------------------------------
(* The body of a POST comes as fast as the client sends it.  A GET or a    *)
(* DELETE has none; and only a stream's response outgrows a socket buffer. *)

\* It is complete and valid.
BodyRead(r) ==
  /\ At(r, "reading")
  /\ Goto(r, CASE kind[r] = "login" -> "checking"
                [] kind[r] = "createKey" -> "creating"
                [] OTHER -> "inserting")
  /\ Rest

\* It is invalid: 400 or 422.  Or the client goes away, or ReadTimeout has passed.
BodyFails(r) ==
  /\ At(r, "reading")
  /\ Answer(r, "done")
  /\ alone' = [alone EXCEPT ![r] = TRUE]
  /\ UNCHANGED <<app, kind, arg, attempt, hits, db>>

\* The same, of a body that nobody is interested in.
BodyDiscarded(r) ==
  /\ At(r, "turnedAway")
  /\ Answer(r, "refused")
  /\ Rest

BodyEnds(r) == BodyRead(r) \/ BodyFails(r) \/ BodyDiscarded(r)

-----------------------------------------------------------------------------
(* handleLogin.                                                            *)

\* The logins between underLimit and allow.
LoginsAt(i) == {r \in OnInstance(i) : kind[r] = "login" /\ pc[r] \in {"reading", "checking"}}

Login(r) == \E i \in Instances :
  /\ kind[r] = "login"
  /\ UnderLimit(hits[i])
  /\ Arrives(r, i, "reading")
  /\ hits' = [hits EXCEPT ![i] = Prune(hits[i])]
  /\ alone' = IF LoginsAt(i) = {} THEN alone
              ELSE [q \in Requests |-> alone[q] /\ q \notin LoginsAt(i) \cup {r}]
  /\ UNCHANGED <<app, kind, arg, attempt, db>>

\* 429 before anything else is looked at.
LoginRefused(r) == \E i \in Instances :
  /\ kind[r] = "login"
  /\ ~UnderLimit(hits[i])
  /\ Arrives(r, i, "turnedAway")
  /\ hits' = [hits EXCEPT ![i] = Prune(hits[i])]
  /\ UNCHANGED <<app, kind, arg, attempt, db, alone>>

\* A wrong password, no such user, or no answer from the database.
LoginFails(r) ==
  /\ At(r, "checking")
  /\ Answer(r, "refused")
  /\ hits' = [hits EXCEPT ![on[r]] = Recorded(hits[on[r]])]
  /\ alone' = [alone EXCEPT ![r] = TRUE]
  /\ UNCHANGED <<app, kind, arg, attempt, db>>

\* The session is issued.
LoginSucceeds(r) ==
  /\ At(r, "checking")
  /\ Answer(r, "done")
  /\ alone' = [alone EXCEPT ![r] = TRUE]
  /\ UNCHANGED <<app, kind, arg, attempt, hits, db>>

Tick ==
  /\ hits' = [i \in Instances |-> Older(hits[i])]
  /\ UNCHANGED <<app, kind, pc, on, arg, attempt, db, alone>>

-----------------------------------------------------------------------------
(* apiKeyGuard and handleStream, whose frames are module Delivery's.       *)

Stream(r) == \E i \in Instances, k \in Keys :
  /\ kind[r] = "stream"
  /\ Arrives(r, i, "lookup")
  /\ arg' = [arg EXCEPT ![r] = <<k>>]
  /\ UNCHANGED <<app, kind, attempt, hits, db, alone>>

\* ApiKeyByHash and TouchApiKey.
Guard(r) ==
  /\ At(r, "lookup")
  /\ \/ arg[r][1] \in keys /\ Goto(r, "opening")
     \/ arg[r][1] \notin keys /\ Answer(r, "refused")
     \/ Answer(r, "done")   \* 500
  /\ Rest

\* The environment, Subscribe, the headers and the initial snapshot.
Open(r) ==
  /\ At(r, "opening")
  /\ Goto(r, "streaming") \/ Answer(r, "done")
  /\ Rest

\* A frame or a heartbeat is written to a client that does not read: there is no write
\* deadline on this connection.
Blocks(r) ==
  /\ At(r, "streaming")
  /\ Goto(r, "blocked")
  /\ Rest

Unblocks(r) ==
  /\ At(r, "blocked")
  /\ Goto(r, "streaming")
  /\ Rest

HangsUp(r) ==
  /\ pc[r] \in {"streaming", "blocked"}
  /\ Answer(r, "done")
  /\ Rest

\* Mutant of SeesShutdown: the handler waits for srv.Shutdown to have returned.
SeesStopping(r) ==
  /\ At(r, "streaming") /\ In(on[r], "stopping")
  /\ Answer(r, "done")
  /\ Rest

\* The case <-d.Shutdown of the select.
SeesShutdown(r) ==
  /\ At(r, "streaming") /\ ShuttingDown(on[r])
  /\ Answer(r, "done")
  /\ Rest

StreamRuns(r) == Guard(r) \/ Open(r) \/ SeesShutdown(r)

-----------------------------------------------------------------------------
(* The API keys.  Whoever asks is an administrator: the seeded one, here.  *)

Administers(r) == kind[r] \in {"createKey", "revokeKey", "createProject"} => admin = "owner"

CreateKey(r) == \E i \in Instances :
  /\ kind[r] = "createKey" /\ Administers(r)
  /\ Arrives(r, i, "reading")
  /\ Rest

\* CreateApiKey, RecordAudit and COMMIT: no statement of it waits for anybody.
CommitKey(r) == \E k \in Keys :
  /\ At(r, "creating") /\ trail[k] = <<>>
  /\ keys' = keys \cup {k}
  /\ trail' = [trail EXCEPT ![k] = <<"create">>]
  /\ Answer(r, "done")
  /\ UNCHANGED <<app, kind, arg, attempt, hits, slugs, alone>>

RevokeKey(r) == \E i \in Instances, k \in Keys :
  /\ kind[r] = "revokeKey" /\ Administers(r)
  /\ trail[k] # <<>>
  /\ Arrives(r, i, "revoking")
  /\ arg' = [arg EXCEPT ![r] = <<k>>]
  /\ UNCHANGED <<app, kind, attempt, hits, db, alone>>

\* A transaction that has deleted the row and not ended has it locked.
Unlocked(k) == \A r \in Requests : ~(At(r, "revoked") /\ arg[r] = <<k>>)

\* Mutant of RevokeApiKey: it does not look at RowsAffected.
RevokeAnyway(r) ==
  /\ At(r, "revoking") /\ Unlocked(arg[r][1])
  /\ Goto(r, "revoked")
  /\ Rest

\* The DELETE waits for another one's transaction, and finds no row if that committed.
RevokeApiKey(r) ==
  /\ At(r, "revoking") /\ Unlocked(arg[r][1])
  /\ IF arg[r][1] \in keys THEN Goto(r, "revoked") ELSE Answer(r, "refused")
  /\ Rest

CommitRevoke(r) == LET k == arg[r][1] IN
  /\ At(r, "revoked")
  /\ keys' = keys \ {k}
  /\ trail' = [trail EXCEPT ![k] = Append(@, "revoke")]
  /\ Answer(r, "done")
  /\ UNCHANGED <<app, kind, arg, attempt, hits, slugs, alone>>

-----------------------------------------------------------------------------
(* Organizations and projects: rows with a unique slug.                    *)

\* The words of a name, joined by hyphens.
deriveSlug(name) ==
  LET words == SelectSeq(name, LAMBDA w : w \in Words)
  IN  IF words = <<>> THEN <<"org">> ELSE words

Attempts(r) == IF kind[r] = "createOrg" THEN MaxSlugAttempts ELSE 1

\* The slug of attempt n, the first being 0: acme, acme-2, acme-3...
Candidate(r, n) ==
  LET base == IF kind[r] = "createOrg" THEN deriveSlug(arg[r]) ELSE arg[r]
  IN  IF n = 0 THEN base ELSE Append(base, ToString(n + 1))

Create(r) == \E i \in Instances :
  /\ \/ kind[r] = "createOrg" /\ admin # "none" /\ \E n \in OrgNames : arg' = [arg EXCEPT ![r] = n]
     \/ kind[r] = "createProject" /\ Administers(r)
        /\ \E s \in ProjectSlugs : arg' = [arg EXCEPT ![r] = s]
  /\ Arrives(r, i, "reading")
  /\ UNCHANGED <<app, kind, attempt, hits, db, alone>>

Row(r) == <<kind[r], Candidate(r, attempt[r])>>

\* Mutant of Insert: a slug that another transaction has inserted, but may still roll
\* back, counts as taken.
InsertImpatiently(r) ==
  /\ At(r, "inserting")
  /\ IF Row(r) \notin slugs /\ \A q \in Requests : At(q, "inserted") => Row(q) # Row(r)
     THEN Goto(r, "inserted") /\ UNCHANGED attempt
     ELSE IF attempt[r] + 1 < Attempts(r)
          THEN attempt' = [attempt EXCEPT ![r] = @ + 1] /\ UNCHANGED <<pc, on>>
          ELSE Answer(r, "refused") /\ UNCHANGED attempt
  /\ UNCHANGED <<app, kind, arg, hits, db, alone>>

\* The unique index: an INSERT waits for the transaction that has inserted the same
\* slug, and fails if that commits.
Insert(r) ==
  /\ At(r, "inserting")
  /\ \A q \in Requests : At(q, "inserted") => Row(q) # Row(r)
  /\ IF Row(r) \notin slugs
     THEN Goto(r, "inserted") /\ UNCHANGED attempt
     ELSE IF attempt[r] + 1 < Attempts(r)
          THEN attempt' = [attempt EXCEPT ![r] = @ + 1] /\ UNCHANGED <<pc, on>>
          ELSE Answer(r, "refused") /\ UNCHANGED attempt
  /\ UNCHANGED <<app, kind, arg, hits, db, alone>>

\* AddMember for an organization, RecordAudit and COMMIT.
CommitCreate(r) ==
  /\ At(r, "inserted")
  /\ slugs' = slugs \cup {Row(r)}
  /\ Answer(r, "done")
  /\ UNCHANGED <<app, kind, arg, attempt, hits, keys, trail, alone>>

\* A statement of a transaction fails: it is rolled back and answered 500.
Fails(r) ==
  /\ pc[r] \in {"creating", "revoking", "revoked", "inserting", "inserted"}
  /\ Answer(r, "done")
  /\ Rest

AdminRuns(r) ==
  \/ CommitKey(r) \/ RevokeApiKey(r) \/ CommitRevoke(r)
  \/ Insert(r) \/ CommitCreate(r) \/ Fails(r)

-----------------------------------------------------------------------------
(* The instances, with their handlers.                                     *)

\* Handlers, and the limiter's memory, end with their process; what their transactions
\* have not committed is rolled back.
Kill(i) ==
  /\ pc' = [r \in Requests |-> IF r \in OnInstance(i) THEN "done" ELSE pc[r]]
  /\ on' = [r \in Requests |-> IF r \in OnInstance(i) THEN None ELSE on[r]]
  /\ hits' = [hits EXCEPT ![i] = <<>>]
  /\ UNCHANGED <<kind, arg, attempt, db, alone>>

Handlers == <<kind, pc, on, arg, attempt, hits, db, alone>>

StartApp(i) == Start(i) /\ UNCHANGED Handlers

AppRuns(i) ==
  /\ \/ CountUsers(i) \/ CreateUser(i) \/ Enroll(i) \/ SeedFails(i)
     \/ Listen(i) \/ BindFails(i) \/ ListenerEnds(i)
  /\ UNCHANGED Handlers

SignalApp(i) == Signal(i) /\ UNCHANGED Handlers

Drained(i) ==
  /\ OnInstance(i) = {}
  /\ ShutdownReturns(i, FALSE)
  /\ UNCHANGED Handlers

\* shutdownTimeout, which no handler that runs takes.
TimesOut(i) ==
  /\ OnInstance(i) # {}
  /\ ShutdownReturns(i, TRUE)
  /\ UNCHANGED Handlers

ExitApp(i) == Exit(i) /\ Kill(i)

CrashApp(i) == Crash(i) /\ Kill(i)

-----------------------------------------------------------------------------
HandlerRuns(r) == LoginFails(r) \/ LoginSucceeds(r) \/ StreamRuns(r) \/ AdminRuns(r)

Next ==
  \/ \E i \in Instances : StartApp(i) \/ AppRuns(i) \/ SignalApp(i) \/ Drained(i)
                          \/ TimesOut(i) \/ ExitApp(i) \/ CrashApp(i)
  \/ \E r \in Requests : \/ Login(r) \/ LoginRefused(r) \/ Stream(r) \/ CreateKey(r) \/ RevokeKey(r) \/ Create(r)
                         \/ BodyEnds(r) \/ HandlerRuns(r) \/ Blocks(r) \/ Unblocks(r) \/ HangsUp(r)
  \/ Tick

Spec == Init /\ [][Next]_vars

\* Handlers and Run itself go on: their statements are answered, with an error if need
\* be.  Nothing is assumed of clients, which may neither send their body nor read what
\* they are sent, of signals, or of how soon ReadTimeout or shutdownTimeout is up.
\* There are finitely many such steps, so that fairness to all of them together is
\* fairness to each.
Fairness ==
  /\ WF_vars(\E r \in Requests : HandlerRuns(r))
  /\ WF_vars(\E i \in Instances : AppRuns(i) \/ Drained(i) \/ ExitApp(i))

FairSpec == Spec /\ Fairness

-----------------------------------------------------------------------------
(* What makes it correct.                                                  *)

\* A stream that an instance serves is fed: its Listener runs until the last handler is
\* done, unless srv.Shutdown gave up waiting for one.
StreamsAreFed ==
  \A i \in Instances :
    (\E r \in OnInstance(i) : pc[r] \in {"opening", "streaming", "blocked"}) =>
      listener[i] = "running" \/ overdue[i]

\* A shutdown does not hang on live streams, nor on anything but a client that stalls:
\* one that has stopped reading its stream, which has no write deadline, or one that
\* does not finish its body, which ReadTimeout (30s) bounds later than shutdownTimeout
\* (15s).  Without one srv.Shutdown returns before its timeout: nothing here relies on
\* TimesOut, or on a timeout of the connection.
Stalled(r) == pc[r] \in {"blocked", "reading", "turnedAway"}

DrainsUnlessClientStalls ==
  \A i \in Instances :
    In(i, "draining") ~> ~In(i, "draining") \/ \E r \in OnInstance(i) : Stalled(r)

\* The audit log has every change of a key once, whatever requests race or die: the key
\* is in api_key from its "create" to its only "revoke".
TrailsAreExact ==
  \A k \in Keys :
    trail[k] \in IF k \in keys THEN {<<"create">>} ELSE {<<>>, <<"create", "revoke">>}

\* Nobody is refused a slug that is free: of a request answered 409 all the candidates
\* are taken, for good, though each was looked at while others were inserting theirs.
ConflictMeansTaken ==
  \A r \in Requests : At(r, "refused") /\ kind[r] \in {"createOrg", "createProject"} =>
    \A n \in 0 .. Attempts(r) - 1 : <<kind[r], Candidate(r, n)>> \in slugs

\* A failed login that is not recorded overlapped another one of the client: one at a
\* time, it has MaxAttempts guesses in a window, whenever they start and end.
UncountedGuessOverlapped ==
  [][\A r \in Requests :
       At(r, "checking") /\ pc'[r] = "refused" /\ hits'[on[r]] = Prune(hits[on[r]]) => ~alone[r]]_vars
=============================================================================
