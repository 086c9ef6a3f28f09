# knobs: a TLA+ model

knobs is a remote-configuration server. People edit the *schema* of a project
and the *values* of its environments through a management API; programs hold an
SDK client that keeps the current values of one environment in memory and is
told of changes over a stream. This directory models the parts of it whose
correctness depends on the order in which things happen, checks them with TLC,
and proves the main results with TLAPS.

Paths below are relative to `src/`.

## The system

| Part | State | Operations | Talks to |
|---|---|---|---|
| Write path: `internal/api/{values,versions,schema,environments}_handlers.go`, `internal/store/{versions,schema,environments,audit,repo}.go` | tables `environment`, `config_version`, `config_schema`, `audit_log` | save values, roll back, change the schema, create an environment | Postgres row locks; `NOTIFY knobs_env` |
| Delivery server: `internal/delivery/*`, `internal/api/{stream,snapshot}_handler.go`, `app.snapshotLoader` | the LISTEN session, the Hub's channels, what a stream sent last | reconnect, load, publish, subscribe, write frames, answer `GET /v1/snapshot` | reads the tables; SSE and HTTP to the SDKs |
| Go SDK: `sdk/go/{knobs,stream,http,delta}.go` | current snapshot, goroutines, listeners, the hash warned about | `Ready`, stream, poll, resync, `OnChange`, `Close` | the delivery server |
| TypeScript SDK: `sdk/typescript/src` | the same, with callbacks and timers | the same | the delivery server |
| Organization members: `internal/api/org_handlers.go`, `internal/store/{organizations,users}.go`, `internal/authz` | `organization_member`, `app_user` | add, change role, remove | Postgres row locks |
| Authorization: `internal/api/authorize.go`, `internal/authz` | none | role of the caller against the route's minimum | reads the members |
| API keys: `internal/store/apikeys.go`, `internal/api/apikey_*.go` | `api_key` | create, revoke, check | guards the delivery API |
| Login: `internal/api/{auth_handlers,ratelimit}.go`, `internal/auth` | failures per address | login, logout | |
| Projects and organizations: `internal/api/{projects,org}_handlers.go` | `project`, `organization` | create with a unique slug, rename, list | members, audit |
| Targeting: `internal/targeting` and a copy in both SDKs | none | resolve a field for a context, validate rules | write path, SDKs |
| Schema: `internal/schema` | none | validate a definition, compile it, validate values | write path |
| Startup and shutdown: `internal/app` | phase of the process, the Listener's context | migrate, seed the first admin, drain streams | everything |
| Codegen and CLI: `internal/codegen`, `cmd/knobs` | none | generate types from a schema | |
| Admin UI: `web/` | none on the server | | management API |

What is hard in it:

- **Concurrency of transactions.** Several server instances run the handlers
  under READ COMMITTED. What keeps them apart is a `FOR UPDATE` on the
  project's `config_schema` row, the row lock of the `environment` update, and
  a `FOR UPDATE` on the owners of an organization.
- **Reads in separate statements.** Every reader of a snapshot loads
  `delivery_revision` and then the current version in another statement.
- **Lossy delivery.** NOTIFYs are lost while the Listener reconnects, a failing
  loader drops one, a full channel loses its oldest snapshot, a stream breaks
  with frames in flight, poll answers arrive late. What repairs all this is
  that snapshots are states, that the client compares revisions, and that it
  polls.
- **Goroutines of one client.** `Ready`, the stream and the poll of the Go
  client share four variables under three mutexes, and call the application
  with none of them held; `Close` may come between any two steps.
- **Processes that come and go.** Instances start on one database at the same
  time, die in the middle of seeding, and have to let go of streams that would
  otherwise never end.
- **Deltas** are only correct on the base they were computed against.
- **Callbacks.** The TypeScript client is a set of timers, promises and user
  callbacks that share four variables; `close()` may come between any two of
  them, and a listener may call it or throw.
- **Rules that nobody validates twice.** Targeting rules are validated once,
  when they are saved, and evaluated by every client after any number of
  rollbacks and schema changes.
- **One evaluator, written three times**, in two languages that disagree about
  what a number, a missing list and a missing key are.

## Modules

| Module | Models | Shape |
|---|---|---|
| `RevisionLog` | what the store promises to a reader of one environment: a log of contents that only grows, one entry per delivery revision | abstract |
| `ConfigStore` | the write path of one project, one action per SQL statement | implements `RevisionLog` |
| `Delta` | snapshots and the deltas between them, as pure operators | used by `Delivery` |
| `ConfigFeed` | what delivery promises to a process that reads an SDK client | abstract |
| `Delivery` | Listener, Hub, one stream, the snapshot endpoint, one Go client | on top of `RevisionLog`; implements `ConfigFeed` |
| `GoSdk` | one client of the Go SDK and its goroutines, one action per stretch between two releases of a mutex | the server is abstract |
| `TsSdk` | one client of the TypeScript SDK, one action per turn of the event loop or frame of a chunk | uses `Delta` |
| `OrgMembers` | the members of one organization, one action per SQL statement | |
| `AppLifecycle` | instances from start to exit, and the administrator they seed | part of `Server` |
| `LoginLimiter` | the sliding window of failed logins, as pure operators | part of `Server` |
| `Server` | instances and the requests they work on: logins, streams, API keys, organizations, projects | composes the two |
| `SchemaRules` | `internal/schema`: definitions and the values they accept, as pure operators | used by `Targeting`, `Codegen` |
| `Targeting` | `internal/targeting`: evaluation and validation of rules, as pure operators | used by `LiveRules`, `SdkEval` |
| `SdkEval` | the evaluators of the two SDKs, loop by loop, as folds | used by `LiveClients` |
| `Codegen` | identifiers, tags, types and literals of the accessors generated for a definition | used by `LiveClients` |
| `LiveRules` | what clients evaluate after any saves, rollbacks and schema changes | composes `SchemaRules` and `Targeting` |
| `LiveClients` | the same, as the SDKs and the generated accessors have it | composes `LiveRules`, `SdkEval`, `Codegen` |
| `ConfigStoreProofs`, `DeltaProofs`, `DeliveryProofs`, `GoSdkProofs`, `TsSdkProofs`, `OrgMembersProofs`, `ServerProofs`, `LiveRulesProofs` | theorems | `DeliveryProofs` and `TsSdkProofs` use `DeltaProofs` |
| `MCConfigStore`, `MCDelivery`, `MCGoSdk`, `MCTsSdk`, `MCOrgMembers`, `MCServer`, `MCLiveRules` | constants for TLC | |

`RevisionLog` is the joint: `ConfigStore` is shown to implement it, and
`Delivery` uses it, and nothing else, as its database.

### ConfigStore

`envs`, `current`, `revision`, `versions`, `schemas`, `audit` and `schemaAudit`
are the committed tables; `notices` is what was announced on `knobs_env`;
`schemaLock` and `envLock` are the row locks anybody waits for; `tx` is the
local state of every request. The three handlers are walked through one SQL
statement at a time:

- `handlePutValues`: `InitSchema`, `PutLockAndValidate` or `PutReject` (422),
  `PutNumber`, `PutInsert` (a taken number is the 409), `SetCurrentVersion`,
  `RecordAudit`, `NotifyRevision`, `CommitPut`.
- `handleRollback`: `RollbackRead` or `RollbackUnknown` (404),
  `SetCurrentVersion`, `RecordAudit`, `NotifyRevision`, `CommitRollback`.
- `handlePutSchema`: `InitSchema`, `SchemaLock`, `SchemaList`, `SchemaCheck`
  once per environment or `SchemaConflict` (409), `CommitSchema`.

`handleCreateEnvironment` is one action; `ReadSchema` is the lazy insert of the
default schema by any reader. `Abort` ends a request anywhere. From its UPDATE
on, a save or a rollback holds the row of its environment and keeps what it has
written in `tx`, statement by statement: the revision that the UPDATE returned
(`rev`), its audit row (`logged`) and its NOTIFY (`queued`, which Postgres holds
back). The commit publishes that, whatever the tables have become meanwhile
(`Publish`), and an `Abort` drops it. The three belong to one commit, but the
revision was read by the first of them: that revisions are announced in order
is the row lock's doing, and without it `NoticesInOrder` fails. Only `UpdateSchema`
and its audit row, which nobody can see or wait for before the commit, are
applied in the commit action. The uncommitted insert of a `config_schema` or `config_version` row, which
others do wait for, is visible in the guards of `InitSchema` and `PutInsert`.
What a payload is does not matter: `ValuesOK` and `RulesOK` say which
definition accepts it. `audit` is in commit order; the timestamps of the rows,
by which `ListAudit` sorts, are not modelled.

### Delivery

`log` is the database. `session`, `pending` and `listener` are the Listener
goroutine: lose the session, reconnect, take a notification and load the
environment (`LoadEnvironment`), load the version (`LoadVersion`), publish.
`channel` is the Hub channel of the one connection, `handler` the
`handleStream` call behind it: load the environment, subscribe, load it again,
send or skip the initial frame, forward. `wire` holds frames in flight. On the
client, `current` is `Client.current`; `stream` is the `runStream` goroutine,
which computes the snapshot of a frame in one step and applies it in another,
because the lock is released between `applyDeltaFrame`'s copy and
`applySnapshot`; `fetch` holds the snapshot requests of `Ready`, of the poll
and of a resync, which read the environment and the version in two steps.

`Faults` names what may go wrong, so that a run can say what it needs:
`listener`, `loader`, `reload`, `initial`, `fetch`, `stream`. `TornReads` says
whether a write may fall between the two reads of a reader: in the program it
may; a run that sets it to FALSE shows what holds as long as none does.
`Modes` says whether connections ask for deltas.

`Version` and `SchemaHash` are copied along and decide nothing in delivery;
they are left out. Heartbeats, backoff delays and authentication are left out.

### GoSdk

`Delivery` has one Go client with the server in detail. `GoSdk` has the client
whole, against a server reduced to `history`: what `GET /v1/snapshot` would
have answered so far, a 404 first. `current`, `warned`, `subscription`,
`started` and `closed` are the fields of `Client`; `thread` is what each
goroutine has in its local variables: the callers of `Ready`, `runStream` and
`runPoll`. Each mutex is held for a few assignments, so an action is what
happens between two releases, and `applySnapshot` is four: `Apply` (or
`ApplyStale`) under `mu`, `CheckSchemaDrift` under `warnMu`, `CopyListeners`
under `listenersMu`, and `CallListener` once per listener, in any order,
without a lock. `Ready` is `Load` or `LoadNothing`, `Store` (which has no gate),
`CheckSchemaDrift`, `Start`. `arrived` counts the frames that are in the
connection or the scanner: the loop over them does not look at the context, so
that they are handled after `Close` too. Which snapshot a frame brings is any
the server has had by the time it arrived (`Carried`), as a whole or as a delta;
that `handleStream` repeats and goes back is shown in `Delivery`.
A request that fails changes nothing but, for a resync, where its goroutine
goes on. `heard`, `audience`, `reported` and `closedAt` are history variables.

### AppLifecycle, LoginLimiter, Server

`phase` walks an instance through `Run`: `seedAdmin` statement by statement,
the start of the Listener and of the HTTP server, the signal, `srv.Shutdown`,
`cancelListener`, the wait for the Listener, the exit. `admin` is what the
database has of the seeded account. A process may be killed in any phase, a
statement of the seeding may fail, and `ListenAndServe` may fail to bind.

`Server` adds the requests that are in the handlers of an instance, one record
of `pc`, `on` and `arg` each. A request with a body is first `"reading"`: the body
comes as fast as the client sends it, or not at all (`BodyRead`, `BodyFails`). A login
is `Login` (past `underLimit`), its body, then `LoginFails` or `LoginSucceeds`; one that
is refused (`LoginRefused`) is `"turnedAway"` while `net/http` reads the body
that nobody wants (`BodyDiscarded`). A stream is `Guard`
(`apiKeyGuard`), `Open`, and then the `select` of `handleStream`: what it writes
is `Delivery`'s, here it only matters that it ends when the shutdown signal is
closed (`SeesShutdown`), and that a handler in a write to a client that has
stopped reading does not look (`Blocks`). Keys are created in one step, since
no statement of that transaction waits, and revoked in two, since the `DELETE`
waits for another one of the same row. The retries of
`handleCreateOrganization` are one `Insert` each; an `Insert` waits for an
uncommitted one of the same slug. `Drained` and `TimesOut` are the two ways out
of `srv.Shutdown`. Who may administer keys and projects is the seeded owner;
roles proper are in `OrgMembers`.

`LoginLimiter` keeps the hits of one client address by age. `underLimit` and
`allow` are separate, as in the code: nothing is held between them.

### OrgMembers

`role` and `accounts` are the tables, `rowLock` the rows held by
`CountOwnersForUpdate`, `tx` the requests. `handleUpdateMemberRole` and
`handleRemoveMember` are the same sequence (removing is setting the role to
`None`): `ReadTarget`, then, if the guard applies, `CountOwners` and one
`LockOwner` per owner row, `GuardPasses` or `GuardRefuses`, then `WriteMember`.
`LockOwner` does what Postgres does after a wait: it locks the newest version
of the row and returns it only if it still is an owner's. `handleAddMember` is
`FindAccount`, `CreateUser`, `InsertMember`. The authorization read comes first
and is not repeated. Waiting for each other in a circle is possible, as it is
in Postgres, which then aborts a victim: that is `Abort`.

### TsSdk

`current`, `closed`, `cancelStream` and `pollTimer` are the variables of
`createClient`; `timers` counts the reconnect timeouts pending, of which
`reconnectTimer` names the last; `conn` is one record per `openStream` call: at
its `await fetch`, at its `await reader.read()`, or with a chunk that was read.
`asked` and `answers` are the snapshot requests of polls and resyncs and their
answers, in any order.

JavaScript runs one callback at a time, so an action is what happens between
two suspension points, with one refinement: a chunk may hold several frames,
which the code handles in one turn, calling the application's listeners after
each swap. The model takes one action per frame and keeps every other action of
the client away with `turn` until the chunk is done; `Outcomes` says what a
listener may do: return, throw, or call `close()`. Between `ReadChunk` (the read
resolves) and the first frame (its continuation runs) other callbacks may run.
`Fail` is the `catch` block and the end of the read loop.

The server is any server whose readers load revision and row in two statements, as
`internal/app/app.go:146-151`, `stream_handler.go:170-176` and `snapshot_handler.go:22-31`
do: what is put together from them (`Assembled`) is a row under its own revision or, if
saves came in between (`TornReads`), under an older one. An answer has the latest row; a
frame has any so far, or the delta from what the stream sent last (`sent`): `Delivery`
shows where `handleStream` repeats or goes back. The rows of the revisions are the
constant `History`. `HoldsTheRowOfItsRevision` is stated for `TornReads = FALSE`, like
`ExactAtRevision` of `Delivery`; what torn reads do is shown by `delivery_torn`, for a Go client
whose gate and patching are the same. Everything else about this client is proved for torn reads too. `opts.useDeltas` is fixed for a client; the model lets every
connection choose, which includes both. Backoff delays, drift warnings and the set of listeners
(one listener that throws keeps the later ones from being called) are left out.

### SchemaRules, Targeting, SdkEval, Codegen, LiveRules, LiveClients

A JSON value is a record with its kind; numbers count halves, to tell integers
from other numbers; an attribute may also be a number that is infinite, which
JSON has not but a context in a program has; strings are names, and what matches
a pattern, compiles as one or contains another is a relation given as a
constant. `FieldAccepts` is the meaning of the JSON Schema that `fieldSchema`
generates. `Resolve`, `Bucket` and `MatchCondition` are the server's evaluator; the loop
over cumulative weights is the first variant past the point (`PastPoint`).
`Hash` stands for the first four bytes of SHA-256 and `Buckets` for their 2^32
values. Weights are integers (counted in a common unit) and the arithmetic is exact, where
the program computes in `float64`: the fallback to the last variant, which `bucket` has for
rounding, is in `VariantIndex`, but exact arithmetic never needs it when the total is
positive, which `ValidateRollout` asks for (`IndexBySums` in `LiveRulesProofs`).

`SdkEval` is written from `sdk/go/eval.go` and `sdk/typescript/src/eval.ts`, and
not from the server's evaluator: loops are folds that end where the loops end,
and what differs between the languages is kept. A condition that was saved
without values (`listed` is FALSE; `validate` looks only at the operator) is an
empty slice to Go and `null` to TypeScript, where asking for its length throws
(`Throws`); `toFinite` rejects an infinite number where `toFloat64` does not;
`rules[key]` of a field without rules, and `values[key]` of one without a value, are
whatever objects inherit under that name (`Inherited`): the rules then throw, the value is
a `Member`, the function `toString` for instance; and `evaluate` makes no key
of `"__proto__"`, whose assignment sets the prototype. Attributes of the Go SDK are taken to be shaped like JSON.

`Codegen` gives a field name by its words and a word by its parts: enough for
`goFieldName` to map different names to one identifier. `JsonKey` is the key that
`encoding/json` takes from the tag: a name with a comma is cut at it, and of two fields
with one key neither is decoded. `enumLiteral` is the value that TypeScript reads in what
is printed: a string as `Reread` says, since `strconv.Quote` has escapes that TypeScript
has not; a number or a boolean as itself; and no value at all for null, an object or an
array, which `%v` prints as `<nil>`, `map[...]` and `[...]`. `MaxInt64` bounds what an `int64`
takes. Comments and layout are left out, and that `encoding/json`
tries a key that no field has again in other cases.

`LiveRules` has `PutValues`, `Rollback` and `PutSchema` as atomic actions:
in `ConfigStore` the schema lock serialises the first and the last, and a
rollback in the middle of either leaves what one after it would leave. It keeps
with each version the definition it was accepted under.

## Runs

| Run | Module, bounds | Checks |
|---|---|---|
| `store_safety` | ConfigStore, 2 environments, 2 concurrent requests, 4 in all, 3 definitions, 3 payloads, fair | `StoreTypeOK`, `NoVersionConflict`, `RowsMatchTheirSchema`, `AuditReplays`, `NoticesInOrder`, `LiveValuesValidUnlessRolledBack`, `EveryRequestEnds`, `ImplementsRevisionLog` |
| `store_rollback` | 1 environment, 2 concurrent requests, 5 in all | violates `LiveValuesValid` |
| `delivery_full` | Delivery, full frames, every fault, torn reads, 2 writes, fair | `TypeOK`, `NeverStalerThanRevision`, `QuietMeansDelivered`, `EveryWriteArrives`, `OnlyNewerIsSwappedIn`, `ImplementsConfigFeed` |
| `delivery_deltas` | delta frames, faults except `reload`, no torn reads, 3 writes | `ExactAtRevision` |
| `delivery_torn` | delta frames, no fault, torn reads, 2 writes | violates `LatestRevisionMeansLatestRow` |
| `go_client` | GoSdk, `Ready` twice, 1 listener, 3 server states, 3 hashes, 1 frame buffered, fair | `ChangesAreHeard`, `DriftIsReported`, `OutOfOrderOnlyWhenOvertaken`, `ClosedLearnsNothing`, `CloseIsFinal`, `FreshForGood` |
| `org_members` | OrgMembers, 3 users, 3 concurrent requests | `OrgTypeOK`, `GuardKeepsAnOwner`, `OrphanedOnlyByStaleRole` |
| `org_last_owner` | 2 users, 2 concurrent requests, 3 in all | violates `HasOwner` |
| `server` | Server, 2 instances, 2 process starts, 3 requests in 5 workloads, 1 key, 1 failure per window, 2 slugs per organization, fair | `StreamsAreFed`, `TrailsAreExact`, `ConflictMeansTaken`, `OwnerlessOnlyIfInterrupted`, `DrainsUnlessClientStalls`, `UncountedGuessOverlapped` |
| `ts_client` | TsSdk, 2 connections, both modes, 3 revisions, 2 frames on the wire, 2 requests in flight, every fault and outcome, no torn reads | `HoldsTheRowOfItsRevision`, `NeverGoesBack`, `OneConnectionOrReconnect`, `ClosedLeavesNothingRunning`, `ClosedSwapsOnlyWhatWasRead` |
| `ts_close` | TsSdk, delta mode, no torn reads | violates `NothingSwappedAfterClose` |
| `live_rules` | LiveClients, 9 definitions, 27 payloads, 20 contexts, 2 saves, 8 buckets | `EvaluatesToAccepted`, `SharesFollowWeights`, `SdksAgree`, `GeneratedCodeFits`, `RampUpMovesForward` |

What three of the larger runs ask:

- `go_client`. Is somebody who listens always told (`ChangesAreHeard`), although
  both goroutines announce without a lock? May callbacks come in the wrong
  order? Yes, but only while what they announce is already overtaken, so that
  a callback that reads the client again sees the newer one
  (`OutOfOrderOnlyWhenOvertaken`, for a client that called `Ready` once). Does drift go
  unnoticed between the two locks (`DriftIsReported`)? What is a `Close` worth
  that waits for nobody (`ClosedLearnsNothing`, `CloseIsFinal`)? Does the ungated store of a
  second `Ready` do lasting harm (`FreshForGood`)?
- `server`. Do streams that drain still get their frames (`StreamsAreFed`)?
  What can hold a shutdown (`DrainsUnlessClientStalls`)? A client that has stopped reading
  its stream, and one that sends its body slowly: `ReadTimeout` (30s) is longer than
  `shutdownTimeout` (15s), and either one runs into the latter. Is the audit log of keys
  exact under double revocations, rolled back ones and crashes
  (`TrailsAreExact`)? Is a slug ever refused that was free
  (`ConflictMeansTaken`)? Which start leaves an organization without an owner
  (`OwnerlessOnlyIfInterrupted`)? Which failed login is not counted
  (`UncountedGuessOverlapped`)?
- `live_rules`. Do the three evaluators agree (`SdksAgree`), and do the
  generated accessors fit whatever was saved (`GeneratedCodeFits`)?

Why the bounds are enough for the cases the properties are about:

- *ConfigStore.* Two of a save, a schema change and a rollback that race, and two
  more requests before, between or after them; what three at once do to the
  safety properties is a matter of the proofs, which have no bound; two environments, so that the change-safety
  loop is really a loop and locks of different rows interleave. Three
  definitions: one that accepts nothing, one with an optional field, one with a
  required field, so that a change can both loosen and tighten. A payload with
  a rule on a field tells values and rules apart.
- *Delivery.* `Buffer` is 1 where the program has 4: a channel overflows after
  two snapshots instead of five, and the code does not look at the number.
  `MaxWire` is 1: a write blocks as soon as the client is one frame behind,
  which is when the channel fills. Two rows are enough for a write, another one
  and a rollback to the first; one row where only revisions matter. Three
  writes give a dropped revision between two delivered ones.
- *GoSdk.* The stream and the poll are the two goroutines that can announce at
  the same time; one listener is called by both. Two calls of `Ready` are the
  one that starts the goroutines and one that runs into them. The
  server moves twice after the 404: two writes, or a write and a schema change
  in either order. A schema that goes back to an earlier one takes another
  move; `DriftIsReported` is proved for that. Hashes are the expected one and two others, so that a warning can be
  followed by another.
- *Server.* Two process starts are two instances side by side, or one after the
  other has died; an organization name that derives `default` collides with
  the migration's row, and its second choice with the first one of another
  name. Each workload has the requests that touch each other's rows, windows
  or instances; `MCServer` lists them.
- *OrgMembers.* Three users are an owner who acts, an owner who is acted on and
  one more. Every initial membership with an owner is tried.

- *TsSdk.* Two connections are one that a close or an error has just cancelled
  and its successor; `OneConnectionOrReconnect` shows that there is never need
  of a third. Two frames in a chunk are the one whose listener closes or throws
  and the one after it; two requests in flight can be answered in either order.
- *LiveRules, LiveClients.* Two saves are an edit and its rollback. Every type of field,
  every operator on an attribute that is a number, a string, infinite or absent, and the
  two ways of being refused for each validator are among the constants; rollouts
  have a variant of weight zero in the first, a middle and the last place.
  Field names are two that objects inherit, one of them `"__proto__"`, two that derive one
  identifier, one that starts with a digit, one that derives none, and one with a comma
  whose key is another field's name. Enum values are a string, one that Go escapes in its
  own way, a number and null.
  Weights that sum to 3 and to 4 make points of the 8 buckets fall next to a
  boundary and on one.

TLC reports no deadlock error in these runs because the bounds make the system
stop (`CHECK_DEADLOCK FALSE`): when `MaxRequests` requests were served, or all
writes delivered, nothing is left to do. That nobody waits for ever is checked
as liveness instead (`EveryRequestEnds`, `EveryWriteArrives`, `CloseIsFinal`,
`FreshForGood`, `DrainsUnlessClientStalls`).

### Fairness

- `store_safety`: weak fairness of each request's statements. A transaction whose
  statement can run does run, and Postgres grants a lock to somebody waiting;
  with finitely many requests this suffices, since a waiter is passed over only
  finitely often. Nothing is assumed of arrivals and aborts.
- `delivery_full` (`PollFairness`): weak fairness of the client's ticker and of
  `Ready` with its requests, strong fairness of the steps of a poll's request:
  polls may fail any number of times, but not all of them for ever at the
  same step. Nothing is assumed of the Listener, Hub or stream, which may
  therefore stop anywhere: a lost NOTIFY is one that is never handled.
- `go_client`: weak fairness of a `Ready` that has its answer, of what the stream
  goroutine does without waiting for the server, and of the poll. Goroutines
  run, listeners return, the ticker ticks and a poll is answered some day.
  Nothing is assumed of connections and frames, nor of anybody calling `Ready`
  or `Close`.
- `server`: weak fairness of the handlers' own steps and of `Run`'s. Statements
  are answered, with an error if need be. Nothing is assumed of clients, who may
  stop sending a body as well as reading a stream, of signals, or of when `ReadTimeout` or
  `shutdownTimeout` passes: `DrainsUnlessClientStalls` relies on neither.

### What the violations show

1. **`store_rollback`: a rollback can make invalid values live.**
   `handleRollback` (`internal/api/versions_handlers.go:70-94`) neither takes
   the schema lock nor validates. Save values, move the schema on, roll back:
   the live values no longer satisfy the schema that `docs/architecture.md:17`
   says they are validated against, and `handlePutSchema` then refuses
   compatible changes because of them. `LiveValuesValidUnlessRolledBack` shows
   that saves and schema changes alone never get there.
2. **`delivery_torn`: a delta client can stay on the previous row at the latest
   revision.** A write between the two reads of the environment and the version
   (`internal/app/app.go:146-151`, `internal/api/stream_handler.go:170-176`)
   sends the new row under the old revision. A client that already has that
   revision ignores it, the server takes it as its baseline, and the delta to
   the new revision is empty. `docs/architecture.md:138-140` says that
   correctness holds. Full frames are not affected beyond a row that is ahead
   of its label (`delivery_full`).
3. **`org_last_owner`: the last owner can be demoted or removed.**
   `MemberRole` (`internal/api/org_handlers.go:291`, `346`) decides without a
   lock whether the guard applies. A target that is promoted after that read
   skips it. `OrphanedOnlyByStaleRole` shows that this is the only way.

4. **`ts_close`: the TypeScript client can change after `close()`.** The loop
   over the frames of a chunk (`sdk/typescript/src/stream.ts:74-78`) does not
   look at `cancelled`, and `applySnapshot` does not look at `closed`. A listener
   that closes the client in the middle of a chunk, or a close between the
   resolution of a read and its continuation, is followed by further swaps and
   callbacks, against the comment of `openStream` (lines 18-21).
   `ClosedSwapsOnlyWhatWasRead` shows that this is the only way.

The models also settle one comment the other way: `handlePutValues` expects two
saves to race for a version number and answers 409
(`internal/api/values_handlers.go:135-138`). Under the schema lock that cannot
happen; `NoVersionConflict` says so.

### Exceptions that properties name

These are in the models and in the wording of a property, and not in a run of
their own:

- `sdk/typescript/src/eval.ts:8` says "byte-for-byte" and `sdk/go/eval.go:14-18` "lockstep".
  `SdksAgree` holds with these exceptions, which are the TypeScript evaluator's alone.
  It throws (`MayThrow`): `internal/targeting/validate.go:98-103` accepts a
  condition without values, and a field that is called like a member of every
  object has no rules of its own to shadow it; one field that throws keeps
  `evaluate` from returning the others. Infinite attributes are ordered by Go only
  (`OrdersInfinity`). And such a name makes a difference where nothing throws
  (`ResolvedInTypeScript`): a field called `toString` with rules of which none matches, and
  without a value, is nil in Go and the inherited function in TypeScript, because `base[k]`
  (`eval.ts:30`) and `values[key]` (`client.ts:168`) are inherited lookups; and the result of
  `evaluate` has no field `"__proto__"`.
- `internal/codegen/codegen.go:53-56` has strings, numbers and booleans in mind for
  `enumValues`, and line 19 strings alone, but the schema accepts any JSON value. The exceptions in
  `GeneratedCodeFits` are: null, an object or an array among the enum values is no
  TypeScript (`ScalarEnums`); a string that Go escapes as TypeScript does not is
  another string there (`EscapedAsGo`); in Go, where an enum is a `string` whatever its
  values are and an int has 64 bits, `Typed` returns an error for others (`FitsGo`).
- `internal/codegen/go.go:91-92` says that the value of a tag "comes back out as exactly
  fieldName". That is so of the tag, but `encoding/json` ends its key at a comma: a field
  called `m,n` is decoded from `m` (`OwnKey`).
- `sdk/go/knobs.go:68` promises a drift warning "at most once per distinct hash".
  `lastWarnedHash` remembers one: a schema that goes A, B, A is warned about
  three times. `DriftIsReported` states the direction that matters.

## Proofs

For any constants allowed by the modules' assumptions (`ConstantsAssumption` of the
write path, `DeliveryAssumption`, `GoSdkAssumption`, `TsSdkAssumption`,
`MembersAssumption`, `ServerAssumption`, `LimiterAssumption`, `BucketsAssumption`,
`InheritedAssumption`, `MaxInt64Assumption`, `DefinitionsAssumption`, `PayloadsAssumption`,
`JsonAssumption`, `StringsAssumption`, `TagsAssumption`): these give constants
their types, make limits positive, and say that lists, maps and strings are decoded ones,
that objects inherit `"__proto__"`, and that the key in a tag has no comma.
TLC evaluates each of them on the runs. Three theorems about `Delivery` have a
hypothesis more, which is the configuration of the run that checks their property;
`TsSdkRow` has the like in its property.

Every safety property and action property of a passing run is the statement of a
theorem here; what stays with TLC is listed at the end.

- **`ConfigStoreProofs`.** `StoreInv` is inductive. Its parts, each needed by
  the next: `TypeInv`, types and the shape of a request (which fields a kind
  uses, where it can be); `LockInv`, a request past its `FOR UPDATE`, or with
  an uncommitted schema row, holds `schemaLock`; `NumberInv`, a save past
  `PutNumber` holds exactly the next number of its environment and a rollback
  an existing one, which needs `LockInv` because only the holder of the lock
  can add a row; `WriteInv`, a request past its UPDATE holds the row of its environment,
  so that the revision it was given is still the next one, and what it has written is
  what it should have at that statement; `AcceptInv`, rows and saves in progress were accepted by the
  definition they name, which needs `LockInv` because only the holder can
  change the definition; then `NoticesInOrder` and `AuditInv`, which need `WriteInv`: what a
  commit publishes was fixed at its UPDATE, and nobody else has committed to that
  environment since (`CommitWritesOne`). The properties of
  `store_safety` follow: `StoreTypeCorrect`, `VersionsNeverConflict`,
  `RowsAlwaysMatch`, `AuditAlwaysReplays`, `NoticesAlwaysInOrder`.
  `StoreImplementsRevisionLog` adds `EntriesInv` (every audit entry names a row
  that exists, and rows never change), so that a commit appends one entry to
  the log of its environment and leaves the others alone.
  `LiveValuesStayValid` adds `LiveInv`: while `handlePutSchema` holds the lock,
  the environments it has checked stay checked, because only a rollback can
  change what is live without the lock, and the property excludes those.
- **`DeliveryProofs`.** `TypeInv` adds to the types that a load is only ever caused by a
  write, so that there is a row to load (`DeliveryTypeCorrect`). `ClientInv` says how the
  client's goroutines exclude each other: nothing else runs until `Ready` has returned, and
  then it never runs again; the client is never behind the revision it connected with; and
  `runStream` waits for its resync. Every swap that is not `Ready`'s then is gated, which is
  `DeliveryOnlyNewer`, for everything that is in flight and whatever is lost. `KnownInv`:
  nothing anywhere is newer than the log. `OrderInv`: what is queued in the channel
  is no newer than what the Listener is loading, which is why a full channel
  may drop its oldest. `ReachInv`: once `handleStream` has reloaded the environment, and
  while nothing was lost, the latest revision is in one of ten places between the database
  and the client (`Reaching`); a quiet connection has nine of them empty, hence
  `DeliveryQuietDelivered`. `FreshInv`: with full frames (`Modes \subseteq {FALSE}`; with
  deltas it is false, as `delivery_torn` shows), everything in flight is the empty snapshot
  or at least as new as its revision; from it `DeliveryNeverStaler` and, with `ClientInv` for
  the steps and the two cases of a first load, `DeliveryImplementsFeed`. `ExactInv`: if no write falls
  between two reads and no reload fails (`TornReads = FALSE`, `"reload" \notin Faults`; either
  one makes a row go under another revision), then what was half read is the latest revision, every snapshot in flight is
  exactly its revision's, and every delta was computed between two such snapshots;
  `DeltaRoundTrip` then makes the client's patch exact (`DeliveryExact`).
- **`OrgMembersProofs`.** `GuardInv`: the owners a request has counted are
  still owners and their rows are its own; past the guard, one of them is not
  the target. It needs the types and the finiteness of `Users` (two counted
  owners are two). `GuardAlwaysKeepsAnOwner` and `OrphanedAlwaysByStaleRole`
  follow.
- **`DeltaProofs`.** The difference between two maps can be sent (`DiffIsChanges`),
  patching with it gives the second map (`PatchOfDiff`), hence the round trip of
  whole snapshots (`DeltaRoundTrip`).
- **`ServerProofs`.** `TypeInv` first; then one invariant for each question. What
  `seedAdmin` leaves is itself inductive (`ServerOwnerless`). `FedInv`: the Listener of an
  instance runs from before its first request until `srv.Shutdown` has returned, and an
  instance has handlers only in between or when that was overdue (`ServerStreamsFed`).
  `TrailInv`: the trail of a key is nothing, its creation, or that and its revocation, and a
  transaction that has deleted the row of a key is the only one and finds it in `api_key`
  for everybody else (`ServerTrailsExact`). `SlugInv`: every candidate a request has
  passed over is taken, up to the one it tries (`ServerConflicts`). `LoginInv`: a login (whether its body
  is being read or its password checked, `Guessing`) that was alone at its instance from `underLimit` on found the window not full, and it is not full
  still, because only failures that are recorded fill it and only another login records
  one; then its own failure is recorded (`ServerGuessesCounted`). It rests on two facts about the loop of
  `pruneLocked`: pruning what was pruned changes nothing (`PruneOfYoung`), and hits that
  are older are not more after pruning (`OlderIsFewer`).
- **`TsSdkProofs`.** `TypeInv`, in which snapshots are what readers may put together
  (`Readings`), and `RowInv`, for a server whose reads are not torn: everything sent, answered or held is the snapshot of one of the
  revisions, since a delta is only applied to the snapshot it was computed from, and `DeltaRoundTrip`
  gives the one it was computed for (`TsSdkRow`). `TsSdkForward` needs the gate of
  `applySnapshot` alone. `LifeInv`: nothing runs before the initial load; while the client is
  open either one timer is pending and no connection runs, or the only connection
  running is the one whose cancel function is kept, so that `close()` finds all there is
  (`TsSdkOneConnection`, `TsSdkClosed`). `TsSdkClosedSwaps`: after it only the turn of a
  chunk that had been read swaps anything in.
- **`GoSdkProofs`.** `GoTypeCorrect` first. `RunInv`: the stream and the
  poll are off until `Start`, so that starting them takes neither away from
  where it was. `DriftAlwaysReported` follows from `DriftInv`: the hash of the
  snapshot served is the expected one, was reported, or is that of the snapshot
  of a goroutine which is at `drift`; and the hash warned about last was
  reported.
  `ClosedAlwaysLearnsNothing` needs `KnownInv`, nothing in the client is newer
  than the server's latest, and `ClosedInv`: after `Close`, what a goroutine of
  a running client still has to apply, and the frames that have arrived, are
  no newer than `closedAt`, because no request is sent and nothing arrives any more.
  `ChangesAlwaysHeard` needs `HeardInv`: whoever was registered at the last swap, and still is,
  was told of the revision served, or a goroutine that made the swap has not come to
  them. `OutOfOrderOvertaken` needs `OnceInv` and `ToldInv`: with one `Ready`, whose ungated store is over
  before a goroutine is started, nobody was ever told of a revision newer than the one
  served, so that whoever announces an older one was overtaken.
- **`LiveRulesProofs`.** `SavedInv`: every version was accepted by the definition
  recorded with it and the current version exists. From it, for any hash,
  context, payload and definition, `AlwaysEvaluatesToAccepted`: `BucketAccepted`
  and `ResolveAccepted` need of matching and hashing only that they choose a
  rule and a variant that exist, which is `MinInSet` (a nonempty set of naturals
  has a minimum, by well-founded induction). `AlwaysFitsGeneratedCode` adds what
  the generated accessors have to do with it: a value that a field accepts has the
  TypeScript type that was printed (`AcceptedInhabits`) and, if it fits, decodes into the Go
  type (`AcceptedUnmarshals`); and where `EmitGo` returns identifiers are distinct
  (`IdentifiersDiffer`), so that nothing but its own value is decoded into the field of a
  name that is its own key.
  - *Rollouts.* `SumsAre` and `SumsGrow`: the sums of the weights, and that they grow.
    `IndexBySums`: a bucket has one of the first `j` variants exactly if it lies before
    their share of the total, so that the last variant is never a fallback.
    `ShareOfVariant` counts the buckets before a share, to within one, which gives
    `AlwaysSharesFollowWeights`; and if the sums of one rollout are above those of another,
    no bucket gets a later variant (`RampedIndex`), which gives `RampUpsMoveForward`.
  - *The three evaluators* (`AlwaysSdksAgree`, for any base value, the inherited one of
    TypeScript included). `SameGoCondition` and `SameTsCondition`
    compare the operators, case by case, with each language's equality and numbers.
    `LoopEndsAtFirst` is about any loop that skips some indices and ends at the first other one,
    and is used for the loops over conditions and over rules of both SDKs (`SameGoConditions`,
    `SameTsConditions`, `SameGoResolve`, `SameTsResolve`). `TotalIsCumulative` and
    `FirstPastIsIndex` are the two loops of `bucket`: after `j` variants the second has found
    the first of them past the point, or has added up their weights.

Sums, pruned windows and folds are recursive functions over data of any length.
No rule of induction for them is available to the provers in use; where such a function
had to be reasoned about, its existence and what it computes are each proved by a smallest
counterexample (`MinInSet`): `SumsExist`, `FoldLeftExists` and `LoopEndsAtFirst` in
`LiveRulesProofs`, and the like for the window in `ServerProofs`.

Out of the prover's reach, and checked by TLC alone, are the liveness
properties: `EveryRequestEnds`, `EveryWriteArrives`, `CloseIsFinal`,
`FreshForGood` and `DrainsUnlessClientStalls`.

## What is left, and what is not modelled

What could still be proved: the safety half of the liveness arguments, such as
that a request of `ConfigStore` that waits is waiting for one that can move.

Not modelled, and why:

- *Reads.* Listings, schema delivery and the audit listing are one statement
  each and change nothing. `ListAudit` sorts by the transactions' start times,
  which need not be the order of their commits; no document says which order
  the listing has, so there is nothing to check it against.
- *Authorization* is read before each transaction and not again: a caller who is
  demoted meanwhile completes the request, in the models as in the code, and a
  stream outlives the revocation of its key. Nothing in the repository promises
  otherwise. The matrix of routes and roles is a table of constants, which
  `internal/api/authz_matrix_test.go` checks route by route.
- *Renaming a project* is one statement that relates to nothing else.
- *Deadlocks among the owner rows* of an organization: Postgres aborts one of
  the requests, which is `Abort` in `OrgMembers`; which one is not the code's doing.
- *A permanent error of `Accept`* after the server has begun to serve, which ends
  `Run` without `srv.Shutdown`; only a bind that fails is modelled.
- *Numbers.* Weights are exact where the code has `float64`. Of integers beyond 64 bits
  only that they do not decode into an `int64` is modelled, not the precision that
  `float64` loses before, nor how the languages print them.
- *Sizes and times.* Frames longer than `maxSSELineLength` are a connection that
  breaks (`Drop`); backoff delays, heartbeats and the growth of the limiter's map
  are left out.
- *Text.* Field names with a quote or a backquote, what codegen does with comments and
  formatting, and the second look of `encoding/json` at a key in other cases.
- *A schema change while a client runs.* `schemaHash` is read when a snapshot is, and a
  schema change alone notifies nobody: a client learns of it with the next revision.
  `DriftIsReported` is about the hash of the snapshot it holds.
- *TypeScript's drift warning* and its set of listeners: a client has one listener that
  may return, throw or close.
- *Libraries and I/O.* Password hashing, JWTs, cookies, TLS, migrations,
  metrics, logging, the CLI's flags and files, and the admin UI, which keeps
  nothing on the server.
