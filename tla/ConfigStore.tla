---------------------------- MODULE ConfigStore ----------------------------
(***************************************************************************)
(* The write path of the knobs server for ONE project: the tables          *)
(* environment, config_version, config_schema and audit_log, and the       *)
(* transactions of handlePutValues, handleRollback and handlePutSchema     *)
(* that change them.                                                       *)
(*                                                                         *)
(* One action is one SQL statement together with the Go code that runs     *)
(* until the next statement.  Transactions are READ COMMITTED, Postgres'   *)
(* default and what pool.Begin asks for: a statement sees what was         *)
(* committed when it starts and its own transaction's writes.  What a save *)
(* or a rollback writes from its UPDATE on is kept in the transaction,     *)
(* statement by statement, and the commit publishes that; UpdateSchema and *)
(* the audit row of handlePutSchema, which nobody can see or wait for      *)
(* before the commit, are applied in the commit action.  The two row locks *)
(* anybody waits for are explicit: the config_schema row (FOR UPDATE, or   *)
(* the uncommitted first insert) and the environment row (UPDATE in        *)
(* SetCurrentVersion).  The foreign keys only take KEY SHARE locks, which  *)
(* conflict with neither.                                                  *)
(***************************************************************************)
EXTENDS Naturals, Sequences, FiniteSets

CONSTANTS
  Envs,          \* environments the project may have
  Tx,            \* requests being served at the same time, by any instance
  Defs,          \* schema definitions
  DefaultDef,    \* '{"fields":[]}', the definition of a fresh config_schema row
  Payloads,      \* what a config_version row carries: values and targeting rules
  ValuesOK,      \* <<d, p>> : ValidateValues accepts p's values under d
  RulesOK,       \* <<d, p>> : targeting.Validate accepts p's rules under d
  MaxRequests,   \* bound: how many write requests are ever started
  None           \* no transaction, or a field a transaction does not use

RequestKinds == {"put", "rollback", "schema"}

ASSUME ConstantsAssumption ==
  /\ DefaultDef \in Defs
  /\ ValuesOK \subseteq Defs \X Payloads
  /\ RulesOK \subseteq Defs \X Payloads
  /\ MaxRequests \in Nat
  /\ None \notin Tx \cup RequestKinds

VARIABLES
  envs,        \* committed environment rows
  current,     \* environment.current_version_id, as a version number; 0 is NULL
  revision,    \* environment.delivery_revision
  versions,    \* config_version rows of an environment, by version number
  schemas,     \* every committed definition; the config_schema row is the last,
               \* its schema_version the length; <<>> while there is no row
  audit,       \* audit_log rows by target environment, in commit order: the version
               \* each set, 0 for the creation.  ListAudit orders by "at", which is
               \* when the transaction began and may differ
  schemaAudit, \* audit_log rows of the project: the schema_version each set
  notices,     \* revisions announced on knobs_env for an environment, in order
  schemaLock,  \* transaction holding the config_schema row, or None
  envLock,     \* transaction holding an environment row, or None
  tx,          \* local state of every request
  requests     \* requests started so far (bound)

tables  == <<envs, current, revision, versions, schemas, audit, schemaAudit, notices>>
vars    == <<tables, schemaLock, envLock, tx, requests>>

\* A config_version row: what it carries and the schema_version it was checked under.
Row == [payload : Payloads, schema : Nat]

\* A save past its INSERT, or a rollback past its lookup.
Inserted == {"set", "audit", "notify", "commit"}

PCs == {"idle", "init", "lock", "number", "insert", "read", "check", "list"} \cup Inserted

TxState == [pc   : PCs,
            kind : RequestKinds \cup {None},
            env  : Envs \cup {None},
            arg  : Payloads \cup Defs \cup {None},  \* request body
            seen : Nat,                 \* schema_version read under the lock
            num  : Nat,                 \* version number to insert or to roll back to
            rev  : Nat,                 \* delivery_revision its UPDATE returned
            logged : Seq(Nat),          \* audit rows it has written, uncommitted
            queued : Seq(Nat),          \* its pg_notify, held back until the commit
            todo : SUBSET Envs]         \* environments PutSchema has yet to check

IdleTx == [pc |-> "idle", kind |-> None, env |-> None, arg |-> None, seen |-> 0,
           num |-> 0, rev |-> 0, logged |-> <<>>, queued |-> <<>>, todo |-> {}]

TypeOK ==
  /\ envs \subseteq Envs
  /\ current \in [Envs -> Nat]
  /\ revision \in [Envs -> Nat]
  /\ versions \in [Envs -> Seq(Row)]
  /\ schemas \in Seq(Defs)
  /\ audit \in [Envs -> Seq(Nat)]
  /\ schemaAudit \in Seq(Nat)
  /\ notices \in [Envs -> Seq(Nat)]
  /\ schemaLock \in Tx \cup {None}
  /\ envLock \in [Envs -> Tx \cup {None}]
  /\ tx \in [Tx -> TxState]
  /\ requests \in Nat

Init ==
  /\ envs = {}
  /\ current = [e \in Envs |-> 0]
  /\ revision = [e \in Envs |-> 0]
  /\ versions = [e \in Envs |-> <<>>]
  /\ schemas = <<>>
  /\ audit = [e \in Envs |-> <<>>]
  /\ schemaAudit = <<>>
  /\ notices = [e \in Envs |-> <<>>]
  /\ schemaLock = None
  /\ envLock = [e \in Envs |-> None]
  /\ tx = [t \in Tx |-> IdleTx]
  /\ requests = 0

-----------------------------------------------------------------------------
(* Helpers of the transactions.                                            *)

At(t, kind, pc) == tx[t].kind = kind /\ tx[t].pc = pc

Goto(t, pc) == tx' = [tx EXCEPT ![t].pc = pc]

\* Mutant of Release: the environment row stays locked.
ReleaseSchemaOnly(t) ==
  /\ schemaLock' = IF schemaLock = t THEN None ELSE schemaLock
  /\ tx' = [tx EXCEPT ![t] = IdleTx]
  /\ UNCHANGED envLock

\* The end of a transaction, committed or rolled back, frees its row locks.
Release(t) ==
  /\ schemaLock' = IF schemaLock = t THEN None ELSE schemaLock
  /\ envLock' = [e \in Envs |-> IF envLock[e] = t THEN None ELSE envLock[e]]
  /\ tx' = [tx EXCEPT ![t] = IdleTx]

\* WithTx's deferred Rollback: nothing the transaction wrote is ever seen.
RollBack(t) == Release(t) /\ UNCHANGED <<tables, requests>>

\* The config_schema row as t sees it once GetOrInitSchema ran in t: the
\* committed one, or t's own uncommitted insert of the default.
SchemasSeen == IF schemas = <<>> THEN <<DefaultDef>> ELSE schemas

Definition == SchemasSeen[Len(SchemasSeen)]

\* Mutant of Accepts: the targeting rules are not validated.
AcceptsValuesOnly(d, p) == <<d, p>> \in ValuesOK

Accepts(d, p) == <<d, p>> \in ValuesOK /\ <<d, p>> \in RulesOK

\* The payload live in e, when e has a current version.
LivePayload(e) == versions[e][current[e]].payload

\* COALESCE(MAX(version), 0) + 1: rows are never deleted and UNIQUE keeps the
\* numbers apart, so the highest number is the number of rows.
NextVersionNumber(e) == Len(versions[e]) + 1

-----------------------------------------------------------------------------
(* Requests arrive.  Authorization has passed and found the environment.   *)

Begin(t, state) ==
  /\ tx[t] = IdleTx
  /\ requests < MaxRequests
  /\ requests' = requests + 1
  /\ tx' = [tx EXCEPT ![t] = state]
  /\ UNCHANGED <<tables, schemaLock, envLock>>

BeginPutValues(t, e, p) ==
  /\ e \in envs
  /\ Begin(t, [IdleTx EXCEPT !.pc = "init", !.kind = "put", !.env = e, !.arg = p])

BeginRollback(t, e, n) ==
  /\ e \in envs
  /\ Begin(t, [IdleTx EXCEPT !.pc = "read", !.kind = "rollback", !.env = e, !.num = n])

BeginPutSchema(t, d) ==
  Begin(t, [IdleTx EXCEPT !.pc = "init", !.kind = "schema", !.arg = d])

\* handleCreateEnvironment: one insert and its audit row, visible at the commit.
\* Two creations of one name: UNIQUE(project_id, name) lets one of them through.
CreateEnvironment(e) ==
  /\ e \notin envs
  /\ envs' = envs \cup {e}
  /\ audit' = [audit EXCEPT ![e] = Append(@, 0)]
  /\ UNCHANGED <<current, revision, versions, schemas, schemaAudit, notices,
                 schemaLock, envLock, tx, requests>>

\* GetOrInitSchema outside a transaction, by the handlers that read the schema and
\* by the snapshot loader.  The insert waits for an uncommitted one, then does nothing.
ReadSchema ==
  /\ schemas = <<>>
  /\ schemaLock = None
  /\ schemas' = <<DefaultDef>>
  /\ UNCHANGED <<envs, current, revision, versions, audit, schemaAudit, notices,
                 schemaLock, envLock, tx, requests>>

-----------------------------------------------------------------------------
(* Statements common to handlePutValues and handlePutSchema.               *)

\* INSERT ... ON CONFLICT DO NOTHING: with no committed row it inserts one, and
\* holds it, or waits for whoever holds an uncommitted one.
InitSchema(t) ==
  /\ tx[t].pc = "init"
  /\ \/ schemas # <<>> /\ UNCHANGED schemaLock
     \/ schemas = <<>> /\ schemaLock = None /\ schemaLock' = t
  /\ Goto(t, "lock")
  /\ UNCHANGED <<tables, envLock, requests>>

\* Mutant of LockProjectSchema: a plain SELECT, without FOR UPDATE.
ReadProjectSchema(t) == schemaLock \in {t, None} /\ UNCHANGED schemaLock

\* SELECT ... FOR UPDATE: waits for the row, then holds it to the end of t.
LockProjectSchema(t) == schemaLock \in {t, None} /\ schemaLock' = t

-----------------------------------------------------------------------------
(* handlePutValues                                                         *)

\* Lock, read under the lock, compile and validate the request against it.
PutLockAndValidate(t) ==
  /\ At(t, "put", "lock")
  /\ Accepts(Definition, tx[t].arg)
  /\ LockProjectSchema(t)
  /\ tx' = [tx EXCEPT ![t].pc = "number", ![t].seen = Len(SchemasSeen)]
  /\ UNCHANGED <<tables, envLock, requests>>

\* The same with a request that does not validate: 422.
PutReject(t) ==
  /\ At(t, "put", "lock")
  /\ schemaLock \in {t, None}
  /\ ~Accepts(Definition, tx[t].arg)
  /\ RollBack(t)

PutNumber(t) ==
  /\ At(t, "put", "number")
  /\ tx' = [tx EXCEPT ![t].pc = "insert", ![t].num = NextVersionNumber(tx[t].env)]
  /\ UNCHANGED <<tables, schemaLock, envLock, requests>>

\* Another transaction holds an uncommitted row with the number t wants.
NumberHeldByOther(t) ==
  \E u \in Tx \ {t} : /\ tx[u].kind = "put" /\ tx[u].pc \in Inserted
                      /\ tx[u].env = tx[t].env /\ tx[u].num = tx[t].num

NumberTaken(t) == tx[t].num <= Len(versions[tx[t].env])

\* INSERT INTO config_version: waits for an uncommitted row with that number; a
\* committed one makes UNIQUE(environment_id, version) refuse the row: 409.
PutInsert(t) ==
  /\ At(t, "put", "insert")
  /\ ~NumberHeldByOther(t)
  /\ IF NumberTaken(t)
     THEN RollBack(t)
     ELSE Goto(t, "set") /\ UNCHANGED <<tables, schemaLock, envLock, requests>>

-----------------------------------------------------------------------------
(* handleRollback                                                          *)

\* Mutant of RollbackRead: the target version is not looked up.
RollbackReadUnchecked(t) ==
  /\ At(t, "rollback", "read")
  /\ Goto(t, "set")
  /\ UNCHANGED <<tables, schemaLock, envLock, requests>>

RollbackRead(t) ==
  /\ At(t, "rollback", "read")
  /\ tx[t].num \in 1..Len(versions[tx[t].env])
  /\ Goto(t, "set")
  /\ UNCHANGED <<tables, schemaLock, envLock, requests>>

\* No such version: 404.
RollbackUnknown(t) ==
  /\ At(t, "rollback", "read")
  /\ tx[t].num \notin 1..Len(versions[tx[t].env])
  /\ RollBack(t)

-----------------------------------------------------------------------------
(* The end of both: SetCurrentVersion, RecordAudit, pg_notify, COMMIT.      *)

\* Mutant of SetCurrentVersion: the revision is read and counted up by the program,
\* so no row lock is held while it is.
SetCurrentVersionUnlocked(t) ==
  /\ tx[t].pc = "set"
  /\ tx' = [tx EXCEPT ![t].pc = "audit", ![t].rev = revision[tx[t].env] + 1]
  /\ UNCHANGED <<tables, schemaLock, envLock, requests>>

\* UPDATE environment SET current_version_id = num, delivery_revision =
\* delivery_revision + 1 RETURNING delivery_revision: waits for the row, reads it as
\* it is once it has the lock, and holds it to the end of t.
SetCurrentVersion(t) ==
  LET e == tx[t].env IN
  /\ tx[t].pc = "set"
  /\ envLock[e] = None
  /\ envLock' = [envLock EXCEPT ![e] = t]
  /\ tx' = [tx EXCEPT ![t].pc = "audit", ![t].rev = revision[e] + 1]
  /\ UNCHANGED <<tables, schemaLock, requests>>

\* Mutant of RecordAudit: the row is written through the pool, outside the transaction.
RecordAuditOutside(t) ==
  /\ tx[t].pc = "audit"
  /\ Goto(t, "notify")
  /\ audit' = [audit EXCEPT ![tx[t].env] = Append(@, tx[t].num)]
  /\ UNCHANGED <<envs, current, revision, versions, schemas, schemaAudit, notices,
                 schemaLock, envLock, requests>>

\* The audit row, naming the version set.
RecordAudit(t) ==
  /\ tx[t].pc = "audit"
  /\ tx' = [tx EXCEPT ![t].pc = "notify", ![t].logged = Append(@, tx[t].num)]
  /\ UNCHANGED <<tables, schemaLock, envLock, requests>>

\* SELECT pg_notify(channel, env:revision): Postgres holds it back until the commit.
NotifyRevision(t) ==
  /\ tx[t].pc = "notify"
  /\ tx' = [tx EXCEPT ![t].pc = "commit", ![t].queued = Append(@, tx[t].rev)]
  /\ UNCHANGED <<tables, schemaLock, envLock, requests>>

\* What the statements since the UPDATE wrote appears.
Publish(t) ==
  LET e == tx[t].env IN
  /\ current' = [current EXCEPT ![e] = tx[t].num]
  /\ revision' = [revision EXCEPT ![e] = tx[t].rev]
  /\ audit' = [audit EXCEPT ![e] = @ \o tx[t].logged]
  /\ notices' = [notices EXCEPT ![e] = @ \o tx[t].queued]

\* Mutant of CommitPut: a save rewrites the row that is live instead of adding one.
CommitPutInPlace(t) ==
  LET e == tx[t].env
      live == IF current[e] = 0 THEN 1 ELSE current[e]
      row == [payload |-> tx[t].arg, schema |-> tx[t].seen]
  IN
  /\ At(t, "put", "commit")
  /\ versions' = [versions EXCEPT ![e] = IF @ = <<>> THEN <<row>> ELSE [@ EXCEPT ![live] = row]]
  /\ schemas' = SchemasSeen
  /\ current' = [current EXCEPT ![e] = live]
  /\ revision' = [revision EXCEPT ![e] = tx[t].rev]
  /\ audit' = [audit EXCEPT ![e] = Append(@, live)]
  /\ notices' = [notices EXCEPT ![e] = @ \o tx[t].queued]
  /\ Release(t)
  /\ UNCHANGED <<envs, schemaAudit, requests>>

CommitPut(t) ==
  LET e == tx[t].env IN
  /\ At(t, "put", "commit")
  /\ versions' = [versions EXCEPT ![e] =
                    Append(@, [payload |-> tx[t].arg, schema |-> tx[t].seen])]
  /\ schemas' = SchemasSeen
  /\ Publish(t)
  /\ Release(t)
  /\ UNCHANGED <<envs, schemaAudit, requests>>

CommitRollback(t) ==
  /\ At(t, "rollback", "commit")
  /\ Publish(t)
  /\ Release(t)
  /\ UNCHANGED <<envs, versions, schemas, schemaAudit, requests>>

-----------------------------------------------------------------------------
(* handlePutSchema                                                         *)

SchemaLock(t) ==
  /\ At(t, "schema", "lock")
  /\ LockProjectSchema(t)
  /\ Goto(t, "list")
  /\ UNCHANGED <<tables, envLock, requests>>

\* ListEnvironments, less those without a current version.
SchemaList(t) ==
  /\ At(t, "schema", "list")
  /\ tx' = [tx EXCEPT ![t].pc = "check", ![t].todo = {e \in envs : current[e] # 0}]
  /\ UNCHANGED <<tables, schemaLock, envLock, requests>>

\* One turn of the change-safety loop.  Only the values are checked, not the rules.
SchemaCheck(t, e) ==
  /\ At(t, "schema", "check")
  /\ e \in tx[t].todo
  /\ <<tx[t].arg, LivePayload(e)>> \in ValuesOK
  /\ tx' = [tx EXCEPT ![t].todo = @ \ {e}]
  /\ UNCHANGED <<tables, schemaLock, envLock, requests>>

\* Live values that the new definition rejects: 409.
SchemaConflict(t, e) ==
  /\ At(t, "schema", "check")
  /\ e \in tx[t].todo
  /\ <<tx[t].arg, LivePayload(e)>> \notin ValuesOK
  /\ RollBack(t)

\* UpdateSchema, RecordAudit, COMMIT.
CommitSchema(t) ==
  /\ At(t, "schema", "check")
  /\ tx[t].todo = {}
  /\ schemas' = Append(SchemasSeen, tx[t].arg)
  /\ schemaAudit' = Append(schemaAudit, Len(SchemasSeen) + 1)
  /\ Release(t)
  /\ UNCHANGED <<envs, current, revision, versions, audit, notices, requests>>

-----------------------------------------------------------------------------
\* The client hangs up, the database connection drops or the instance dies:
\* whatever the transaction did is undone.
Abort(t) == tx[t].pc # "idle" /\ RollBack(t)

Step(t) ==
  \/ InitSchema(t)
  \/ PutLockAndValidate(t) \/ PutReject(t)
  \/ PutNumber(t) \/ PutInsert(t)
  \/ RollbackRead(t) \/ RollbackUnknown(t)
  \/ SetCurrentVersion(t) \/ RecordAudit(t) \/ NotifyRevision(t)
  \/ CommitPut(t) \/ CommitRollback(t)
  \/ SchemaLock(t) \/ SchemaList(t)
  \/ \E e \in Envs : SchemaCheck(t, e) \/ SchemaConflict(t, e)
  \/ CommitSchema(t)

Arrive(t) ==
  \/ \E e \in Envs, p \in Payloads : BeginPutValues(t, e, p)
  \/ \E e \in Envs, n \in 1..MaxRequests : BeginRollback(t, e, n)
  \/ \E d \in Defs : BeginPutSchema(t, d)

Next ==
  \/ \E e \in Envs : CreateEnvironment(e)
  \/ ReadSchema
  \/ \E t \in Tx : Arrive(t) \/ Step(t) \/ Abort(t)

Spec == Init /\ [][Next]_vars

\* A transaction that can go on eventually does, and Postgres grants a row lock to
\* somebody waiting for it.  Only MaxRequests transactions ever compete for a lock,
\* so weak fairness is enough.  Nothing is assumed about arrivals or aborts.
FairSpec == Spec /\ \A t \in Tx : WF_vars(Step(t))

-----------------------------------------------------------------------------
(* What makes the write path correct.                                      *)

\* Type correctness, and the foreign key of the environment row: what it points at
\* exists.
StoreTypeOK == TypeOK /\ \A e \in Envs : current[e] <= Len(versions[e])

\* handlePutValues expects two concurrent saves to read one NextVersionNumber and
\* answers the loser with a 409.  The config_schema lock already keeps them apart: a
\* transaction about to insert never finds its number taken, nor held by another.
NoVersionConflict ==
  \A t \in Tx : At(t, "put", "insert") => ~NumberTaken(t) /\ ~NumberHeldByOther(t)

\* Every config_version row, live or not, was accepted, values and rules, by the very
\* definition whose schema_version it records, whatever PutSchema did meanwhile.
RowsMatchTheirSchema ==
  \A e \in Envs : \A n \in DOMAIN versions[e] :
    LET row == versions[e][n] IN
      /\ row.schema \in DOMAIN schemas
      /\ <<schemas[row.schema], row.payload>> \in ValuesOK \cap RulesOK

\* The audit log replays the tables, however requests interleave and wherever one dies:
\* an environment's entries are its creation and one per revision, the last names the
\* version that is live; the project's entries are the schema versions after the first.
AuditReplays ==
  /\ \A e \in envs : /\ Len(audit[e]) = revision[e] + 1
                     /\ audit[e][Len(audit[e])] = current[e]
  /\ Len(schemaAudit) = (IF schemas = <<>> THEN 0 ELSE Len(schemas) - 1)
  /\ \A i \in DOMAIN schemaAudit : schemaAudit[i] = i + 1

\* Every committed revision is announced on knobs_env exactly once and in order, with
\* saves and rollbacks of one environment racing: each takes its revision from the
\* UPDATE, under the row lock it then holds over the audit row, the NOTIFY and the
\* commit, and a rollback takes no other lock.
NoticesInOrder == \A e \in Envs : notices[e] = [i \in 1..revision[e] |-> i]

\* The values live in an environment satisfy the project's schema: the invariant of
\* api/concurrency_test.go, here for every write the API has, rollback included.
LiveValuesValid ==
  \A e \in envs : current[e] # 0 => <<Definition, LivePayload(e)>> \in ValuesOK

\* Saves and schema changes alone keep that invariant: it holds in every environment
\* that was never rolled back, because PutValues validates under the schema lock and
\* PutSchema checks what is live under the same lock.
NeverRolledBack(e) == \A i \in DOMAIN audit[e] : audit[e][i] = i - 1

LiveValuesValidUnlessRolledBack ==
  \A e \in envs : current[e] # 0 /\ NeverRolledBack(e)
                     => <<Definition, LivePayload(e)>> \in ValuesOK

\* No request waits for ever: the schema lock is always taken before an environment
\* lock and both are freed on every way out.
EveryRequestEnds == \A t \in Tx : tx[t].pc # "idle" ~> tx[t].pc = "idle"

\* The contents that were live in e, by revision, read off the audit log.
LiveLog(e) == [r \in 1..revision[e] |-> versions[e][audit[e][r + 1]].payload]

Log(e) == INSTANCE RevisionLog WITH Contents <- Payloads, log <- LiveLog(e)

\* The store implements RevisionLog for every environment: each write is one atomic
\* publication at the end of the log and nothing published is ever altered.  This is
\* Log(e)!LogSpec for every e, with the quantifier inside the box.
ImplementsRevisionLog ==
  /\ \A e \in Envs : Log(e)!LogInit
  /\ [][\A e \in Envs : Log(e)!LogNext \/ UNCHANGED LiveLog(e)]_vars
=============================================================================
