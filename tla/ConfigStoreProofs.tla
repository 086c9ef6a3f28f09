------------------------- MODULE ConfigStoreProofs -------------------------
(***************************************************************************)
(* Proofs about ConfigStore, for any environments, transactions, payloads, *)
(* definitions and number of requests.                                     *)
(*                                                                         *)
(* The inductive invariant StoreInv has seven parts: the types and the     *)
(* shape of a request's local state (TypeInv), who holds the config_schema *)
(* row (LockInv), who holds an environment row and what its statements     *)
(* have written so far (WriteInv), the number a request holds (NumberInv), *)
(* what it and the rows were accepted by (AcceptInv), the announcements    *)
(* (NoticesInOrder) and the audit log (AuditInv).  Two more parts stand on *)
(* it: the audit log names existing rows (EntriesInv), for the             *)
(* implementation of RevisionLog, and what handlePutSchema has checked     *)
(* (LiveInv).                                                              *)
(***************************************************************************)
EXTENDS ConfigStore, TLAPS

\* What a request of each kind carries, and where it can be.
ShapeOf(s) ==
  /\ s.kind = None => s.pc = "idle"
  /\ s.kind = "put" => /\ s.env \in envs
                       /\ s.arg \in Payloads
                       /\ s.pc \in {"init", "lock", "number", "insert"} \cup Inserted
  /\ s.kind = "rollback" => /\ s.env \in envs
                            /\ s.pc \in {"read"} \cup Inserted
  /\ s.kind = "schema" => /\ s.arg \in Defs
                          /\ s.pc \in {"init", "lock", "list", "check"}

TypeInv == TypeOK /\ \A t \in Tx : ShapeOf(tx[t])

\* A request slot with no request in it is well typed.
LEMMA IdleIsTyped == IdleTx \in TxState /\ ShapeOf(IdleTx)
  BY ConstantsAssumption DEF IdleTx, TxState, PCs, Inserted, ShapeOf, RequestKinds

\* A step that gives one request a new local state of the right shape and does not
\* remove environments keeps the types and the shapes of all of them.
LEMMA ChangeOne ==
  ASSUME TypeInv, NEW t \in Tx, NEW s \in TxState,
         tx' = [tx EXCEPT ![t] = s], envs \subseteq envs', ShapeOf(s)
  PROVE  /\ tx' \in [Tx -> TxState]
         /\ \A u \in Tx : ShapeOf(tx[u])'
  <1>1. tx' \in [Tx -> TxState]
    BY DEF TypeInv, TypeOK
  <1>2. ASSUME NEW u \in Tx PROVE ShapeOf(tx[u])'
    <2>1. CASE u = t
      <3>1. tx'[u] = s
        BY <2>1 DEF TypeInv, TypeOK
      <3> QED
        BY <3>1 DEF ShapeOf
    <2>2. CASE u # t
      <3>1. tx'[u] = tx[u]
        BY <2>2 DEF TypeInv, TypeOK
      <3> QED
        BY <3>1 DEF TypeInv, ShapeOf
    <2> QED BY <2>1, <2>2
  <1> QED BY <1>1, <1>2

\* The end of a transaction keeps the types and the shapes.
LEMMA ReleaseKeepsTypes ==
  ASSUME TypeInv, NEW t \in Tx, Release(t), envs' = envs
  PROVE  /\ schemaLock' \in Tx \cup {None}
         /\ envLock' \in [Envs -> Tx \cup {None}]
         /\ tx' \in [Tx -> TxState]
         /\ \A u \in Tx : ShapeOf(tx[u])'
  <1>1. schemaLock' \in Tx \cup {None} /\ envLock' \in [Envs -> Tx \cup {None}]
    BY DEF TypeInv, TypeOK, Release
  <1>2. tx' = [tx EXCEPT ![t] = IdleTx]
    BY DEF Release
  <1> QED BY <1>1, <1>2, IdleIsTyped, ChangeOne

\* A transaction rolled back keeps the types: it changes no table.
LEMMA RollBackKeepsTypes ==
  ASSUME TypeInv, NEW t \in Tx, RollBack(t)
  PROVE  TypeInv'
  <1>1. Release(t) /\ UNCHANGED <<tables, requests>>
    BY DEF RollBack
  <1>2. envs' = envs
    BY <1>1 DEF tables
  <1> QED
    BY <1>1, <1>2, ReleaseKeepsTypes DEF TypeInv, TypeOK, tables

\* A request arrives.
LEMMA BeginKeepsTypes ==
  ASSUME TypeInv, NEW t \in Tx, NEW s \in TxState, Begin(t, s), ShapeOf(s)
  PROVE  TypeInv'
  <1>1. tx' = [tx EXCEPT ![t] = s] /\ UNCHANGED <<tables, schemaLock, envLock>>
    BY DEF Begin
  <1>2. tx' \in [Tx -> TxState] /\ \A u \in Tx : ShapeOf(tx[u])'
    BY <1>1, ChangeOne DEF tables
  <1> QED
    BY <1>1, <1>2 DEF TypeInv, TypeOK, Begin, tables

\* A statement that changes nothing but the request's own state and the locks.
LEMMA MoveKeepsTypes ==
  ASSUME TypeInv, NEW t \in Tx, NEW s \in TxState, ShapeOf(s),
         tx' = [tx EXCEPT ![t] = s], UNCHANGED <<tables, requests>>,
         schemaLock' \in Tx \cup {None}, envLock' \in [Envs -> Tx \cup {None}]
  PROVE  TypeInv'
  <1>1. tx' \in [Tx -> TxState] /\ \A u \in Tx : ShapeOf(tx[u])'
    BY ChangeOne DEF tables
  <1> QED
    BY <1>1 DEF TypeInv, TypeOK, tables

-----------------------------------------------------------------------------
(* Every action keeps the types and the shapes.                            *)

\* A request of any kind that arrives is well typed.
LEMMA ArriveKeepsTypes ==
  ASSUME TypeInv, NEW t \in Tx, Arrive(t)
  PROVE  TypeInv'
  <1>1. ASSUME NEW e \in Envs, NEW p \in Payloads, BeginPutValues(t, e, p)
        PROVE  TypeInv'
    <2> DEFINE s == [IdleTx EXCEPT !.pc = "init", !.kind = "put", !.env = e, !.arg = p]
    <2>1. s \in TxState /\ e \in envs /\ Begin(t, s)
      BY <1>1, IdleIsTyped DEF BeginPutValues, TxState, PCs, RequestKinds
    <2>2. ShapeOf(s)
      BY <2>1, ConstantsAssumption DEF ShapeOf, IdleTx, RequestKinds
    <2> HIDE DEF s
    <2> QED BY <2>1, <2>2, BeginKeepsTypes
  <1>2. ASSUME NEW e \in Envs, NEW n \in 1..MaxRequests, BeginRollback(t, e, n)
        PROVE  TypeInv'
    <2> DEFINE s == [IdleTx EXCEPT !.pc = "read", !.kind = "rollback", !.env = e, !.num = n]
    <2>n. n \in Nat
      BY ConstantsAssumption
    <2>1. s \in TxState /\ e \in envs /\ Begin(t, s)
      BY <1>2, <2>n, IdleIsTyped DEF BeginRollback, TxState, PCs, RequestKinds
    <2>2. ShapeOf(s)
      BY <2>1, ConstantsAssumption DEF ShapeOf, IdleTx, RequestKinds
    <2> HIDE DEF s
    <2> QED BY <2>1, <2>2, BeginKeepsTypes
  <1>3. ASSUME NEW d \in Defs, BeginPutSchema(t, d)
        PROVE  TypeInv'
    <2> DEFINE s == [IdleTx EXCEPT !.pc = "init", !.kind = "schema", !.arg = d]
    <2>1. s \in TxState /\ Begin(t, s)
      BY <1>3, IdleIsTyped DEF BeginPutSchema, TxState, PCs, RequestKinds
    <2>2. ShapeOf(s)
      BY ConstantsAssumption DEF ShapeOf, IdleTx, RequestKinds
    <2> HIDE DEF s
    <2> QED BY <2>1, <2>2, BeginKeepsTypes
  <1> QED BY <1>1, <1>2, <1>3 DEF Arrive

\* The definition the project has, or would be given now.
LEMMA SchemasSeenTyped ==
  ASSUME TypeInv
  PROVE  SchemasSeen \in Seq(Defs) /\ Len(SchemasSeen) \in Nat \ {0}
  BY ConstantsAssumption DEF TypeInv, TypeOK, SchemasSeen

\* The statements from the UPDATE on, before the commit.
Writing(t) == SetCurrentVersion(t) \/ RecordAudit(t) \/ NotifyRevision(t)

\* They move the request on, keep what it carries, and change no table.
LEMMA WritingMoves ==
  ASSUME TypeInv, NEW t \in Tx, Writing(t)
  PROVE  /\ tx[t].pc \in {"set", "audit", "notify"}
         /\ tx'[t].pc \in {"audit", "notify", "commit"}
         /\ tx'[t].kind = tx[t].kind /\ tx'[t].env = tx[t].env /\ tx'[t].arg = tx[t].arg
         /\ tx'[t].seen = tx[t].seen /\ tx'[t].num = tx[t].num
         /\ \A u \in Tx \ {t} : tx'[u] = tx[u]
         /\ UNCHANGED <<tables, schemaLock, requests>>
  <1>t. tx \in [Tx -> TxState]
    BY DEF TypeInv, TypeOK
  <1>1. CASE SetCurrentVersion(t)
    BY <1>1, <1>t DEF SetCurrentVersion, TxState
  <1>2. CASE RecordAudit(t)
    BY <1>2, <1>t DEF RecordAudit, TxState
  <1>3. CASE NotifyRevision(t)
    BY <1>3, <1>t DEF NotifyRevision, TxState
  <1> QED BY <1>1, <1>2, <1>3 DEF Writing

\* The statements that change nothing but the request itself and the locks.
LEMMA StatementKeepsTypes ==
  ASSUME TypeInv, NEW t \in Tx,
         \/ InitSchema(t) \/ PutLockAndValidate(t) \/ PutNumber(t)
         \/ PutInsert(t) /\ ~NumberTaken(t)
         \/ RollbackRead(t) \/ Writing(t) \/ SchemaLock(t) \/ SchemaList(t)
         \/ \E e \in Envs : SchemaCheck(t, e)
  PROVE  TypeInv'
  <1>s. tx[t] \in TxState /\ ShapeOf(tx[t])
    BY DEF TypeInv, TypeOK
  <1>v. \A e \in Envs : Len(versions[e]) \in Nat
    BY DEF TypeInv, TypeOK
  <1>e. envs \subseteq Envs
    BY DEF TypeInv, TypeOK
  <1>1. CASE InitSchema(t)
    <2> DEFINE s == [tx[t] EXCEPT !.pc = "lock"]
    <2>1. s \in TxState /\ ShapeOf(s)
      BY <1>1, <1>s, ConstantsAssumption
         DEF InitSchema, LockProjectSchema, At, TxState, PCs, Inserted, RequestKinds, ShapeOf
    <2>2. /\ tx' = [tx EXCEPT ![t] = s]
          /\ UNCHANGED <<tables, requests>>
          /\ schemaLock' \in Tx \cup {None} /\ envLock' \in [Envs -> Tx \cup {None}]
      BY <1>1, <1>s DEF InitSchema, LockProjectSchema, Goto, TypeInv, TypeOK
    <2> HIDE DEF s
    <2> QED BY <2>1, <2>2, MoveKeepsTypes
  <1>2. CASE PutLockAndValidate(t)
    <2> DEFINE s == [tx[t] EXCEPT !.pc = "number", !.seen = Len(SchemasSeen)]
    <2>1. s \in TxState /\ ShapeOf(s)
      BY <1>2, <1>s, ConstantsAssumption, SchemasSeenTyped
         DEF PutLockAndValidate, LockProjectSchema, At, TxState, PCs, Inserted, RequestKinds, ShapeOf
    <2>2. /\ tx' = [tx EXCEPT ![t] = s]
          /\ UNCHANGED <<tables, requests>>
          /\ schemaLock' \in Tx \cup {None} /\ envLock' \in [Envs -> Tx \cup {None}]
      BY <1>2, <1>s DEF PutLockAndValidate, LockProjectSchema, Goto, TypeInv, TypeOK
    <2> HIDE DEF s
    <2> QED BY <2>1, <2>2, MoveKeepsTypes
  <1>3. CASE PutNumber(t)
    <2> DEFINE s == [tx[t] EXCEPT !.pc = "insert", !.num = NextVersionNumber(tx[t].env)]
    <2>k. tx[t].kind = "put" /\ tx[t].env \in Envs
      BY <1>3, <1>s, <1>e DEF PutNumber, At, ShapeOf
    <2>n. NextVersionNumber(tx[t].env) \in Nat
      BY <2>k, <1>v DEF NextVersionNumber
    <2>1. s \in TxState /\ ShapeOf(s)
      BY <2>k, <2>n, <1>s, ConstantsAssumption
         DEF TxState, PCs, Inserted, RequestKinds, ShapeOf
    <2>2. /\ tx' = [tx EXCEPT ![t] = s]
          /\ UNCHANGED <<tables, requests>>
          /\ schemaLock' \in Tx \cup {None} /\ envLock' \in [Envs -> Tx \cup {None}]
      BY <1>3, <1>s DEF PutNumber, NextVersionNumber, LockProjectSchema, Goto, TypeInv, TypeOK
    <2> HIDE DEF s
    <2> QED BY <2>1, <2>2, MoveKeepsTypes
  <1>4. CASE PutInsert(t) /\ ~NumberTaken(t)
    <2> DEFINE s == [tx[t] EXCEPT !.pc = "set"]
    <2>1. s \in TxState /\ ShapeOf(s)
      BY <1>4, <1>s, ConstantsAssumption
         DEF PutInsert, LockProjectSchema, At, TxState, PCs, Inserted, RequestKinds, ShapeOf
    <2>2. /\ tx' = [tx EXCEPT ![t] = s]
          /\ UNCHANGED <<tables, requests>>
          /\ schemaLock' \in Tx \cup {None} /\ envLock' \in [Envs -> Tx \cup {None}]
      BY <1>4, <1>s DEF PutInsert, LockProjectSchema, Goto, TypeInv, TypeOK
    <2> HIDE DEF s
    <2> QED BY <2>1, <2>2, MoveKeepsTypes
  <1>5. CASE RollbackRead(t)
    <2> DEFINE s == [tx[t] EXCEPT !.pc = "set"]
    <2>1. s \in TxState /\ ShapeOf(s)
      BY <1>5, <1>s, ConstantsAssumption
         DEF RollbackRead, LockProjectSchema, At, TxState, PCs, Inserted, RequestKinds, ShapeOf
    <2>2. /\ tx' = [tx EXCEPT ![t] = s]
          /\ UNCHANGED <<tables, requests>>
          /\ schemaLock' \in Tx \cup {None} /\ envLock' \in [Envs -> Tx \cup {None}]
      BY <1>5, <1>s DEF RollbackRead, LockProjectSchema, Goto, TypeInv, TypeOK
    <2> HIDE DEF s
    <2> QED BY <2>1, <2>2, MoveKeepsTypes
  <1>6. CASE Writing(t)
    <2>e. tx[t].env \in Envs
      BY <1>6, <1>s, <1>e, WritingMoves DEF ShapeOf, TxState, RequestKinds
    <2>r. revision[tx[t].env] + 1 \in Nat
      BY <2>e DEF TypeInv, TypeOK
    <2>1. CASE SetCurrentVersion(t)
      <3> DEFINE s == [tx[t] EXCEPT !.pc = "audit", !.rev = revision[tx[t].env] + 1]
      <3>1. s \in TxState /\ ShapeOf(s)
        BY <2>1, <2>r, <1>s, ConstantsAssumption
           DEF SetCurrentVersion, TxState, PCs, Inserted, RequestKinds, ShapeOf
      <3>2. /\ tx' = [tx EXCEPT ![t] = s]
            /\ UNCHANGED <<tables, requests>>
            /\ schemaLock' \in Tx \cup {None} /\ envLock' \in [Envs -> Tx \cup {None}]
        BY <2>1, <1>s DEF SetCurrentVersion, TypeInv, TypeOK
      <3> HIDE DEF s
      <3> QED BY <3>1, <3>2, MoveKeepsTypes
    <2>2. CASE RecordAudit(t)
      <3> DEFINE s == [tx[t] EXCEPT !.pc = "notify", !.logged = Append(@, tx[t].num)]
      <3>a. Append(tx[t].logged, tx[t].num) \in Seq(Nat)
        BY <1>s DEF TxState
      <3>1. s \in TxState /\ ShapeOf(s)
        BY <2>2, <3>a, <1>s, ConstantsAssumption
           DEF RecordAudit, TxState, PCs, Inserted, RequestKinds, ShapeOf
      <3>2. /\ tx' = [tx EXCEPT ![t] = s]
            /\ UNCHANGED <<tables, requests>>
            /\ schemaLock' \in Tx \cup {None} /\ envLock' \in [Envs -> Tx \cup {None}]
        BY <2>2, <1>s DEF RecordAudit, TypeInv, TypeOK
      <3> HIDE DEF s
      <3> QED BY <3>1, <3>2, MoveKeepsTypes
    <2>3. CASE NotifyRevision(t)
      <3> DEFINE s == [tx[t] EXCEPT !.pc = "commit", !.queued = Append(@, tx[t].rev)]
      <3>a. Append(tx[t].queued, tx[t].rev) \in Seq(Nat)
        BY <1>s DEF TxState
      <3>1. s \in TxState /\ ShapeOf(s)
        BY <2>3, <3>a, <1>s, ConstantsAssumption
           DEF NotifyRevision, TxState, PCs, Inserted, RequestKinds, ShapeOf
      <3>2. /\ tx' = [tx EXCEPT ![t] = s]
            /\ UNCHANGED <<tables, requests>>
            /\ schemaLock' \in Tx \cup {None} /\ envLock' \in [Envs -> Tx \cup {None}]
        BY <2>3, <1>s DEF NotifyRevision, TypeInv, TypeOK
      <3> HIDE DEF s
      <3> QED BY <3>1, <3>2, MoveKeepsTypes
    <2> QED BY <1>6, <2>1, <2>2, <2>3 DEF Writing
  <1>7. CASE SchemaLock(t)
    <2> DEFINE s == [tx[t] EXCEPT !.pc = "list"]
    <2>1. s \in TxState /\ ShapeOf(s)
      BY <1>7, <1>s, ConstantsAssumption
         DEF SchemaLock, LockProjectSchema, At, TxState, PCs, Inserted, RequestKinds, ShapeOf
    <2>2. /\ tx' = [tx EXCEPT ![t] = s]
          /\ UNCHANGED <<tables, requests>>
          /\ schemaLock' \in Tx \cup {None} /\ envLock' \in [Envs -> Tx \cup {None}]
      BY <1>7, <1>s DEF SchemaLock, LockProjectSchema, Goto, TypeInv, TypeOK
    <2> HIDE DEF s
    <2> QED BY <2>1, <2>2, MoveKeepsTypes
  <1>8. CASE SchemaList(t)
    <2> DEFINE s == [tx[t] EXCEPT !.pc = "check", !.todo = {e \in envs : current[e] # 0}]
    <2>1. s \in TxState /\ ShapeOf(s)
      BY <1>8, <1>s, ConstantsAssumption, <1>e
         DEF SchemaList, LockProjectSchema, At, TxState, PCs, Inserted, RequestKinds, ShapeOf
    <2>2. /\ tx' = [tx EXCEPT ![t] = s]
          /\ UNCHANGED <<tables, requests>>
          /\ schemaLock' \in Tx \cup {None} /\ envLock' \in [Envs -> Tx \cup {None}]
      BY <1>8, <1>s DEF SchemaList, LockProjectSchema, Goto, TypeInv, TypeOK
    <2> HIDE DEF s
    <2> QED BY <2>1, <2>2, MoveKeepsTypes
  <1>9. ASSUME NEW e \in Envs, SchemaCheck(t, e) PROVE TypeInv'
    <2> DEFINE s == [tx[t] EXCEPT !.todo = @ \ {e}]
    <2>1. s \in TxState /\ ShapeOf(s)
      BY <1>9, <1>s, ConstantsAssumption
         DEF SchemaCheck, LockProjectSchema, At, TxState, PCs, Inserted, RequestKinds, ShapeOf
    <2>2. /\ tx' = [tx EXCEPT ![t] = s]
          /\ UNCHANGED <<tables, requests>>
          /\ schemaLock' \in Tx \cup {None} /\ envLock' \in [Envs -> Tx \cup {None}]
      BY <1>9, <1>s DEF SchemaCheck, LockProjectSchema, Goto, TypeInv, TypeOK
    <2> HIDE DEF s
    <2> QED BY <2>1, <2>2, MoveKeepsTypes
  <1> QED BY <1>1, <1>2, <1>3, <1>4, <1>5, <1>6, <1>7, <1>8, <1>9

\* What a commit publishes is well typed.
LEMMA PublishKeepsTypes ==
  ASSUME TypeOK, NEW t \in Tx, tx[t].env \in Envs, Publish(t)
  PROVE  /\ current' \in [Envs -> Nat]
         /\ revision' \in [Envs -> Nat]
         /\ audit' \in [Envs -> Seq(Nat)]
         /\ notices' \in [Envs -> Seq(Nat)]
  <1>1. /\ tx[t].num \in Nat /\ tx[t].rev \in Nat
        /\ tx[t].logged \in Seq(Nat) /\ tx[t].queued \in Seq(Nat)
    BY DEF TypeOK, TxState
  <1> DEFINE e == tx[t].env
  <1>2. audit[e] \o tx[t].logged \in Seq(Nat) /\ notices[e] \o tx[t].queued \in Seq(Nat)
    BY <1>1 DEF TypeOK
  <1> HIDE DEF e
  <1> QED BY <1>1, <1>2 DEF TypeOK, Publish, e

\* The commits.
LEMMA CommitKeepsTypes ==
  ASSUME TypeInv, NEW t \in Tx,
         CommitPut(t) \/ CommitRollback(t) \/ CommitSchema(t)
  PROVE  TypeInv'
  <1>s. tx[t] \in TxState /\ ShapeOf(tx[t]) /\ envs \subseteq Envs
    BY DEF TypeInv, TypeOK
  <1>n. tx[t].num \in Nat /\ tx[t].seen \in Nat
    BY <1>s DEF TxState
  <1>1. CASE CommitPut(t)
    <2>1. tx[t].env \in Envs /\ tx[t].arg \in Payloads
      BY <1>1, <1>s DEF CommitPut, At, ShapeOf
    <2>2. versions' \in [Envs -> Seq(Row)]
      <3>1. [payload |-> tx[t].arg, schema |-> tx[t].seen] \in Row
        BY <2>1, <1>n DEF Row
      <3> QED
        BY <3>1, <2>1, <1>1 DEF CommitPut, TypeInv, TypeOK
    <2>3. schemas' \in Seq(Defs)
      BY <1>1, SchemasSeenTyped DEF CommitPut
    <2>4. Publish(t) /\ Release(t) /\ UNCHANGED <<envs, schemaAudit, requests>>
      BY <1>1 DEF CommitPut
    <2> QED
      BY <2>1, <2>2, <2>3, <2>4, <1>n, ReleaseKeepsTypes, PublishKeepsTypes
         DEF TypeInv, TypeOK
  <1>2. CASE CommitRollback(t)
    <2>1. tx[t].env \in Envs
      BY <1>2, <1>s DEF CommitRollback, At, ShapeOf
    <2>2. /\ Publish(t) /\ Release(t)
          /\ UNCHANGED <<envs, versions, schemas, schemaAudit, requests>>
      BY <1>2 DEF CommitRollback
    <2> QED
      BY <2>1, <2>2, <1>n, ReleaseKeepsTypes, PublishKeepsTypes DEF TypeInv, TypeOK
  <1>3. CASE CommitSchema(t)
    <2>1. tx[t].arg \in Defs
      BY <1>3, <1>s DEF CommitSchema, At, ShapeOf
    <2>2. schemas' \in Seq(Defs) /\ schemaAudit' \in Seq(Nat)
      BY <1>3, <2>1, SchemasSeenTyped DEF CommitSchema, TypeInv, TypeOK
    <2>3. Release(t) /\ UNCHANGED <<envs, current, revision, versions, audit, notices, requests>>
      BY <1>3 DEF CommitSchema
    <2> QED
      BY <2>2, <2>3, ReleaseKeepsTypes DEF TypeInv, TypeOK
  <1> QED BY <1>1, <1>2, <1>3

\* What a request can do ends in one of these ways.
LEMMA StepCases ==
  ASSUME NEW t \in Tx, Arrive(t) \/ Step(t) \/ Abort(t)
  PROVE  \/ Arrive(t)
         \/ InitSchema(t) \/ PutLockAndValidate(t) \/ PutNumber(t)
         \/ PutInsert(t) /\ ~NumberTaken(t)
         \/ RollbackRead(t) \/ Writing(t) \/ SchemaLock(t) \/ SchemaList(t)
         \/ (\E e \in Envs : SchemaCheck(t, e))
         \/ CommitPut(t) \/ CommitRollback(t) \/ CommitSchema(t)
         \/ RollBack(t)
  BY Zenon DEF Step, Abort, PutReject, PutInsert, RollbackUnknown, SchemaConflict, Writing

\* Creating an environment, and the first read of the schema.
LEMMA OutsideKeepsTypes ==
  ASSUME TypeInv, ReadSchema \/ \E e \in Envs : CreateEnvironment(e)
  PROVE  TypeInv'
  <1>1. CASE ReadSchema
    <2>1. schemas' \in Seq(Defs)
      BY <1>1, ConstantsAssumption DEF ReadSchema
    <2> QED BY <1>1, <2>1 DEF ReadSchema, TypeInv, TypeOK, ShapeOf
  <1>2. ASSUME NEW e \in Envs, CreateEnvironment(e) PROVE TypeInv'
    <2>1. TypeOK'
      BY <1>2 DEF CreateEnvironment, TypeInv, TypeOK
    <2>2. \A t \in Tx : ShapeOf(tx[t])'
      BY <1>2 DEF CreateEnvironment, TypeInv, ShapeOf
    <2> QED BY <2>1, <2>2 DEF TypeInv
  <1> QED BY <1>1, <1>2

\* Types and shapes are inductive: every step of the server keeps them.
THEOREM TypeInvStep == TypeInv /\ [Next]_vars => TypeInv'
  <1> SUFFICES ASSUME TypeInv, [Next]_vars PROVE TypeInv'
    OBVIOUS
  <1>1. CASE UNCHANGED vars
    BY <1>1 DEF vars, tables, TypeInv, TypeOK, ShapeOf
  <1>2. CASE ReadSchema \/ \E e \in Envs : CreateEnvironment(e)
    BY <1>2, OutsideKeepsTypes
  <1>3. ASSUME NEW t \in Tx, Arrive(t) \/ Step(t) \/ Abort(t) PROVE TypeInv'
    BY <1>3, StepCases, ArriveKeepsTypes, StatementKeepsTypes, CommitKeepsTypes,
       RollBackKeepsTypes
  <1> QED BY <1>1, <1>2, <1>3 DEF Next

\* An empty project is well typed.
LEMMA InitTypeInv == Init => TypeInv
  <1> SUFFICES ASSUME Init PROVE TypeInv
    OBVIOUS
  <1>1. \A t \in Tx : tx[t] = IdleTx
    BY DEF Init
  <1> QED
    BY <1>1, IdleIsTyped DEF Init, TypeInv, TypeOK

\* Every reachable state is well typed.
THEOREM TypeInvariance == Spec => []TypeInv
  BY InitTypeInv, TypeInvStep, PTL DEF Spec

-----------------------------------------------------------------------------
(* The config_schema row keeps its holder, and its holder's knowledge.     *)

HoldsSchema(t) ==
  \/ tx[t].kind = "put" /\ tx[t].pc \in {"number", "insert"} \cup Inserted
  \/ tx[t].kind = "schema" /\ tx[t].pc \in {"list", "check"}

\* Past LockProjectSchema a request holds the row until it ends.
LockInv == \A t \in Tx : HoldsSchema(t) => schemaLock = t

\* A step of one request leaves the others where they are, with the lock they hold.
LEMMA OthersKept ==
  ASSUME TypeInv, NEW t \in Tx, NEW u \in Tx, u # t, Arrive(t) \/ Step(t) \/ Abort(t)
  PROVE  tx'[u] = tx[u] /\ (schemaLock = u => schemaLock' = u)
  <1>t. tx \in [Tx -> TxState] /\ u # None
    BY ConstantsAssumption DEF TypeInv, TypeOK
  <1>1. CASE Arrive(t)
    BY <1>1, <1>t, Zenon DEF Arrive, BeginPutValues, BeginRollback, BeginPutSchema, Begin
  <1>2. CASE InitSchema(t) \/ PutLockAndValidate(t) \/ SchemaLock(t)
    BY <1>2, <1>t DEF InitSchema, PutLockAndValidate, SchemaLock, LockProjectSchema, Goto
  <1>3. CASE PutNumber(t) \/ SchemaList(t) \/ \E e \in Envs : SchemaCheck(t, e)
    BY <1>3, <1>t DEF PutNumber, SchemaList, SchemaCheck
  <1>4. CASE (PutInsert(t) /\ ~NumberTaken(t)) \/ RollbackRead(t)
    BY <1>4, <1>t DEF PutInsert, RollbackRead, Goto
  <1>6. CASE Writing(t)
    BY <1>6, WritingMoves
  <1>5. CASE CommitPut(t) \/ CommitRollback(t) \/ CommitSchema(t) \/ RollBack(t)
    BY <1>5, <1>t DEF CommitPut, CommitRollback, CommitSchema, RollBack, Release
  <1> QED BY <1>1, <1>2, <1>3, <1>4, <1>5, <1>6, StepCases

\* A request that has just ended, or just arrived, holds nothing.
LEMMA FreshHoldsNothing ==
  ASSUME TypeInv, NEW t \in Tx,
         Arrive(t) \/ CommitPut(t) \/ CommitRollback(t) \/ CommitSchema(t) \/ RollBack(t)
  PROVE  /\ tx'[t].pc \in {"idle", "init", "read"}
         /\ tx'[t].kind = "put" => tx'[t].pc = "init"
         /\ tx'[t].logged = <<>> /\ tx'[t].queued = <<>>
  <1>t. tx \in [Tx -> TxState]
    BY DEF TypeInv, TypeOK
  <1>1. CASE Arrive(t)
    BY <1>1, <1>t DEF Arrive, BeginPutValues, BeginRollback, BeginPutSchema, Begin, IdleTx
  <1>2. CASE CommitPut(t) \/ CommitRollback(t) \/ CommitSchema(t) \/ RollBack(t)
    <2>1. tx'[t] = IdleTx
      BY <1>2, <1>t DEF CommitPut, CommitRollback, CommitSchema, RollBack, Release
    <2> QED BY <2>1, ConstantsAssumption DEF IdleTx, RequestKinds
  <1> QED BY <1>1, <1>2

\* Every step keeps the agreement of schemaLock with where the requests are: a request
\* past its FOR UPDATE holds the row, and nobody else does.
LEMMA LockInvStep ==
  ASSUME TypeInv, LockInv, NEW t \in Tx, Arrive(t) \/ Step(t) \/ Abort(t)
  PROVE  LockInv'
  <1> SUFFICES ASSUME NEW u \in Tx, HoldsSchema(u)' PROVE schemaLock' = u
    BY DEF LockInv
  <1>t. tx \in [Tx -> TxState]
    BY DEF TypeInv, TypeOK
  <1>1. CASE u # t
    BY <1>1, OthersKept DEF LockInv, HoldsSchema
  <1>2. CASE u = t
    <2>1. CASE Arrive(t) \/ CommitPut(t) \/ CommitRollback(t) \/ CommitSchema(t) \/ RollBack(t)
      BY <2>1, <1>2, FreshHoldsNothing DEF HoldsSchema, Inserted
    <2>2. CASE InitSchema(t)
      BY <2>2, <1>2, <1>t DEF InitSchema, Goto, HoldsSchema, Inserted
    <2>3. CASE PutLockAndValidate(t) \/ SchemaLock(t)
      BY <2>3, <1>2 DEF PutLockAndValidate, SchemaLock, LockProjectSchema
    <2>4. CASE PutNumber(t) \/ SchemaList(t) \/ \E e \in Envs : SchemaCheck(t, e)
      <3>1. HoldsSchema(t)
        BY <2>4 DEF PutNumber, SchemaList, SchemaCheck, At, HoldsSchema
      <3>2. schemaLock' = schemaLock
        BY <2>4 DEF PutNumber, SchemaList, SchemaCheck
      <3> QED BY <3>1, <3>2, <1>2 DEF LockInv
    <2>5. CASE (PutInsert(t) /\ ~NumberTaken(t)) \/ RollbackRead(t)
      <3>1. tx'[t].kind = tx[t].kind /\ schemaLock' = schemaLock
        BY <2>5, <1>t DEF PutInsert, RollbackRead, Goto, TxState
      <3>2. tx'[t].pc = "set" /\ tx[t].pc \in {"insert", "read"}
        BY <2>5, <1>t DEF PutInsert, RollbackRead, Goto, At, TxState
      <3>3. tx[t].kind = "put" => tx[t].pc # "read"
        BY DEF TypeInv, ShapeOf, Inserted
      <3> QED BY <3>1, <3>2, <3>3, <1>2 DEF HoldsSchema, LockInv
    <2>6. CASE Writing(t)
      <3>1. tx[t].pc \in Inserted
        BY <2>6, WritingMoves DEF Inserted
      <3> QED BY <3>1, <2>6, <1>2, WritingMoves DEF HoldsSchema, LockInv
    <2> QED BY <2>1, <2>2, <2>3, <2>4, <2>5, <2>6, StepCases
  <1> QED BY <1>1, <1>2

-----------------------------------------------------------------------------
(* The version numbers.                                                    *)

\* What a request knows of its number: a save that has computed it has the next free
\* one, a rollback that has looked its target up has one that exists.
Numbered(s) ==
  /\ s.kind = "put" /\ s.pc \in {"insert"} \cup Inserted
       => s.num = Len(versions[s.env]) + 1
  /\ s.kind = "rollback" /\ s.pc \in Inserted
       => s.num \in 1..Len(versions[s.env])

NumberInv ==
  /\ \A t \in Tx : Numbered(tx[t])
  /\ \A e \in Envs : current[e] <= Len(versions[e])

\* The statements that leave the tables alone.
Quietly(t) ==
  \/ Arrive(t)
  \/ InitSchema(t) \/ PutLockAndValidate(t) \/ PutNumber(t)
  \/ PutInsert(t) /\ ~NumberTaken(t)
  \/ RollbackRead(t) \/ Writing(t) \/ SchemaLock(t) \/ SchemaList(t)
  \/ (\E e \in Envs : SchemaCheck(t, e))
  \/ RollBack(t)

\* A statement that is no commit changes no table.
LEMMA QuietlyKeepsTables ==
  ASSUME NEW t \in Tx, Quietly(t)
  PROVE  UNCHANGED tables
  BY Zenon DEF Quietly, Arrive, BeginPutValues, BeginRollback, BeginPutSchema, Begin,
     InitSchema, PutLockAndValidate, PutNumber, PutInsert, RollbackRead,
     Writing, SetCurrentVersion, RecordAudit, NotifyRevision, SchemaLock, SchemaList,
     SchemaCheck, RollBack

\* What one request does is such a statement or one of the three commits.
LEMMA StepIsQuietOrCommits ==
  ASSUME NEW t \in Tx, Arrive(t) \/ Step(t) \/ Abort(t)
  PROVE  Quietly(t) \/ CommitPut(t) \/ CommitRollback(t) \/ CommitSchema(t)
  BY StepCases DEF Quietly

\* The number of the request that moves, when the tables do not.
LEMMA QuietlyNumbered ==
  ASSUME TypeInv, NumberInv, NEW t \in Tx, Quietly(t)
  PROVE  Numbered(tx[t])'
  <1>t. tx \in [Tx -> TxState] /\ tx[t] \in TxState /\ ShapeOf(tx[t]) /\ Numbered(tx[t])
    BY DEF TypeInv, TypeOK, NumberInv
  <1>v. versions' = versions
    BY QuietlyKeepsTables DEF tables
  <1>1. CASE Arrive(t) \/ RollBack(t)
    <2>1. tx'[t].pc \in {"idle", "init", "read"}
      BY <1>1, FreshHoldsNothing
    <2> QED BY <2>1 DEF Numbered, Inserted
  <1>2. CASE InitSchema(t) \/ PutLockAndValidate(t) \/ SchemaLock(t) \/ SchemaList(t)
             \/ \E e \in Envs : SchemaCheck(t, e)
    <2>1. tx'[t].pc \in {"lock", "number", "list", "check"}
      <3>1. CASE InitSchema(t) \/ SchemaLock(t)
        BY <3>1, <1>t DEF InitSchema, SchemaLock, Goto, TxState
      <3>2. CASE PutLockAndValidate(t) \/ SchemaList(t)
        BY <3>2, <1>t DEF PutLockAndValidate, SchemaList, TxState
      <3>3. ASSUME NEW e \in Envs, SchemaCheck(t, e) PROVE tx'[t].pc = "check"
        BY <3>3, <1>t DEF SchemaCheck, At, TxState
      <3> QED BY <1>2, <3>1, <3>2, <3>3
    <2> QED BY <2>1 DEF Numbered, Inserted
  <1>3. CASE PutNumber(t)
    <2>1. tx'[t] = [tx[t] EXCEPT !.pc = "insert", !.num = NextVersionNumber(tx[t].env)]
      BY <1>3, <1>t DEF PutNumber
    <2>2. tx[t].kind = "put"
      BY <1>3 DEF PutNumber, At
    <2>3. /\ tx'[t].kind = "put" /\ tx'[t].env = tx[t].env
          /\ tx'[t].num = NextVersionNumber(tx[t].env)
      BY <2>1, <2>2, <1>t DEF TxState
    <2> QED BY <2>3, <1>v DEF Numbered, NextVersionNumber
  <1>4. CASE (PutInsert(t) /\ ~NumberTaken(t)) \/ RollbackRead(t)
    <2>1. /\ tx'[t].kind = tx[t].kind /\ tx'[t].env = tx[t].env /\ tx'[t].num = tx[t].num
      BY <1>4, <1>t DEF PutInsert, RollbackRead, Goto, TxState
    <2>2. CASE RollbackRead(t)
      BY <2>1, <2>2, <1>v DEF RollbackRead, At, Numbered
    <2>3. CASE PutInsert(t) /\ ~NumberTaken(t)
      BY <2>1, <2>3, <1>t, <1>v DEF PutInsert, At, Numbered
    <2> QED BY <1>4, <2>2, <2>3
  <1>5. CASE Writing(t)
    <2>1. tx[t].pc \in Inserted
      BY <1>5, WritingMoves DEF Inserted
    <2> QED BY <2>1, <1>5, <1>t, <1>v, WritingMoves DEF Numbered
  <1> QED BY <1>1, <1>2, <1>3, <1>4, <1>5 DEF Quietly

\* A save about to commit holds the config_schema row, so no other save has a number.
LEMMA OneSaveAtATime ==
  ASSUME LockInv, NEW t \in Tx, CommitPut(t) \/ CommitSchema(t), NEW u \in Tx, u # t
  PROVE  ~HoldsSchema(u)
  BY DEF LockInv, HoldsSchema, CommitPut, CommitSchema, At, Inserted

\* Every step keeps the number a save chose the next one of its environment, and the
\* target of a rollback an existing row.
LEMMA NumberInvStep ==
  ASSUME TypeInv, LockInv, NumberInv, NEW t \in Tx, Arrive(t) \/ Step(t) \/ Abort(t)
  PROVE  NumberInv'
  <1>t. /\ tx[t] \in TxState /\ ShapeOf(tx[t]) /\ Numbered(tx[t])
        /\ envs \subseteq Envs
        /\ versions \in [Envs -> Seq(Row)] /\ current \in [Envs -> Nat]
    BY DEF TypeInv, TypeOK, NumberInv
  <1>o. \A u \in Tx \ {t} : tx'[u] = tx[u]
    BY OthersKept
  <1>1. CASE Quietly(t)
    <2>1. versions' = versions /\ current' = current
      BY <1>1, QuietlyKeepsTables DEF tables
    <2>2. \A u \in Tx \ {t} : Numbered(tx[u])'
      BY <2>1, <1>o DEF NumberInv, Numbered
    <2> QED BY <2>1, <2>2, <1>1, QuietlyNumbered DEF NumberInv
  <1>2. CASE CommitPut(t)
    <2> DEFINE e == tx[t].env
    <2>1. e \in Envs /\ tx[t].num = Len(versions[e]) + 1
      BY <1>2, <1>t DEF CommitPut, At, ShapeOf, Numbered
    <2>2. /\ Len(versions'[e]) = Len(versions[e]) + 1
          /\ \A f \in Envs \ {e} : versions'[f] = versions[f]
      BY <1>2, <1>t, <2>1 DEF CommitPut
    <2>3. current' = [current EXCEPT ![e] = tx[t].num]
      BY <1>2 DEF CommitPut, Publish
    <2> HIDE DEF e
    <2>4. \A f \in Envs : current'[f] <= Len(versions'[f])
      BY <2>1, <2>2, <2>3, <1>t DEF NumberInv
    <2>5. ASSUME NEW u \in Tx PROVE Numbered(tx[u])'
      <3>1. CASE u = t
        BY <3>1, <1>2, FreshHoldsNothing DEF Numbered, Inserted
      <3>2. CASE u # t
        <4>1. tx'[u] = tx[u] /\ ~HoldsSchema(u) /\ Numbered(tx[u]) /\ ShapeOf(tx[u])
          BY <3>2, <1>o, <1>2, OneSaveAtATime DEF NumberInv, TypeInv
        <4>2. ASSUME NEW f \in Envs, NEW n \in 1..Len(versions[f])
              PROVE  n \in 1..Len(versions'[f])
          BY <2>2, <1>t
        <4>3. tx[u].kind = "rollback" => tx[u].env \in Envs
          BY <4>1, <1>t DEF ShapeOf
        <4> QED
          BY <4>1, <4>2, <4>3 DEF Numbered, HoldsSchema
      <3> QED BY <3>1, <3>2
    <2> QED BY <2>4, <2>5 DEF NumberInv
  <1>3. CASE CommitRollback(t)
    <2> DEFINE e == tx[t].env
    <2>1. e \in Envs /\ tx[t].num \in 1..Len(versions[e])
      BY <1>3, <1>t DEF CommitRollback, At, ShapeOf, Numbered
    <2>2. versions' = versions /\ current' = [current EXCEPT ![e] = tx[t].num]
      BY <1>3 DEF CommitRollback, Publish
    <2> HIDE DEF e
    <2>3. \A f \in Envs : current'[f] <= Len(versions'[f])
      BY <2>1, <2>2, <1>t DEF NumberInv
    <2>4. \A u \in Tx : Numbered(tx[u])'
      BY <1>o, <2>2, <1>3, FreshHoldsNothing DEF NumberInv, Numbered, Inserted
    <2> QED BY <2>3, <2>4 DEF NumberInv
  <1>4. CASE CommitSchema(t)
    <2>1. versions' = versions /\ current' = current
      BY <1>4 DEF CommitSchema
    <2>2. \A u \in Tx : Numbered(tx[u])'
      BY <1>o, <2>1, <1>4, FreshHoldsNothing DEF NumberInv, Numbered, Inserted
    <2> QED BY <2>1, <2>2 DEF NumberInv
  <1> QED BY <1>1, <1>2, <1>3, <1>4, StepIsQuietOrCommits

-----------------------------------------------------------------------------
(* What was validated, and against what.                                   *)

\* A save past validation: the definition it was accepted by is still the project's.
Validated(s) ==
  s.kind = "put" /\ s.pc \in {"number", "insert"} \cup Inserted
    => s.seen = Len(SchemasSeen) /\ Accepts(Definition, s.arg)

AcceptInv == RowsMatchTheirSchema /\ \A t \in Tx : Validated(tx[t])

\* A save past its validation has been accepted by the definition it read, and a
\* statement of its own does not change that.
LEMMA QuietlyValidated ==
  ASSUME TypeInv, AcceptInv, NEW t \in Tx, Quietly(t)
  PROVE  Validated(tx[t])'
  <1>t. tx \in [Tx -> TxState] /\ tx[t] \in TxState /\ ShapeOf(tx[t]) /\ Validated(tx[t])
    BY DEF TypeInv, TypeOK, AcceptInv
  <1>v. schemas' = schemas
    BY QuietlyKeepsTables DEF tables
  <1>d. SchemasSeen' = SchemasSeen /\ Definition' = Definition
    BY <1>v DEF SchemasSeen, Definition
  <1>1. CASE Arrive(t) \/ RollBack(t)
    BY <1>1, FreshHoldsNothing DEF Validated, Inserted
  <1>2. CASE InitSchema(t)
    <2>1. tx'[t].pc = "lock"
      BY <1>2, <1>t DEF InitSchema, Goto, TxState
    <2> QED BY <2>1 DEF Validated, Inserted
  <1>3. CASE RollbackRead(t) \/ SchemaLock(t) \/ SchemaList(t) \/ \E e \in Envs : SchemaCheck(t, e)
    <2>1. tx'[t].kind \in {"rollback", "schema"}
      <3>1. tx'[t].kind = tx[t].kind
        BY <1>3, <1>t DEF RollbackRead, SchemaLock, SchemaList, SchemaCheck, Goto, TxState
      <3>2. tx[t].kind \in {"rollback", "schema"}
        BY <1>3 DEF RollbackRead, SchemaLock, SchemaList, SchemaCheck, At
      <3> QED BY <3>1, <3>2
    <2> QED BY <2>1 DEF Validated
  <1>4. CASE PutLockAndValidate(t)
    <2>1. tx'[t] = [tx[t] EXCEPT !.pc = "number", !.seen = Len(SchemasSeen)]
      BY <1>4, <1>t DEF PutLockAndValidate
    <2>2. tx'[t].seen = Len(SchemasSeen) /\ tx'[t].arg = tx[t].arg
      BY <2>1, <1>t DEF TxState
    <2>3. Accepts(Definition, tx[t].arg)
      BY <1>4 DEF PutLockAndValidate
    <2> QED BY <2>2, <2>3, <1>d DEF Validated, Accepts
  <1>5. CASE PutNumber(t) \/ (PutInsert(t) /\ ~NumberTaken(t)) \/ Writing(t)
    <2>1. /\ tx'[t].kind = tx[t].kind /\ tx'[t].arg = tx[t].arg /\ tx'[t].seen = tx[t].seen
          /\ tx[t].pc \in {"number", "insert"} \cup Inserted
      <3>1. CASE PutNumber(t)
        BY <3>1, <1>t DEF PutNumber, At, TxState
      <3>2. CASE PutInsert(t) /\ ~NumberTaken(t)
        BY <3>2, <1>t DEF PutInsert, Goto, At, TxState
      <3>3. CASE Writing(t)
        BY <3>3, WritingMoves DEF Inserted
      <3> QED BY <1>5, <3>1, <3>2, <3>3
    <2> QED BY <2>1, <1>t, <1>d DEF Validated, Accepts
  <1> QED BY <1>1, <1>2, <1>3, <1>4, <1>5 DEF Quietly

\* Rows and the definitions they name survive the addition of a definition.
LEMMA OldRowsMatch ==
  ASSUME TypeInv, AcceptInv, NEW f \in Envs, NEW n \in DOMAIN versions[f],
         \/ schemas' = schemas
         \/ schemas' = SchemasSeen
         \/ \E d \in Defs : schemas' = Append(SchemasSeen, d)
  PROVE  /\ versions[f][n].schema \in DOMAIN schemas'
         /\ <<schemas'[versions[f][n].schema], versions[f][n].payload>> \in ValuesOK \cap RulesOK
  <1>1. /\ versions[f][n].schema \in DOMAIN schemas
        /\ <<schemas[versions[f][n].schema], versions[f][n].payload>> \in ValuesOK \cap RulesOK
    BY DEF AcceptInv, RowsMatchTheirSchema
  <1>2. schemas \in Seq(Defs)
    BY DEF TypeInv, TypeOK
  <1> DEFINE i == versions[f][n].schema
  <1>3. SchemasSeen = schemas
    BY <1>1, <1>2 DEF SchemasSeen
  <1>4. i \in DOMAIN schemas' /\ schemas'[i] = schemas[i]
    <2> HIDE DEF i
    <2>1. i \in 1..Len(schemas)
      BY <1>1, <1>2 DEF i
    <2>2. ASSUME NEW d \in Defs
          PROVE  i \in DOMAIN Append(schemas, d) /\ Append(schemas, d)[i] = schemas[i]
      BY <2>1, <1>2
    <2> QED BY <2>1, <2>2, <1>2, <1>3
  <1> QED BY <1>1, <1>4

\* Every step keeps all rows, and the saves on their way, accepted by the definition
\* they name.
LEMMA AcceptInvStep ==
  ASSUME TypeInv, LockInv, NumberInv, AcceptInv, NEW t \in Tx,
         Arrive(t) \/ Step(t) \/ Abort(t)
  PROVE  AcceptInv'
  <1>t. /\ tx[t] \in TxState /\ ShapeOf(tx[t]) /\ Validated(tx[t])
        /\ envs \subseteq Envs /\ versions \in [Envs -> Seq(Row)]
    BY DEF TypeInv, TypeOK, AcceptInv
  <1>o. \A u \in Tx \ {t} : tx'[u] = tx[u]
    BY OthersKept
  <1>1. CASE Quietly(t) \/ CommitRollback(t)
    <2>1. versions' = versions /\ schemas' = schemas
      BY <1>1, QuietlyKeepsTables DEF tables, CommitRollback
    <2>2. RowsMatchTheirSchema'
      BY <2>1 DEF AcceptInv, RowsMatchTheirSchema
    <2>3. \A u \in Tx \ {t} : Validated(tx[u])'
      BY <2>1, <1>o DEF AcceptInv, Validated, SchemasSeen, Definition, Accepts
    <2>4. Validated(tx[t])'
      <3>1. CASE Quietly(t)
        BY <3>1, QuietlyValidated
      <3>2. CASE CommitRollback(t)
        BY <3>2, FreshHoldsNothing DEF Validated, Inserted
      <3> QED BY <1>1, <3>1, <3>2
    <2> QED BY <2>2, <2>3, <2>4 DEF AcceptInv
  <1>2. CASE CommitPut(t) \/ CommitSchema(t)
    <2>1. \A u \in Tx : Validated(tx[u])'
      <3>1. \A u \in Tx \ {t} : ~(tx[u].kind = "put" /\ tx[u].pc \in {"number", "insert"} \cup Inserted)
        BY <1>2, OneSaveAtATime DEF HoldsSchema
      <3>2. \A u \in Tx \ {t} : Validated(tx[u])'
        BY <3>1, <1>o DEF Validated
      <3>3. Validated(tx[t])'
        BY <1>2, FreshHoldsNothing DEF Validated, Inserted
      <3> QED BY <3>2, <3>3
    <2>2. RowsMatchTheirSchema'
      <3>1. CASE CommitSchema(t)
        <4>1. versions' = versions /\ schemas' = Append(SchemasSeen, tx[t].arg) /\ tx[t].arg \in Defs
          BY <3>1, <1>t DEF CommitSchema, At, ShapeOf
        <4> QED BY <4>1, OldRowsMatch DEF RowsMatchTheirSchema
      <3>2. CASE CommitPut(t)
        <4> DEFINE e == tx[t].env
                   row == [payload |-> tx[t].arg, schema |-> tx[t].seen]
        <4>1. e \in Envs /\ Accepts(Definition, tx[t].arg) /\ tx[t].seen = Len(SchemasSeen)
          BY <3>2, <1>t DEF CommitPut, At, ShapeOf, Validated
        <4>2. versions' = [versions EXCEPT ![e] = Append(@, row)] /\ schemas' = SchemasSeen
          BY <3>2 DEF CommitPut
        <4>3. row \in Row /\ row.payload = tx[t].arg /\ row.schema = tx[t].seen
          BY <3>2, <1>t DEF CommitPut, At, ShapeOf, Row, TxState
        <4> HIDE DEF e, row
        <4>4. /\ row.schema \in DOMAIN schemas'
              /\ <<schemas'[row.schema], row.payload>> \in ValuesOK \cap RulesOK
          BY <4>1, <4>2, <4>3, SchemasSeenTyped DEF Accepts, Definition
        <4>5. ASSUME NEW f \in Envs, NEW n \in DOMAIN versions'[f]
              PROVE  \/ versions'[f][n] = row
                     \/ n \in DOMAIN versions[f] /\ versions'[f][n] = versions[f][n]
          BY <4>1, <4>2, <4>3, <1>t
        <4> QED BY <4>2, <4>4, <4>5, OldRowsMatch DEF RowsMatchTheirSchema
      <3> QED BY <1>2, <3>1, <3>2
    <2> QED BY <2>1, <2>2 DEF AcceptInv
  <1> QED BY <1>1, <1>2, StepIsQuietOrCommits

-----------------------------------------------------------------------------
(* The environment row, and what the statements of a write leave behind.   *)

PastUpdate(s) == s.pc \in {"audit", "notify", "commit"}

\* The audit row and the NOTIFY a request has written so far.
Written(s) ==
  /\ s.logged = IF s.pc \in {"notify", "commit"} THEN <<s.num>> ELSE <<>>
  /\ s.queued = IF s.pc = "commit" THEN <<s.rev>> ELSE <<>>

\* From its UPDATE on a request holds the environment row, so the revision that UPDATE
\* returned is still the next one.
WriteInv ==
  \A t \in Tx : /\ Written(tx[t])
                /\ PastUpdate(tx[t]) => /\ envLock[tx[t].env] = t
                                        /\ tx[t].rev = revision[tx[t].env] + 1

\* A request past its UPDATE works on an environment.
LEMMA WritesAnEnvironment ==
  ASSUME TypeInv, NEW t \in Tx, PastUpdate(tx[t])
  PROVE  tx[t].env \in envs /\ tx[t].env \in Envs /\ t # None
  BY ConstantsAssumption DEF PastUpdate, TypeInv, TypeOK, TxState, ShapeOf, RequestKinds

\* What a commit publishes, given what the statements before it wrote: the version
\* becomes live, with one more revision, its audit row and its announcement.
WritesOne(e, n) ==
  /\ current' = [current EXCEPT ![e] = n]
  /\ revision' = [revision EXCEPT ![e] = @ + 1]
  /\ audit' = [audit EXCEPT ![e] = Append(@, n)]
  /\ notices' = [notices EXCEPT ![e] = Append(@, revision[e] + 1)]

\* The commit of a save or a rollback publishes exactly that.
LEMMA CommitWritesOne ==
  ASSUME TypeInv, WriteInv, NEW t \in Tx, CommitPut(t) \/ CommitRollback(t)
  PROVE  WritesOne(tx[t].env, tx[t].num)
  <1> DEFINE e == tx[t].env
             n == tx[t].num
  <1>1. tx[t].pc = "commit" /\ Publish(t)
    BY DEF CommitPut, CommitRollback, At
  <1>2. /\ e \in Envs /\ n \in Nat /\ tx[t].rev = revision[e] + 1
        /\ tx[t].logged = <<n>> /\ tx[t].queued = <<revision[e] + 1>>
    BY <1>1, WritesAnEnvironment DEF PastUpdate, WriteInv, Written, TypeInv, TypeOK, TxState
  <1>3. /\ current' = [current EXCEPT ![e] = n] /\ revision' = [revision EXCEPT ![e] = tx[t].rev]
        /\ audit' = [audit EXCEPT ![e] = @ \o tx[t].logged]
        /\ notices' = [notices EXCEPT ![e] = @ \o tx[t].queued]
    BY <1>1 DEF Publish
  <1> HIDE DEF e, n
  <1>4. audit[e] \o <<n>> = Append(audit[e], n)
    BY <1>2 DEF TypeInv, TypeOK
  <1>5. notices[e] \o <<revision[e] + 1>> = Append(notices[e], revision[e] + 1)
    BY <1>2 DEF TypeInv, TypeOK
  <1>6. WritesOne(e, n)
    BY <1>2, <1>3, <1>4, <1>5 DEF WritesOne
  <1> QED BY <1>6 DEF e, n

\* A step of one request leaves another past its UPDATE the row and the revision.
LEMMA RowsKept ==
  ASSUME TypeInv, WriteInv, NEW t \in Tx, NEW u \in Tx, u # t, PastUpdate(tx[u]),
         Arrive(t) \/ Step(t) \/ Abort(t)
  PROVE  envLock'[tx[u].env] = u /\ revision'[tx[u].env] = revision[tx[u].env]
  <1> DEFINE e == tx[u].env
  <1>t. /\ e \in Envs /\ u # None /\ envLock[e] = u
        /\ envLock \in [Envs -> Tx \cup {None}] /\ revision \in [Envs -> Nat]
    BY WritesAnEnvironment DEF WriteInv, TypeInv, TypeOK
  <1> HIDE DEF e
  <1>1. envLock'[e] = u
    <2>1. CASE Release(t)
      BY <2>1, <1>t DEF Release
    <2>2. CASE SetCurrentVersion(t)
      BY <2>2, <1>t DEF SetCurrentVersion
    <2>3. CASE envLock' = envLock
      BY <2>3, <1>t
    <2>4. CASE Arrive(t)
      <3>1. envLock' = envLock
        BY <2>4, Zenon DEF Arrive, BeginPutValues, BeginRollback, BeginPutSchema, Begin
      <3> QED BY <3>1, <1>t
    <2> QED
      BY <2>1, <2>2, <2>3, <2>4, StepCases
         DEF InitSchema, PutLockAndValidate, PutNumber, PutInsert, RollbackRead, Writing,
             RecordAudit, NotifyRevision, SchemaLock, SchemaList, SchemaCheck,
             CommitPut, CommitRollback, CommitSchema, RollBack
  <1>2. revision'[e] = revision[e]
    <2>1. CASE Quietly(t) \/ CommitSchema(t)
      BY <2>1, QuietlyKeepsTables DEF tables, CommitSchema
    <2>2. CASE CommitPut(t) \/ CommitRollback(t)
      <3>1. PastUpdate(tx[t]) /\ Publish(t)
        BY <2>2 DEF CommitPut, CommitRollback, At, PastUpdate
      <3>2. tx[t].env # e
        BY <3>1, <1>t DEF WriteInv
      <3> QED BY <3>1, <3>2, <1>t DEF Publish
    <2> QED BY <2>1, <2>2, StepIsQuietOrCommits
  <1> QED BY <1>1, <1>2 DEF e

\* Every step keeps what a request has written in line with where it is, and the row
\* locked for whoever is past its UPDATE.
LEMMA WriteInvStep ==
  ASSUME TypeInv, WriteInv, NEW t \in Tx, Arrive(t) \/ Step(t) \/ Abort(t)
  PROVE  WriteInv'
  <1>t. /\ tx \in [Tx -> TxState] /\ tx[t] \in TxState /\ Written(tx[t])
        /\ envLock \in [Envs -> Tx \cup {None}] /\ revision \in [Envs -> Nat]
    BY DEF TypeInv, TypeOK, WriteInv
  <1>1. ASSUME NEW u \in Tx \ {t}
        PROVE  /\ Written(tx[u])'
               /\ PastUpdate(tx[u])' => envLock'[tx'[u].env] = u /\ tx'[u].rev = revision'[tx'[u].env] + 1
    <2>1. tx'[u] = tx[u] /\ Written(tx[u])
      BY OthersKept DEF WriteInv
    <2> QED BY <2>1, RowsKept DEF WriteInv, Written, PastUpdate
  <1>2. CASE Arrive(t) \/ CommitPut(t) \/ CommitRollback(t) \/ CommitSchema(t) \/ RollBack(t)
    <2>1. Written(tx[t])' /\ ~PastUpdate(tx[t])'
      BY <1>2, FreshHoldsNothing DEF Written, PastUpdate
    <2> QED BY <2>1, <1>1 DEF WriteInv
  <1>3. CASE \/ InitSchema(t) \/ PutLockAndValidate(t) \/ PutNumber(t)
             \/ PutInsert(t) /\ ~NumberTaken(t)
             \/ RollbackRead(t) \/ SchemaLock(t) \/ SchemaList(t)
             \/ \E e \in Envs : SchemaCheck(t, e)
    <2>1. /\ tx'[t].logged = tx[t].logged /\ tx'[t].queued = tx[t].queued
          /\ tx[t].pc \in {"init", "lock", "number", "insert", "read", "list", "check"}
          /\ tx'[t].pc \in {"lock", "number", "insert", "set", "list", "check"}
      <3>1. CASE InitSchema(t) \/ SchemaLock(t)
        BY <3>1, <1>t DEF InitSchema, SchemaLock, Goto, At, TxState
      <3>2. CASE PutLockAndValidate(t) \/ PutNumber(t) \/ SchemaList(t)
        BY <3>2, <1>t DEF PutLockAndValidate, PutNumber, SchemaList, At, TxState
      <3>3. CASE (PutInsert(t) /\ ~NumberTaken(t)) \/ RollbackRead(t)
        BY <3>3, <1>t DEF PutInsert, RollbackRead, Goto, At, TxState
      <3>4. ASSUME NEW e \in Envs, SchemaCheck(t, e)
            PROVE  /\ tx'[t].logged = tx[t].logged /\ tx'[t].queued = tx[t].queued
                   /\ tx[t].pc = "check" /\ tx'[t].pc = "check"
        BY <3>4, <1>t DEF SchemaCheck, At, TxState
      <3> QED BY <1>3, <3>1, <3>2, <3>3, <3>4
    <2>2. Written(tx[t])' /\ ~PastUpdate(tx[t])'
      BY <2>1, <1>t DEF Written, PastUpdate
    <2> QED BY <2>2, <1>1 DEF WriteInv
  <1>4. CASE Writing(t)
    <2>m. tx[t].pc \in {"set", "audit", "notify"} /\ tx'[t].env = tx[t].env /\ tx'[t].num = tx[t].num
      BY <1>4, WritingMoves
    <2>e. tx[t].env \in Envs
      BY <2>m, <1>t DEF TypeInv, TypeOK, ShapeOf, TxState, RequestKinds
    <2>r. revision' = revision
      BY <1>4, WritingMoves DEF tables
    <2>1. CASE SetCurrentVersion(t)
      <3>1. /\ tx'[t].pc = "audit" /\ tx'[t].rev = revision[tx[t].env] + 1
            /\ tx'[t].logged = tx[t].logged /\ tx'[t].queued = tx[t].queued
            /\ envLock'[tx[t].env] = t /\ tx[t].pc = "set"
        BY <2>1, <2>e, <1>t DEF SetCurrentVersion, TxState
      <3> QED BY <3>1, <2>m, <2>r, <1>t, <1>1 DEF WriteInv, Written
    <2>2. CASE RecordAudit(t)
      <3>1. /\ tx'[t].pc = "notify" /\ tx'[t].rev = tx[t].rev /\ tx[t].pc = "audit"
            /\ tx'[t].logged = Append(tx[t].logged, tx[t].num) /\ tx'[t].queued = tx[t].queued
            /\ envLock' = envLock
        BY <2>2, <1>t DEF RecordAudit, TxState
      <3>2. tx'[t].logged = <<tx[t].num>>
        BY <3>1, <1>t DEF Written
      <3>3. Written(tx[t])'
        BY <3>1, <3>2, <2>m, <1>t DEF Written
      <3>4. envLock'[tx'[t].env] = t /\ tx'[t].rev = revision'[tx'[t].env] + 1
        BY <3>1, <2>m, <2>r DEF WriteInv, PastUpdate
      <3> QED BY <3>3, <3>4, <1>1 DEF WriteInv
    <2>3. CASE NotifyRevision(t)
      <3>1. /\ tx'[t].pc = "commit" /\ tx'[t].rev = tx[t].rev /\ tx[t].pc = "notify"
            /\ tx'[t].queued = Append(tx[t].queued, tx[t].rev) /\ tx'[t].logged = tx[t].logged
            /\ envLock' = envLock
        BY <2>3, <1>t DEF NotifyRevision, TxState
      <3>2. tx'[t].queued = <<tx[t].rev>>
        BY <3>1, <1>t DEF Written
      <3>3. Written(tx[t])'
        BY <3>1, <3>2, <2>m, <1>t DEF Written
      <3>4. envLock'[tx'[t].env] = t /\ tx'[t].rev = revision'[tx'[t].env] + 1
        BY <3>1, <2>m, <2>r DEF WriteInv, PastUpdate
      <3> QED BY <3>3, <3>4, <1>1 DEF WriteInv
    <2> QED BY <1>4, <2>1, <2>2, <2>3 DEF Writing
  <1> QED BY <1>2, <1>3, <1>4, StepCases

-----------------------------------------------------------------------------
(* The revisions announced, and the audit log.                             *)

\* Announcing one more revision continues the sequence 1, 2, 3...
LEMMA CountingUp ==
  ASSUME NEW n \in Nat
  PROVE  Append([i \in 1..n |-> i], n + 1) = [i \in 1..n + 1 |-> i]
  <1> DEFINE s == [i \in 1..n |-> i]
  <1>1. s \in Seq(Nat) /\ Len(s) = n
    OBVIOUS
  <1>2. Append(s, n + 1) = [i \in 1..Len(s) + 1 |-> IF i \in 1..Len(s) THEN s[i] ELSE n + 1]
    BY <1>1
  <1>3. \A i \in 1..n + 1 : (IF i \in 1..n THEN s[i] ELSE n + 1) = i
    OBVIOUS
  <1> QED BY <1>1, <1>2, <1>3

\* Every step keeps the announcements complete and in order.
LEMMA NoticesStep ==
  ASSUME TypeInv, WriteInv, NoticesInOrder, NEW t \in Tx, Arrive(t) \/ Step(t) \/ Abort(t)
  PROVE  NoticesInOrder'
  <1>t. /\ ShapeOf(tx[t]) /\ envs \subseteq Envs
        /\ notices \in [Envs -> Seq(Nat)] /\ revision \in [Envs -> Nat]
    BY DEF TypeInv, TypeOK
  <1>1. CASE Quietly(t) \/ CommitSchema(t)
    <2>1. notices' = notices /\ revision' = revision
      BY <1>1, QuietlyKeepsTables DEF tables, CommitSchema
    <2> QED BY <2>1 DEF NoticesInOrder
  <1>2. CASE CommitPut(t) \/ CommitRollback(t)
    <2> DEFINE e == tx[t].env
    <2>1. e \in Envs
      BY <1>2, <1>t DEF CommitPut, CommitRollback, At, ShapeOf
    <2>2. /\ notices' = [notices EXCEPT ![e] = Append(@, revision[e] + 1)]
          /\ revision' = [revision EXCEPT ![e] = @ + 1]
      BY <1>2, CommitWritesOne DEF WritesOne
    <2> HIDE DEF e
    <2>3. notices'[e] = [i \in 1..revision'[e] |-> i]
      BY <2>1, <2>2, <1>t, CountingUp DEF NoticesInOrder
    <2>4. \A f \in Envs \ {e} : notices'[f] = [i \in 1..revision'[f] |-> i]
      BY <2>2, <1>t DEF NoticesInOrder
    <2> QED BY <2>3, <2>4 DEF NoticesInOrder
  <1> QED BY <1>1, <1>2, StepIsQuietOrCommits

\* Nothing has happened in an environment that does not exist, and nobody works on it.
AuditInv ==
  /\ AuditReplays
  /\ \A e \in Envs \ envs : audit[e] = <<>> /\ revision[e] = 0 /\ current[e] = 0

\* Every step keeps the audit log in line with the tables.
LEMMA AuditStep ==
  ASSUME TypeInv, WriteInv, AuditInv, NEW t \in Tx, Arrive(t) \/ Step(t) \/ Abort(t)
  PROVE  AuditInv'
  <1>t. /\ ShapeOf(tx[t]) /\ tx[t] \in TxState /\ envs \subseteq Envs
        /\ audit \in [Envs -> Seq(Nat)] /\ revision \in [Envs -> Nat]
        /\ current \in [Envs -> Nat] /\ schemas \in Seq(Defs) /\ schemaAudit \in Seq(Nat)
    BY DEF TypeInv, TypeOK
  <1>1. CASE Quietly(t)
    <2>1. UNCHANGED tables
      BY <1>1, QuietlyKeepsTables
    <2> QED BY <2>1 DEF tables, AuditInv, AuditReplays
  <1>2. CASE CommitPut(t) \/ CommitRollback(t)
    <2> DEFINE e == tx[t].env
               n == tx[t].num
    <2>1. e \in envs /\ n \in Nat
      BY <1>2, <1>t DEF CommitPut, CommitRollback, At, ShapeOf, TxState
    <2>2. /\ current' = [current EXCEPT ![e] = n]
          /\ revision' = [revision EXCEPT ![e] = @ + 1]
          /\ audit' = [audit EXCEPT ![e] = Append(@, n)]
          /\ envs' = envs /\ schemaAudit' = schemaAudit
      BY <1>2, CommitWritesOne DEF WritesOne, CommitPut, CommitRollback
    <2>3. schemas' = schemas \/ schemas' = SchemasSeen
      BY <1>2 DEF CommitPut, CommitRollback
    <2> HIDE DEF e, n
    <2>4. Len(audit'[e]) = revision'[e] + 1 /\ audit'[e][Len(audit'[e])] = current'[e]
      BY <2>1, <2>2, <1>t DEF AuditInv, AuditReplays
    <2>5. \A f \in envs \ {e} : /\ Len(audit'[f]) = revision'[f] + 1
                                /\ audit'[f][Len(audit'[f])] = current'[f]
      BY <2>1, <2>2, <1>t DEF AuditInv, AuditReplays
    <2>6. \A f \in Envs \ envs : audit'[f] = <<>> /\ revision'[f] = 0 /\ current'[f] = 0
      BY <2>1, <2>2, <1>t DEF AuditInv
    <2>7. Len(schemaAudit) = (IF schemas' = <<>> THEN 0 ELSE Len(schemas') - 1)
      <3>1. CASE schemas' = schemas
        BY <3>1 DEF AuditInv, AuditReplays
      <3>2. CASE schemas' = SchemasSeen /\ schemas = <<>>
        <4>1. Len(schemaAudit) = 0 /\ schemas' = <<DefaultDef>>
          BY <3>2 DEF AuditInv, AuditReplays, SchemasSeen
        <4> QED BY <4>1
      <3>3. CASE schemas' = SchemasSeen /\ schemas # <<>>
        BY <3>3 DEF AuditInv, AuditReplays, SchemasSeen
      <3> QED BY <2>3, <3>1, <3>2, <3>3
    <2> QED BY <2>2, <2>4, <2>5, <2>6, <2>7 DEF AuditInv, AuditReplays
  <1>3. CASE CommitSchema(t)
    <2>1. /\ schemas' = Append(SchemasSeen, tx[t].arg) /\ tx[t].arg \in Defs
          /\ schemaAudit' = Append(schemaAudit, Len(SchemasSeen) + 1)
          /\ UNCHANGED <<envs, audit, revision, current>>
      BY <1>3, <1>t DEF CommitSchema, At, ShapeOf
    <2>2. SchemasSeen \in Seq(Defs) /\ Len(SchemasSeen) \in Nat /\ Len(schemaAudit) = Len(SchemasSeen) - 1
      BY <1>t, SchemasSeenTyped DEF AuditInv, AuditReplays, SchemasSeen
    <2>3. schemas' # <<>> /\ Len(schemas') = Len(SchemasSeen) + 1
      BY <2>1, <2>2
    <2>4. Len(schemaAudit') = Len(schemas') - 1
      BY <2>1, <2>2, <2>3, <1>t
    <2>5. \A i \in DOMAIN schemaAudit' : schemaAudit'[i] = i + 1
      BY <2>1, <2>2, <1>t DEF AuditInv, AuditReplays
    <2> QED BY <2>1, <2>3, <2>4, <2>5 DEF AuditInv, AuditReplays
  <1> QED BY <1>1, <1>2, <1>3, StepIsQuietOrCommits

-----------------------------------------------------------------------------
(* The whole invariant.                                                    *)

StoreInv == /\ TypeInv /\ LockInv /\ WriteInv /\ NumberInv /\ AcceptInv
            /\ NoticesInOrder /\ AuditInv

\* The whole inductive invariant holds of an empty project.
LEMMA InitStoreInv == Init => StoreInv
  <1> SUFFICES ASSUME Init PROVE StoreInv
    OBVIOUS
  <1>1. TypeInv
    BY InitTypeInv
  <1>2. \A t \in Tx : tx[t].pc = "idle"
    BY DEF Init, IdleTx
  <1>3. LockInv /\ NumberInv
    BY <1>2 DEF LockInv, HoldsSchema, NumberInv, Numbered, Inserted, Init
  <1>7. WriteInv
    BY DEF WriteInv, Written, PastUpdate, Init, IdleTx
  <1>4. AcceptInv
    BY <1>2 DEF AcceptInv, Validated, RowsMatchTheirSchema, Inserted, Init
  <1>5. NoticesInOrder
    BY DEF NoticesInOrder, Init
  <1>6. AuditInv
    BY DEF AuditInv, AuditReplays, Init
  <1> QED BY <1>1, <1>3, <1>4, <1>5, <1>6, <1>7 DEF StoreInv

\* Creating an environment, and the first read of the schema.
LEMMA OutsideKeepsStoreInv ==
  ASSUME StoreInv, ReadSchema \/ \E e \in Envs : CreateEnvironment(e)
  PROVE  StoreInv'
  <1>t. TypeInv' /\ TypeInv
    BY OutsideKeepsTypes DEF StoreInv
  <1>1. CASE ReadSchema
    <2>1. /\ UNCHANGED <<envs, current, revision, versions, audit, schemaAudit, notices,
                         schemaLock, envLock, tx, requests>>
          /\ schemas = <<>> /\ schemas' = <<DefaultDef>>
      BY <1>1 DEF ReadSchema
    <2>2. SchemasSeen' = SchemasSeen /\ Definition' = Definition
      BY <2>1 DEF SchemasSeen, Definition
    <2>3. LockInv' /\ WriteInv' /\ NumberInv' /\ NoticesInOrder'
      BY <2>1 DEF StoreInv, LockInv, HoldsSchema, WriteInv, Written,
                  PastUpdate, NumberInv, Numbered, NoticesInOrder
    <2>4. AcceptInv'
      BY <2>1, <2>2 DEF StoreInv, AcceptInv, Validated, RowsMatchTheirSchema, Accepts
    <2>5. AuditInv'
      BY <2>1 DEF StoreInv, AuditInv, AuditReplays
    <2> QED BY <1>t, <2>3, <2>4, <2>5 DEF StoreInv
  <1>2. ASSUME NEW e \in Envs, CreateEnvironment(e) PROVE StoreInv'
    <2>1. /\ UNCHANGED <<current, revision, versions, schemas, schemaAudit, notices,
                         schemaLock, envLock, tx, requests>>
          /\ e \notin envs /\ envs' = envs \cup {e}
          /\ audit' = [audit EXCEPT ![e] = Append(@, 0)]
      BY <1>2 DEF CreateEnvironment
    <2>2. LockInv' /\ WriteInv' /\ NumberInv' /\ NoticesInOrder'
      BY <2>1 DEF StoreInv, LockInv, HoldsSchema, WriteInv, Written,
                  PastUpdate, NumberInv, Numbered, NoticesInOrder
    <2>3. AcceptInv'
      BY <2>1 DEF StoreInv, AcceptInv, Validated, RowsMatchTheirSchema, Accepts,
                  SchemasSeen, Definition
    <2>4. audit \in [Envs -> Seq(Nat)] /\ audit[e] = <<>> /\ revision[e] = 0 /\ current[e] = 0
      BY <1>t, <2>1 DEF StoreInv, AuditInv, TypeInv, TypeOK
    <2>5. audit'[e] = <<0>> /\ \A f \in Envs \ {e} : audit'[f] = audit[f]
      BY <2>1, <2>4
    <2>6. AuditInv'
      BY <2>1, <2>4, <2>5, <1>t DEF StoreInv, AuditInv, AuditReplays, TypeInv, TypeOK
    <2> QED BY <1>t, <2>2, <2>3, <2>6 DEF StoreInv
  <1> QED BY <1>1, <1>2

\* The whole invariant is inductive.
THEOREM StoreInvStep == StoreInv /\ [Next]_vars => StoreInv'
  <1> SUFFICES ASSUME StoreInv, [Next]_vars PROVE StoreInv'
    OBVIOUS
  <1>t. TypeInv'
    BY TypeInvStep DEF StoreInv
  <1>1. CASE UNCHANGED vars
    <2>1. LockInv' /\ WriteInv' /\ NumberInv' /\ NoticesInOrder'
      BY <1>1 DEF vars, tables, StoreInv, LockInv, HoldsSchema, WriteInv, Written,
                  PastUpdate, NumberInv, Numbered, NoticesInOrder
    <2>2. AcceptInv'
      BY <1>1 DEF vars, tables, StoreInv, AcceptInv, Validated, RowsMatchTheirSchema,
                  Accepts, SchemasSeen, Definition
    <2>3. AuditInv'
      BY <1>1 DEF vars, tables, StoreInv, AuditInv, AuditReplays
    <2> QED BY <1>t, <2>1, <2>2, <2>3 DEF StoreInv
  <1>2. CASE ReadSchema \/ \E e \in Envs : CreateEnvironment(e)
    BY <1>2, OutsideKeepsStoreInv
  <1>3. ASSUME NEW t \in Tx, Arrive(t) \/ Step(t) \/ Abort(t) PROVE StoreInv'
    BY <1>3, <1>t, LockInvStep, WriteInvStep, NumberInvStep,
       AcceptInvStep, NoticesStep, AuditStep DEF StoreInv
  <1> QED BY <1>1, <1>2, <1>3 DEF Next

\* The inductive invariant of the write path: types, who holds the schema row, the
\* numbers chosen, what was accepted, the announcements and the audit log.
THEOREM StoreInvariance == Spec => []StoreInv
  BY InitStoreInv, StoreInvStep, PTL DEF Spec

-----------------------------------------------------------------------------
(* The properties.                                                         *)

\* The invariant implies the properties the runs check.
LEMMA StoreInvImplies ==
  StoreInv => /\ StoreTypeOK /\ NoVersionConflict /\ RowsMatchTheirSchema
              /\ AuditReplays /\ NoticesInOrder
  <1> SUFFICES ASSUME StoreInv
               PROVE  /\ StoreTypeOK /\ NoVersionConflict /\ RowsMatchTheirSchema
                      /\ AuditReplays /\ NoticesInOrder
    OBVIOUS
  <1>1. StoreTypeOK
    BY DEF StoreInv, TypeInv, NumberInv, StoreTypeOK
  <1>2. ASSUME NEW t \in Tx, At(t, "put", "insert")
        PROVE  ~NumberTaken(t) /\ ~NumberHeldByOther(t)
    <2>1. tx[t].num = Len(versions[tx[t].env]) + 1 /\ schemaLock = t
      BY <1>2 DEF StoreInv, NumberInv, Numbered, LockInv, HoldsSchema, At
    <2>2. Len(versions[tx[t].env]) \in Nat
      BY <1>2 DEF StoreInv, TypeInv, TypeOK, ShapeOf, At
    <2>3. ~NumberHeldByOther(t)
      BY <2>1 DEF NumberHeldByOther, StoreInv, LockInv, HoldsSchema
    <2> QED BY <2>1, <2>2, <2>3 DEF NumberTaken
  <1> QED
    BY <1>1, <1>2 DEF NoVersionConflict, StoreInv, AcceptInv, AuditInv

\* The store is well typed and the live version of an environment exists.
THEOREM StoreTypeCorrect == Spec => []StoreTypeOK
  BY StoreInvariance, StoreInvImplies, PTL

\* The config_schema lock keeps concurrent saves from ever choosing one number.
THEOREM VersionsNeverConflict == Spec => []NoVersionConflict
  BY StoreInvariance, StoreInvImplies, PTL

\* Every row was accepted by the definition whose schema_version it records.
THEOREM RowsAlwaysMatch == Spec => []RowsMatchTheirSchema
  BY StoreInvariance, StoreInvImplies, PTL

\* The audit log replays the tables.
THEOREM AuditAlwaysReplays == Spec => []AuditReplays
  BY StoreInvariance, StoreInvImplies, PTL

\* Every revision is announced once and in order.
THEOREM NoticesAlwaysInOrder == Spec => []NoticesInOrder
  BY StoreInvariance, StoreInvImplies, PTL

-----------------------------------------------------------------------------
(* The store implements RevisionLog.                                       *)

\* Every entry of the audit log after the creation names a version that exists.
EntriesInv ==
  \A e \in Envs : \A i \in DOMAIN audit[e] :
    i > 1 => audit[e][i] \in 1..Len(versions[e])

\* Before the first write every environment has an empty log.
LEMMA InitImplementsLog ==
  ASSUME Init, NEW e \in Envs
  PROVE  Log(e)!LogInit
  <1>1. revision[e] = 0
    BY DEF Init
  <1> QED BY <1>1 DEF LiveLog, Log!LogInit

\* A write of e adds one entry to e's log and touches nobody else's.
LEMMA WriteAppends ==
  ASSUME StoreInv, EntriesInv, NEW t \in Tx, CommitPut(t) \/ CommitRollback(t)
  PROVE  /\ EntriesInv'
         /\ \E e \in Envs : /\ \E p \in Payloads : LiveLog(e)' = Append(LiveLog(e), p)
                           /\ \A f \in Envs \ {e} : LiveLog(f)' = LiveLog(f)
  <1>t. /\ ShapeOf(tx[t]) /\ tx[t] \in TxState /\ envs \subseteq Envs /\ Numbered(tx[t])
        /\ audit \in [Envs -> Seq(Nat)] /\ revision \in [Envs -> Nat]
        /\ versions \in [Envs -> Seq(Row)]
    BY DEF StoreInv, TypeInv, TypeOK, NumberInv
  <1>e. PICK e \in Envs, n \in Nat : e = tx[t].env /\ n = tx[t].num
    BY <1>t DEF CommitPut, CommitRollback, At, ShapeOf, TxState
  <1>1. e \in envs /\ Len(audit[e]) = revision[e] + 1
    BY <1>t, <1>e DEF CommitPut, CommitRollback, At, ShapeOf, TxState, StoreInv, AuditInv, AuditReplays
  <1>2. /\ revision' = [revision EXCEPT ![e] = @ + 1]
        /\ audit' = [audit EXCEPT ![e] = Append(@, n)]
    BY <1>e, CommitWritesOne DEF WritesOne, StoreInv
  \* The rows that were there are there, and n is one now.
  <1>3. /\ versions' \in [Envs -> Seq(Row)]
        /\ \A f \in Envs \ {e} : versions'[f] = versions[f]
        /\ \A i \in 1..Len(versions[e]) : i \in 1..Len(versions'[e]) /\ versions'[e][i] = versions[e][i]
        /\ n \in 1..Len(versions'[e])
    <2>1. CASE CommitPut(t)
      <3> DEFINE row == [payload |-> tx[t].arg, schema |-> tx[t].seen]
      <3>1. versions' = [versions EXCEPT ![e] = Append(@, row)] /\ n = Len(versions[e]) + 1
        BY <2>1, <1>t, <1>e DEF CommitPut, At, Numbered, Inserted
      <3>2. row \in Row
        BY <2>1, <1>t DEF CommitPut, At, ShapeOf, Row, TxState
      <3> HIDE DEF row
      <3> QED BY <3>1, <3>2, <1>1, <1>t
    <2>2. CASE CommitRollback(t)
      <3>1. versions' = versions /\ n \in 1..Len(versions[e])
        BY <2>2, <1>t, <1>e DEF CommitRollback, At, Numbered, Inserted
      <3> QED BY <3>1, <1>1, <1>t
    <2> QED BY <2>1, <2>2
  <1>4. /\ audit'[e] = Append(audit[e], n) /\ \A f \in Envs \ {e} : audit'[f] = audit[f]
        /\ Len(audit'[e]) = revision[e] + 2
        /\ \A i \in 1..revision[e] + 1 : audit'[e][i] = audit[e][i]
        /\ audit'[e][revision[e] + 2] = n
    BY <1>1, <1>2, <1>t
  <1>5. ASSUME NEW f \in Envs, NEW i \in DOMAIN audit'[f], i > 1
        PROVE  audit'[f][i] \in 1..Len(versions'[f])
    <2>1. CASE f # e
      BY <2>1, <1>3, <1>4, <1>5 DEF EntriesInv
    <2>2. CASE f = e
      <3>1. i \in 1..revision[e] + 2 /\ DOMAIN audit[e] = 1..revision[e] + 1
        BY <2>2, <1>1, <1>4, <1>t
      <3>2. CASE i = revision[e] + 2
        BY <3>2, <2>2, <1>3, <1>4
      <3>3. CASE i # revision[e] + 2
        <4>1. i \in DOMAIN audit[e] /\ audit'[e][i] = audit[e][i]
          BY <3>1, <3>3, <1>1, <1>4, <1>t
        <4> QED BY <4>1, <2>2, <1>1, <1>3, <1>5 DEF EntriesInv
      <3> QED BY <3>2, <3>3
    <2> QED BY <2>1, <2>2
  <1>6. \A f \in Envs \ {e} : LiveLog(f)' = LiveLog(f)
    BY <1>2, <1>3, <1>4, <1>t DEF LiveLog
  <1>7. PICK p \in Payloads : p = versions'[e][n].payload
    <2>1. versions'[e] \in Seq(Row)
      BY <1>3
    <2>2. versions'[e][n] \in Row
      BY <2>1, <1>3
    <2> QED BY <2>2 DEF Row
  <1>8. LiveLog(e)' = Append(LiveLog(e), p)
    <2>1. \A r \in 1..revision[e] : versions'[e][audit'[e][r + 1]].payload = versions[e][audit[e][r + 1]].payload
      <3> TAKE r \in 1..revision[e]
      <3>1. r + 1 \in 1..revision[e] + 1 /\ r + 1 > 1 /\ DOMAIN audit[e] = 1..revision[e] + 1
        BY <1>1, <1>t
      <3>2. audit'[e][r + 1] = audit[e][r + 1] /\ audit[e][r + 1] \in 1..Len(versions[e])
        BY <3>1, <1>1, <1>4 DEF EntriesInv
      <3> QED BY <3>2, <1>3
    <2>2. versions'[e][audit'[e][(revision[e] + 1) + 1]].payload = p
      BY <1>4, <1>7, <1>1, <1>t
    <2>3. revision'[e] = revision[e] + 1 /\ revision[e] \in Nat
      BY <1>1, <1>2, <1>t
    <2> DEFINE old == LiveLog(e)
               g(r) == versions'[e][audit'[e][r + 1]].payload
    <2>4. LiveLog(e)' = [r \in 1..revision[e] + 1 |-> g(r)]
      BY <2>3 DEF LiveLog
    <2>5. old = [r \in 1..revision[e] |-> g(r)]
      BY <2>1 DEF LiveLog
    <2>6. g(revision[e] + 1) = p
      BY <2>2
    <2> HIDE DEF old, g
    <2>7. Append([r \in 1..revision[e] |-> g(r)], g(revision[e] + 1)) = [r \in 1..revision[e] + 1 |-> g(r)]
      BY <2>3
    <2> QED BY <2>4, <2>5, <2>6, <2>7 DEF old
  <1> QED BY <1>5, <1>6, <1>8 DEF EntriesInv

\* Nothing else changes a log.
LEMMA OthersKeepLogs ==
  ASSUME StoreInv, EntriesInv,
         \/ UNCHANGED vars
         \/ ReadSchema
         \/ \E e \in Envs : CreateEnvironment(e)
         \/ \E t \in Tx : Quietly(t) \/ CommitSchema(t)
  PROVE  EntriesInv' /\ \A f \in Envs : UNCHANGED LiveLog(f)
  <1>1. CASE UNCHANGED <<audit, revision, versions>>
    BY <1>1 DEF EntriesInv, LiveLog
  <1>2. ASSUME NEW e \in Envs, CreateEnvironment(e)
        PROVE  EntriesInv' /\ \A f \in Envs : UNCHANGED LiveLog(f)
    <2>1. audit \in [Envs -> Seq(Nat)] /\ audit[e] = <<>> /\ revision[e] = 0
      BY <1>2 DEF CreateEnvironment, StoreInv, AuditInv, TypeInv, TypeOK
    <2>2. audit'[e] = <<0>> /\ \A f \in Envs \ {e} : audit'[f] = audit[f]
      BY <1>2, <2>1 DEF CreateEnvironment
    <2>3. versions' = versions /\ revision' = revision
      BY <1>2 DEF CreateEnvironment
    <2>4. EntriesInv'
      BY <2>2, <2>3 DEF EntriesInv
    <2>5. \A f \in Envs \ {e} : LiveLog(f)' = LiveLog(f)
      BY <2>2, <2>3 DEF LiveLog
    <2>6. LiveLog(e)' = LiveLog(e)
      BY <2>1, <2>3 DEF LiveLog
    <2> QED BY <2>4, <2>5, <2>6
  <1>3. ASSUME NEW t \in Tx, Quietly(t) PROVE UNCHANGED <<audit, revision, versions>>
    BY <1>3, QuietlyKeepsTables DEF tables
  <1> QED
    BY <1>1, <1>2, <1>3 DEF vars, tables, ReadSchema, CommitSchema

\* A step of the store publishes at most one entry of each log.
LEMMA LogStep ==
  ASSUME StoreInv, EntriesInv, [Next]_vars
  PROVE  EntriesInv' /\ \A f \in Envs : Log(f)!LogNext \/ UNCHANGED LiveLog(f)
  <1>1. CASE \E t \in Tx : CommitPut(t) \/ CommitRollback(t)
    BY <1>1, WriteAppends DEF Log!LogNext, Log!Publish
  <1>2. CASE ~\E t \in Tx : CommitPut(t) \/ CommitRollback(t)
    BY <1>2, OthersKeepLogs, StepIsQuietOrCommits DEF Next
  <1> QED BY <1>1, <1>2

\* Every environment's log is published one entry at a time and never altered.
THEOREM StoreImplementsRevisionLog == Spec => ImplementsRevisionLog
  <1>1. Init => EntriesInv /\ \A e \in Envs : Log(e)!LogInit
    <2>1. Init => EntriesInv
      BY DEF Init, EntriesInv
    <2> QED BY <2>1, InitImplementsLog
  <1>2. StoreInv /\ EntriesInv /\ [Next]_vars => EntriesInv'
    BY LogStep
  <1>3. Spec => []EntriesInv
    BY <1>1, <1>2, StoreInvariance, PTL DEF Spec
  <1>4. StoreInv /\ EntriesInv /\ [Next]_vars
          => [\A e \in Envs : Log(e)!LogNext \/ UNCHANGED LiveLog(e)]_vars
    BY LogStep
  <1> QED
    BY <1>1, <1>3, <1>4, StoreInvariance, PTL DEF Spec, ImplementsRevisionLog

-----------------------------------------------------------------------------
(* Saves and schema changes alone keep the live values valid.              *)

\* d accepts what is live in e, if e is an environment the property speaks of.
LiveUnder(d, e) ==
  current[e] # 0 /\ NeverRolledBack(e) => <<d, LivePayload(e)>> \in ValuesOK

\* A schema change in its loop has checked every environment it no longer has to do.
ChecksDone(s) ==
  s.kind = "schema" /\ s.pc = "check"
    => \A e \in envs \ s.todo : LiveUnder(s.arg, e)

\* Without a rollback an environment has as many versions as revisions, so that a
\* rollback always shows in its audit log.
LiveInv ==
  /\ \A e \in Envs \ envs : versions[e] = <<>>
  /\ \A e \in envs : NeverRolledBack(e) => Len(versions[e]) = revision[e]
  /\ \A e \in envs : LiveUnder(Definition, e)
  /\ \A t \in Tx : ChecksDone(tx[t])

\* A statement that is no commit keeps what handlePutSchema has checked true: nobody
\* saves while it holds the config_schema row.
LEMMA QuietlyChecks ==
  ASSUME TypeInv, LiveInv, NEW t \in Tx, Quietly(t)
  PROVE  ChecksDone(tx[t])'
  <1>t. tx \in [Tx -> TxState] /\ tx[t] \in TxState /\ ChecksDone(tx[t]) /\ ShapeOf(tx[t])
    BY DEF TypeInv, TypeOK, LiveInv
  <1>v. /\ envs' = envs
        /\ \A d, e : LiveUnder(d, e)' = LiveUnder(d, e)
    BY QuietlyKeepsTables DEF tables, LiveUnder, NeverRolledBack, LivePayload
  <1>1. CASE SchemaList(t)
    <2>1. tx'[t].todo = {e \in envs : current[e] # 0}
      BY <1>1, <1>t DEF SchemaList, TxState
    <2> QED BY <2>1, <1>v DEF ChecksDone, LiveUnder
  <1>2. ASSUME NEW e \in Envs, SchemaCheck(t, e) PROVE ChecksDone(tx[t])'
    <2>1. tx'[t].todo = tx[t].todo \ {e} /\ tx'[t].arg = tx[t].arg
      BY <1>2, <1>t DEF SchemaCheck, TxState
    <2>2. LiveUnder(tx[t].arg, e)
      BY <1>2 DEF SchemaCheck, LiveUnder
    <2>3. \A f \in envs \ tx[t].todo : LiveUnder(tx[t].arg, f)
      BY <1>2, <1>t DEF SchemaCheck, At, ChecksDone
    <2> QED BY <2>1, <2>2, <2>3, <1>v DEF ChecksDone
  <1>3. CASE Arrive(t) \/ RollBack(t)
    BY <1>3, FreshHoldsNothing DEF ChecksDone
  <1>4. CASE InitSchema(t) \/ SchemaLock(t) \/ PutLockAndValidate(t) \/ PutNumber(t)
    <2>1. tx'[t].pc \in {"lock", "list", "number", "insert"}
      <3>1. CASE InitSchema(t) \/ SchemaLock(t)
        BY <3>1, <1>t DEF InitSchema, SchemaLock, Goto, TxState
      <3>2. CASE PutLockAndValidate(t) \/ PutNumber(t)
        BY <3>2, <1>t DEF PutLockAndValidate, PutNumber, TxState
      <3> QED BY <1>4, <3>1, <3>2
    <2> QED BY <2>1 DEF ChecksDone
  <1>5. CASE (PutInsert(t) /\ ~NumberTaken(t)) \/ RollbackRead(t) \/ Writing(t)
    <2>1. tx'[t].pc # "check"
      <3>1. CASE (PutInsert(t) /\ ~NumberTaken(t)) \/ RollbackRead(t)
        BY <3>1, <1>t DEF PutInsert, RollbackRead, Goto, TxState
      <3> QED BY <3>1, <1>5, WritingMoves
    <2> QED BY <2>1 DEF ChecksDone
  <1> QED BY <1>1, <1>2, <1>3, <1>4, <1>5 DEF Quietly

\* What a write of e does to the environments the property speaks of: e's log grew.
LEMMA WriteShows ==
  ASSUME TypeInv, NEW e \in envs, NEW n \in Nat, WritesOne(e, n)
  PROVE  /\ NeverRolledBack(e)' => NeverRolledBack(e) /\ n = Len(audit[e])
         /\ \A f \in envs \ {e} : NeverRolledBack(f)' = NeverRolledBack(f)
  <1>1. e \in Envs /\ envs \subseteq Envs /\ audit \in [Envs -> Seq(Nat)]
    BY DEF TypeInv, TypeOK
  <1>2. audit'[e] = Append(audit[e], n) /\ \A f \in envs \ {e} : audit'[f] = audit[f]
    BY <1>1 DEF WritesOne
  <1>3. /\ \A i \in DOMAIN audit[e] : i \in DOMAIN audit'[e] /\ audit'[e][i] = audit[e][i]
        /\ Len(audit[e]) + 1 \in DOMAIN audit'[e] /\ audit'[e][Len(audit[e]) + 1] = n
        /\ Len(audit[e]) \in Nat
    BY <1>1, <1>2
  <1>4. NeverRolledBack(e)' => NeverRolledBack(e) /\ n = Len(audit[e])
    BY <1>3 DEF NeverRolledBack
  <1> QED BY <1>2, <1>4 DEF NeverRolledBack

\* A step of one request keeps the live values valid where nothing was rolled back.
LEMMA LiveInvStep ==
  ASSUME StoreInv, LiveInv, NEW t \in Tx, Arrive(t) \/ Step(t) \/ Abort(t)
  PROVE  LiveInv'
  <1>t. /\ TypeInv /\ LockInv /\ WriteInv /\ NumberInv /\ AcceptInv /\ AuditInv
        /\ tx[t] \in TxState /\ ShapeOf(tx[t]) /\ Numbered(tx[t]) /\ Validated(tx[t])
        /\ ChecksDone(tx[t])
        /\ envs \subseteq Envs /\ versions \in [Envs -> Seq(Row)]
        /\ current \in [Envs -> Nat] /\ revision \in [Envs -> Nat]
    BY DEF StoreInv, TypeInv, TypeOK, NumberInv, AcceptInv, LiveInv
  <1>o. \A u \in Tx \ {t} : tx'[u] = tx[u]
    BY <1>t, OthersKept
  <1>1. CASE Quietly(t)
    <2>1. UNCHANGED tables
      BY <1>1, QuietlyKeepsTables
    <2>2. \A d, e : LiveUnder(d, e)' = LiveUnder(d, e) /\ NeverRolledBack(e)' = NeverRolledBack(e)
      BY <2>1 DEF tables, LiveUnder, NeverRolledBack, LivePayload
    <2>3. Definition' = Definition /\ UNCHANGED <<envs, versions, revision>>
      BY <2>1 DEF tables, Definition, SchemasSeen
    <2>4. \A u \in Tx : ChecksDone(tx[u])'
      BY <1>1, <1>t, <1>o, <2>2, <2>3, QuietlyChecks DEF LiveInv, ChecksDone
    <2> QED BY <2>2, <2>3, <2>4 DEF LiveInv
  <1>2. CASE CommitSchema(t)
    <2>1. /\ UNCHANGED <<envs, versions, revision, current, audit>>
          /\ schemas' = Append(SchemasSeen, tx[t].arg) /\ tx[t].arg \in Defs
          /\ tx[t].kind = "schema" /\ tx[t].pc = "check" /\ tx[t].todo = {}
      BY <1>2, <1>t DEF CommitSchema, At, ShapeOf
    <2>2. \A d, e : LiveUnder(d, e)' = LiveUnder(d, e) /\ NeverRolledBack(e)' = NeverRolledBack(e)
      BY <2>1 DEF LiveUnder, NeverRolledBack, LivePayload
    <2>3. Definition' = tx[t].arg
      <3>1. schemas' \in Seq(Defs) /\ schemas' # <<>> /\ schemas'[Len(schemas')] = tx[t].arg
        BY <2>1, <1>t, SchemasSeenTyped
      <3> QED BY <3>1 DEF Definition, SchemasSeen
    <2>4. \A u \in Tx \ {t} : ChecksDone(tx[u])'
      BY <1>2, <1>o, <1>t, OneSaveAtATime DEF ChecksDone, HoldsSchema
    <2>5. ChecksDone(tx[t])'
      BY <1>2, <1>t, FreshHoldsNothing DEF ChecksDone
    <2>6. \A e \in envs : LiveUnder(tx[t].arg, e)
      BY <2>1, <1>t DEF ChecksDone
    <2> QED BY <2>1, <2>2, <2>3, <2>4, <2>5, <2>6 DEF LiveInv
  <1>3. CASE CommitPut(t)
    <2>e. PICK e \in envs, n \in Nat, p \in Payloads :
            e = tx[t].env /\ n = tx[t].num /\ p = tx[t].arg
      BY <1>3, <1>t DEF CommitPut, At, ShapeOf, TxState
    <2>1. /\ e \in Envs /\ n = Len(versions[e]) + 1 /\ Accepts(Definition, p)
          /\ Len(audit[e]) = revision[e] + 1
      BY <1>3, <1>t, <2>e DEF CommitPut, At, Numbered, Validated, AuditInv, AuditReplays, Inserted
    <2>2. /\ WritesOne(e, n) /\ envs' = envs /\ schemas' = SchemasSeen
          /\ versions' = [versions EXCEPT ![e] = Append(@, [payload |-> p, schema |-> tx[t].seen])]
      BY <1>3, <1>t, <2>e, CommitWritesOne DEF CommitPut
    <2>3. Definition' = Definition
      BY <2>2, SchemasSeenTyped, <1>t DEF Definition, SchemasSeen
    <2>4. /\ Len(versions'[e]) = Len(versions[e]) + 1 /\ versions'[e][n].payload = p
          /\ \A f \in Envs \ {e} : versions'[f] = versions[f]
      <3>1. [payload |-> p, schema |-> tx[t].seen] \in Row
        BY <1>t DEF Row, TxState
      <3> QED BY <3>1, <2>1, <2>2, <1>t
    <2>5. /\ current' = [current EXCEPT ![e] = n] /\ revision' = [revision EXCEPT ![e] = @ + 1]
      BY <2>2 DEF WritesOne
    <2>6. /\ NeverRolledBack(e)' => NeverRolledBack(e)
          /\ \A f \in envs \ {e} : NeverRolledBack(f)' = NeverRolledBack(f)
      BY <2>2, <1>t, WriteShows
    <2>7. \A f \in Envs \ envs : versions'[f] = <<>>
      BY <2>4 DEF LiveInv
    <2>8. \A f \in envs : NeverRolledBack(f)' => Len(versions'[f]) = revision'[f]
      BY <2>1, <2>4, <2>5, <2>6, <1>t DEF LiveInv
    <2>9. \A f \in envs : LiveUnder(Definition, f)'
      <3>1. LiveUnder(Definition, e)'
        BY <2>1, <2>3, <2>4, <2>5, <1>t DEF LiveUnder, LivePayload, Accepts
      <3>2. ASSUME NEW f \in envs \ {e} PROVE LiveUnder(Definition, f)'
        <4>1. current'[f] = current[f] /\ versions'[f] = versions[f]
          BY <2>4, <2>5, <1>t
        <4> QED BY <4>1, <2>3, <2>6 DEF LiveInv, LiveUnder, LivePayload
      <3> QED BY <3>1, <3>2
    <2>10. \A u \in Tx : ChecksDone(tx[u])'
      <3>1. \A u \in Tx \ {t} : ChecksDone(tx[u])'
        BY <1>3, <1>o, <1>t, OneSaveAtATime DEF ChecksDone, HoldsSchema
      <3>2. ChecksDone(tx[t])'
        BY <1>3, <1>t, FreshHoldsNothing DEF ChecksDone
      <3> QED BY <3>1, <3>2
    <2> QED BY <2>2, <2>7, <2>8, <2>9, <2>10 DEF LiveInv
  <1>4. CASE CommitRollback(t)
    <2>e. PICK e \in envs, n \in Nat : e = tx[t].env /\ n = tx[t].num
      BY <1>4, <1>t DEF CommitRollback, At, ShapeOf, TxState
    <2>1. /\ e \in Envs /\ n \in 1..Len(versions[e]) /\ Len(audit[e]) = revision[e] + 1
      BY <1>4, <1>t, <2>e DEF CommitRollback, At, Numbered, AuditInv, AuditReplays, Inserted
    <2>2. WritesOne(e, n) /\ UNCHANGED <<envs, versions, schemas>>
      BY <1>4, <1>t, <2>e, CommitWritesOne DEF CommitRollback
    <2>3. ~NeverRolledBack(e)' /\ \A f \in envs \ {e} : NeverRolledBack(f)' = NeverRolledBack(f)
      BY <2>1, <2>2, <1>t, WriteShows DEF LiveInv
    <2>4. /\ \A f \in envs \ {e} : current'[f] = current[f] /\ revision'[f] = revision[f]
          /\ Definition' = Definition
      BY <2>2, <1>t DEF WritesOne, Definition, SchemasSeen
    <2>5. \A d : \A f \in envs : LiveUnder(d, f) => (current'[f] # 0 /\ NeverRolledBack(f)' => <<d, versions'[f][current'[f]].payload>> \in ValuesOK)
      BY <2>2, <2>3, <2>4 DEF LiveUnder, LivePayload
    <2>6. \A f \in envs : LiveUnder(Definition, f)'
      BY <2>4, <2>5 DEF LiveInv, LiveUnder, LivePayload
    <2>7. \A u \in Tx : ChecksDone(tx[u])'
      <3>1. ASSUME NEW u \in Tx \ {t} PROVE ChecksDone(tx[u])'
        <4>1. tx'[u] = tx[u] /\ ChecksDone(tx[u])
          BY <1>o DEF LiveInv
        <4>2. SUFFICES ASSUME tx[u].kind = "schema", tx[u].pc = "check",
                              NEW f \in envs \ tx[u].todo
                       PROVE  LiveUnder(tx[u].arg, f)'
          BY <4>1, <2>2 DEF ChecksDone
        <4>3. LiveUnder(tx[u].arg, f)
          BY <4>1, <4>2 DEF ChecksDone
        <4> QED BY <4>1, <4>3, <2>2, <2>5 DEF LiveUnder, LivePayload
      <3>2. ChecksDone(tx[t])'
        BY <1>4, <1>t, FreshHoldsNothing DEF ChecksDone
      <3> QED BY <3>1, <3>2
    <2> QED BY <2>2, <2>3, <2>4, <2>6, <2>7 DEF LiveInv
  <1> QED BY <1>1, <1>2, <1>3, <1>4, StepIsQuietOrCommits

\* So do a new environment and the first read of the schema.
LEMMA OutsideKeepsLiveInv ==
  ASSUME StoreInv, LiveInv, ReadSchema \/ \E e \in Envs : CreateEnvironment(e)
  PROVE  LiveInv'
  <1>1. CASE ReadSchema
    <2>1. UNCHANGED <<envs, current, revision, versions, audit, tx>>
      BY <1>1 DEF ReadSchema
    <2>2. Definition' = Definition
      BY <1>1 DEF ReadSchema, Definition, SchemasSeen
    <2> QED BY <2>1, <2>2 DEF LiveInv, LiveUnder, NeverRolledBack, LivePayload, ChecksDone
  <1>2. ASSUME NEW e \in Envs, CreateEnvironment(e) PROVE LiveInv'
    <2>1. /\ UNCHANGED <<current, revision, versions, schemas, tx>>
          /\ e \notin envs /\ envs' = envs \cup {e} /\ envs \subseteq Envs
          /\ audit' = [audit EXCEPT ![e] = Append(@, 0)] /\ audit \in [Envs -> Seq(Nat)]
          /\ current[e] = 0 /\ revision[e] = 0 /\ versions[e] = <<>>
      BY <1>2 DEF CreateEnvironment, StoreInv, AuditInv, TypeInv, TypeOK, LiveInv
    <2>2. \A f \in envs : NeverRolledBack(f)' = NeverRolledBack(f)
      BY <2>1 DEF NeverRolledBack
    <2>3. \A d : LiveUnder(d, e)' /\ \A f \in envs : LiveUnder(d, f)' = LiveUnder(d, f)
      BY <2>1, <2>2 DEF LiveUnder, LivePayload
    <2>4. Definition' = Definition
      BY <2>1 DEF Definition, SchemasSeen
    <2>5. \A f \in envs' : NeverRolledBack(f)' => Len(versions'[f]) = revision'[f]
      BY <2>1, <2>2 DEF LiveInv
    <2>6. \A t \in Tx : ChecksDone(tx[t])'
      BY <2>1, <2>3 DEF LiveInv, ChecksDone
    <2>7. \A f \in envs' : LiveUnder(Definition, f)'
      BY <2>1, <2>3, <2>4 DEF LiveInv
    <2> QED BY <2>1, <2>5, <2>6, <2>7 DEF LiveInv
  <1> QED BY <1>1, <1>2

\* The values live in an environment that was never rolled back satisfy the schema.
THEOREM LiveValuesStayValid == Spec => []LiveValuesValidUnlessRolledBack
  <1>1. Init => LiveInv
    BY DEF Init, LiveInv, LiveUnder, ChecksDone, IdleTx
  <1>2. StoreInv /\ LiveInv /\ [Next]_vars => LiveInv'
    <2> SUFFICES ASSUME StoreInv, LiveInv, [Next]_vars PROVE LiveInv'
      OBVIOUS
    <2>1. CASE UNCHANGED vars
      BY <2>1 DEF vars, tables, LiveInv, LiveUnder, NeverRolledBack, LivePayload,
                  ChecksDone, Definition, SchemasSeen
    <2> QED BY <2>1, LiveInvStep, OutsideKeepsLiveInv DEF Next
  <1>3. LiveInv => LiveValuesValidUnlessRolledBack
    BY DEF LiveInv, LiveUnder, LiveValuesValidUnlessRolledBack
  <1> QED BY <1>1, <1>2, <1>3, StoreInvariance, PTL DEF Spec
=============================================================================
