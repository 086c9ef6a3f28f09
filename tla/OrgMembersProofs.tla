-------------------------- MODULE OrgMembersProofs --------------------------
(***************************************************************************)
(* Proofs about OrgMembers, for any users, requests and roles: the guard   *)
(* against removing the last owner does what it can do, and the one way    *)
(* around it is a target role that was read too early.                     *)
(***************************************************************************)
EXTENDS OrgMembers, FiniteSetTheorems, TLAPS

\* What a request knows and holds at each place.
Shape(t) ==
  /\ tx[t].pc # "idle" => tx[t].target \in Users
  /\ tx[t].pc \in {"account", "create", "insert"} => tx[t].new \in Roles
  /\ tx[t].pc = "insert" /\ ~tx[t].created => tx[t].target \in accounts
  /\ tx[t].pc \in {"read", "count"} => tx[t].counted = {}

TypeInv == OrgTypeOK /\ \A t \in Tx : Shape(t)

\* The owners a request has counted are owners, and it holds their rows.
Counted(t) == \A u \in tx[t].counted : rowLock[u] = t /\ role[u] = "owner"

\* Past the guard, one of them is not the target.
GuardInv ==
  \A t \in Tx :
    /\ tx[t].pc = "counting" => Counted(t)
    /\ tx[t].pc = "write" /\ Guarded(t, tx[t].seen)
         => Counted(t) /\ \E u \in tx[t].counted : u # tx[t].target

\* A request slot with no request in it is well typed.
LEMMA IdleIsTyped == IdleTx \in TxState
  BY DEF IdleTx, TxState

\* A step of one request leaves the others where they are, but for rows their scans
\* have yet to reach.
LEMMA OthersKept ==
  ASSUME TypeInv, NEW t \in Tx, NEW s \in Tx, s # t, Arrive(t) \/ Step(t) \/ Abort(t)
  PROVE  /\ tx'[s] \in TxState
         /\ tx'[s].pc = tx[s].pc /\ tx'[s].target = tx[s].target
         /\ tx'[s].new = tx[s].new /\ tx'[s].seen = tx[s].seen
         /\ tx'[s].counted = tx[s].counted /\ tx'[s].created = tx[s].created
         /\ \A u \in Users : rowLock[u] = s => rowLock'[u] = s
  <1>t. tx \in [Tx -> TxState] /\ rowLock \in [Users -> Tx \cup {None}] /\ tx[s] \in TxState
        /\ s # None
    BY MembersAssumption DEF TypeInv, OrgTypeOK
  <1>1. CASE Arrive(t)
    BY <1>1, <1>t, Zenon DEF Arrive, BeginAddMember, BeginUpdateMemberRole, BeginRemoveMember, Begin
  <1>2. CASE ReadTarget(t) \/ CountOwners(t)
    BY <1>2, <1>t DEF ReadTarget, CountOwners
  <1>3. CASE \E u \in Users : LockOwner(t, u)
    BY <1>3, <1>t DEF LockOwner
  <1>4. CASE GuardPasses(t) \/ FindAccount(t)
    BY <1>4, <1>t DEF GuardPasses, FindAccount, Goto
  <1>5. CASE WriteMember(t)
    <2>1. tx'[s] = tx[s] \/ tx'[s] = [tx[s] EXCEPT !.todo = @ \ {tx[t].target}]
      BY <1>5, <1>t DEF WriteMember
    <2>2. \A u \in Users : rowLock[u] = s => rowLock'[u] = s
      BY <1>5, <1>t DEF WriteMember, Unlock
    <2>3. CASE tx'[s] = tx[s]
      BY <2>2, <2>3, <1>t
    <2>4. CASE tx'[s] = [tx[s] EXCEPT !.todo = @ \ {tx[t].target}]
      BY <2>2, <2>4, <1>t DEF TxState
    <2> QED BY <2>1, <2>3, <2>4
  <1>6. CASE RollBack(t)
    BY <1>6, <1>t DEF RollBack, Finish, Unlock
  <1>7. CASE CreateUser(t)
    BY <1>6, <1>7, <1>t DEF CreateUser
  <1>8. CASE InsertMember(t)
    BY <1>6, <1>8, <1>t DEF InsertMember, Finish, Unlock
  <1> QED
    BY <1>1, <1>2, <1>3, <1>4, <1>5, <1>6, <1>7, <1>8
       DEF Step, Abort, TargetUnknown, GuardRefuses, WriteNobody

\* A request that has just arrived.
LEMMA BeginTyped ==
  ASSUME TypeInv, NEW t \in Tx, Arrive(t)
  PROVE  /\ tx'[t] \in TxState /\ tx' \in [Tx -> TxState] /\ requests' \in Nat
         /\ UNCHANGED <<role, accounts, rowLock>>
         /\ tx'[t].pc \in {"account", "read"} /\ tx'[t].target \in Users /\ tx'[t].counted = {}
         /\ tx'[t].pc = "account" => tx'[t].new \in Roles
  <1>t. tx \in [Tx -> TxState] /\ requests \in Nat
    BY DEF TypeInv, OrgTypeOK
  <1> DEFINE Goal == /\ tx'[t] \in TxState /\ tx' \in [Tx -> TxState] /\ requests' \in Nat
                     /\ UNCHANGED <<role, accounts, rowLock>>
                     /\ tx'[t].pc \in {"account", "read"} /\ tx'[t].target \in Users /\ tx'[t].counted = {}
                     /\ tx'[t].pc = "account" => tx'[t].new \in Roles
  <1>1. ASSUME NEW caller \in Users, NEW min, NEW s \in TxState, Begin(t, caller, min, s),
               s.pc \in {"account", "read"}, s.target \in Users, s.counted = {},
               s.pc = "account" => s.new \in Roles
        PROVE  Goal
    <2>1. tx'[t] = s /\ tx' \in [Tx -> TxState]
      BY <1>1, <1>t DEF Begin
    <2> QED BY <2>1, <1>1, <1>t DEF Begin
  <1>2. ASSUME NEW caller \in Users, NEW u \in Users, NEW r \in Roles,
               BeginAddMember(t, caller, u, r)
        PROVE  Goal
    <2> DEFINE s == [IdleTx EXCEPT !.pc = "account", !.target = u, !.new = r]
    <2>1. s \in TxState /\ s.pc = "account" /\ s.target = u /\ s.counted = {} /\ s.new = r
      BY DEF IdleTx, TxState
    <2>2. Begin(t, caller, "admin", s)
      BY <1>2 DEF BeginAddMember
    <2> HIDE DEF s, Goal
    <2> QED BY <2>1, <2>2, <1>1
  <1>3. ASSUME NEW caller \in Users, NEW u \in Users, NEW r \in Roles,
               BeginUpdateMemberRole(t, caller, u, r)
        PROVE  Goal
    <2> DEFINE s == [IdleTx EXCEPT !.pc = "read", !.target = u, !.new = r]
    <2>1. s \in TxState /\ s.pc = "read" /\ s.target = u /\ s.counted = {}
      BY DEF IdleTx, TxState
    <2>2. Begin(t, caller, "owner", s)
      BY <1>3 DEF BeginUpdateMemberRole
    <2> HIDE DEF s, Goal
    <2> QED BY <2>1, <2>2, <1>1
  <1>4. ASSUME NEW caller \in Users, NEW u \in Users, BeginRemoveMember(t, caller, u)
        PROVE  Goal
    <2> DEFINE s == [IdleTx EXCEPT !.pc = "read", !.target = u]
    <2>1. s \in TxState /\ s.pc = "read" /\ s.target = u /\ s.counted = {}
      BY DEF IdleTx, TxState
    <2>2. Begin(t, caller, "owner", s)
      BY <1>4 DEF BeginRemoveMember
    <2> HIDE DEF s, Goal
    <2> QED BY <2>1, <2>2, <1>1
  <1>5. Goal
    <2> HIDE DEF Goal
    <2> QED BY <1>2, <1>3, <1>4 DEF Arrive
  <1> QED BY <1>5

\* A step that ends the request and only unlocks.
LEMMA RollBackTyped ==
  ASSUME TypeInv, NEW t \in Tx, RollBack(t)
  PROVE  /\ tx' \in [Tx -> TxState] /\ tx'[t] = IdleTx
         /\ rowLock' \in [Users -> Tx \cup {None}]
         /\ UNCHANGED <<role, accounts, requests>>
  BY IdleIsTyped DEF TypeInv, OrgTypeOK, RollBack, Finish, Unlock

\* What the request that moves looks like afterwards.
LEMMA MoverTyped ==
  ASSUME TypeInv, NEW t \in Tx, Arrive(t) \/ Step(t) \/ Abort(t)
  PROVE  OrgTypeOK' /\ accounts \subseteq accounts' /\ Shape(t)'
  <1>t. /\ tx \in [Tx -> TxState] /\ rowLock \in [Users -> Tx \cup {None}]
        /\ role \in [Users -> Roles \cup {None}] /\ accounts \subseteq Users
        /\ requests \in Nat /\ tx[t] \in TxState /\ Shape(t)
        /\ \A u \in Users : role[u] # None => u \in accounts
    BY DEF TypeInv, OrgTypeOK
  <1>1. CASE Arrive(t)
    BY <1>1, <1>t, BeginTyped DEF OrgTypeOK, Shape
  <1>2. CASE RollBack(t)
    BY <1>2, <1>t, RollBackTyped DEF OrgTypeOK, Shape, IdleTx
  <1>3. CASE ReadTarget(t)
    <2> DEFINE s == [tx[t] EXCEPT !.seen = role[tx[t].target],
                                  !.pc = IF Guarded(t, role[tx[t].target]) THEN "count" ELSE "write"]
    <2>1. tx' = [tx EXCEPT ![t] = s] /\ UNCHANGED <<role, accounts, rowLock, requests>>
      BY <1>3, <1>t DEF ReadTarget
    <2>2. tx[t].target \in Users /\ tx[t].pc = "read" /\ tx[t].counted = {}
      BY <1>3, <1>t DEF ReadTarget, At, Shape
    <2>3. /\ s \in TxState /\ s.pc \in {"count", "write"} /\ s.target = tx[t].target
          /\ s.counted = tx[t].counted
      BY <2>2, <1>t DEF TxState
    <2> HIDE DEF s
    <2> QED BY <2>1, <2>2, <2>3, <1>t DEF OrgTypeOK, Shape
  <1>4. CASE CountOwners(t)
    <2> DEFINE s == [tx[t] EXCEPT !.pc = "counting", !.todo = Owners]
    <2>1. tx' = [tx EXCEPT ![t] = s] /\ UNCHANGED <<role, accounts, rowLock, requests>>
      BY <1>4, <1>t DEF CountOwners
    <2>2. s \in TxState /\ s.pc = "counting" /\ s.target = tx[t].target
      BY <1>t DEF TxState, Owners
    <2>3. tx[t].target \in Users
      BY <1>4, <1>t DEF CountOwners, At, Shape
    <2> HIDE DEF s
    <2> QED BY <2>1, <2>2, <2>3, <1>t DEF OrgTypeOK, Shape
  <1>5. ASSUME NEW u \in Users, LockOwner(t, u)
        PROVE  OrgTypeOK' /\ accounts \subseteq accounts' /\ Shape(t)'
    <2> DEFINE s == [tx[t] EXCEPT !.todo = @ \ {u},
                                  !.counted = IF role[u] = "owner" THEN @ \cup {u} ELSE @]
    <2>1. /\ tx' = [tx EXCEPT ![t] = s] /\ UNCHANGED <<role, accounts, requests>>
          /\ rowLock' = [rowLock EXCEPT ![u] = t]
      BY <1>5, <1>t DEF LockOwner
    <2>2. s \in TxState /\ s.pc = tx[t].pc /\ s.target = tx[t].target
      BY <1>t DEF TxState
    <2>3. tx[t].target \in Users /\ tx[t].pc = "counting"
      BY <1>5, <1>t DEF LockOwner, At, Shape
    <2> HIDE DEF s
    <2> QED BY <2>1, <2>2, <2>3, <1>t DEF OrgTypeOK, Shape
  <1>6. CASE GuardPasses(t)
    <2> DEFINE s == [tx[t] EXCEPT !.pc = "write"]
    <2>1. tx' = [tx EXCEPT ![t] = s] /\ UNCHANGED <<role, accounts, rowLock, requests>>
      BY <1>6 DEF GuardPasses, Goto
    <2>2. s \in TxState /\ s.pc = "write" /\ s.target = tx[t].target
      BY <1>t DEF TxState
    <2>3. tx[t].target \in Users
      BY <1>6, <1>t DEF GuardPasses, At, Shape
    <2> HIDE DEF s
    <2> QED BY <2>1, <2>2, <2>3, <1>t DEF OrgTypeOK, Shape
  <1>7. CASE WriteMember(t)
    <2>1. PICK u \in Users, r \in Roles \cup {None} : u = tx[t].target /\ r = tx[t].new
      BY <1>7, <1>t DEF WriteMember, At, Shape, TxState
    <2>2. /\ role' = [role EXCEPT ![u] = r] /\ role[u] # None
          /\ UNCHANGED <<accounts, requests>> /\ Unlock(t)
          /\ tx' = [s \in Tx |-> IF s = t THEN IdleTx
                                 ELSE IF r = None THEN [tx[s] EXCEPT !.todo = @ \ {u}]
                                 ELSE tx[s]]
      BY <1>7, <2>1 DEF WriteMember
    <2>3. \A s \in Tx : tx'[s] \in TxState
      <3>1. \A s \in Tx : tx[s] \in TxState /\ [tx[s] EXCEPT !.todo = @ \ {u}] \in TxState
        BY <1>t DEF TxState
      <3> QED BY <3>1, <2>2, IdleIsTyped
    <2>4. tx' \in [Tx -> TxState] /\ tx'[t] = IdleTx
      BY <2>2, <2>3
    <2>5. rowLock' \in [Users -> Tx \cup {None}]
      BY <2>2, <1>t DEF Unlock
    <2> QED BY <2>2, <2>4, <2>5, <1>t DEF OrgTypeOK, Shape, IdleTx
  <1>8. CASE FindAccount(t)
    <2>1. PICK p \in {"insert", "create"} :
            /\ tx' = [tx EXCEPT ![t] = [tx[t] EXCEPT !.pc = p]]
            /\ p = "insert" => tx[t].target \in accounts
      BY <1>8 DEF FindAccount, Goto
    <2>2. UNCHANGED <<role, accounts, rowLock, requests>>
      BY <1>8 DEF FindAccount
    <2> DEFINE s == [tx[t] EXCEPT !.pc = p]
    <2>3. s \in TxState /\ s.pc = p /\ s.target = tx[t].target /\ s.new = tx[t].new
      BY <1>t DEF TxState
    <2>4. tx[t].target \in Users /\ tx[t].new \in Roles
      BY <1>8, <1>t DEF FindAccount, At, Shape
    <2>5. tx' = [tx EXCEPT ![t] = s]
      BY <2>1
    <2> HIDE DEF s
    <2> QED BY <2>1, <2>2, <2>3, <2>4, <2>5, <1>t DEF OrgTypeOK, Shape
  <1>9. CASE CreateUser(t)
    <2>1. CASE tx[t].target \in accounts
      BY <2>1, <1>2, <1>9 DEF CreateUser
    <2>2. CASE tx[t].target \notin accounts
      <3> DEFINE s == [tx[t] EXCEPT !.pc = "insert", !.created = TRUE]
      <3>1. tx' = [tx EXCEPT ![t] = s] /\ UNCHANGED <<role, accounts, rowLock, requests>>
        BY <2>2, <1>9 DEF CreateUser
      <3>2. s \in TxState /\ s.pc = "insert" /\ s.created /\ s.target = tx[t].target /\ s.new = tx[t].new
        BY <1>t DEF TxState
      <3>3. tx[t].target \in Users /\ tx[t].new \in Roles
        BY <1>9, <1>t DEF CreateUser, At, Shape
      <3> HIDE DEF s
      <3> QED BY <3>1, <3>2, <3>3, <1>t DEF OrgTypeOK, Shape
    <2> QED BY <2>1, <2>2
  <1>10. CASE InsertMember(t)
    <2>1. CASE role[tx[t].target] # None
      BY <2>1, <1>2, <1>10 DEF InsertMember
    <2>2. CASE role[tx[t].target] = None
      <3>1. PICK u \in Users, r \in Roles : u = tx[t].target /\ r = tx[t].new
        BY <1>10, <1>t DEF InsertMember, At, Shape
      <3>2. /\ role' = [role EXCEPT ![u] = r]
            /\ accounts' = IF tx[t].created THEN accounts \cup {u} ELSE accounts
            /\ Finish(t) /\ requests' = requests
        BY <1>10, <2>2, <3>1 DEF InsertMember
      <3>3. u \in accounts' /\ accounts \subseteq accounts' /\ accounts' \subseteq Users
        BY <1>10, <1>t, <3>1, <3>2 DEF InsertMember, At, Shape, TxState
      <3>4. tx' \in [Tx -> TxState] /\ tx'[t] = IdleTx /\ rowLock' \in [Users -> Tx \cup {None}]
        BY <3>2, <1>t, IdleIsTyped DEF Finish, Unlock
      <3> QED BY <3>2, <3>3, <3>4, <1>t DEF OrgTypeOK, Shape, IdleTx
    <2> QED BY <2>1, <2>2
  <1> QED
    BY <1>1, <1>2, <1>3, <1>4, <1>5, <1>6, <1>7, <1>8, <1>9, <1>10
       DEF Step, Abort, TargetUnknown, GuardRefuses, WriteNobody

\* Types, the foreign key and the shape of the requests are inductive.
LEMMA TypeInvStep == TypeInv /\ [Next]_vars => TypeInv'
  <1> SUFFICES ASSUME TypeInv, [Next]_vars PROVE TypeInv'
    OBVIOUS
  <1>1. CASE UNCHANGED vars
    BY <1>1 DEF vars, TypeInv, OrgTypeOK, Shape
  <1>2. ASSUME NEW t \in Tx, Arrive(t) \/ Step(t) \/ Abort(t) PROVE TypeInv'
    <2>1. OrgTypeOK' /\ accounts \subseteq accounts' /\ Shape(t)'
      BY <1>2, MoverTyped
    <2>2. \A s \in Tx \ {t} : Shape(s)'
      BY <2>1, <1>2, OthersKept DEF Shape, TypeInv
    <2> QED BY <2>1, <2>2 DEF TypeInv
  <1> QED BY <1>1, <1>2 DEF Next

\* A new organization is well typed.
LEMMA InitTypeInv == Init => TypeInv
  <1> SUFFICES ASSUME Init PROVE TypeInv
    OBVIOUS
  <1>1. \A t \in Tx : tx[t] = IdleTx
    BY DEF Init
  <1>2. OrgTypeOK
    BY IdleIsTyped DEF Init, OrgTypeOK
  <1> QED BY <1>1, <1>2 DEF TypeInv, Shape, IdleTx

\* Types, and the foreign key from a membership to an account.
THEOREM OrgTypeCorrect == Spec => []OrgTypeOK
  <1>1. TypeInv => OrgTypeOK
    BY DEF TypeInv
  <1> QED BY <1>1, InitTypeInv, TypeInvStep, PTL DEF Spec

-----------------------------------------------------------------------------
(* The guard.                                                              *)

\* More than one owner counted: one of them is not the target.
LEMMA TwoOwnersLeaveOne ==
  ASSUME NEW S \in SUBSET Users, NEW x, Cardinality(S) > 1
  PROVE  \E u \in S : u # x
  <1> SUFFICES ASSUME S \subseteq {x} PROVE FALSE
    OBVIOUS
  <1>1. IsFiniteSet({x}) /\ Cardinality({x}) = 1
    BY FS_Singleton
  <1>2. IsFiniteSet(S) /\ Cardinality(S) <= 1 /\ Cardinality(S) \in Nat
    BY <1>1, FS_Subset, FS_CardinalityType
  <1> QED BY <1>2

\* A row that somebody else holds is not written.
LEMMA HeldOwnersStay ==
  ASSUME TypeInv, NEW t \in Tx, NEW s \in Tx, s # t, NEW u \in Users,
         rowLock[u] = s, role[u] = "owner", Arrive(t) \/ Step(t) \/ Abort(t)
  PROVE  role'[u] = "owner"
  <1>t. role \in [Users -> Roles \cup {None}] /\ s # None /\ None # "owner"
    BY MembersAssumption DEF TypeInv, OrgTypeOK, Rank
  <1>1. CASE WriteMember(t)
    <2>1. tx[t].target # u
      BY <1>1, <1>t DEF WriteMember
    <2> QED BY <1>1, <2>1, <1>t DEF WriteMember
  <1>2. CASE InsertMember(t)
    <2>1. CASE role[tx[t].target] # None
      BY <1>2, <2>1 DEF InsertMember, RollBack
    <2>2. CASE role[tx[t].target] = None
      <3>1. tx[t].target # u
        BY <2>2, <1>t
      <3> QED BY <1>2, <2>2, <3>1, <1>t DEF InsertMember
    <2> QED BY <2>1, <2>2
  <1>3. CASE Arrive(t)
    BY <1>3, BeginTyped
  <1>4. CASE (Step(t) /\ ~WriteMember(t) /\ ~InsertMember(t)) \/ Abort(t)
    BY <1>4 DEF Step, Abort, ReadTarget, TargetUnknown, CountOwners, LockOwner, GuardPasses,
       GuardRefuses, WriteNobody, FindAccount, CreateUser, RollBack
  <1> QED BY <1>1, <1>2, <1>3, <1>4

\* The guard of the request that moves.
LEMMA MoverGuarded ==
  ASSUME TypeInv, GuardInv, NEW t \in Tx, Arrive(t) \/ Step(t) \/ Abort(t)
  PROVE  /\ tx'[t].pc = "counting" => Counted(t)'
         /\ tx'[t].pc = "write" /\ Guarded(t, tx[t].seen)'
              => Counted(t)' /\ \E u \in tx'[t].counted : u # tx'[t].target
  <1>t. /\ tx \in [Tx -> TxState] /\ tx[t] \in TxState /\ Shape(t)
        /\ rowLock \in [Users -> Tx \cup {None}]
        /\ tx[t].pc = "counting" => Counted(t)
    BY DEF TypeInv, OrgTypeOK, GuardInv
  <1>1. CASE tx'[t].pc \notin {"counting", "write"}
    BY <1>1
  <1>2. CASE ReadTarget(t)
    <2>1. CASE Guarded(t, role[tx[t].target])
      <3>1. tx'[t].pc = "count"
        BY <1>2, <1>t, <2>1 DEF ReadTarget, TxState
      <3> QED BY <3>1
    <2>2. CASE ~Guarded(t, role[tx[t].target])
      <3>1. tx'[t].pc = "write" /\ tx'[t].seen = role[tx[t].target] /\ tx'[t].new = tx[t].new
        BY <1>2, <1>t, <2>2 DEF ReadTarget, TxState
      <3> QED BY <3>1, <2>2 DEF Guarded
    <2> QED BY <2>1, <2>2
  <1>3. CASE CountOwners(t)
    <2>1. tx'[t].pc = "counting" /\ tx'[t].counted = {}
      BY <1>3, <1>t DEF CountOwners, At, Shape, TxState
    <2> QED BY <2>1 DEF Counted
  <1>4. ASSUME NEW u \in Users, LockOwner(t, u)
        PROVE  tx'[t].pc = "counting" /\ Counted(t)'
    <2>1. /\ tx'[t].pc = "counting" /\ role' = role /\ rowLock' = [rowLock EXCEPT ![u] = t]
          /\ tx'[t].counted = IF role[u] = "owner" THEN tx[t].counted \cup {u} ELSE tx[t].counted
      BY <1>4, <1>t DEF LockOwner, At, TxState
    <2>2. Counted(t) /\ tx[t].counted \subseteq Users
      BY <1>4, <1>t DEF LockOwner, At, TxState
    <2> QED BY <2>1, <2>2, <1>t DEF Counted
  <1>5. CASE GuardPasses(t)
    <2>1. /\ tx'[t].pc = "write" /\ tx'[t].counted = tx[t].counted /\ tx'[t].target = tx[t].target
          /\ role' = role /\ rowLock' = rowLock
      BY <1>5, <1>t DEF GuardPasses, Goto, TxState
    <2>2. Counted(t) /\ Cardinality(tx[t].counted) > 1 /\ tx[t].counted \in SUBSET Users
      <3>1. tx[t].counted \in SUBSET Users
        BY <1>t DEF TxState
      <3>2. IsFiniteSet(tx[t].counted)
        BY <3>1, MembersAssumption, FS_Subset
      <3>3. Cardinality(tx[t].counted) \in Nat
        BY <3>2, FS_CardinalityType
      <3> QED BY <3>1, <3>3, <1>5, <1>t DEF GuardPasses, At, LastOwner
    <2> QED BY <2>1, <2>2, TwoOwnersLeaveOne DEF Counted
  <1>6. CASE Arrive(t)
    BY <1>6, <1>1, BeginTyped
  <1>7. CASE RollBack(t)
    BY <1>7, <1>1, RollBackTyped DEF IdleTx
  <1>8. CASE WriteMember(t)
    <2>1. tx'[t] = IdleTx
      BY <1>8, <1>t DEF WriteMember
    <2> QED BY <2>1, <1>1 DEF IdleTx
  <1>9. CASE FindAccount(t) \/ CreateUser(t) \/ InsertMember(t)
    <2>1. CASE FindAccount(t)
      <3>1. tx'[t].pc \in {"insert", "create"}
        BY <2>1, <1>t DEF FindAccount, Goto, TxState
      <3> QED BY <3>1, <1>1
    <2>2. CASE CreateUser(t) /\ ~RollBack(t)
      <3>1. tx'[t].pc = "insert"
        BY <2>2, <1>t DEF CreateUser, TxState
      <3> QED BY <3>1, <1>1
    <2>3. CASE InsertMember(t) /\ ~RollBack(t)
      <3>1. tx'[t] = IdleTx
        BY <2>3, <1>t DEF InsertMember, Finish
      <3> QED BY <3>1, <1>1 DEF IdleTx
    <2> QED BY <1>9, <1>7, <2>1, <2>2, <2>3
  <1> QED
    BY <1>2, <1>3, <1>4, <1>5, <1>6, <1>7, <1>8, <1>9
       DEF Step, Abort, TargetUnknown, GuardRefuses, WriteNobody

\* Every step keeps what a request past its count knows: the owners it counted are
\* owners still, and it holds their rows.
LEMMA GuardInvStep == TypeInv /\ GuardInv /\ [Next]_vars => GuardInv'
  <1> SUFFICES ASSUME TypeInv, GuardInv, [Next]_vars PROVE GuardInv'
    OBVIOUS
  <1>1. CASE UNCHANGED vars
    BY <1>1 DEF vars, GuardInv, Counted, Guarded
  <1>2. ASSUME NEW t \in Tx, Arrive(t) \/ Step(t) \/ Abort(t) PROVE GuardInv'
    <2>1. ASSUME NEW s \in Tx \ {t}, Counted(s) PROVE Counted(s)'
      <3>1. /\ tx'[s].counted = tx[s].counted /\ tx[s].counted \subseteq Users
            /\ \A u \in Users : rowLock[u] = s => rowLock'[u] = s
        BY <1>2, OthersKept DEF TypeInv, OrgTypeOK, TxState
      <3>2. \A u \in tx[s].counted : role'[u] = "owner"
        BY <1>2, <2>1, <3>1, HeldOwnersStay DEF Counted
      <3> QED BY <2>1, <3>1, <3>2 DEF Counted
    <2>2. \A s \in Tx \ {t} : /\ tx'[s].pc = tx[s].pc /\ tx'[s].target = tx[s].target
                              /\ tx'[s].new = tx[s].new /\ tx'[s].seen = tx[s].seen
                              /\ tx'[s].counted = tx[s].counted
      BY <1>2, OthersKept
    <2>3. \A s \in Tx \ {t} : Guarded(s, tx[s].seen)' = Guarded(s, tx[s].seen)
      BY <2>2 DEF Guarded
    <2> QED BY <1>2, <2>1, <2>2, <2>3, MoverGuarded DEF GuardInv
  <1> QED BY <1>1, <1>2 DEF Next

\* The inductive invariant of the last-owner guard.
THEOREM GuardInvariance == Spec => [](TypeInv /\ GuardInv)
  <1>1. Init => GuardInv
    BY DEF Init, GuardInv, IdleTx
  <1> QED BY <1>1, InitTypeInv, TypeInvStep, GuardInvStep, PTL DEF Spec

\* The invariant implies the property the runs check.
LEMMA GuardInvImplies == TypeInv /\ GuardInv => GuardKeepsAnOwner
  BY DEF TypeInv, OrgTypeOK, TxState, GuardInv, GuardKeepsAnOwner, Counted, At

\* A request past the guard leaves another owner behind.
THEOREM GuardAlwaysKeepsAnOwner == Spec => []GuardKeepsAnOwner
  BY GuardInvariance, GuardInvImplies, PTL

\* Only a write that relied on a stale role leaves an organization without an owner.
LEMMA OnlyAStaleRoleOrphans ==
  ASSUME TypeInv, GuardInv, [Next]_vars, Owners # {}, Owners' = {}
  PROVE  \E t \in Tx : At(t, "write") /\ tx[t].seen # "owner" /\ role[tx[t].target] = "owner"
  <1>o. PICK o \in Users : role[o] = "owner" /\ role'[o] # "owner"
    BY DEF Owners
  <1>1. PICK t \in Tx : Arrive(t) \/ Step(t) \/ Abort(t)
    BY <1>o DEF Next, vars
  <1>t. role \in [Users -> Roles \cup {None}] /\ None # "owner" /\ tx[t] \in TxState /\ Shape(t)
    BY MembersAssumption DEF TypeInv, OrgTypeOK, Rank
  <1>2. WriteMember(t)
    <2>1. CASE InsertMember(t)
      BY <2>1, <1>o, <1>t DEF InsertMember, RollBack
    <2>2. CASE Arrive(t)
      BY <2>2, <1>o, BeginTyped
    <2> QED BY <2>1, <2>2, <1>1, <1>o DEF Step, Abort, ReadTarget, TargetUnknown, CountOwners,
       LockOwner, GuardPasses, GuardRefuses, WriteNobody, FindAccount, CreateUser, RollBack
  <1>3. At(t, "write") /\ o = tx[t].target /\ role' = [role EXCEPT ![o] = tx[t].new]
    BY <1>2, <1>o, <1>t DEF WriteMember
  <1>4. tx[t].new # "owner"
    BY <1>3, <1>o, <1>t
  <1>5. tx[t].seen # "owner"
    <2> SUFFICES ASSUME tx[t].seen = "owner" PROVE FALSE
      OBVIOUS
    <2>1. PICK u \in Users : u # o /\ role[u] = "owner"
      BY <1>3, <1>4, <1>t DEF GuardInv, Guarded, Counted, At, TxState
    <2>2. role'[u] = "owner"
      BY <2>1, <1>3, <1>t
    <2> QED BY <2>2 DEF Owners
  <1> QED BY <1>3, <1>5, <1>o

\* The only step that leaves no owner is the write of a request that read its target's
\* role before the target was made an owner.
THEOREM OrphanedAlwaysByStaleRole == Spec => OrphanedOnlyByStaleRole
  <1>1. TypeInv /\ GuardInv /\ [Next]_vars
          => [Owners # {} /\ Owners' = {}
                => \E t \in Tx : /\ At(t, "write")
                                 /\ tx[t].seen # "owner"
                                 /\ role[tx[t].target] = "owner"]_vars
    BY OnlyAStaleRoleOrphans
  <1> QED BY <1>1, GuardInvariance, PTL DEF Spec, OrphanedOnlyByStaleRole
=============================================================================
