----------------------------- MODULE OrgMembers -----------------------------
(***************************************************************************)
(* The members of ONE organization: the tables organization_member and     *)
(* app_user, and the handlers that change them, handleAddMember,           *)
(* handleUpdateMemberRole and handleRemoveMember.                          *)
(*                                                                         *)
(* One action is one SQL statement together with the Go code up to the     *)
(* next one, under READ COMMITTED.  The last write of a transaction, its   *)
(* audit row and the COMMIT are one action: nothing in between waits for a *)
(* lock that is not already held.  The row locks that somebody holds while *)
(* doing something else are those CountOwnersForUpdate takes, one row at a *)
(* time and in any order, and the uncommitted account of a new user.       *)
(***************************************************************************)
EXTENDS Naturals, FiniteSets

CONSTANTS
  Users,         \* people, by email: all who may ever have an account
  Tx,            \* requests being served at the same time, by any instance
  Roles,         \* the roles requests ask for and members hold
  MaxRequests,   \* bound: how many requests are ever started
  None           \* no role, no transaction, or a field that is not used

Rank == [viewer |-> 0, editor |-> 1, admin |-> 2, owner |-> 3]

ASSUME MembersAssumption ==
  /\ Roles \subseteq DOMAIN Rank
  /\ "owner" \in Roles
  /\ None \notin Tx \cup Users \cup DOMAIN Rank
  /\ IsFiniteSet(Users)
  /\ MaxRequests \in Nat

VARIABLES
  role,      \* organization_member.role by user; None without a row
  accounts,  \* users with an app_user row
  rowLock,   \* transaction that holds a member row FOR UPDATE, or None
  tx,        \* local state of every request
  requests   \* requests started so far (bound)

vars == <<role, accounts, rowLock, tx, requests>>

TxState == [pc      : {"idle", "read", "count", "counting", "write",
                       "account", "create", "insert"},
            target  : Users \cup {None},
            new     : Roles \cup {None},   \* role asked for; None to remove
            seen    : Roles \cup {None},   \* target's role when it was read
            todo    : SUBSET Users,        \* owner rows still to be locked
            counted : SUBSET Users,        \* owner rows locked and returned
            created : BOOLEAN]             \* holds an uncommitted app_user row

IdleTx == [pc |-> "idle", target |-> None, new |-> None, seen |-> None,
           todo |-> {}, counted |-> {}, created |-> FALSE]

OrgTypeOK ==
  /\ role \in [Users -> Roles \cup {None}]
  /\ accounts \subseteq Users
  /\ rowLock \in [Users -> Tx \cup {None}]
  /\ tx \in [Tx -> TxState]
  /\ requests \in Nat
  /\ \A u \in Users : role[u] # None => u \in accounts   \* the foreign key

Owners == {u \in Users : role[u] = "owner"}

\* handleCreateOrganization made an owner; any members may have come since.
Init ==
  /\ role \in [Users -> Roles \cup {None}]
  /\ Owners # {}
  /\ accounts \in SUBSET Users
  /\ \A u \in Users : role[u] # None => u \in accounts
  /\ rowLock = [u \in Users |-> None]
  /\ tx = [t \in Tx |-> IdleTx]
  /\ requests = 0

-----------------------------------------------------------------------------
At(t, pc) == tx[t].pc = pc

Goto(t, pc) == tx' = [tx EXCEPT ![t].pc = pc]

Unlock(t) == rowLock' = [u \in Users |-> IF rowLock[u] = t THEN None ELSE rowLock[u]]

Finish(t) == tx' = [tx EXCEPT ![t] = IdleTx] /\ Unlock(t)

\* WithTx's deferred Rollback.
RollBack(t) == Finish(t) /\ UNCHANGED <<role, accounts, requests>>

\* Role.AtLeast; a caller who is not a member has no rank.
AtLeast(r, min) == r # None /\ Rank[r] >= Rank[min]

\* A request of caller, authorized by a read of its own before the transaction.
Begin(t, caller, min, state) ==
  /\ tx[t] = IdleTx
  /\ requests < MaxRequests
  /\ AtLeast(role[caller], min)
  /\ requests' = requests + 1
  /\ tx' = [tx EXCEPT ![t] = state]
  /\ UNCHANGED <<role, accounts, rowLock>>

BeginAddMember(t, caller, u, r) ==
  /\ AtLeast(role[caller], r)      \* "cannot grant a role above your own"
  /\ Begin(t, caller, "admin",
           [IdleTx EXCEPT !.pc = "account", !.target = u, !.new = r])

BeginUpdateMemberRole(t, caller, u, r) ==
  Begin(t, caller, "owner", [IdleTx EXCEPT !.pc = "read", !.target = u, !.new = r])

BeginRemoveMember(t, caller, u) ==
  Begin(t, caller, "owner", [IdleTx EXCEPT !.pc = "read", !.target = u])

-----------------------------------------------------------------------------
(* handleUpdateMemberRole and handleRemoveMember.  They differ in the last *)
(* statement only: removing somebody is setting the role to None.          *)

\* An owner who will not be one any more: count the owners first.
Guarded(t, r) == r = "owner" /\ tx[t].new # "owner"

\* MemberRole of the target: takes no lock.
ReadTarget(t) ==
  LET r == role[tx[t].target] IN
  /\ At(t, "read")
  /\ r # None
  /\ tx' = [tx EXCEPT ![t].seen = r,
                      ![t].pc = IF Guarded(t, r) THEN "count" ELSE "write"]
  /\ UNCHANGED <<role, accounts, rowLock, requests>>

\* 404
TargetUnknown(t) ==
  /\ At(t, "read")
  /\ role[tx[t].target] = None
  /\ RollBack(t)

\* CountOwnersForUpdate starts: the owner rows of its snapshot.
CountOwners(t) ==
  /\ At(t, "count")
  /\ tx' = [tx EXCEPT ![t].pc = "counting", ![t].todo = Owners]
  /\ UNCHANGED <<role, accounts, rowLock, requests>>

\* Mutant of LockOwner: CountOwners' plain read in its place.
ReadOwner(t, u) ==
  /\ At(t, "counting")
  /\ u \in tx[t].todo
  /\ tx' = [tx EXCEPT ![t].todo = @ \ {u},
                      ![t].counted = IF role[u] = "owner" THEN @ \cup {u} ELSE @]
  /\ UNCHANGED <<role, accounts, rowLock, requests>>

\* It waits for the row and locks its latest version, but returns it only if it is an
\* owner's still.
LockOwner(t, u) ==
  /\ At(t, "counting")
  /\ u \in tx[t].todo
  /\ rowLock[u] \in {None, t}
  /\ rowLock' = [rowLock EXCEPT ![u] = t]
  /\ tx' = [tx EXCEPT ![t].todo = @ \ {u},
                      ![t].counted = IF role[u] = "owner" THEN @ \cup {u} ELSE @]
  /\ UNCHANGED <<role, accounts, requests>>

\* Mutant of LastOwner: n < 1.
NoOwner(t) == Cardinality(tx[t].counted) < 1

LastOwner(t) == Cardinality(tx[t].counted) <= 1

GuardPasses(t) ==
  /\ At(t, "counting")
  /\ tx[t].todo = {}
  /\ ~LastOwner(t)
  /\ Goto(t, "write")
  /\ UNCHANGED <<role, accounts, rowLock, requests>>

\* errLastOwner: 409
GuardRefuses(t) ==
  /\ At(t, "counting")
  /\ tx[t].todo = {}
  /\ LastOwner(t)
  /\ RollBack(t)

\* UPDATE or DELETE, RecordAudit, COMMIT.  Somebody else's scan that waits for a row
\* now deleted skips it.
WriteMember(t) ==
  LET u == tx[t].target IN
  /\ At(t, "write")
  /\ rowLock[u] \in {None, t}
  /\ role[u] # None
  /\ role' = [role EXCEPT ![u] = tx[t].new]
  /\ tx' = [s \in Tx |-> IF s = t THEN IdleTx
                         ELSE IF tx[t].new = None THEN [tx[s] EXCEPT !.todo = @ \ {u}]
                         ELSE tx[s]]
  /\ Unlock(t)
  /\ UNCHANGED <<accounts, requests>>

\* RowsAffected() == 0: 404
WriteNobody(t) ==
  /\ At(t, "write")
  /\ role[tx[t].target] = None
  /\ RollBack(t)

-----------------------------------------------------------------------------
(* handleAddMember                                                         *)

\* Mutant of FindAccount: an unknown email is not given an account.
FindAccountAssumed(t) ==
  /\ At(t, "account")
  /\ Goto(t, "insert")
  /\ UNCHANGED <<role, accounts, rowLock, requests>>

\* UserByEmail
FindAccount(t) ==
  /\ At(t, "account")
  /\ Goto(t, IF tx[t].target \in accounts THEN "insert" ELSE "create")
  /\ UNCHANGED <<role, accounts, rowLock, requests>>

\* CreateUser: waits for an uncommitted account with that email; a committed one is a
\* unique violation, which the handler reports as "already a member".
CreateUser(t) ==
  /\ At(t, "create")
  /\ \A s \in Tx \ {t} : tx[s].created => tx[s].target # tx[t].target
  /\ IF tx[t].target \in accounts
     THEN RollBack(t)
     ELSE /\ tx' = [tx EXCEPT ![t].pc = "insert", ![t].created = TRUE]
          /\ UNCHANGED <<role, accounts, rowLock, requests>>

\* AddMember, RecordAudit, COMMIT; 409 if there is a row.
InsertMember(t) ==
  LET u == tx[t].target IN
  /\ At(t, "insert")
  /\ IF role[u] # None
     THEN RollBack(t)
     ELSE /\ role' = [role EXCEPT ![u] = tx[t].new]
          /\ accounts' = IF tx[t].created THEN accounts \cup {u} ELSE accounts
          /\ Finish(t)
          /\ UNCHANGED requests

-----------------------------------------------------------------------------
\* The client hangs up, the connection drops, the instance dies, or Postgres picks
\* the transaction to break a deadlock.
Abort(t) == ~At(t, "idle") /\ RollBack(t)

Arrive(t) ==
  \E caller, u \in Users :
    \/ \E r \in Roles : \/ BeginAddMember(t, caller, u, r)
                        \/ BeginUpdateMemberRole(t, caller, u, r)
    \/ BeginRemoveMember(t, caller, u)

Step(t) ==
  \/ ReadTarget(t) \/ TargetUnknown(t)
  \/ CountOwners(t) \/ (\E u \in Users : LockOwner(t, u))
  \/ GuardPasses(t) \/ GuardRefuses(t)
  \/ WriteMember(t) \/ WriteNobody(t)
  \/ FindAccount(t) \/ CreateUser(t) \/ InsertMember(t)

Next == \E t \in Tx : Arrive(t) \/ Step(t) \/ Abort(t)

Spec == Init /\ [][Next]_vars

-----------------------------------------------------------------------------
(* What makes member management correct.                                   *)

\* A request that saw an owner and is past the guard leaves another owner behind,
\* whatever the others do until it commits: the rows it counted stay owners because
\* it holds them, and there were at least two.
GuardKeepsAnOwner ==
  \A t \in Tx : At(t, "write") /\ Guarded(t, tx[t].seen)
                  => \E u \in Users \ {tx[t].target} : role[u] = "owner" /\ rowLock[u] = t

\* architecture.md 4d: the last owner of an organization cannot be demoted or removed.
HasOwner == Owners # {}

\* What is true of it: the only step that leaves no owner is the write of a request
\* that read its target's role before the target was made an owner.
OrphanedOnlyByStaleRole ==
  [][Owners # {} /\ Owners' = {}
       => \E t \in Tx : /\ At(t, "write")
                        /\ tx[t].seen # "owner"
                        /\ role[tx[t].target] = "owner"]_vars
=============================================================================
