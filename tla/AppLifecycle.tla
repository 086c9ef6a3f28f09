---------------------------- MODULE AppLifecycle ----------------------------
(***************************************************************************)
(* Instances of the server from start to exit (internal/app, Run), and the *)
(* administrator that the first of them seeds (seedAdmin).  Any number of  *)
(* instances share the database; a process may be killed at any point, and *)
(* a signal kills it too before signal.NotifyContext is reached.  What the *)
(* handlers do meanwhile is in module Server, which says when srv.Shutdown *)
(* returns.                                                                *)
(***************************************************************************)
EXTENDS Naturals

CONSTANTS
  Instances,   \* processes, all with the same ADMIN_EMAIL
  MaxStarts    \* bound: how many times one is started

VARIABLES
  phase,        \* where Run of every instance is
  listener,     \* its Listener: "off", "running", or "cancelled" but not returned yet
  overdue,      \* whether its srv.Shutdown returned with handlers still active
  admin,        \* the seeded account: "none", a "user", or an "owner" of "default"
  starts,       \* processes started so far (bound)
  interrupted   \* history: a seeding was cut short between its last two statements

app == <<phase, listener, overdue, admin, starts, interrupted>>

\* phase is "down"; "count", "create" or "enroll" in seedAdmin, statement by statement;
\* "bind" or "serving", before and after ListenAndServe listens; "draining" in
\* srv.Shutdown; or "stopping", waiting for the Listener.

\* A database that was just migrated, or one in use.
LifecycleInit ==
  /\ phase = [i \in Instances |-> "down"]
  /\ listener = [i \in Instances |-> "off"]
  /\ overdue = [i \in Instances |-> FALSE]
  /\ admin \in {"none", "owner"}
  /\ starts = 0
  /\ interrupted = FALSE

In(i, p) == phase[i] = p

Proceed(i, p) == phase' = [phase EXCEPT ![i] = p]

\* srv.Shutdown closes the sockets that listen, but a connection that was accepted before
\* may still bring a request.
Accepting(i) == phase[i] \in {"serving", "draining"}

\* shutdownSignal of the instance is closed.
ShuttingDown(i) == phase[i] \in {"draining", "stopping"}

-----------------------------------------------------------------------------
(* seedAdmin.                                                              *)

\* Everything up to seedAdmin, which needs ADMIN_EMAIL and ADMIN_PASSWORD.
Start(i) ==
  /\ In(i, "down") /\ starts < MaxStarts
  /\ \/ Proceed(i, "count") /\ UNCHANGED listener
     \/ Proceed(i, "bind") /\ listener' = [listener EXCEPT ![i] = "running"]
  /\ starts' = starts + 1
  /\ UNCHANGED <<overdue, admin, interrupted>>

\* The Listener and the HTTP server are started.
Serve(i) ==
  /\ Proceed(i, "bind")
  /\ listener' = [listener EXCEPT ![i] = "running"]

CountUsers(i) ==
  /\ In(i, "count")
  /\ IF admin = "none" THEN Proceed(i, "create") /\ UNCHANGED listener ELSE Serve(i)
  /\ UNCHANGED <<overdue, admin, starts, interrupted>>

\* The unique email: where another instance was faster, Run returns the error.
CreateUser(i) ==
  /\ In(i, "create")
  /\ IF admin = "none" THEN Proceed(i, "enroll") /\ admin' = "user"
                       ELSE Proceed(i, "down") /\ UNCHANGED admin
  /\ UNCHANGED <<listener, overdue, starts, interrupted>>

\* Mutant of Enroll: a membership that cannot be added is logged, not returned.
EnrollBestEffort(i) ==
  /\ In(i, "enroll")
  /\ admin' \in {"user", "owner"}
  /\ Serve(i)
  /\ UNCHANGED <<overdue, starts, interrupted>>

\* OrganizationBySlug and AddMember.
Enroll(i) ==
  /\ In(i, "enroll")
  /\ admin' = "owner"
  /\ Serve(i)
  /\ UNCHANGED <<overdue, starts, interrupted>>

\* A statement of seedAdmin fails, and Run with it.
SeedFails(i) ==
  /\ phase[i] \in {"count", "create", "enroll"}
  /\ Proceed(i, "down")
  /\ interrupted' = (interrupted \/ In(i, "enroll"))
  /\ UNCHANGED <<listener, overdue, admin, starts>>

-----------------------------------------------------------------------------
(* Serving and shutting down.                                              *)

Listen(i) ==
  /\ In(i, "bind")
  /\ Proceed(i, "serving")
  /\ UNCHANGED <<listener, overdue, admin, starts, interrupted>>

\* What both ways out of Run's select end with: cancelListener.
CancelListener(i) ==
  /\ Proceed(i, "stopping")
  /\ listener' = [listener EXCEPT ![i] = "cancelled"]

BindFails(i) ==
  /\ In(i, "bind")
  /\ CancelListener(i)
  /\ UNCHANGED <<overdue, admin, starts, interrupted>>

\* Mutant of Signal: the Listener is cancelled before srv.Shutdown is called.
SignalCancelling(i) ==
  /\ phase[i] \in {"bind", "serving"}
  /\ Proceed(i, "draining")
  /\ listener' = [listener EXCEPT ![i] = "cancelled"]
  /\ UNCHANGED <<overdue, admin, starts, interrupted>>

\* SIGTERM: shutdownSignal is closed and srv.Shutdown called.
Signal(i) ==
  /\ phase[i] \in {"bind", "serving"}
  /\ Proceed(i, "draining")
  /\ UNCHANGED <<listener, overdue, admin, starts, interrupted>>

\* srv.Shutdown returns: no handler is left, or shutdownTimeout has passed.
ShutdownReturns(i, busy) ==
  /\ In(i, "draining")
  /\ CancelListener(i)
  /\ overdue' = [overdue EXCEPT ![i] = busy]
  /\ UNCHANGED <<admin, starts, interrupted>>

\* A cancelled Listener returns from Run.
ListenerEnds(i) ==
  /\ listener[i] = "cancelled"
  /\ listener' = [listener EXCEPT ![i] = "off"]
  /\ UNCHANGED <<phase, overdue, admin, starts, interrupted>>

\* <-listenerDone, <-serveErr, and the process ends.
Exit(i) ==
  /\ In(i, "stopping") /\ listener[i] = "off"
  /\ Proceed(i, "down")
  /\ overdue' = [overdue EXCEPT ![i] = FALSE]
  /\ UNCHANGED <<listener, admin, starts, interrupted>>

Crash(i) ==
  /\ ~In(i, "down")
  /\ Proceed(i, "down")
  /\ listener' = [listener EXCEPT ![i] = "off"]
  /\ overdue' = [overdue EXCEPT ![i] = FALSE]
  /\ interrupted' = (interrupted \/ In(i, "enroll"))
  /\ UNCHANGED <<admin, starts>>

-----------------------------------------------------------------------------
\* The default organization is left with an administrator who is not in it only by a
\* process that died, or lost the database, between two statements: no race of two
\* instances does that.  No later start repairs it.
OwnerlessOnlyIfInterrupted ==
  admin = "user" => interrupted \/ \E i \in Instances : In(i, "enroll")
=============================================================================
