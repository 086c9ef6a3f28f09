------------------------------ MODULE MCServer ------------------------------
(***************************************************************************)
(* Three requests to two instances, of which two processes are started in  *)
(* all: only logins; a stream while its key is revoked twice; two streams  *)
(* with a key that is created first; or organizations, or projects, that   *)
(* want the same slugs.  "default" is taken by the migration, and          *)
(* "default-2" is both the second choice of "Default" and the first of     *)
(* "Default 2!".                                                           *)
(***************************************************************************)
EXTENDS Server

MCWorkloads ==
  {[r \in Requests |-> "login"],
   ("r1" :> "stream" @@ "r2" :> "revokeKey" @@ "r3" :> "revokeKey"),
   ("r1" :> "stream" @@ "r2" :> "stream" @@ "r3" :> "createKey"),
   ("r1" :> "createOrg" @@ "r2" :> "createOrg" @@ "r3" :> "revokeKey"),
   ("r1" :> "createProject" @@ "r2" :> "createProject" @@ "r3" :> "createOrg")}

MCWords == {"default", "2"}
MCOrgNames == {<<"default">>, <<"default", " ", "2", "!">>}
MCProjectSlugs == {<<"default">>}
=============================================================================
