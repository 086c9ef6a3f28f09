---------------------------- MODULE MCOrgMembers ----------------------------
(***************************************************************************)
(* Viewers and editors have the same rights over members: viewer stands    *)
(* for both.                                                               *)
(***************************************************************************)
EXTENDS OrgMembers, TLC

MCRoles == {"viewer", "admin", "owner"}

\* Users and requests are interchangeable; rows are locked in any order.
MCSymmetry == Permutations(Users) \cup Permutations(Tx)
=============================================================================
