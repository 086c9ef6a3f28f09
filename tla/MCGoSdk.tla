------------------------------ MODULE MCGoSdk ------------------------------
(***************************************************************************)
(* A goroutine that calls Ready twice, a listener, and a schema that moves *)
(* away from the one expected, to two others.                              *)
(***************************************************************************)
EXTENDS GoSdk
=============================================================================
