---------------------------- MODULE RevisionLog ----------------------------
(***************************************************************************)
(* What the store promises about ONE environment to whoever reads it: the  *)
(* environment has a log of the contents that were ever live, the entry at *)
(* position r is what delivery revision r made live, and the log only ever *)
(* grows at its end, one committed write at a time.                        *)
(*                                                                         *)
(* A rollback is an ordinary entry: an older content published again under *)
(* a new, higher revision.  ConfigStore implements this module: TLC checks *)
(* it as ImplementsRevisionLog, ConfigStoreProofs proves it.  Delivery is  *)
(* built on top of it.                                                     *)
(***************************************************************************)
EXTENDS Naturals, Sequences

CONSTANT Contents   \* what a config_version row can carry

VARIABLE log        \* log[r] is the content that revision r made live

LogTypeOK == log \in Seq(Contents)

LogInit == log = <<>>

\* One committed write of the environment, a value save or a rollback.
Publish(c) == log' = Append(log, c)

LogNext == \E c \in Contents : Publish(c)

LogSpec == LogInit /\ [][LogNext]_log
=============================================================================
