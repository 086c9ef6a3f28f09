------------------------------ MODULE MCTsSdk ------------------------------
(***************************************************************************)
(* Rows as in MCDelivery: a field is set, dropped for a rule, set again.   *)
(***************************************************************************)
EXTENDS TsSdk, TLC

MCKeys == {"a"}
MCData == {"x"}
MCSet == [values |-> "a" :> "x", targeting |-> EMPTY_SNAPSHOT.row.targeting]
MCRule == [values |-> EMPTY_SNAPSHOT.row.values, targeting |-> "a" :> "x"]
MCHistory == <<MCSet, MCRule, MCSet>>
=============================================================================
