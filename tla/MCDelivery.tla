----------------------------- MODULE MCDelivery -----------------------------
(***************************************************************************)
(* One field, two rows that a delta tells apart in both directions: one    *)
(* sets the field, the other drops it for a targeting rule.  Two rows are  *)
(* enough for a write, another one, and a rollback to the first.           *)
(***************************************************************************)
EXTENDS Delivery, TLC

MCKeys == {"a"}
MCData == {"x"}
MCContents == {[values |-> "a" :> "x", targeting |-> EmptyMap],
               [values |-> EmptyMap, targeting |-> "a" :> "x"]}
=============================================================================
