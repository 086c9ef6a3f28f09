------------------------------ MODULE LiveRules ------------------------------
(***************************************************************************)
(* The configuration of one environment as its editors change it and as    *)
(* clients evaluate it: a save of values and rules, a rollback, a change   *)
(* of the schema, and what every field resolves to for every context.      *)
(* ConfigStore has the transactions and says by two constants which payload*)
(* a definition accepts; here the transactions are atomic, and accepting   *)
(* is what internal/schema and internal/targeting compute.                 *)
(***************************************************************************)
EXTENDS Targeting

CONSTANTS
  Definitions,   \* the definitions that editors submit
  Payloads,      \* the values and rules that editors submit
  Contexts,      \* the contexts that clients evaluate
  MaxVersions    \* bound: saves

\* A definition is a list of fields.
ASSUME DefinitionsAssumption ==
  \A def \in Definitions : DOMAIN def = 1 .. Len(def) /\ Len(def) \in Nat

\* A decoded payload has a map of lists of rules, whose rollouts have lists of variants.
\* Weights are floats in the program and are counted in a common unit here.
ASSUME PayloadsAssumption ==
  \A p \in Payloads : \A k \in DOMAIN p.rules :
    /\ DOMAIN p.rules[k] = 1 .. Len(p.rules[k]) /\ Len(p.rules[k]) \in Nat
    /\ \A i \in DOMAIN p.rules[k] :
         LET r == p.rules[k][i].rollout IN
         /\ r.set \in BOOLEAN
         /\ DOMAIN r.variants = 1 .. Len(r.variants) /\ Len(r.variants) \in Nat
         /\ r.variants = <<>> \/ Len(r.variants) > 0
         /\ \A j \in DOMAIN r.variants : r.variants[j].weight \in Int

VARIABLES
  definition,    \* config_schema.definition
  versions,      \* config_version: the payload, and the definition it was saved under
  current        \* the number of the current version, 0 if none

vars == <<definition, versions, current>>

\* The default schema has no fields.
Init ==
  /\ definition = <<>>
  /\ versions = <<>>
  /\ current = 0

\* What handlePutValues validates under the schema lock.
Accepted(def, p) == ValuesAccepted(def, p.values) /\ Validate(def, p.rules)

PutValues(p) ==
  /\ Len(versions) < MaxVersions
  /\ Accepted(definition, p)
  /\ versions' = Append(versions, [payload |-> p, under |-> definition])
  /\ current' = Len(versions) + 1
  /\ UNCHANGED definition

\* handleRollback validates nothing.
Rollback(n) ==
  /\ current' = n
  /\ UNCHANGED <<definition, versions>>

\* The change-safety check of handlePutSchema: the live values, not the live rules.
Compatible(def) == current # 0 => ValuesAccepted(def, versions[current].payload.values)

PutSchema(def) ==
  /\ ValidateDefinition(def)
  /\ CompilesOK(def)
  /\ Compatible(def)
  /\ definition' = def
  /\ UNCHANGED <<versions, current>>

Next ==
  \/ \E p \in Payloads : PutValues(p)
  \/ \E n \in DOMAIN versions : Rollback(n)
  \/ \E def \in Definitions : PutSchema(def)

Spec == Init /\ [][Next]_vars

-----------------------------------------------------------------------------
Live == versions[current].payload

\* Whatever a client evaluates for whatever context, by value, rule or rollout, the
\* field is one of the definition the version was saved under and the result is a
\* value that it accepts; or it is null, for an optional field without a value.
EvaluatesToAccepted ==
  current # 0 => \A ctx \in Contexts :
    LET result == ResolveAll(Live.values, Live.rules, ctx)
        def == versions[current].under
    IN  \A k \in DOMAIN result :
          /\ k \in Names(def)
          /\ \/ FieldAccepts(FieldNamed(def, k), result[k])
             \/ result[k] = Null /\ \A i \in DOMAIN def : def[i].name = k => ~def[i].required

\* The rollouts that are live.
LiveRollouts ==
  IF current = 0 THEN {}
  ELSE UNION {{rules[i].rollout : i \in {j \in DOMAIN rules : rules[j].rollout.set}} :
                rules \in {Live.rules[k] : k \in DOMAIN Live.rules}}

\* A rollout splits the buckets in proportion to its weights: each variant has its share
\* of them to within one bucket, so one of weight zero is nobody's.
SharesFollowWeights ==
  \A r \in LiveRollouts : \A i \in DOMAIN r.variants :
    LET total == Cumulative(r.variants, Len(r.variants))
        taken == Cardinality({n \in 0 .. Buckets - 1 : VariantIndex(r.variants, n) = i})
    IN  taken * total - r.variants[i].weight * Buckets \in 1 - total .. total - 1

\* The rollout is edited by moving weight towards its first variants.
RampedUp(old, new) ==
  /\ old.set /\ new.set
  /\ old.salt = new.salt
  /\ Len(old.variants) = Len(new.variants)
  /\ Cumulative(old.variants, Len(old.variants)) = Cumulative(new.variants, Len(new.variants))
  /\ \A i \in DOMAIN old.variants : Cumulative(old.variants, i) <= Cumulative(new.variants, i)

\* Ramping up never takes a variant away from somebody who has it, except for an earlier
\* one: users only move towards the variants the weight was moved to.
RampUpMovesForward ==
  [][current # 0 /\ current' # 0 =>
       \A k \in DOMAIN Live.rules \cap DOMAIN Live'.rules :
         \A i \in DOMAIN Live.rules[k] \cap DOMAIN Live'.rules[k] :
           LET old == Live.rules[k][i].rollout
               new == Live'.rules[k][i].rollout
           IN  RampedUp(old, new) =>
                 \A n \in 0 .. Buckets - 1 :
                   VariantIndex(new.variants, n) <= VariantIndex(old.variants, n)]_vars
=============================================================================
