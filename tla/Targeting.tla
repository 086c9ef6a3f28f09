------------------------------ MODULE Targeting ------------------------------
(***************************************************************************)
(* Targeting rules (internal/targeting): how a rule of a field is checked  *)
(* before it is saved, and what a field resolves to for one context.  The  *)
(* evaluator exists three times, in the server and in both SDKs; this is   *)
(* the server's.                                                           *)
(***************************************************************************)
EXTENDS SchemaRules, FiniteSetsExt

CONSTANTS
  Substring,   \* <<s, t>> : t is a substring of s
  Buckets,     \* 2^32 in the program
  Hash         \* <<salt, key, targetingKey>> -> 0 .. Buckets - 1

ASSUME BucketsAssumption == Buckets \in Nat \ {0}

NoRollout == [salt |-> "", variants |-> <<>>, set |-> FALSE]

allowedOperators == {"in", "notIn", "eq", "neq", "contains", "gt", "gte", "lt", "lte"}

-----------------------------------------------------------------------------
(* Evaluation.                                                             *)

\* toFloat64: a number, or an attribute that is infinite, whose n is above all others.
Numeric(v) == v.kind \in {"number", "infinite"}

\* The operators of matchCondition on an attribute that is present.  Values of two kinds
\* are different; only strings contain and only numbers are ordered.
Holds(c, v) ==
  \/ c.operator = "in" /\ \E i \in DOMAIN c.values : c.values[i] = v
  \/ c.operator = "notIn" /\ \A i \in DOMAIN c.values : c.values[i] # v
  \/ /\ c.values # <<>>
     /\ LET t == c.values[1] IN
        \/ c.operator = "eq" /\ v = t
        \/ c.operator = "neq" /\ v # t
        \/ c.operator = "contains" /\ v.kind = "string" /\ t.kind = "string"
                                   /\ <<v.s, t.s>> \in Substring
        \/ /\ Numeric(v) /\ Numeric(t)
           /\ \/ c.operator = "gt" /\ v.n > t.n
              \/ c.operator = "gte" /\ v.n >= t.n
              \/ c.operator = "lt" /\ v.n < t.n
              \/ c.operator = "lte" /\ v.n <= t.n

\* An absent attribute matches notIn alone.
MatchCondition(c, attrs) ==
  IF c.attribute \in DOMAIN attrs THEN Holds(c, attrs[c.attribute]) ELSE c.operator = "notIn"

MatchConditions(conditions, attrs) ==
  \A i \in DOMAIN conditions : MatchCondition(conditions[i], attrs)

\* The sums of bucket's loops: the weights of the first j variants together, from 0.
Sums(variants) ==
  LET sum[j \in 0 .. Len(variants)] == IF j = 0 THEN 0 ELSE sum[j - 1] + variants[j].weight
  IN  sum

Cumulative(variants, i) == Sums(variants)[i]

\* Mutant of PastPoint: the point itself counts as past it.
PastOrAtPoint(variants, n) ==
  {i \in DOMAIN variants :
     n * Cumulative(variants, Len(variants)) <= Cumulative(variants, i) * Buckets}

\* Mutant of PastPoint: the weights are not accumulated.
PastOwnWeight(variants, n) ==
  {i \in DOMAIN variants :
     n * Cumulative(variants, Len(variants)) < variants[i].weight * Buckets}

\* The variants whose cumulative weight is past the point n / Buckets of the total.
PastPoint(variants, n) ==
  {i \in DOMAIN variants :
     n * Cumulative(variants, Len(variants)) < Cumulative(variants, i) * Buckets}

\* bucket's loop, in exact arithmetic: the first of them, or the last variant.
VariantIndex(variants, n) ==
  IF PastPoint(variants, n) = {} THEN Len(variants) ELSE Min(PastPoint(variants, n))

\* bucket: nil without variants, the first variant without a targeting key.
Bucket(rollout, key, targetingKey) ==
  IF rollout.variants = <<>> THEN Null
  ELSE LET salt == IF rollout.salt = "" THEN key ELSE rollout.salt
           i == IF targetingKey = "" THEN 1
                ELSE VariantIndex(rollout.variants, Hash[<<salt, key, targetingKey>>])
       IN  rollout.variants[i].value

\* The rules that match a context.
Matching(rules, ctx) == {i \in DOMAIN rules : MatchConditions(rules[i].conditions, ctx.attributes)}

\* What a rule that matches resolves to.
Outcome(rule, key, ctx) ==
  IF rule.rollout.set THEN Bucket(rule.rollout, key, ctx.targetingKey) ELSE rule.value

\* Resolve: the first rule that matches, or base.
Resolve(key, base, rules, ctx) ==
  IF Matching(rules, ctx) = {} THEN base
  ELSE Outcome(rules[Min(Matching(rules, ctx))], key, ctx)

ResolveAll(base, rules, ctx) ==
  [k \in DOMAIN base \cup DOMAIN rules |->
     Resolve(k, IF k \in DOMAIN base THEN base[k] ELSE Null,
                IF k \in DOMAIN rules THEN rules[k] ELSE <<>>, ctx)]

-----------------------------------------------------------------------------
(* Validation.                                                             *)

ValidateRollout(f, rollout) ==
  /\ \A i \in DOMAIN rollout.variants :
       FieldAccepts(f, rollout.variants[i].value) /\ rollout.variants[i].weight >= 0
  /\ Cumulative(rollout.variants, Len(rollout.variants)) > 0

\* Mutant of ValidateRule: the values of a rollout are not validated.
ValidateStaticOnly(f, rule) ==
  /\ (rule.value # Null) # rule.rollout.set
  /\ \A i \in DOMAIN rule.conditions : rule.conditions[i].operator \in allowedOperators
  /\ rule.rollout.set \/ FieldAccepts(f, rule.value)

\* Exactly one of value and rollout is set, a null value not being set.
ValidateRule(f, rule) ==
  /\ (rule.value # Null) # rule.rollout.set
  /\ \A i \in DOMAIN rule.conditions : rule.conditions[i].operator \in allowedOperators
  /\ IF rule.rollout.set THEN ValidateRollout(f, rule.rollout) ELSE FieldAccepts(f, rule.value)

Validate(def, rules) ==
  \A k \in DOMAIN rules :
    /\ k \in Names(def)
    /\ \A i \in DOMAIN rules[k] : ValidateRule(FieldNamed(def, k), rules[k][i])
=============================================================================
