------------------------------- MODULE SdkEval -------------------------------
(***************************************************************************)
(* The evaluators of the two SDKs (sdk/go/eval.go, sdk/typescript/src/     *)
(* eval.ts), which repeat by hand what Targeting says of the server's:     *)
(* here loop by loop, as folds, with what is a number, what is equal and   *)
(* what is not there as each language has it.                              *)
(***************************************************************************)
EXTENDS Targeting, SequencesExt

CONSTANT Inherited   \* the names that every JavaScript object has: "toString", ...

ASSUME InheritedAssumption == "__proto__" \in Inherited

\* What a call that throws gives.
Throws == [kind |-> "throws"]

-----------------------------------------------------------------------------
(* Both: the loops of bucket, to the first variant past the point.         *)

\* The weights so far put the point n / Buckets of the total before the end of v.
PastAt(at, v, n, total) == n * total < (at.cumulative + v.weight) * Buckets

PastStep(at, v, n, total) ==
  IF at.found THEN at
  ELSE IF PastAt(at, v, n, total) THEN [at EXCEPT !.found = TRUE, !.value = v.value]
  ELSE [at EXCEPT !.cumulative = @ + v.weight]

FirstPast(variants, n) ==
  LET total == FoldLeft(LAMBDA sum, v : sum + v.weight, 0, variants)
      last == [cumulative |-> 0, found |-> FALSE, value |-> Last(variants).value]
  IN  FoldLeft(LAMBDA at, v : PastStep(at, v, n, total), last, variants).value

-----------------------------------------------------------------------------
(* Go.                                                                     *)

\* equalValues: numbers as float64, everything else by reflect.DeepEqual.
goEqualValues(a, b) == IF Numeric(a) THEN Numeric(b) /\ a.n = b.n ELSE a = b

\* A condition saved without values has a nil slice of them.
goMatchCondition(c, attrs) ==
  IF c.attribute \notin DOMAIN attrs THEN c.operator = "notIn"
  ELSE LET v == attrs[c.attribute]
           contained == \E i \in DOMAIN c.values : goEqualValues(c.values[i], v)
           first(ok(_)) == c.values # <<>> /\ ok(c.values[1])
           ordered(less(_, _)) == first(LAMBDA t : Numeric(v) /\ Numeric(t) /\ less(v.n, t.n))
       IN  CASE c.operator = "in" -> contained
             [] c.operator = "notIn" -> ~contained
             [] c.operator = "eq" -> first(LAMBDA t : goEqualValues(v, t))
             [] c.operator = "neq" -> first(LAMBDA t : ~goEqualValues(v, t))
             [] c.operator = "contains" ->
                  first(LAMBDA t : v.kind = "string" /\ t.kind = "string"
                                   /\ <<v.s, t.s>> \in Substring)
             [] c.operator = "gt" -> ordered(LAMBDA a, b : a > b)
             [] c.operator = "gte" -> ordered(LAMBDA a, b : a >= b)
             [] c.operator = "lt" -> ordered(LAMBDA a, b : a < b)
             [] c.operator = "lte" -> ordered(LAMBDA a, b : a <= b)
             [] OTHER -> FALSE

goMatchConditions(conditions, attrs) ==
  FoldRight(LAMBDA c, rest : goMatchCondition(c, attrs) /\ rest, conditions, TRUE)

goBucket(rollout, key, targetingKey) ==
  IF rollout.variants = <<>> THEN Null
  ELSE IF targetingKey = "" THEN Head(rollout.variants).value
  ELSE LET salt == IF rollout.salt = "" THEN key ELSE rollout.salt
       IN  FirstPast(rollout.variants, Hash[<<salt, key, targetingKey>>])

\* Mutant of goResolve: the last rule that matches wins.
goResolveLast(key, base, rules, ctx) ==
  FoldLeft(LAMBDA before, rule :
             IF ~goMatchConditions(rule.conditions, ctx.attributes) THEN before
             ELSE IF rule.rollout.set THEN goBucket(rule.rollout, key, ctx.targetingKey)
             ELSE rule.value,
           base, rules)

goResolve(key, base, rules, ctx) ==
  FoldRight(LAMBDA rule, rest :
              IF ~goMatchConditions(rule.conditions, ctx.attributes) THEN rest
              ELSE IF rule.rollout.set THEN goBucket(rule.rollout, key, ctx.targetingKey)
              ELSE rule.value,
            rules, base)

\* GetFor: the value and whether there is one; a key that is missing reads as its zero.
GetFor(values, rules, key, ctx) ==
  LET base == IF key \in DOMAIN values THEN values[key] ELSE Null
      own == IF key \in DOMAIN rules THEN rules[key] ELSE <<>>
  IN  IF key \notin DOMAIN values /\ own = <<>> THEN <<Null, FALSE>>
      ELSE <<goResolve(key, base, own, ctx), TRUE>>

EvaluateAll(values, rules, ctx) ==
  [k \in DOMAIN values \cup DOMAIN rules |->
     goResolve(k, IF k \in DOMAIN values THEN values[k] ELSE Null,
                  IF k \in DOMAIN rules THEN rules[k] ELSE <<>>, ctx)]

-----------------------------------------------------------------------------
(* TypeScript.                                                             *)

\* equalValues: toFinite leaves infinite numbers to deepEqual.
tsEqualValues(a, b) ==
  IF a.kind = "number" THEN b.kind = "number" /\ a.n = b.n ELSE a = b

\* What matchCondition does: "holds", "fails", or "throws" when it asks null, which is
\* what a condition saved without values has for them, for its length.
tsMatchCondition(c, attrs) ==
  IF c.attribute \notin DOMAIN attrs THEN IF c.operator = "notIn" THEN "holds" ELSE "fails"
  ELSE IF ~c.listed THEN "throws"
  ELSE LET v == attrs[c.attribute]
           t == Head(c.values)
           some == \E i \in DOMAIN c.values : tsEqualValues(c.values[i], v)
           there == c.values # <<>>
           finite == there /\ v.kind = "number" /\ t.kind = "number"
           holds ==
             \/ c.operator = "in" /\ some
             \/ c.operator = "notIn" /\ ~some
             \/ c.operator = "eq" /\ there /\ tsEqualValues(v, t)
             \/ c.operator = "neq" /\ there /\ ~tsEqualValues(v, t)
             \/ c.operator = "contains" /\ there /\ v.kind = "string" /\ t.kind = "string"
                                        /\ <<v.s, t.s>> \in Substring
             \/ c.operator = "gt" /\ finite /\ v.n > t.n
             \/ c.operator = "gte" /\ finite /\ v.n >= t.n
             \/ c.operator = "lt" /\ finite /\ v.n < t.n
             \/ c.operator = "lte" /\ finite /\ v.n <= t.n
       IN  IF holds THEN "holds" ELSE "fails"

\* The conditions up to the first that does not hold.
tsMatchConditions(conditions, attrs) ==
  FoldRight(LAMBDA c, rest : IF tsMatchCondition(c, attrs) = "holds" THEN rest
                             ELSE tsMatchCondition(c, attrs),
            conditions, "holds")

tsBucket(rollout, key, targetingKey) ==
  IF rollout.variants = <<>> THEN Null
  ELSE IF targetingKey = "" THEN Head(rollout.variants).value
  ELSE LET salt == IF rollout.salt = "" THEN key ELSE rollout.salt
       IN  FirstPast(rollout.variants, Hash[<<salt, key, targetingKey>>])

tsResolve(key, base, rules, ctx) ==
  FoldRight(LAMBDA rule, rest :
              LET match == tsMatchConditions(rule.conditions, ctx.attributes) IN
              IF match = "fails" THEN rest
              ELSE IF match = "throws" THEN Throws
              ELSE IF rule.rollout.set THEN tsBucket(rule.rollout, key, ctx.targetingKey)
              ELSE rule.value,
            rules, base)

\* The function, or for "__proto__" the object, that objects inherit.
Member(key) == [kind |-> "inherited", name |-> key]

\* values[key] of a field without a value is undefined, or inherited.
tsBase(values, key) ==
  IF key \in DOMAIN values THEN values[key]
  ELSE IF key \in Inherited THEN Member(key) ELSE Null

\* get(key, ctx): so is rules[key] of a field without rules, and for ... of throws over
\* what is inherited.
get(values, rules, key, ctx) ==
  IF key \in DOMAIN rules THEN tsResolve(key, tsBase(values, key), rules[key], ctx)
  ELSE IF key \in Inherited THEN Throws
  ELSE tsBase(values, key)

\* evaluate: one field that throws is all that the caller gets; and result["__proto__"] = v
\* makes no field of the result.
evaluate(values, rules, ctx) ==
  LET keys == DOMAIN values \cup DOMAIN rules
      field == [k \in keys |-> get(values, rules, k, ctx)]
  IN  [threw |-> \E k \in keys : field[k] = Throws,
       result |-> [k \in keys \ {"__proto__"} |-> field[k]]]
=============================================================================
