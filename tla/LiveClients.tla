----------------------------- MODULE LiveClients -----------------------------
(***************************************************************************)
(* The live configuration as programs use it: evaluated by the SDKs, and   *)
(* read through the accessors generated for its definition.                *)
(***************************************************************************)
EXTENDS LiveRules, SdkEval, Codegen

\* Conditions and their values are lists.  A number is its n, and what was decoded from
\* JSON is neither infinite nor an exception.
ASSUME JsonAssumption ==
  \A p \in Payloads :
    /\ \A k \in DOMAIN p.values : p.values[k] # Throws
    /\ \A k \in DOMAIN p.rules : \A i \in DOMAIN p.rules[k] :
         LET rule == p.rules[k][i] IN
         /\ rule.value # Throws
         /\ \A j \in DOMAIN rule.rollout.variants : rule.rollout.variants[j].value # Throws
         /\ DOMAIN rule.conditions = 1 .. Len(rule.conditions) /\ Len(rule.conditions) \in Nat
         /\ \A j \in DOMAIN rule.conditions :
              LET values == rule.conditions[j].values IN
              /\ DOMAIN values = 1 .. Len(values) /\ (values = <<>> \/ Len(values) > 0)
              /\ \A m \in DOMAIN values :
                   /\ values[m].kind # "infinite"
                   /\ \A ctx \in Contexts : \A a \in DOMAIN ctx.attributes :
                        LET v == values[m]
                            w == ctx.attributes[a]
                        IN  Numeric(v) /\ Numeric(w) /\ v.n = w.n => v = w

\* A string is its s.
ASSUME StringsAssumption ==
  \A p \in Payloads : \A k \in DOMAIN p.values :
    p.values[k].kind = "string" => p.values[k] = Text(p.values[k].s)

\* The key in a tag has no comma of its own.
ASSUME TagsAssumption ==
  \A def \in Definitions : \A i, j \in DOMAIN def :
    JsonKey[def[i].name] = def[j].name => JsonKey[def[j].name] = def[j].name

\* The conditions that are live.
LiveConditions ==
  UNION {UNION {{r[i].conditions[j] : j \in DOMAIN r[i].conditions} : i \in DOMAIN r} :
           r \in {Live.rules[k] : k \in DOMAIN Live.rules}}

\* Some condition orders an attribute that is infinite: toFinite rejects it, toFloat64
\* does not.
OrdersInfinity(ctx) ==
  \E c \in LiveConditions :
    /\ c.operator \in {"gt", "gte", "lt", "lte"}
    /\ c.attribute \in DOMAIN ctx.attributes
    /\ ctx.attributes[c.attribute].kind = "infinite"

\* The TypeScript evaluator may throw: at a condition that was saved without values, or
\* at a field without rules that is called like a member of every object.
MayThrow ==
  \/ \E c \in LiveConditions : ~c.listed
  \/ \E k \in DOMAIN Live.values \ DOMAIN Live.rules : k \in Inherited

\* No rule of a field matches, and it has no value but the one that objects inherit.
ReadsInherited(k, ctx) ==
  k \in Inherited \ DOMAIN Live.values /\ Matching(Live.rules[k], ctx) = {}

\* What the TypeScript evaluator makes of a context if no condition orders an infinity:
\* what the server's makes of it, but for names that every object has.
ResolvedInTypeScript(ctx) ==
  LET resolved == ResolveAll(Live.values, Live.rules, ctx)
  IN  [k \in DOMAIN resolved \ {"__proto__"} |->
         IF ReadsInherited(k, ctx) THEN Member(k) ELSE resolved[k]]

\* The three evaluators are in lockstep on whatever can be saved (eval.go of the Go SDK
\* and eval.ts both say that they mirror the server's): of every context, key by key and
\* all at once, they make the same values.  Exceptions are the TypeScript SDK's alone:
\* it throws where MayThrow says, an infinite attribute is ordered, or a field is called
\* like a member of every object and has no value, or is called "__proto__".
SdksAgree ==
  current # 0 => \A ctx \in Contexts :
    LET resolved == ResolveAll(Live.values, Live.rules, ctx)
        ts == evaluate(Live.values, Live.rules, ctx)
    IN  /\ EvaluateAll(Live.values, Live.rules, ctx) = resolved
        /\ \A k \in DOMAIN resolved :
             GetFor(Live.values, Live.rules, k, ctx) \in {<<resolved[k], TRUE>>, <<Null, FALSE>>}
        /\ IF ts.threw THEN MayThrow ELSE OrdersInfinity(ctx) \/ ts.result = ResolvedInTypeScript(ctx)

\* The enum values of a definition that read as TypeScript literals: enumLiteral's comment
\* has strings, numbers and booleans, but the schema accepts any JSON value.
ScalarEnums(def) ==
  \A i \in DOMAIN def : def[i].type = "enum" =>
    \A v \in def[i].enumValues : v.kind \in {"string", "number", "bool"}

\* A value whose literal is another's: a string that Go escapes in a way of its own.
EscapedAsGo(f, v) == f.type = "enum" /\ v.kind = "string" /\ Reread[v.s] # v.s

\* The Go type is that of the field: an enum is a string in Go, and an int has 64 bits.
FitsGo(f, v) ==
  /\ f.type = "enum" => v.kind = "string"
  /\ f.type = "int" => v.n \div 2 \in -MaxInt64 - 1 .. MaxInt64

\* The name of a field, and no other field's, is the key in its tag.
OwnKey(def, k) == \A i \in DOMAIN def : JsonKey[def[i].name] = k <=> def[i].name = k

\* Accessors generated for the definition that the live version was saved under fit it.
\* The interface is TypeScript and every live value has the type it says, if enum values
\* are strings, numbers and booleans and Go's escapes TypeScript's.  If there are Go
\* accessors at all, Typed decodes the live values without an error unless an enum is not
\* a string or an int has more than 64 bits; and each of them is all that the field with
\* its identifier is given, unless encoding/json cuts a name at a comma.
GeneratedCodeFits ==
  current # 0 =>
    LET def == versions[current].under
        values == Live.values
    IN  /\ ScalarEnums(def) =>
             /\ EmitsTypeScript(def)
             /\ \A k \in DOMAIN values :
                  LET f == FieldNamed(def, k)
                  IN  EscapedAsGo(f, values[k]) \/ Inhabits(values[k], f)
        /\ ~EmitGoFails(def) =>
             /\ (\A k \in DOMAIN values : FitsGo(FieldNamed(def, k), values[k]))
                  => ~TypedFails(def, values)
             /\ \A k \in DOMAIN values :
                  OwnKey(def, k) => Typed(def, values)[goFieldName(k)] = {values[k]}
=============================================================================
