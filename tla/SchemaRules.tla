----------------------------- MODULE SchemaRules -----------------------------
(***************************************************************************)
(* Definitions of configuration fields and the values they accept          *)
(* (internal/schema).  A JSON value is a record with its kind: numbers     *)
(* count halves, so that integers and other numbers can be told apart, and *)
(* strings, arrays and objects are names whose text does not matter beyond *)
(* the patterns they match.  A definition is a sequence of fields; the     *)
(* min, max and pattern of a field are sets, empty when it has none.       *)
(***************************************************************************)
EXTENDS Integers, Sequences

CONSTANTS
  Matches,    \* <<pattern, s>> : the string s matches the pattern
  Compiles,   \* the patterns that are regular expressions
  Durations   \* the strings that match durationPattern

Null == [kind |-> "null"]
Number(n) == [kind |-> "number", n |-> n]
Text(s) == [kind |-> "string", s |-> s]
Bool(b) == [kind |-> "bool", b |-> b]

allowedTypes == {"string", "int", "float", "bool", "json", "enum", "duration"}

Names(def) == {def[i].name : i \in DOMAIN def}

ValidateDefinition(def) ==
  /\ \A i, j \in DOMAIN def : def[i].name = def[j].name => i = j
  /\ \A i \in DOMAIN def :
       /\ def[i].name # ""
       /\ def[i].type \in allowedTypes
       /\ def[i].type = "enum" => def[i].enumValues # {}
       /\ \A m \in def[i].min, n \in def[i].max : m <= n

\* Compile fails for a pattern that is not a regular expression; only a string field's
\* pattern is in the document.
CompilesOK(def) ==
  \A i \in DOMAIN def :
    def[i].type = "string" => def[i].pattern \subseteq Compiles

InRange(f, n) == (\A m \in f.min : m <= n) /\ (\A m \in f.max : n <= m)

\* fieldSchema: what the JSON Schema of a field accepts, one case per type.
FieldAccepts(f, v) ==
  \/ f.type = "string"   /\ v.kind = "string"
                         /\ \A p \in f.pattern : <<p, v.s>> \in Matches
  \/ f.type = "int"      /\ v.kind = "number" /\ v.n % 2 = 0 /\ InRange(f, v.n)
  \/ f.type = "float"    /\ v.kind = "number" /\ InRange(f, v.n)
  \/ f.type = "bool"     /\ v.kind = "bool"
  \/ f.type = "enum"     /\ v \in f.enumValues
  \/ f.type = "duration" /\ v.kind = "string" /\ v.s \in Durations
  \/ f.type = "json"

\* Of two fields with one name the later one is in the document, and in the map that
\* targeting.Validate builds.
FieldNamed(def, name) ==
  def[CHOOSE i \in DOMAIN def :
        def[i].name = name /\ \A j \in DOMAIN def : def[j].name = name => j <= i]

\* jsonSchemaDoc and ValidateValues: no other properties, all required ones, each valid.
ValuesAccepted(def, values) ==
  /\ DOMAIN values \subseteq Names(def)
  /\ \A i \in DOMAIN def : def[i].required => def[i].name \in DOMAIN values
  /\ \A k \in DOMAIN values : FieldAccepts(FieldNamed(def, k), values[k])
=============================================================================
