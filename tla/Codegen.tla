------------------------------- MODULE Codegen -------------------------------
(***************************************************************************)
(* The typed accessors that knobs gen writes for a definition              *)
(* (internal/codegen): a Go struct that the values are decoded into, and a *)
(* TypeScript interface that they are said to have.  The name of a field   *)
(* is given by its words, the runs of letters and digits in it, and a word *)
(* by its parts, of which the first can be upper-cased; by the key that    *)
(* encoding/json takes from its tag; and a string by what TypeScript reads *)
(* where strconv.Quote has written it.                                     *)
(***************************************************************************)
EXTENDS SchemaRules, SequencesExt

CONSTANTS
  Words,    \* name -> its words
  Upper,    \* part -> the part with its first letter in upper case
  Digits,   \* the parts that begin with a digit
  JsonKey,  \* name -> the key in the tag: the name, or what is before its first comma,
            \* or the identifier if that is no key
  Reread,   \* string -> the string itself, unless Go escapes it as TypeScript does not
  MaxInt64  \* 2^63 - 1 in the program

ASSUME MaxInt64Assumption == MaxInt64 \in Nat

\* goFieldName: the words, each with its first letter in upper case, and "Field" before
\* a digit; <<>> is the error for a name without words.
goFieldName(name) ==
  LET pascal == FlattenSeq([i \in DOMAIN Words[name] |->
                              [Words[name][i] EXCEPT ![1] = Upper[@]]])
  IN  IF pascal # <<>> /\ Head(pascal) \in Digits THEN <<"Field">> \o pascal ELSE pascal

\* Mutant of EmitGoFails: identifiers are not compared.
EmitGoFailsUnseen(def) == \E i \in DOMAIN def : goFieldName(def[i].name) = <<>>

\* EmitGo: a field has no identifier, or the one of an earlier field.
EmitGoFails(def) ==
  \E i \in DOMAIN def :
    \/ goFieldName(def[i].name) = <<>>
    \/ \E j \in 1 .. i - 1 : goFieldName(def[j].name) = goFieldName(def[i].name)

goType(f) ==
  CASE f.type \in {"string", "duration", "enum"} -> "string"
    [] f.type = "int" -> "int64"
    [] f.type = "float" -> "float64"
    [] f.type = "bool" -> "bool"
    [] f.type = "json" -> "any"

\* What encoding/json decodes into a variable of a Go type; null leaves it as it is.
Unmarshals(type, v) ==
  \/ type = "any" \/ v.kind = "null"
  \/ type = "string" /\ v.kind = "string"
  \/ type = "int64" /\ v.kind = "number" /\ v.n % 2 = 0 /\ v.n \div 2 \in -MaxInt64 - 1 .. MaxInt64
  \/ type = "float64" /\ v.kind = "number"
  \/ type = "bool" /\ v.kind = "bool"

\* The field of the struct that a key is decoded into: of two with its tag, neither.
\* (That a key without a field is tried again in other cases is left out.)
DecodedInto(def, k) ==
  LET tagged == {i \in DOMAIN def : JsonKey[def[i].name] = k}
  IN  {i \in tagged : tagged = {i}}

\* Typed returns an error: a value does not go into its field.
TypedFails(def, values) ==
  \E k \in DOMAIN values : \E i \in DecodedInto(def, k) : ~Unmarshals(goType(def[i]), values[k])

\* The Config that Typed returns: what its fields, called by their identifiers, have been
\* given.
Typed(def, values) ==
  [id \in {goFieldName(def[i].name) : i \in DOMAIN def} |->
     {values[k] : k \in {k \in DOMAIN values :
                           \E i \in DecodedInto(def, k) : goFieldName(def[i].name) = id}}]

-----------------------------------------------------------------------------
tsType(f) ==
  CASE f.type \in {"string", "duration"} -> "string"
    [] f.type \in {"int", "float"} -> "number"
    [] f.type = "bool" -> "boolean"
    [] f.type = "json" -> "unknown"
    [] f.type = "enum" -> "union"

\* Mutant of enumLiteral: strings are not quoted, and name types.
enumLiteralUnquoted(v) == IF v.kind \in {"number", "bool"} THEN {v} ELSE {}

\* enumLiteral: the value of the literal that is printed; null, objects and arrays are
\* printed as Go does, <nil>, map[...], [...], which is no literal.
enumLiteral(v) ==
  CASE v.kind = "string" -> {Text(Reread[v.s])}
    [] v.kind \in {"number", "bool"} -> {v}
    [] OTHER -> {}

\* What EmitTypeScript writes is TypeScript: its unions are of literals.
EmitsTypeScript(def) ==
  \A i \in DOMAIN def : def[i].type = "enum" => \A v \in def[i].enumValues : enumLiteral(v) # {}

\* The type of a field in the interface has the value.
Inhabits(v, f) ==
  \/ tsType(f) = "unknown"
  \/ tsType(f) = "string" /\ v.kind = "string"
  \/ tsType(f) = "number" /\ v.kind = "number"
  \/ tsType(f) = "boolean" /\ v.kind = "bool"
  \/ tsType(f) = "union" /\ \E e \in f.enumValues : v \in enumLiteral(e)
=============================================================================
