----------------------------- MODULE MCLiveRules -----------------------------
(***************************************************************************)
(* Two fields at a time: "n" a number that definitions restrict more or    *)
(* less, and "m" a field of each of the other types.  Rules of every       *)
(* operator on an attribute that is a number, a string, infinite or        *)
(* absent, static ones and rollouts of two and three variants.  The names  *)
(* of two definitions are there for what is generated from them.           *)
(***************************************************************************)
EXTENDS LiveClients, TLC

MCMatches == {<<"^r", "red">>}
MCCompiles == {"^r"}
MCDurations == {"5s"}
MCSubstring == {<<"red", "re">>, <<"red", "red">>}
MCBuckets == 8

TargetingKeys == {"", "u1", "u2", "u3"}

\* Any function will do for SHA-256; this one separates the users and the salts.
MCHash ==
  [x \in {"n", "m", "salt"} \X {"n", "m"} \X TargetingKeys |->
     ((CASE x[3] = "u1" -> 0 [] x[3] = "u2" -> 3 [] x[3] = "u3" -> 7 [] OTHER -> 1)
       + (IF x[1] = "salt" THEN 4 ELSE 0)) % MCBuckets]

Field(name, type, required) ==
  [name |-> name, type |-> type, required |-> required,
   min |-> {}, max |-> {}, pattern |-> {}, enumValues |-> {}]

N(required) == Field("n", "int", required)

MCInherited == {"toString", "__proto__"}

\* What names are made of: "to string" has the identifier of "toString", "2m" a digit
\* first, "--" none; and "m,n" has the key of "m" in its tag.
MCWords ==
  "n" :> <<<<"n">>>> @@ "m" :> <<<<"m">>>> @@ "m,n" :> <<<<"m">>, <<"n">>>>
  @@ "toString" :> <<<<"to", "String">>>> @@ "to string" :> <<<<"to">>, <<"string">>>>
  @@ "2m" :> <<<<"2m">>>> @@ "--" :> <<>> @@ "__proto__" :> <<<<"proto">>>>

MCJsonKey == [name \in DOMAIN MCWords |-> IF name = "m,n" THEN "m" ELSE name]

\* The character that Go writes \a and TypeScript reads as the letter.
MCReread == [s \in {"red", "bell", "5s"} |-> IF s = "bell" THEN "a" ELSE s]

MCUpper ==
  "n" :> "N" @@ "m" :> "M" @@ "to" :> "To" @@ "string" :> "String" @@ "2m" :> "2m"
  @@ "proto" :> "Proto"

MCDigits == {"2m"}

\* The last three are refused: a name twice, an empty range, a pattern that is none.
MCDefinitions ==
  {<<N(TRUE), Field("m", type, FALSE)>> : type \in {"float", "duration"}}
  \cup {<<N(TRUE), Field("m", "bool", FALSE), Field("toString", "int", FALSE),
          Field("2m", "json", FALSE), Field("__proto__", "int", FALSE), Field("m,n", "int", FALSE)>>,
        <<N(TRUE), Field("m", "json", FALSE), Field("toString", "int", FALSE),
          Field("to string", "int", FALSE)>>,
        <<[N(TRUE) EXCEPT !.min = {0}, !.max = {2}],
          [Field("m", "enum", TRUE) EXCEPT !.enumValues = {Text("red"), Text("bell"), Number(1)}]>>,
        <<[Field("m", "string", FALSE) EXCEPT !.pattern = {"^r"}], N(FALSE),
          [Field("--", "enum", FALSE) EXCEPT !.enumValues = {Null}]>>,
        <<N(TRUE), Field("n", "string", TRUE)>>,
        <<[N(TRUE) EXCEPT !.min = {2}, !.max = {0}]>>,
        <<[Field("m", "string", FALSE) EXCEPT !.pattern = {"("}]>>}

Condition(operator, values) ==
  [attribute |-> "a", operator |-> operator, values |-> values, listed |-> TRUE]

\* A condition whose values are missing in what was saved, and null in what is delivered.
Unlisted(operator) == [Condition(operator, <<>>) EXCEPT !.listed = FALSE]

Infinity == [kind |-> "infinite", n |-> 1000]

Static(conditions, v) == [conditions |-> conditions, value |-> v, rollout |-> NoRollout]

Rollout(salt, variants) ==
  [conditions |-> <<>>, value |-> Null,
   rollout |-> [salt |-> salt, variants |-> variants, set |-> TRUE]]

Variants(values, weights) ==
  [i \in DOMAIN values |-> [value |-> values[i], weight |-> weights[i]]]

OnN == {Static(<<Condition(op, <<Number(2)>>)>>, Number(0)) : op \in allowedOperators \cup {"like"}}

Splits == {Variants(<<Number(0), Number(2), Number(4)>>, w) :
             w \in {<<0, 1, 2>>, <<0, 3, 0>>, <<1, 2, 0>>, <<2, 0, 2>>, <<0, 0, 0>>, <<-1, 2, 2>>}}
          \cup {Variants(<<Number(0), Number(1)>>, <<1, 2>>)}

Empty == [k \in {} |-> Null]

\* "m" is a value that some type of field accepts; the rules of "m" go with it.
WithM == {[values |-> "n" :> Number(2) @@ "m" :> x[1], rules |-> "m" :> <<x[2]>>] : x \in
  {<<Text("red"), Static(<<Condition("contains", <<Text("re")>>)>>, Text("red"))>>,
   <<Text("bell"), Static(<<Condition("neq", <<Text("red")>>)>>, Text("red"))>>,
   <<Number(1), Static(<<Unlisted("notIn")>>, Number(1))>>,
   <<Text("5s"), Static(<<>>, Text("red"))>>,
   <<Bool(TRUE), Rollout("salt", Variants(<<Null, Bool(FALSE)>>, <<1, 1>>))>>}}

MCPayloads ==
  WithM
  \cup {[values |-> "n" :> Number(2), rules |-> "n" :> <<r>>] : r \in
          OnN \cup {Rollout("", vs) : vs \in Splits} \cup {Rollout("", <<>>)}}
  \cup {[values |-> "n" :> Number(4), rules |-> Empty],
        [values |-> "n" :> Number(2) @@ "toString" :> Number(0) @@ "to string" :> Number(2),
         rules |-> Empty],
        [values |-> "n" :> Number(2) @@ "__proto__" :> Number(0) @@ "m,n" :> Number(0),
         rules |-> "toString" :> <<Static(<<Condition("eq", <<Number(1)>>)>>, Number(2))>>
                   @@ "__proto__" :> <<Static(<<Condition("eq", <<Number(2)>>)>>, Number(2))>>],
        [values |-> Empty, rules |-> "n" :> <<Static(<<Condition("in", <<Number(1)>>)>>, Number(0))>>],
        [values |-> "n" :> Number(2),
         rules |-> "m" :> <<Static(<<Condition("eq", <<Number(1)>>)>>, Number(1)),
                            Static(<<>>, Text("red"))>>]}

MCContexts ==
  [attributes : {Empty, "a" :> Number(1), "a" :> Number(2), "a" :> Text("red"), "a" :> Infinity},
   targetingKey : TargetingKeys]
=============================================================================
