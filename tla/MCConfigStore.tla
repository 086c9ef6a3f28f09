--------------------------- MODULE MCConfigStore ---------------------------
(***************************************************************************)
(* A project whose schema grows one field, a: the default definition has   *)
(* no field, "opt" has an optional a and "req" a required one.  Payloads:  *)
(* no values at all, a value for a, and a targeting rule on a with no      *)
(* value.  additionalProperties is false, so the default definition        *)
(* accepts no value for a; ValidateValues does not look at rules.          *)
(***************************************************************************)
EXTENDS ConfigStore

MCDefs == {"default", "opt", "req"}
MCPayloads == {"empty", "value", "rule"}

MCValuesOK == {<<"default", "empty">>, <<"default", "rule">>,
               <<"opt", "empty">>, <<"opt", "value">>, <<"opt", "rule">>,
               <<"req", "value">>}
MCRulesOK == (MCDefs \X {"empty", "value"}) \cup {<<"opt", "rule">>, <<"req", "rule">>}
=============================================================================
