CONSTANTS
  Envs = {e1}
  Tx = {t1, t2}
  Defs <- MCDefs
  DefaultDef = "default"
  Payloads <- MCPayloads
  ValuesOK <- MCValuesOK
  RulesOK <- MCRulesOK
  MaxRequests = 5
  None = None
SPECIFICATION Spec
INVARIANTS LiveValuesValid
CHECK_DEADLOCK FALSE
