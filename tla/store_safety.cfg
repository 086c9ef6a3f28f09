CONSTANTS
  Envs = {e1, e2}
  Tx = {t1, t2}
  Defs <- MCDefs
  DefaultDef = "default"
  Payloads <- MCPayloads
  ValuesOK <- MCValuesOK
  RulesOK <- MCRulesOK
  MaxRequests = 4
  None = None
SPECIFICATION FairSpec
INVARIANTS StoreTypeOK NoVersionConflict RowsMatchTheirSchema AuditReplays NoticesInOrder LiveValuesValidUnlessRolledBack
PROPERTIES EveryRequestEnds ImplementsRevisionLog
CHECK_DEADLOCK FALSE
