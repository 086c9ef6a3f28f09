CONSTANTS
  Users = {u1, u2}
  Tx = {t1, t2}
  Roles <- MCRoles
  MaxRequests = 3
  None = None
SPECIFICATION Spec
INVARIANTS HasOwner
CHECK_DEADLOCK FALSE
