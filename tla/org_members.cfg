CONSTANTS
  Users = {u1, u2, u3}
  Tx = {t1, t2, t3}
  Roles <- MCRoles
  MaxRequests = 3
  None = None
SPECIFICATION Spec
SYMMETRY MCSymmetry
INVARIANTS OrgTypeOK GuardKeepsAnOwner
PROPERTIES OrphanedOnlyByStaleRole
CHECK_DEADLOCK FALSE
