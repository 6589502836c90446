CONSTANTS
  Keyed = TRUE
  Users = {u1, u2}
  NoUser = NoUser
  Founder = u1
  Guest = u2
  Requests = {r1, r2}
  RowIds = {1, 2}
  Teams = {}
  RoleIds = {}
  InviteIds = {1, 2}
  TeamInviteIds = {}
  Calls <- WorkspaceCalls
SPECIFICATION ExclusiveSpec
SYMMETRY SymAll
PROPERTIES OwnerNeverLost IsOwnedGroup
CHECK_DEADLOCK FALSE
