CONSTANTS
  Keyed = TRUE
  Users = {u1, u2}
  NoUser = NoUser
  Founder = u1
  Guest = u2
  Requests = {r1, r2}
  RowIds = {1, 2}
  Teams = {}
  RoleIds = {}
  InviteIds = {1}
  TeamInviteIds = {}
  Calls <- WorkspaceCalls
SPECIFICATION Spec
PROPERTIES OwnerNeverLost
CHECK_DEADLOCK FALSE
