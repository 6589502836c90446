CONSTANTS
  Keyed = TRUE
  Users = {u1, u2, u3}
  NoUser = NoUser
  Founder = u1
  Guest = u2
  Requests = {r1, r2}
  RowIds = {1, 2}
  Teams = {}
  RoleIds = {}
  InviteIds = {1}
  TeamInviteIds = {}
  Calls <- WorkspaceCalls
SPECIFICATION Spec
SYMMETRY SymAll
INVARIANTS TypeOK OnlyInsiders NoOrphans
CHECK_DEADLOCK FALSE
