CONSTANTS
  Keyed = TRUE
  Users = {u1, u2}
  NoUser = NoUser
  Founder = u1
  Guest = u2
  Requests = {r1}
  RowIds = {1, 2}
  Teams = {1}
  RoleIds = {1, 2, 3}
  InviteIds = {1}
  TeamInviteIds = {1}
  Calls <- TeamSerialCalls
SPECIFICATION StaffedSpec
INVARIANTS TeamMembersAreMembers
CHECK_DEADLOCK FALSE
