CONSTANTS
  Keyed = TRUE
  Users = {u1, u2, u3}
  NoUser = NoUser
  Founder = u1
  Guest = u2
  Requests = {r1}
  RowIds = {1, 2}
  Teams = {1}
  RoleIds = {1, 2, 3}
  InviteIds = {1}
  TeamInviteIds = {1, 2}
  Calls <- TeamSerialCalls
SPECIFICATION StaffedSpec
INVARIANTS OnePendingTeamInvite
PROPERTIES OutsidersHaveLeft TeamOwnerKept AnsweredOnce
CHECK_DEADLOCK FALSE
