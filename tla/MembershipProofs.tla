-------------------------- MODULE MembershipProofs --------------------------
(***************************************************************************)
(* Proofs about Membership, for every set of users, requests, teams, roles *)
(* and invitations, and for every choice of the operations clients call.   *)
(***************************************************************************)
EXTENDS Membership, TLAPS

-----------------------------------------------------------------------------
(* The type invariant.  TypeOK is not inductive: that a row a request saves *)
(* is well formed depends on the locals the request has by then, so the    *)
(* invariant adds which locals are set at which control point.             *)

\* Record q has the locals a request has at control point l.
GoodAt(l, q) ==
  /\ l \in {"createMember", "leaveCount", "leaveRemove", "roleFind", "roleSave",
           "removeFind", "removeCount", "removeTeams", "removeTeamRows",
           "removeRow", "inviteMember", "inviteFind", "inviteSave",
           "respondSave", "respondJoin", "teamSave", "teamOwnerRole",
           "teamMemberRole", "teamCreator", "teamInviteRole", "teamInviteUser",
           "teamInviteMember", "teamInviteFind", "teamInviteSave",
           "memberRoleFind", "memberRoleRole", "memberRoleOwners",
           "memberRoleSave", "kickFind", "kickOwners", "kick",
           "respondTeamSave", "respondTeamVerify", "respondTeamJoin"}
       => q.user \in Users
  /\ l \in {"roleFind", "roleSave", "inviteMember", "inviteFind", "inviteSave",
           "respondSave", "respondJoin"}
       => q.wsRole \in {"owner", "member"}
  /\ l \in {"leaveCount", "leaveRemove", "roleSave", "removeCount",
           "removeTeams", "removeTeamRows", "removeRow", "memberRoleRole",
           "memberRoleOwners", "memberRoleSave", "kickOwners", "kick"}
       => q.id \in RowIds
  /\ l \in {"respondSave", "respondTeamSave"}
       => q.status \in {"pending", "accepted", "rejected"}
  /\ l \in {"teamOwnerRole", "teamMemberRole", "teamCreator", "newRole",
           "editRoleFind", "editRoleSave", "editDefaultSave", "deleteTeam",
           "dropRoleFind",
           "dropRoleCount", "dropRole", "teamInviteRole", "teamInviteUser",
           "teamInviteMember", "teamInviteFind", "teamInviteSave",
           "memberRoleFind", "memberRoleRole", "memberRoleOwners",
           "memberRoleSave", "kickFind", "kickOwners", "kick",
           "respondTeamSave", "respondTeamVerify", "respondTeamJoin"}
       => q.team \in Teams
  /\ l \in {"teamMemberRole", "teamCreator", "editRoleFind", "editRoleSave",
           "editDefaultSave",
           "dropRoleFind", "dropRoleCount", "dropRole", "teamInviteRole",
           "teamInviteUser", "teamInviteMember", "teamInviteFind",
           "teamInviteSave", "memberRoleFind", "memberRoleRole",
           "memberRoleOwners", "memberRoleSave", "respondTeamSave",
           "respondTeamVerify", "respondTeamJoin"}
       => q.roleId \in RoleIds
  /\ l \in {"newRole", "editRoleFind", "editRoleSave", "editDefaultSave"}
       => q.name \in RoleNames

GoodRequest ==
  {q \in Request : GoodAt(q.at, q)}

TypeInv == TablesTypeOK /\ req \in [Requests -> GoodRequest]

-----------------------------------------------------------------------------
(* What the steps of a request do to its record. *)

LEMMA IdleIsGood == Idle \in GoodRequest
<1>1. Idle \in Request
  BY DEF Idle, Request, Labels
<1>2. GoodAt("idle", Idle)
  BY DEF GoodAt
<1> QED BY <1>1, <1>2 DEF GoodRequest, Idle

LEMMA FinishType ==
  ASSUME req \in [Requests -> GoodRequest], NEW r \in Requests, Finish(r)
  PROVE  req' \in [Requests -> GoodRequest]
  BY IdleIsGood DEF Finish

LEMMA GoodMove ==
  ASSUME NEW q \in Request, NEW l \in Labels, GoodAt(l, q)
  PROVE  [q EXCEPT !.at = l] \in GoodRequest
<1> DEFINE p == [q EXCEPT !.at = l]
<1>1. p \in Request /\ p.at = l
  BY DEF Request
<1>2. /\ p.user = q.user /\ p.wsRole = q.wsRole /\ p.id = q.id
      /\ p.status = q.status /\ p.team = q.team /\ p.roleId = q.roleId
      /\ p.name = q.name
  BY DEF Request
<1> HIDE DEF p
<1>3. GoodAt(l, p)
  BY <1>2 DEF GoodAt
<1>4. p \in GoodRequest
  BY <1>1, <1>3 DEF GoodRequest
<1> QED BY <1>4 DEF p

LEMMA AdvanceType ==
  ASSUME req \in [Requests -> GoodRequest], NEW r \in Requests,
         NEW l \in Labels, GoodAt(l, req[r]), Advance(r, l)
  PROVE  req' \in [Requests -> GoodRequest]
<1>1. req[r] \in Request
  BY DEF GoodRequest
<1> QED BY <1>1, GoodMove DEF Advance

LEMMA CheckType ==
  ASSUME req \in [Requests -> GoodRequest], NEW r \in Requests,
         NEW l \in Labels, GoodAt(l, req[r]), NEW ok, Check(r, ok, l)
  PROVE  req' \in [Requests -> GoodRequest]
  BY FinishType, AdvanceType DEF Check

LEMMA BeginType ==
  ASSUME req \in [Requests -> GoodRequest], NEW r \in Requests,
         NEW c \in Request, GoodAt(c.at, c), Begin(r, c)
  PROVE  req' \in [Requests -> GoodRequest]
  BY DEF Begin, GoodRequest

LEMMA MoveType ==
  ASSUME req \in [Requests -> GoodRequest], NEW r \in Requests,
         NEW c \in Request, GoodAt(c.at, c), req' = [req EXCEPT ![r] = c]
  PROVE  req' \in [Requests -> GoodRequest]
  BY DEF GoodRequest

\* A request that loads a member row and goes on to l.
LEMMA LoadType ==
  ASSUME req \in [Requests -> GoodRequest], NEW r \in Requests,
         NEW l \in Labels, NEW i \in RowIds,
         GoodAt(l, [req[r] EXCEPT !.id = i]),
         req' = [req EXCEPT ![r].at = l, ![r].id = i]
  PROVE  req' \in [Requests -> GoodRequest]
<1> DEFINE q == req[r]
           p == [q EXCEPT !.id = i]
<1>1. q \in Request
  BY DEF GoodRequest
<1>2. p \in Request
  BY <1>1 DEF Request
<1>3. [p EXCEPT !.at = l] \in GoodRequest
  BY <1>2, GoodMove
<1>4. [p EXCEPT !.at = l] = [q EXCEPT !.at = l, !.id = i]
  BY <1>1 DEF Request
<1> QED BY <1>3, <1>4

LEMMA InsertMemberType ==
  ASSUME member \in [Users -> MemberRow \union {NoMember}],
         NEW u \in Users, NEW id \in RowIds, NEW ro \in {"owner", "member"},
         InsertMember(u, id, ro)
  PROVE  member' \in [Users -> MemberRow \union {NoMember}]
  BY DEF InsertMember, MemberRow

LEMMA RemoveMemberType ==
  ASSUME member \in [Users -> MemberRow \union {NoMember}],
         NEW r, RemoveLoadedMember(r)
  PROVE  member' \in [Users -> MemberRow \union {NoMember}]
  BY DEF RemoveLoadedMember

LEMMA FreshTypes ==
  /\ FreshRow \subseteq RowIds
  /\ FreshTeam \subseteq Teams
  /\ FreshRole \subseteq RoleIds
  /\ FreshInvite \subseteq InviteIds
  /\ FreshTeamInvite \subseteq TeamInviteIds
  BY DEF FreshRow, FreshTeam, FreshRole, FreshInvite, FreshTeamInvite, Least

LEMMA DeleteTeamsType ==
  ASSUME TablesTypeOK, NEW S, DeleteTeams(S)
  PROVE  /\ teamInvite' \in [TeamInviteIds -> TeamInvite \union {NoTeamInvite}]
         /\ teamMember' \in [Teams -> [Users -> TeamMemberRow \union {NoTeamMember}]]
         /\ role' \in [RoleIds -> Role \union {NoRole}]
         /\ team' \in [Teams -> {"unused", "live", "gone"}]
<1> USE DEF TablesTypeOK, DeleteTeams
<1>1. teamInvite' \in [TeamInviteIds -> TeamInvite \union {NoTeamInvite}]
  OBVIOUS
<1>2. teamMember' \in [Teams -> [Users -> TeamMemberRow \union {NoTeamMember}]]
  OBVIOUS
<1>3. role' \in [RoleIds -> Role \union {NoRole}]
  OBVIOUS
<1>4. team' \in [Teams -> {"unused", "live", "gone"}]
  OBVIOUS
<1> QED BY <1>1, <1>2, <1>3, <1>4

LEMMA InitType == TablesInit => TypeInv
<1> SUFFICES ASSUME TablesInit PROVE TypeInv
  OBVIOUS
<1>1. req \in [Requests -> GoodRequest] /\ req \in [Requests -> Request]
  BY IdleIsGood DEF TablesInit, GoodRequest
<1> QED BY <1>1 DEF TablesInit, TypeInv, TablesTypeOK

LEMMA RequestsSuffice ==
  ASSUME req' \in [Requests -> GoodRequest]
  PROVE  req' \in [Requests -> Request]
  BY DEF GoodRequest

LEMMA WorkspaceStepType ==
  ASSUME TypeInv, NEW r \in Requests, WorkspaceStep(r)
  PROVE  TypeInv'
<1> USE DEF TypeInv, TablesTypeOK
<1> DEFINE q == req[r]
<1>q. q \in Request /\ GoodAt(q.at, q)
  BY DEF GoodRequest
<1>1. CASE CreateMember(r)
  <2>1. q.user \in Users
    BY <1>1, <1>q DEF CreateMember, GoodAt
  <2>2. member' \in [Users -> MemberRow \union {NoMember}]
    BY <1>1, <2>1, InsertMemberType, FreshTypes DEF CreateMember
  <2> QED
    BY <1>1, <2>2, FinishType, RequestsSuffice DEF CreateMember
<1>2. CASE DeleteWorkspaceTx(r)
  <2>1. req' \in [Requests -> GoodRequest]
    BY <1>2, FinishType DEF DeleteWorkspaceTx
  <2>2. CASE Live
    <3>1. DeleteTeams(LiveTeams)
      BY <1>2, <2>2 DEF DeleteWorkspaceTx
    <3> QED
      BY <1>2, <2>1, <2>2, <3>1, DeleteTeamsType, RequestsSuffice
      DEF DeleteWorkspaceTx
  <2>3. CASE ~Live
    BY <1>2, <2>1, <2>3, RequestsSuffice DEF DeleteWorkspaceTx, tables
  <2> QED BY <2>2, <2>3
<1>3. CASE LeaveCount(r)
  <2>1. GoodAt("leaveRemove", q)
    BY <1>3, <1>q DEF LeaveCount, GoodAt
  <2>2. req' \in [Requests -> GoodRequest]
    BY <1>3, <2>1, CheckType DEF LeaveCount, Labels, WorkspaceLabels
  <2> QED
    BY <1>3, <2>2, RequestsSuffice DEF LeaveCount, tables
<1>4. CASE LeaveRemove(r)
  <2>1. member' \in [Users -> MemberRow \union {NoMember}]
    BY <1>4, RemoveMemberType DEF LeaveRemove
  <2> QED
    BY <1>4, <2>1, FinishType, RequestsSuffice DEF LeaveRemove
<1>5. CASE RoleFind(r)
  <2>1. q.user \in Users /\ q.wsRole \in {"owner", "member"}
    BY <1>5, <1>q DEF RoleFind, GoodAt
  <2>2. CASE Has(q.user)
    <3>1. member[q.user].id \in RowIds
      BY <2>1, <2>2 DEF Has, MemberRow
    <3>2. GoodAt("roleSave", [q EXCEPT !.id = member[q.user].id])
      BY <2>1, <3>1, <1>q DEF GoodAt, Request
    <3> QED
      BY <1>5, <2>2, <3>1, <3>2, LoadType, RequestsSuffice
      DEF RoleFind, tables, Labels, WorkspaceLabels
  <2>3. CASE ~Has(q.user)
    BY <1>5, <2>3, FinishType, RequestsSuffice DEF RoleFind, tables
  <2> QED BY <2>2, <2>3
<1>6. CASE RoleSave(r)
  <2>1. q.user \in Users /\ q.id \in RowIds /\ q.wsRole \in {"owner", "member"}
    BY <1>6, <1>q DEF RoleSave, GoodAt
  <2>2. CASE member[q.user].id = q.id
    <3>1. member[q.user] \in MemberRow
      BY <2>1, <2>2, IdAssumption DEF NoMember
    <3>2. member' \in [Users -> MemberRow \union {NoMember}]
      BY <1>6, <2>1, <2>2, <3>1 DEF RoleSave, MemberRow
    <3> QED
      BY <1>6, <3>2, FinishType, RequestsSuffice DEF RoleSave
  <2>3. CASE member[q.user].id # q.id
    <3>1. member' \in [Users -> MemberRow \union {NoMember}]
      BY <1>6, <2>1, <2>3, InsertMemberType DEF RoleSave
    <3> QED
      BY <1>6, <3>1, FinishType, RequestsSuffice DEF RoleSave
  <2> QED BY <2>2, <2>3
<1>7. CASE RemoveFind(r)
  <2>1. q.user \in Users
    BY <1>7, <1>q DEF RemoveFind, GoodAt
  <2>2. CASE Has(q.user)
    <3> DEFINE l == IF q.user \in Owners THEN "removeCount" ELSE "removeTeams"
    <3>1. member[q.user].id \in RowIds
      BY <2>1, <2>2 DEF Has, MemberRow
    <3>2. req' = [req EXCEPT ![r].at = l, ![r].id = member[q.user].id]
      BY <1>7, <2>2 DEF RemoveFind
    <3>3. l \in {"removeCount", "removeTeams"}
      OBVIOUS
    <3> HIDE DEF l
    <3>4. GoodAt(l, [q EXCEPT !.id = member[q.user].id])
      BY <2>1, <3>1, <3>3, <1>q DEF GoodAt, Request
    <3>5. l \in Labels
      BY <3>3 DEF Labels, WorkspaceLabels
    <3> QED
      BY <1>7, <3>1, <3>2, <3>4, <3>5, LoadType, RequestsSuffice DEF RemoveFind, tables
  <2>3. CASE ~Has(q.user)
    BY <1>7, <2>3, FinishType, RequestsSuffice DEF RemoveFind, tables
  <2> QED BY <2>2, <2>3
<1>8. CASE RemoveCount(r)
  <2>1. GoodAt("removeTeams", q)
    BY <1>8, <1>q DEF RemoveCount, GoodAt
  <2>2. req' \in [Requests -> GoodRequest]
    BY <1>8, <2>1, CheckType DEF RemoveCount, Labels, WorkspaceLabels
  <2> QED
    BY <1>8, <2>2, RequestsSuffice DEF RemoveCount, tables
<1>9. CASE RemoveTeams(r)
  <2> DEFINE c == [q EXCEPT !.at = "removeTeamRows", !.teams = LiveTeams]
  <2>1. /\ c \in Request /\ c.at = "removeTeamRows"
        /\ c.user = q.user /\ c.id = q.id
    BY <1>q DEF Request, Labels, WorkspaceLabels, LiveTeams
  <2>2. req' = [req EXCEPT ![r] = c]
    BY <1>9 DEF RemoveTeams
  <2> HIDE DEF c
  <2>3. GoodAt(c.at, c)
    BY <1>9, <1>q, <2>1 DEF RemoveTeams, GoodAt
  <2> QED
    BY <1>9, <2>1, <2>2, <2>3, MoveType, RequestsSuffice DEF RemoveTeams, tables
<1>10. CASE RemoveTeamRows(r)
  <2>1. GoodAt("removeRow", q)
    BY <1>10, <1>q DEF RemoveTeamRows, GoodAt
  <2>2. req' \in [Requests -> GoodRequest]
    BY <1>10, <2>1, AdvanceType DEF RemoveTeamRows, Labels, WorkspaceLabels
  <2> QED
    BY <1>10, <2>2, RequestsSuffice DEF RemoveTeamRows
<1>11. CASE RemoveRow(r)
  <2>1. member' \in [Users -> MemberRow \union {NoMember}]
    BY <1>11, RemoveMemberType DEF RemoveRow
  <2> QED
    BY <1>11, <2>1, FinishType, RequestsSuffice DEF RemoveRow
<1>12. CASE InviteCheckMember(r)
  <2>1. GoodAt("inviteFind", q)
    BY <1>12, <1>q DEF InviteCheckMember, GoodAt
  <2>2. req' \in [Requests -> GoodRequest]
    BY <1>12, <2>1, CheckType DEF InviteCheckMember, Labels, WorkspaceLabels
  <2> QED
    BY <1>12, <2>2, RequestsSuffice DEF InviteCheckMember, tables
<1>13. CASE InviteFind(r)
  <2>1. GoodAt("inviteSave", q)
    BY <1>13, <1>q DEF InviteFind, GoodAt
  <2>2. req' \in [Requests -> GoodRequest]
    BY <1>13, <2>1, CheckType, AdvanceType DEF InviteFind, Labels, WorkspaceLabels
  <2> QED
    BY <1>13, <2>2, RequestsSuffice DEF InviteFind, tables
<1>14. CASE InviteSave(r)
  <2>1. q.user \in Users /\ q.wsRole \in {"owner", "member"}
    BY <1>14, <1>q DEF InviteSave, GoodAt
  <2>2. invite' \in [InviteIds -> Invite \union {NoInvite}]
    BY <1>14, <2>1, FreshTypes DEF InviteSave, Invite
  <2> QED
    BY <1>14, <2>2, FinishType, RequestsSuffice DEF InviteSave
<1>15. CASE RespondSave(r)
  <2>1. GoodAt("respondJoin", q) /\ q.status \in {"pending", "accepted", "rejected"}
    BY <1>15, <1>q DEF RespondSave, GoodAt
  <2>2. req' \in [Requests -> GoodRequest]
    BY <1>15, <2>1, AdvanceType, FinishType DEF RespondSave, Labels, WorkspaceLabels
  <2>3. invite' \in [InviteIds -> Invite \union {NoInvite}]
    BY <1>15, <2>1 DEF RespondSave, Invite, NoInvite
  <2> QED
    BY <1>15, <2>2, <2>3, RequestsSuffice DEF RespondSave
<1>16. CASE RespondJoin(r)
  <2>1. q.user \in Users /\ q.wsRole \in {"owner", "member"}
    BY <1>16, <1>q DEF RespondJoin, GoodAt
  <2>2. member' \in [Users -> MemberRow \union {NoMember}]
    BY <1>16, <2>1, InsertMemberType, FreshTypes DEF RespondJoin
  <2> QED
    BY <1>16, <2>2, FinishType, RequestsSuffice DEF RespondJoin
<1> QED
  BY <1>1, <1>2, <1>3, <1>4, <1>5, <1>6, <1>7, <1>8, <1>9, <1>10, <1>11, <1>12, <1>13, <1>14, <1>15, <1>16 DEF WorkspaceStep

LEMMA WorkspaceArrivalType ==
  ASSUME TypeInv, NEW r \in Requests, WorkspaceArrival(r)
  PROVE  TypeInv'
<1> USE DEF TypeInv, TablesTypeOK
<1>1. ASSUME NEW u \in Users, CreateWorkspace(r, u)
     PROVE  TypeInv'
  <2> DEFINE c == Call("createMember", u)
  <2>1. c \in Request
    BY <1>1 DEF CreateWorkspace, Call, Idle, Request, Labels, WorkspaceLabels
  <2>2. GoodAt(c.at, c)
    BY <1>1 DEF CreateWorkspace, Call, Idle, GoodAt
  <2>3. Begin(r, c)
    BY <1>1 DEF CreateWorkspace
  <2> HIDE DEF c
  <2> QED
    BY <1>1, <2>1, <2>2, <2>3, BeginType, RequestsSuffice DEF CreateWorkspace
<1>2. ASSUME NEW u \in Users, DeleteWorkspace(r, u)
     PROVE  TypeInv'
  <2> DEFINE c == Call("deleteWorkspace", NoUser)
  <2>1. c \in Request
    BY <1>2 DEF DeleteWorkspace, Call, Idle, Request, Labels, WorkspaceLabels
  <2>2. GoodAt(c.at, c)
    BY <1>2 DEF DeleteWorkspace, Call, Idle, GoodAt
  <2>3. Begin(r, c)
    BY <1>2 DEF DeleteWorkspace
  <2> HIDE DEF c
  <2> QED
    BY <1>2, <2>1, <2>2, <2>3, BeginType, RequestsSuffice DEF DeleteWorkspace, tables
<1>3. ASSUME NEW u \in Users, LeaveWorkspace(r, u)
     PROVE  TypeInv'
  <2> DEFINE l == IF u \in Owners THEN "leaveCount" ELSE "leaveRemove"
             c == [Call(l, u) EXCEPT !.id = member[u].id]
  <2>1. Begin(r, c)
    BY <1>3 DEF LeaveWorkspace
  <2>2. l \in {"leaveCount", "leaveRemove"}
    OBVIOUS
  <2> HIDE DEF l
  <2>3. member[u].id \in RowIds
    BY <1>3 DEF LeaveWorkspace, Has, MemberRow
  <2>4. c \in Request
    BY <2>2, <2>3 DEF Call, Idle, Request, Labels, WorkspaceLabels
  <2>5. GoodAt(c.at, c)
    BY <2>2, <2>3 DEF Call, Idle, GoodAt
  <2> HIDE DEF c
  <2> QED
    BY <1>3, <2>1, <2>4, <2>5, BeginType, RequestsSuffice
    DEF LeaveWorkspace, tables
<1>4. ASSUME NEW u \in Users, NEW v \in Users,
            NEW ro \in {"owner", "member"}, UpdateMemberRole(r, u, v, ro)
     PROVE  TypeInv'
  <2> DEFINE c == [Call("roleFind", v) EXCEPT !.wsRole = ro]
  <2>1. c \in Request
    BY <1>4 DEF UpdateMemberRole, Call, Idle, Request, Labels, WorkspaceLabels
  <2>2. GoodAt(c.at, c)
    BY <1>4 DEF UpdateMemberRole, Call, Idle, GoodAt
  <2>3. Begin(r, c)
    BY <1>4 DEF UpdateMemberRole
  <2> HIDE DEF c
  <2> QED
    BY <1>4, <2>1, <2>2, <2>3, BeginType, RequestsSuffice DEF UpdateMemberRole, tables
<1>5. ASSUME NEW u \in Users, NEW v \in Users,
            NEW ro \in {"owner", "member"}, InviteMember(r, u, v, ro)
     PROVE  TypeInv'
  <2> DEFINE c == [Call("inviteMember", v) EXCEPT !.wsRole = ro]
  <2>1. c \in Request
    BY <1>5 DEF InviteMember, Call, Idle, Request, Labels, WorkspaceLabels
  <2>2. GoodAt(c.at, c)
    BY <1>5 DEF InviteMember, Call, Idle, GoodAt
  <2>3. Begin(r, c)
    BY <1>5 DEF InviteMember
  <2> HIDE DEF c
  <2> QED
    BY <1>5, <2>1, <2>2, <2>3, BeginType, RequestsSuffice DEF InviteMember, tables
<1>6. ASSUME NEW u \in Users, NEW v \in Users, RemoveMember(r, u, v)
     PROVE  TypeInv'
  <2> DEFINE c == Call("removeFind", v)
  <2>1. c \in Request
    BY <1>6 DEF RemoveMember, Call, Idle, Request, Labels, WorkspaceLabels
  <2>2. GoodAt(c.at, c)
    BY <1>6 DEF RemoveMember, Call, Idle, GoodAt
  <2>3. Begin(r, c)
    BY <1>6 DEF RemoveMember
  <2> HIDE DEF c
  <2> QED
    BY <1>6, <2>1, <2>2, <2>3, BeginType, RequestsSuffice DEF RemoveMember, tables
<1>7. ASSUME NEW u \in Users, NEW i \in InviteIds,
            NEW st \in {"pending", "accepted", "rejected"}, Respond(r, u, i, st)
     PROVE  TypeInv'
  <2> DEFINE c == [Call("respondSave", u) EXCEPT !.inv = i, !.status = st,
                                                 !.wsRole = invite[i].role]
  <2>0. invite[i].role \in {"owner", "member"}
    BY <1>7, NoUserAssumption DEF Respond, Invite, NoInvite
  <2>1. c \in Request
    BY <2>0 DEF Call, Idle, Request, Labels, WorkspaceLabels
  <2>2. GoodAt(c.at, c)
    BY <2>0 DEF Call, Idle, GoodAt
  <2>3. Begin(r, c)
    BY <1>7 DEF Respond
  <2> HIDE DEF c
  <2> QED
    BY <1>7, <2>1, <2>2, <2>3, BeginType, RequestsSuffice DEF Respond, tables
<1> QED
  BY <1>1, <1>2, <1>3, <1>4, <1>5, <1>6, <1>7 DEF WorkspaceArrival

LEMMA TeamArrivalType ==
  ASSUME TypeInv, NEW r \in Requests, TeamArrival(r)
  PROVE  TypeInv'
<1> USE DEF TypeInv, TablesTypeOK
<1>1. ASSUME NEW u \in Users, CreateTeam(r, u)
     PROVE  TypeInv'
  <2> DEFINE c == Call("teamSave", u)
  <2>1. c \in Request
    BY <1>1 DEF CreateTeam, Call, Idle, Request, Labels, TeamLabels
  <2>2. GoodAt(c.at, c)
    BY <1>1 DEF CreateTeam, Call, Idle, GoodAt
  <2>3. Begin(r, c)
    BY <1>1 DEF CreateTeam
  <2> HIDE DEF c
  <2> QED
    BY <1>1, <2>1, <2>2, <2>3, BeginType, RequestsSuffice DEF CreateTeam, tables
<1>2. ASSUME NEW u \in Users, NEW t \in Teams, DeleteTeam(r, u, t)
     PROVE  TypeInv'
  <2> DEFINE c == TeamCall("deleteTeam", NoUser, t)
  <2>1. c \in Request
    BY <1>2 DEF DeleteTeam, Call, TeamCall, Idle, Request, Labels, TeamLabels
  <2>2. GoodAt(c.at, c)
    BY <1>2 DEF DeleteTeam, Call, TeamCall, Idle, GoodAt
  <2>3. Begin(r, c)
    BY <1>2 DEF DeleteTeam
  <2> HIDE DEF c
  <2> QED
    BY <1>2, <2>1, <2>2, <2>3, BeginType, RequestsSuffice DEF DeleteTeam, tables
<1>3. ASSUME NEW u \in Users, NEW t \in Teams, NEW nm \in RoleNames,
            CreateRole(r, u, t, nm)
     PROVE  TypeInv'
  <2> DEFINE c == [TeamCall("newRole", NoUser, t) EXCEPT !.name = nm]
  <2>1. c \in Request
    BY <1>3 DEF CreateRole, Call, TeamCall, Idle, Request, Labels, TeamLabels
  <2>2. GoodAt(c.at, c)
    BY <1>3 DEF CreateRole, Call, TeamCall, Idle, GoodAt
  <2>3. Begin(r, c)
    BY <1>3 DEF CreateRole
  <2> HIDE DEF c
  <2> QED
    BY <1>3, <2>1, <2>2, <2>3, BeginType, RequestsSuffice DEF CreateRole, tables
<1>4. ASSUME NEW u \in Users, NEW t \in Teams, NEW k \in RoleIds,
            DeleteRole(r, u, t, k)
     PROVE  TypeInv'
  <2> DEFINE c == [TeamCall("dropRoleFind", NoUser, t) EXCEPT !.roleId = k]
  <2>1. c \in Request
    BY <1>4 DEF DeleteRole, Call, TeamCall, Idle, Request, Labels, TeamLabels
  <2>2. GoodAt(c.at, c)
    BY <1>4 DEF DeleteRole, Call, TeamCall, Idle, GoodAt
  <2>3. Begin(r, c)
    BY <1>4 DEF DeleteRole
  <2> HIDE DEF c
  <2> QED
    BY <1>4, <2>1, <2>2, <2>3, BeginType, RequestsSuffice DEF DeleteRole, tables
<1>5. ASSUME NEW u \in Users, NEW t \in Teams, NEW k \in RoleIds,
            NEW nm \in RoleNames, UpdateRole(r, u, t, k, nm)
     PROVE  TypeInv'
  <2> DEFINE c == [TeamCall("editRoleFind", NoUser, t)
                    EXCEPT !.roleId = k, !.name = nm]
  <2>1. c \in Request
    BY <1>5 DEF UpdateRole, Call, TeamCall, Idle, Request, Labels, TeamLabels
  <2>2. GoodAt(c.at, c)
    BY <1>5 DEF UpdateRole, Call, TeamCall, Idle, GoodAt
  <2>3. Begin(r, c)
    BY <1>5 DEF UpdateRole
  <2> HIDE DEF c
  <2> QED
    BY <1>5, <2>1, <2>2, <2>3, BeginType, RequestsSuffice DEF UpdateRole, tables
<1>6. ASSUME NEW u \in Users, NEW t \in Teams, NEW k \in RoleIds,
            NEW v \in Users, InviteTeamMember(r, u, t, v, k)
     PROVE  TypeInv'
  <2> DEFINE c == [TeamCall("teamInviteRole", v, t) EXCEPT !.roleId = k]
  <2>1. c \in Request
    BY <1>6 DEF InviteTeamMember, Call, TeamCall, Idle, Request, Labels, TeamLabels
  <2>2. GoodAt(c.at, c)
    BY <1>6 DEF InviteTeamMember, Call, TeamCall, Idle, GoodAt
  <2>3. Begin(r, c)
    BY <1>6 DEF InviteTeamMember
  <2> HIDE DEF c
  <2> QED
    BY <1>6, <2>1, <2>2, <2>3, BeginType, RequestsSuffice DEF InviteTeamMember, tables
<1>7. ASSUME NEW u \in Users, NEW t \in Teams, NEW k \in RoleIds,
            NEW v \in Users, UpdateTeamMemberRole(r, u, t, v, k)
     PROVE  TypeInv'
  <2> DEFINE c == [TeamCall("memberRoleFind", v, t) EXCEPT !.roleId = k]
  <2>1. c \in Request
    BY <1>7 DEF UpdateTeamMemberRole, Call, TeamCall, Idle, Request, Labels, TeamLabels
  <2>2. GoodAt(c.at, c)
    BY <1>7 DEF UpdateTeamMemberRole, Call, TeamCall, Idle, GoodAt
  <2>3. Begin(r, c)
    BY <1>7 DEF UpdateTeamMemberRole
  <2> HIDE DEF c
  <2> QED
    BY <1>7, <2>1, <2>2, <2>3, BeginType, RequestsSuffice DEF UpdateTeamMemberRole, tables
<1>8. ASSUME NEW u \in Users, NEW t \in Teams, NEW v \in Users,
            RemoveTeamMember(r, u, t, v)
     PROVE  TypeInv'
  <2> DEFINE c == TeamCall("kickFind", v, t)
  <2>1. c \in Request
    BY <1>8 DEF RemoveTeamMember, Call, TeamCall, Idle, Request, Labels, TeamLabels
  <2>2. GoodAt(c.at, c)
    BY <1>8 DEF RemoveTeamMember, Call, TeamCall, Idle, GoodAt
  <2>3. Begin(r, c)
    BY <1>8 DEF RemoveTeamMember
  <2> HIDE DEF c
  <2> QED
    BY <1>8, <2>1, <2>2, <2>3, BeginType, RequestsSuffice DEF RemoveTeamMember, tables
<1>9. ASSUME NEW u \in Users, NEW i \in TeamInviteIds,
            NEW st \in {"pending", "accepted", "rejected"}, RespondTeam(r, u, i, st)
     PROVE  TypeInv'
  <2> DEFINE t == teamInvite[i].team
             k == teamInvite[i].role
             S == {t} \intersect LiveTeams
             c == [TeamCall("respondTeamSave", u, t)
                     EXCEPT !.inv = i, !.status = st, !.roleId = k, !.teams = S]
  <2>0. t \in Teams /\ k \in RoleIds
    BY <1>9, NoUserAssumption DEF RespondTeam, TeamInvite, NoTeamInvite
  <2>3. Begin(r, c)
    BY <1>9 DEF RespondTeam
  <2>4. S \subseteq Teams
    BY DEF LiveTeams
  <2> HIDE DEF t, k, S
  <2>1. c \in Request
    BY <2>0, <2>4 DEF Call, TeamCall, Idle, Request, Labels, TeamLabels
  <2>2. GoodAt(c.at, c)
    BY <2>0 DEF Call, TeamCall, Idle, GoodAt
  <2> HIDE DEF c
  <2> QED
    BY <1>9, <2>1, <2>2, <2>3, BeginType, RequestsSuffice DEF RespondTeam, tables
<1> QED
  BY <1>1, <1>2, <1>3, <1>4, <1>5, <1>6, <1>7, <1>8, <1>9 DEF TeamArrival

\* A request that learns the key of the team it saved, of the role it saved,
\* or the member row and role name it loaded, and goes on to l.
LEMMA LearnTeamType ==
  ASSUME req \in [Requests -> GoodRequest], NEW r \in Requests,
         NEW l \in Labels, NEW t \in Teams,
         GoodAt(l, [req[r] EXCEPT !.team = t]),
         req' = [req EXCEPT ![r].at = l, ![r].team = t]
  PROVE  req' \in [Requests -> GoodRequest]
<1> DEFINE q == req[r]
           p == [q EXCEPT !.team = t]
<1>1. q \in Request
  BY DEF GoodRequest
<1>2. p \in Request
  BY <1>1 DEF Request
<1>3. [p EXCEPT !.at = l] \in GoodRequest
  BY <1>2, GoodMove
<1>4. [p EXCEPT !.at = l] = [q EXCEPT !.at = l, !.team = t]
  BY <1>1 DEF Request
<1> QED BY <1>3, <1>4

LEMMA LearnRoleType ==
  ASSUME req \in [Requests -> GoodRequest], NEW r \in Requests,
         NEW l \in Labels, NEW k \in RoleIds,
         GoodAt(l, [req[r] EXCEPT !.roleId = k]),
         req' = [req EXCEPT ![r].at = l, ![r].roleId = k]
  PROVE  req' \in [Requests -> GoodRequest]
<1> DEFINE q == req[r]
           p == [q EXCEPT !.roleId = k]
<1>1. q \in Request
  BY DEF GoodRequest
<1>2. p \in Request
  BY <1>1 DEF Request
<1>3. [p EXCEPT !.at = l] \in GoodRequest
  BY <1>2, GoodMove
<1>4. [p EXCEPT !.at = l] = [q EXCEPT !.at = l, !.roleId = k]
  BY <1>1 DEF Request
<1> QED BY <1>3, <1>4

LEMMA LearnMemberType ==
  ASSUME req \in [Requests -> GoodRequest], NEW r \in Requests,
         NEW l \in Labels, NEW i \in RowIds,
         NEW nm \in RoleNames \union {"none"},
         GoodAt(l, [req[r] EXCEPT !.id = i, !.name = nm]),
         req' = [req EXCEPT ![r].at = l, ![r].id = i, ![r].name = nm]
  PROVE  req' \in [Requests -> GoodRequest]
<1> DEFINE q == req[r]
           p == [q EXCEPT !.id = i, !.name = nm]
<1>1. q \in Request
  BY DEF GoodRequest
<1>2. p \in Request
  BY <1>1 DEF Request
<1>3. [p EXCEPT !.at = l] \in GoodRequest
  BY <1>2, GoodMove
<1>4. [p EXCEPT !.at = l] = [q EXCEPT !.at = l, !.id = i, !.name = nm]
  BY <1>1 DEF Request
<1> QED BY <1>3, <1>4

LEMMA InsertRoleType ==
  ASSUME role \in [RoleIds -> Role \union {NoRole}],
         NEW k \in RoleIds, NEW t \in Teams, NEW nm \in RoleNames,
         NEW default \in BOOLEAN, InsertRole(k, t, nm, default)
  PROVE  role' \in [RoleIds -> Role \union {NoRole}]
  BY DEF InsertRole, Role

LEMMA InsertTeamMemberType ==
  ASSUME teamMember \in [Teams -> [Users -> TeamMemberRow \union {NoTeamMember}]],
         NEW t \in Teams, NEW u \in Users, NEW id \in RowIds, NEW k \in RoleIds,
         InsertTeamMember(t, u, id, k)
  PROVE  teamMember' \in [Teams -> [Users -> TeamMemberRow \union {NoTeamMember}]]
  BY DEF InsertTeamMember, TeamMemberRow

LEMMA TeamStepType ==
  ASSUME TypeInv, NEW r \in Requests, TeamStep(r)
  PROVE  TypeInv'
<1> DEFINE q == req[r]
<1> USE DEF TypeInv, TablesTypeOK
<1>q. q \in Request /\ GoodAt(q.at, q)
  BY DEF GoodRequest
<1>1. CASE TeamSave(r)
  <2>1. q.user \in Users
    BY <1>1, <1>q DEF TeamSave, GoodAt
  <2>2. CASE WorkspaceKey
    <3>1. PICK t \in FreshTeam :
            /\ team' = [team EXCEPT ![t] = "live"]
            /\ req' = [req EXCEPT ![r].at = "teamOwnerRole", ![r].team = t]
      BY <1>1, <2>2 DEF TeamSave
    <3>2. t \in Teams
      BY FreshTypes
    <3>4. "teamOwnerRole" \in Labels
      BY DEF Labels, TeamLabels
    <3>5. GoodAt("teamOwnerRole", [q EXCEPT !.team = t])
      BY <2>1, <3>2, <1>q DEF GoodAt, Request
    <3> QED
      BY <1>1, <3>1, <3>2, <3>4, <3>5, LearnTeamType, RequestsSuffice DEF TeamSave
  <2>3. CASE ~WorkspaceKey
    BY <1>1, <2>3, FinishType, RequestsSuffice DEF TeamSave
  <2> QED BY <2>2, <2>3
<1>2. CASE TeamOwnerRole(r)
  <2>1. q.user \in Users /\ q.team \in Teams
    BY <1>2, <1>q DEF TeamOwnerRole, GoodAt
  <2>2. CASE TeamKey(q.team)
    <3>1. PICK k \in FreshRole :
            /\ InsertRole(k, q.team, "Owner", TRUE)
            /\ req' = [req EXCEPT ![r].at = "teamMemberRole", ![r].roleId = k]
      BY <1>2, <2>2 DEF TeamOwnerRole
    <3>2. k \in RoleIds
      BY FreshTypes
    <3>4. "teamMemberRole" \in Labels
      BY DEF Labels, TeamLabels
    <3>5. GoodAt("teamMemberRole", [q EXCEPT !.roleId = k])
      BY <2>1, <3>2, <1>q DEF GoodAt, Request
    <3>6. role' \in [RoleIds -> Role \union {NoRole}]
      BY <2>1, <3>1, <3>2, InsertRoleType DEF RoleNames
    <3> QED
      BY <1>2, <3>1, <3>2, <3>4, <3>5, <3>6, LearnRoleType, RequestsSuffice DEF TeamOwnerRole
  <2>3. CASE ~TeamKey(q.team)
    BY <1>2, <2>3, FinishType, RequestsSuffice DEF TeamOwnerRole
  <2> QED BY <2>2, <2>3
<1>3. CASE TeamMemberRole(r)
  <2>1. q.team \in Teams /\ GoodAt("teamCreator", q)
    BY <1>3, <1>q DEF TeamMemberRole, GoodAt
  <2>2. req' \in [Requests -> GoodRequest]
    BY <1>3, <2>1, AdvanceType, FinishType DEF TeamMemberRole, Labels, TeamLabels
  <2>3. role' \in [RoleIds -> Role \union {NoRole}]
    BY <1>3, <2>1, FreshTypes, InsertRoleType DEF TeamMemberRole, RoleNames
  <2> QED
    BY <1>3, <2>2, <2>3, RequestsSuffice DEF TeamMemberRole
<1>4. CASE TeamCreator(r)
  <2>1. q.user \in Users /\ q.team \in Teams /\ q.roleId \in RoleIds
    BY <1>4, <1>q DEF TeamCreator, GoodAt
  <2>2. teamMember' \in [Teams -> [Users -> TeamMemberRow \union {NoTeamMember}]]
    BY <1>4, <2>1, FreshTypes, InsertTeamMemberType DEF TeamCreator
  <2> QED
    BY <1>4, <2>2, FinishType, RequestsSuffice DEF TeamCreator
<1>5. CASE DeleteTeamTx(r)
  <2>1. q.team \in Teams
    BY <1>5, <1>q DEF DeleteTeamTx, GoodAt
  <2>2. req' \in [Requests -> GoodRequest]
    BY <1>5, FinishType DEF DeleteTeamTx
  <2>3. CASE team[q.team] = "live"
    <3>1. DeleteTeams({q.team})
      BY <1>5, <2>3 DEF DeleteTeamTx
    <3> QED
      BY <1>5, <2>2, <3>1, DeleteTeamsType, RequestsSuffice DEF DeleteTeamTx
  <2>4. CASE team[q.team] # "live"
    BY <1>5, <2>2, <2>4, RequestsSuffice DEF DeleteTeamTx
  <2> QED BY <2>3, <2>4
<1>6. CASE NewRole(r)
  <2>1. q.team \in Teams /\ q.name \in RoleNames
    BY <1>6, <1>q DEF NewRole, GoodAt
  <2>2. role' \in [RoleIds -> Role \union {NoRole}]
    BY <1>6, <2>1, FreshTypes, InsertRoleType DEF NewRole
  <2> QED
    BY <1>6, <2>2, FinishType, RequestsSuffice DEF NewRole
<1>7. CASE EditRoleFind(r)
  <2> DEFINE l == IF role[q.roleId].isDefault THEN "editDefaultSave"
                                             ELSE "editRoleSave"
  <2>1. Check(r, RoleExists(q.roleId, q.team), l)
    BY <1>7 DEF EditRoleFind
  <2>2. l \in {"editDefaultSave", "editRoleSave"}
    OBVIOUS
  <2> HIDE DEF l
  <2>3. GoodAt(l, q) /\ l \in Labels
    BY <1>7, <2>2, <1>q DEF EditRoleFind, GoodAt, Labels, TeamLabels
  <2>4. req' \in [Requests -> GoodRequest]
    BY <2>1, <2>3, CheckType
  <2> QED
    BY <1>7, <2>4, RequestsSuffice DEF EditRoleFind, tables
<1>8. CASE EditRoleSave(r)
  <2>1. q.team \in Teams /\ q.roleId \in RoleIds /\ q.name \in RoleNames
    BY <1>8, <1>q DEF EditRoleSave, GoodAt
  <2>2. CASE role[q.roleId] # NoRole
    <3>1. role' = [role EXCEPT ![q.roleId].name = q.name]
      BY <1>8, <2>2 DEF EditRoleSave
    <3>2. role[q.roleId] \in Role
      BY <2>1, <2>2
    <3>3. role' \in [RoleIds -> Role \union {NoRole}]
      BY <2>1, <3>1, <3>2 DEF Role
    <3> QED
      BY <1>8, <3>3, FinishType, RequestsSuffice DEF EditRoleSave
  <2>3. CASE role[q.roleId] = NoRole
    <3> DEFINE default == q.at = "editDefaultSave"
    <3>0. InsertRole(q.roleId, q.team, q.name, default) \/ UNCHANGED role
      BY <1>8, <2>3 DEF EditRoleSave
    <3>1. role' \in [RoleIds -> Role \union {NoRole}]
      BY <2>1, <3>0, InsertRoleType
    <3> QED
      BY <1>8, <3>1, FinishType, RequestsSuffice DEF EditRoleSave
  <2> QED BY <2>2, <2>3
<1>9. CASE DropRoleFind(r)
  <2>1. GoodAt("dropRoleCount", q)
    BY <1>9, <1>q DEF DropRoleFind, GoodAt
  <2>2. req' \in [Requests -> GoodRequest]
    BY <1>9, <2>1, CheckType DEF DropRoleFind, Labels, TeamLabels
  <2> QED
    BY <1>9, <2>2, RequestsSuffice DEF DropRoleFind, tables
<1>10. CASE DropRoleCount(r)
  <2>1. GoodAt("dropRole", q)
    BY <1>10, <1>q DEF DropRoleCount, GoodAt
  <2>2. req' \in [Requests -> GoodRequest]
    BY <1>10, <2>1, CheckType DEF DropRoleCount, Labels, TeamLabels
  <2> QED
    BY <1>10, <2>2, RequestsSuffice DEF DropRoleCount, tables
<1>11. CASE DropRole(r)
  <2>1. role' \in [RoleIds -> Role \union {NoRole}]
    BY <1>11 DEF DropRole
  <2> QED
    BY <1>11, <2>1, FinishType, RequestsSuffice DEF DropRole
<1>12. CASE TeamInviteRole(r)
  <2>1. GoodAt("teamInviteUser", q)
    BY <1>12, <1>q DEF TeamInviteRole, GoodAt
  <2>2. req' \in [Requests -> GoodRequest]
    BY <1>12, <2>1, CheckType DEF TeamInviteRole, Labels, TeamLabels
  <2> QED
    BY <1>12, <2>2, RequestsSuffice DEF TeamInviteRole, tables
<1>13. CASE TeamInviteUser(r)
  <2>1. GoodAt("teamInviteMember", q)
    BY <1>13, <1>q DEF TeamInviteUser, GoodAt
  <2>2. req' \in [Requests -> GoodRequest]
    BY <1>13, <2>1, CheckType DEF TeamInviteUser, Labels, TeamLabels
  <2> QED
    BY <1>13, <2>2, RequestsSuffice DEF TeamInviteUser, tables
<1>14. CASE TeamInviteMember(r)
  <2>1. GoodAt("teamInviteFind", q)
    BY <1>14, <1>q DEF TeamInviteMember, GoodAt
  <2>2. req' \in [Requests -> GoodRequest]
    BY <1>14, <2>1, CheckType DEF TeamInviteMember, Labels, TeamLabels
  <2> QED
    BY <1>14, <2>2, RequestsSuffice DEF TeamInviteMember, tables
<1>15. CASE TeamInviteFind(r)
  <2>1. GoodAt("teamInviteSave", q)
    BY <1>15, <1>q DEF TeamInviteFind, GoodAt
  <2>2. req' \in [Requests -> GoodRequest]
    BY <1>15, <2>1, CheckType DEF TeamInviteFind, Labels, TeamLabels
  <2> QED
    BY <1>15, <2>2, RequestsSuffice DEF TeamInviteFind, tables
<1>16. CASE TeamInviteSave(r)
  <2>1. q.user \in Users /\ q.team \in Teams /\ q.roleId \in RoleIds
    BY <1>16, <1>q DEF TeamInviteSave, GoodAt
  <2>2. teamInvite' \in [TeamInviteIds -> TeamInvite \union {NoTeamInvite}]
    BY <1>16, <2>1, FreshTypes DEF TeamInviteSave, TeamInvite
  <2> QED
    BY <1>16, <2>2, FinishType, RequestsSuffice DEF TeamInviteSave
<1>17. CASE MemberRoleFind(r)
  <2>1. q.user \in Users /\ q.team \in Teams /\ q.roleId \in RoleIds
    BY <1>17, <1>q DEF MemberRoleFind, GoodAt
  <2>2. CASE InTeam(q.team, q.user)
    <3> DEFINE i == teamMember[q.team][q.user].id
               nm == RoleName(q.team, q.user)
    <3>1. req' = [req EXCEPT ![r].at = "memberRoleRole", ![r].id = i, ![r].name = nm]
      BY <1>17, <2>2 DEF MemberRoleFind
    <3>2. teamMember[q.team][q.user] \in TeamMemberRow
      BY <2>1, <2>2 DEF InTeam
    <3>3. i \in RowIds /\ nm \in RoleNames \union {"none"}
      BY <3>2 DEF TeamMemberRow, RoleName, Role, NoRole
    <3> HIDE DEF i, nm
    <3>4. "memberRoleRole" \in Labels
      BY DEF Labels, TeamLabels
    <3>5. GoodAt("memberRoleRole", [q EXCEPT !.id = i, !.name = nm])
      BY <2>1, <3>3, <1>q DEF GoodAt, Request
    <3> QED
      BY <1>17, <3>1, <3>3, <3>4, <3>5, LearnMemberType, RequestsSuffice DEF MemberRoleFind, tables
  <2>3. CASE ~InTeam(q.team, q.user)
    BY <1>17, <2>3, FinishType, RequestsSuffice DEF MemberRoleFind, tables
  <2> QED BY <2>2, <2>3
<1>18. CASE MemberRoleRole(r)
  <2> DEFINE l == IF q.name = "Owner" /\ role[q.roleId].name # "Owner"
                 THEN "memberRoleOwners" ELSE "memberRoleSave"
  <2>1. Check(r, RoleExists(q.roleId, q.team) /\ q.name # "none", l)
    BY <1>18 DEF MemberRoleRole
  <2>2. l \in {"memberRoleOwners", "memberRoleSave"}
    OBVIOUS
  <2> HIDE DEF l
  <2>3. GoodAt(l, q) /\ l \in Labels
    BY <1>18, <2>2, <1>q DEF MemberRoleRole, GoodAt, Labels, TeamLabels
  <2>4. req' \in [Requests -> GoodRequest]
    BY <2>1, <2>3, CheckType
  <2> QED
    BY <1>18, <2>4, RequestsSuffice DEF MemberRoleRole, tables
<1>19. CASE MemberRoleOwners(r)
  <2>1. GoodAt("memberRoleSave", q)
    BY <1>19, <1>q DEF MemberRoleOwners, GoodAt
  <2>2. req' \in [Requests -> GoodRequest]
    BY <1>19, <2>1, CheckType DEF MemberRoleOwners, Labels, TeamLabels
  <2> QED
    BY <1>19, <2>2, RequestsSuffice DEF MemberRoleOwners, tables
<1>20. CASE MemberRoleSave(r)
  <2>1. /\ q.user \in Users /\ q.team \in Teams
        /\ q.roleId \in RoleIds /\ q.id \in RowIds
    BY <1>20, <1>q DEF MemberRoleSave, GoodAt
  <2>2. CASE teamMember[q.team][q.user].id = q.id
    <3>0. teamMember[q.team][q.user] \in TeamMemberRow \union {NoTeamMember}
      BY <2>1
    <3>1. teamMember[q.team][q.user] \in TeamMemberRow
      BY <2>1, <2>2, <3>0, IdAssumption DEF NoTeamMember
    <3>2. CASE RoleKey(q.roleId)
      <4>1. teamMember' = [teamMember EXCEPT ![q.team][q.user].role = q.roleId]
        BY <1>20, <2>2, <3>2 DEF MemberRoleSave
      <4> DEFINE row == [teamMember[q.team][q.user] EXCEPT !.role = q.roleId]
      <4>2. row \in TeamMemberRow
        BY <2>1, <3>1 DEF TeamMemberRow
      <4>3. teamMember' = [teamMember EXCEPT ![q.team][q.user] = row]
        BY <4>1
      <4> HIDE DEF row
      <4>4. teamMember' \in [Teams -> [Users -> TeamMemberRow \union {NoTeamMember}]]
        BY <2>1, <4>2, <4>3
      <4> QED
        BY <1>20, <4>4, FinishType, RequestsSuffice DEF MemberRoleSave
    <3>3. CASE ~RoleKey(q.roleId)
      BY <1>20, <2>2, <3>3, FinishType, RequestsSuffice DEF MemberRoleSave
    <3> QED BY <3>2, <3>3
  <2>3. CASE teamMember[q.team][q.user].id # q.id
    <3>1. teamMember' \in [Teams -> [Users -> TeamMemberRow \union {NoTeamMember}]]
      BY <1>20, <2>1, <2>3, InsertTeamMemberType DEF MemberRoleSave
    <3> QED
      BY <1>20, <3>1, FinishType, RequestsSuffice DEF MemberRoleSave
  <2> QED BY <2>2, <2>3
<1>21. CASE KickFind(r)
  <2>1. q.user \in Users /\ q.team \in Teams
    BY <1>21, <1>q DEF KickFind, GoodAt
  <2>2. CASE InTeam(q.team, q.user) /\ RoleName(q.team, q.user) # "none"
    <3> DEFINE l == IF IsTeamOwner(q.team, q.user) THEN "kickOwners" ELSE "kick"
               i == teamMember[q.team][q.user].id
    <3>1. i \in RowIds
      BY <2>1, <2>2 DEF InTeam, TeamMemberRow
    <3>2. req' = [req EXCEPT ![r].at = l, ![r].id = i]
      BY <1>21, <2>2 DEF KickFind
    <3>3. l \in {"kickOwners", "kick"}
      OBVIOUS
    <3> HIDE DEF l, i
    <3>4. GoodAt(l, [q EXCEPT !.id = i])
      BY <2>1, <3>1, <3>3, <1>q DEF GoodAt, Request
    <3>5. l \in Labels
      BY <3>3 DEF Labels, TeamLabels
    <3> QED
      BY <1>21, <3>1, <3>2, <3>4, <3>5, LoadType, RequestsSuffice DEF KickFind, tables
  <2>3. CASE ~(InTeam(q.team, q.user) /\ RoleName(q.team, q.user) # "none")
    BY <1>21, <2>3, FinishType, RequestsSuffice DEF KickFind, tables
  <2> QED BY <2>2, <2>3
<1>22. CASE KickOwners(r)
  <2>1. GoodAt("kick", q)
    BY <1>22, <1>q DEF KickOwners, GoodAt
  <2>2. req' \in [Requests -> GoodRequest]
    BY <1>22, <2>1, CheckType DEF KickOwners, Labels, TeamLabels
  <2> QED
    BY <1>22, <2>2, RequestsSuffice DEF KickOwners, tables
<1>23. CASE Kick(r)
  <2>1. q.user \in Users /\ q.team \in Teams
    BY <1>23, <1>q DEF Kick, GoodAt
  <2>2. teamMember' \in [Teams -> [Users -> TeamMemberRow \union {NoTeamMember}]]
    BY <1>23, <2>1 DEF Kick
  <2> QED
    BY <1>23, <2>2, FinishType, RequestsSuffice DEF Kick
<1>24. CASE RespondTeamSave(r)
  <2>1. /\ GoodAt("respondTeamVerify", q)
        /\ q.status \in {"pending", "accepted", "rejected"}
        /\ q.user \in Users /\ q.team \in Teams /\ q.roleId \in RoleIds
    BY <1>24, <1>q DEF RespondTeamSave, GoodAt
  <2>2. req' \in [Requests -> GoodRequest]
    BY <1>24, <2>1, AdvanceType, FinishType DEF RespondTeamSave, Labels, TeamLabels
  <2>3. teamInvite' \in [TeamInviteIds -> TeamInvite \union {NoTeamInvite}]
    BY <1>24, <2>1 DEF RespondTeamSave, TeamInvite, NoTeamInvite
  <2> QED
    BY <1>24, <2>2, <2>3, RequestsSuffice DEF RespondTeamSave
<1>25. CASE RespondTeamVerify(r)
  <2>1. GoodAt("respondTeamJoin", q)
    BY <1>25, <1>q DEF RespondTeamVerify, GoodAt
  <2>2. req' \in [Requests -> GoodRequest]
    BY <1>25, <2>1, CheckType DEF RespondTeamVerify, Labels, TeamLabels
  <2> QED
    BY <1>25, <2>2, RequestsSuffice DEF RespondTeamVerify, tables
<1>26. CASE RespondTeamJoin(r)
  <2>1. q.user \in Users /\ q.team \in Teams /\ q.roleId \in RoleIds
    BY <1>26, <1>q DEF RespondTeamJoin, GoodAt
  <2>2. teamMember' \in [Teams -> [Users -> TeamMemberRow \union {NoTeamMember}]]
    BY <1>26, <2>1, FreshTypes, InsertTeamMemberType DEF RespondTeamJoin
  <2> QED
    BY <1>26, <2>2, FinishType, RequestsSuffice DEF RespondTeamJoin
<1> QED
  BY <1>1, <1>2, <1>3, <1>4, <1>5, <1>6, <1>7, <1>8, <1>9, <1>10, <1>11, <1>12, <1>13,
     <1>14, <1>15, <1>16, <1>17, <1>18, <1>19, <1>20, <1>21, <1>22, <1>23, <1>24, <1>25, <1>26 DEF TeamStep

LEMMA NextType == TypeInv /\ [Next]_vars => TypeInv'
<1> SUFFICES ASSUME TypeInv, [Next]_vars PROVE TypeInv'
  OBVIOUS
<1>1. ASSUME NEW r \in Requests, Fail(r) PROVE TypeInv'
  BY <1>1, FinishType, RequestsSuffice DEF TypeInv, TablesTypeOK, Fail, tables
<1>2. CASE UNCHANGED vars
  BY <1>2 DEF TypeInv, TablesTypeOK, vars
<1> QED
  BY <1>1, <1>2, WorkspaceArrivalType, WorkspaceStepType, TeamArrivalType,
     TeamStepType DEF Next

\* Tables and requests keep their types, and every request has the locals its
\* control point needs: no handler saves a row with a field it never read.
THEOREM TypeInvariant == Spec => []TypeInv
  BY InitType, NextType, PTL DEF Spec

THEOREM TypeCorrect == Spec => []TypeOK
<1>1. TypeInv => TypeOK
  BY DEF TypeInv, TypeOK
<1> QED
  BY <1>1, TypeInvariant, PTL
=============================================================================
