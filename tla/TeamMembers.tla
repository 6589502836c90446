---------------------------- MODULE TeamMembers ----------------------------
(***************************************************************************)
(* The handlers of WorkspaceService that work on a team, its roles and its *)
(* members.  Workspace owners manage teams and roles; the team members     *)
(* whose role is called "Owner" manage the membership of their team.       *)
(***************************************************************************)
EXTENDS MembershipTables

TeamCall(l, u, t) == [Call(l, u) EXCEPT !.team = t]

-----------------------------------------------------------------------------
(* createTeam: the team, its two default roles and the creator's           *)
(* membership are four saves; each needs the row its key points to.        *)

CreateTeam(r, u) ==
  /\ u \in Owners
  /\ Begin(r, Call("teamSave", u))
  /\ UNCHANGED tables

TeamSave(r) ==
  /\ req[r].at = "teamSave"
  /\ IF WorkspaceKey
     THEN \E t \in FreshTeam :
            /\ team' = [team EXCEPT ![t] = "live"]
            /\ req' = [req EXCEPT ![r].at = "teamOwnerRole", ![r].team = t]
     ELSE Finish(r) /\ UNCHANGED team
  /\ UNCHANGED <<workspace, member, invite, role, teamMember, teamInvite>>

\* INSERT INTO role: the foreign key needs the team.
InsertRole(k, t, nm, default) ==
  role' = [role EXCEPT ![k] = [team |-> t, name |-> nm, isDefault |-> default]]

TeamOwnerRole(r) ==
  /\ req[r].at = "teamOwnerRole"
  /\ IF TeamKey(req[r].team)
     THEN \E k \in FreshRole :
            /\ InsertRole(k, req[r].team, "Owner", TRUE)
            /\ req' = [req EXCEPT ![r].at = "teamMemberRole", ![r].roleId = k]
     ELSE Finish(r) /\ UNCHANGED role
  /\ UNCHANGED <<workspace, member, invite, team, teamMember, teamInvite>>

\* Fault: role without its foreign key.
TeamMemberRoleUnkeyed(r) ==
  /\ req[r].at = "teamMemberRole"
  /\ \E k \in FreshRole : InsertRole(k, req[r].team, "Member", TRUE)
  /\ Advance(r, "teamCreator")
  /\ UNCHANGED <<workspace, member, invite, team, teamMember, teamInvite>>

TeamMemberRole(r) ==
  /\ req[r].at = "teamMemberRole"
  /\ IF TeamKey(req[r].team)
     THEN /\ \E k \in FreshRole : InsertRole(k, req[r].team, "Member", TRUE)
          /\ Advance(r, "teamCreator")
     ELSE Finish(r) /\ UNCHANGED role
  /\ UNCHANGED <<workspace, member, invite, team, teamMember, teamInvite>>

\* INSERT INTO team_member: the keys need the team and the role, the unique
\* index refuses a second row of the user in the team.
InsertTeamMember(t, u, id, k) ==
  teamMember' = IF TeamKey(t) /\ RoleKey(k) /\ ~InTeam(t, u)
                THEN [teamMember EXCEPT ![t][u] = [id |-> id, role |-> k]]
                ELSE teamMember

TeamCreator(r) ==
  /\ req[r].at = "teamCreator"
  /\ \E id \in FreshRow :
       InsertTeamMember(req[r].team, req[r].user, id, req[r].roleId)
  /\ Finish(r)
  /\ UNCHANGED <<workspace, member, invite, team, role, teamInvite>>

-----------------------------------------------------------------------------
(* deleteTeam: one transaction. *)

DeleteTeam(r, u, t) ==
  /\ team[t] = "live"
  /\ u \in Owners
  /\ Begin(r, TeamCall("deleteTeam", NoUser, t))
  /\ UNCHANGED tables

DeleteTeamTx(r) ==
  /\ req[r].at = "deleteTeam"
  /\ Finish(r)
  /\ IF team[req[r].team] = "live"
     THEN DeleteTeams({req[r].team})
     ELSE UNCHANGED <<teamInvite, teamMember, role, team>>
  /\ UNCHANGED <<workspace, member, invite>>

-----------------------------------------------------------------------------
(* createRole, updateRole, deleteRole.  Nothing keeps a name unique, and   *)
(* updateRole renames a default role like any other.                       *)

CreateRole(r, u, t, nm) ==
  /\ team[t] = "live"
  /\ u \in Owners
  /\ Begin(r, [TeamCall("newRole", NoUser, t) EXCEPT !.name = nm])
  /\ UNCHANGED tables

NewRole(r) ==
  /\ req[r].at = "newRole"
  /\ IF TeamKey(req[r].team)
     THEN \E k \in FreshRole : InsertRole(k, req[r].team, req[r].name, FALSE)
     ELSE UNCHANGED role
  /\ Finish(r)
  /\ UNCHANGED <<workspace, member, invite, team, teamMember, teamInvite>>

UpdateRole(r, u, t, k, nm) ==
  /\ team[t] = "live"
  /\ u \in Owners
  /\ Begin(r, [TeamCall("editRoleFind", NoUser, t) EXCEPT !.roleId = k,
                                                        !.name = nm])
  /\ UNCHANGED tables

EditRoleFind(r) ==
  /\ req[r].at = "editRoleFind"
  /\ LET k == req[r].roleId
     IN  Check(r, RoleExists(k, req[r].team),
               IF role[k].isDefault THEN "editDefaultSave" ELSE "editRoleSave")
  /\ UNCHANGED tables

\* save(role) inserts the loaded row again when it is gone by now.
EditRoleSave(r) ==
  /\ req[r].at \in {"editRoleSave", "editDefaultSave"}
  /\ LET k == req[r].roleId
     IN  IF role[k] # NoRole
         THEN role' = [role EXCEPT ![k].name = req[r].name]
         ELSE IF TeamKey(req[r].team)
              THEN InsertRole(k, req[r].team, req[r].name,
                              req[r].at = "editDefaultSave")
              ELSE UNCHANGED role
  /\ Finish(r)
  /\ UNCHANGED <<workspace, member, invite, team, teamMember, teamInvite>>

DeleteRole(r, u, t, k) ==
  /\ team[t] = "live"
  /\ u \in Owners
  /\ Begin(r, [TeamCall("dropRoleFind", NoUser, t) EXCEPT !.roleId = k])
  /\ UNCHANGED tables

\* Fault: a default role may be deleted.
DropRoleFindAnyKind(r) ==
  /\ req[r].at = "dropRoleFind"
  /\ Check(r, RoleExists(req[r].roleId, req[r].team), "dropRoleCount")
  /\ UNCHANGED tables

DropRoleFind(r) ==
  /\ req[r].at = "dropRoleFind"
  /\ LET k == req[r].roleId
     IN  Check(r, RoleExists(k, req[r].team) /\ ~role[k].isDefault,
               "dropRoleCount")
  /\ UNCHANGED tables

DropRoleCount(r) ==
  /\ req[r].at = "dropRoleCount"
  /\ Check(r, ~HasHolder(req[r].roleId), "dropRole")
  /\ UNCHANGED tables

\* Fault: the count of the members before is trusted, no key guards the row.
DropRoleUnkeyed(r) ==
  /\ req[r].at = "dropRole"
  /\ role' = [role EXCEPT ![req[r].roleId] = NoRole]
  /\ Finish(r)
  /\ UNCHANGED <<workspace, member, invite, team, teamMember, teamInvite>>

\* DELETE FROM role: the migrations made both keys that point to it NO
\* ACTION, so a member or an invitation of any status refuses it.
DropRole(r) ==
  /\ req[r].at = "dropRole"
  /\ LET k == req[r].roleId
     IN  role' = IF Keyed /\ (HasHolder(k) \/ HasInvitation(k))
                 THEN role ELSE [role EXCEPT ![k] = NoRole]
  /\ Finish(r)
  /\ UNCHANGED <<workspace, member, invite, team, teamMember, teamInvite>>

-----------------------------------------------------------------------------
(* inviteTeamMember *)

InviteTeamMember(r, u, t, v, k) ==
  /\ team[t] = "live"
  /\ IsTeamOwner(t, u)
  /\ Begin(r, [TeamCall("teamInviteRole", v, t) EXCEPT !.roleId = k])
  /\ UNCHANGED tables

TeamInviteRole(r) ==
  /\ req[r].at = "teamInviteRole"
  /\ Check(r, RoleExists(req[r].roleId, req[r].team), "teamInviteUser")
  /\ UNCHANGED tables

TeamInviteUser(r) ==
  /\ req[r].at = "teamInviteUser"
  /\ Check(r, Has(req[r].user), "teamInviteMember")
  /\ UNCHANGED tables

TeamInviteMember(r) ==
  /\ req[r].at = "teamInviteMember"
  /\ Check(r, ~InTeam(req[r].team, req[r].user), "teamInviteFind")
  /\ UNCHANGED tables

\* Fault: the invitation that is waiting for an answer is not looked up.
TeamInviteFindNothing(r) ==
  /\ req[r].at = "teamInviteFind"
  /\ Advance(r, "teamInviteSave")
  /\ UNCHANGED tables

TeamInviteFind(r) ==
  /\ req[r].at = "teamInviteFind"
  /\ Check(r, \A i \in TeamInviteIds :
                ~ /\ teamInvite[i].team = req[r].team
                  /\ teamInvite[i].user = req[r].user
                  /\ teamInvite[i].status = "pending",
           "teamInviteSave")
  /\ UNCHANGED tables

TeamInviteSave(r) ==
  /\ req[r].at = "teamInviteSave"
  /\ IF TeamKey(req[r].team) /\ RoleKey(req[r].roleId)
     THEN \E i \in FreshTeamInvite :
            teamInvite' = [teamInvite EXCEPT
              ![i] = [team |-> req[r].team, user |-> req[r].user,
                      role |-> req[r].roleId, status |-> "pending"]]
     ELSE UNCHANGED teamInvite
  /\ Finish(r)
  /\ UNCHANGED <<workspace, member, invite, team, role, teamMember>>

-----------------------------------------------------------------------------
(* updateTeamMemberRole *)

UpdateTeamMemberRole(r, u, t, v, k) ==
  /\ IsTeamOwner(t, u)
  /\ Begin(r, [TeamCall("memberRoleFind", v, t) EXCEPT !.roleId = k])
  /\ UNCHANGED tables

\* The loaded member carries the name its role has now, if its role exists.
MemberRoleFind(r) ==
  /\ req[r].at = "memberRoleFind"
  /\ LET t == req[r].team
         v == req[r].user
     IN  IF InTeam(t, v)
         THEN req' = [req EXCEPT ![r].at = "memberRoleRole",
                                 ![r].id = teamMember[t][v].id,
                                 ![r].name = RoleName(t, v)]
         ELSE Finish(r)
  /\ UNCHANGED tables

\* The handlers count the members whose role is called "Owner": a member
\* without a role ends them, a single owner refuses the call.
OwnersCounted(t) ==
  /\ \A u \in Users : InTeam(t, u) => role[teamMember[t][u].role] # NoRole
  /\ Cardinality(TeamOwners(t)) # 1

\* Giving the last owner another role called "Owner" is allowed, so the
\* owners are counted only when the new role has another name.  Reading the
\* name of a role that does not exist ends the request.
MemberRoleRole(r) ==
  /\ req[r].at = "memberRoleRole"
  /\ LET k == req[r].roleId
         demotes == req[r].name = "Owner" /\ role[k].name # "Owner"
     IN  Check(r, RoleExists(k, req[r].team) /\ req[r].name # "none",
               IF demotes THEN "memberRoleOwners" ELSE "memberRoleSave")
  /\ UNCHANGED tables

MemberRoleOwners(r) ==
  /\ req[r].at = "memberRoleOwners"
  /\ Check(r, OwnersCounted(req[r].team), "memberRoleSave")
  /\ UNCHANGED tables

MemberRoleSave(r) ==
  /\ req[r].at = "memberRoleSave"
  /\ LET t == req[r].team
         v == req[r].user
         k == req[r].roleId
     IN  IF teamMember[t][v].id = req[r].id
         THEN teamMember' = IF RoleKey(k)
                            THEN [teamMember EXCEPT ![t][v].role = k]
                            ELSE teamMember
         ELSE InsertTeamMember(t, v, req[r].id, k)
  /\ Finish(r)
  /\ UNCHANGED <<workspace, member, invite, team, role, teamInvite>>

-----------------------------------------------------------------------------
(* removeTeamMember *)

RemoveTeamMember(r, u, t, v) ==
  /\ IsTeamOwner(t, u)
  /\ Begin(r, TeamCall("kickFind", v, t))
  /\ UNCHANGED tables

KickFind(r) ==
  /\ req[r].at = "kickFind"
  /\ LET t == req[r].team
         v == req[r].user
     IN  IF InTeam(t, v) /\ RoleName(t, v) # "none"
         THEN req' = [req EXCEPT
                ![r].at = IF IsTeamOwner(t, v) THEN "kickOwners" ELSE "kick",
                ![r].id = teamMember[t][v].id]
         ELSE Finish(r)
  /\ UNCHANGED tables

\* Fault: the owners are not counted.
KickOwnersUncounted(r) ==
  /\ req[r].at = "kickOwners"
  /\ Advance(r, "kick")
  /\ UNCHANGED tables

KickOwners(r) ==
  /\ req[r].at = "kickOwners"
  /\ Check(r, OwnersCounted(req[r].team), "kick")
  /\ UNCHANGED tables

Kick(r) ==
  /\ req[r].at = "kick"
  /\ LET t == req[r].team
         v == req[r].user
     IN  teamMember' = IF teamMember[t][v].id = req[r].id
                       THEN [teamMember EXCEPT ![t][v] = NoTeamMember]
                       ELSE teamMember
  /\ Finish(r)
  /\ UNCHANGED <<workspace, member, invite, team, role, teamInvite>>

-----------------------------------------------------------------------------
(* respondToInvitation, the invitation being one to a team: the status is  *)
(* saved before the membership in the workspace is verified.               *)

\* Fault: an answered invitation may be answered again.
RespondTeamAgain(r, u, i, st) ==
  /\ teamInvite[i].user = u
  /\ Begin(r, [TeamCall("respondTeamSave", u, teamInvite[i].team)
                 EXCEPT !.inv = i, !.status = st,
                        !.roleId = teamInvite[i].role,
                        !.teams = {teamInvite[i].team} \intersect LiveTeams])
  /\ UNCHANGED tables

RespondTeam(r, u, i, st) ==
  /\ teamInvite[i].user = u
  /\ teamInvite[i].status = "pending"
  /\ Begin(r, [TeamCall("respondTeamSave", u, teamInvite[i].team)
                 EXCEPT !.inv = i, !.status = st,
                        !.roleId = teamInvite[i].role,
                        !.teams = {teamInvite[i].team} \intersect LiveTeams])
  /\ UNCHANGED tables

RespondTeamSave(r) ==
  /\ req[r].at = "respondTeamSave"
  /\ IF Keyed /\ teamInvite[req[r].inv] = NoTeamInvite
     THEN Finish(r) /\ UNCHANGED teamInvite  \* no team: the save fails
     ELSE /\ teamInvite' = [teamInvite EXCEPT
               ![req[r].inv] = [team |-> req[r].team, user |-> req[r].user,
                                role |-> req[r].roleId, status |-> req[r].status]]
          /\ IF req[r].status = "accepted" THEN Advance(r, "respondTeamVerify")
                                           ELSE Finish(r)
  /\ UNCHANGED <<workspace, member, invite, team, role, teamMember>>

\* Fault: the membership in the workspace is not verified.
RespondTeamVerifyNothing(r) ==
  /\ req[r].at = "respondTeamVerify"
  /\ Advance(r, "respondTeamJoin")
  /\ UNCHANGED tables

\* The workspace to look in is that of the team loaded with the invitation.
RespondTeamVerify(r) ==
  /\ req[r].at = "respondTeamVerify"
  /\ Check(r, Has(req[r].user) /\ req[r].teams # {}, "respondTeamJoin")
  /\ UNCHANGED tables

RespondTeamJoin(r) ==
  /\ req[r].at = "respondTeamJoin"
  /\ \E id \in FreshRow :
       InsertTeamMember(req[r].team, req[r].user, id, req[r].roleId)
  /\ Finish(r)
  /\ UNCHANGED <<workspace, member, invite, team, role, teamInvite>>
=============================================================================
