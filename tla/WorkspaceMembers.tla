-------------------------- MODULE WorkspaceMembers --------------------------
(***************************************************************************)
(* The handlers of WorkspaceService that work on a workspace and on its    *)
(* members: create, delete, leave, change a member's role, remove a        *)
(* member, invite, and answer an invitation to the workspace.              *)
(***************************************************************************)
EXTENDS MembershipTables

-----------------------------------------------------------------------------
(* createWorkspace: two saves, and nothing undoes the first one. *)

CreateWorkspace(r, u) ==
  /\ workspace.state = "none"
  /\ Begin(r, Call("createMember", u))
  /\ workspace' = [state |-> "live", owner |-> u]
  /\ UNCHANGED <<member, invite, team, role, teamMember, teamInvite>>

\* Fault: workspace_member without its foreign key.
InsertMemberUnkeyed(u, id, ro) ==
  member' = IF ~Has(u) THEN [member EXCEPT ![u] = [id |-> id, role |-> ro]]
                       ELSE member

\* INSERT INTO workspace_member: the foreign key needs the workspace, the
\* unique index refuses a second row of the user.
InsertMember(u, id, ro) ==
  member' = IF WorkspaceKey /\ ~Has(u)
            THEN [member EXCEPT ![u] = [id |-> id, role |-> ro]]
            ELSE member

CreateMember(r) ==
  /\ req[r].at = "createMember"
  /\ \E id \in FreshRow : InsertMember(req[r].user, id, "owner")
  /\ Finish(r)
  /\ UNCHANGED <<workspace, invite, team, role, teamMember, teamInvite>>

-----------------------------------------------------------------------------
(* deleteWorkspace: one transaction over every table. *)

DeleteWorkspace(r, u) ==
  /\ u \in Owners
  /\ Begin(r, Call("deleteWorkspace", NoUser))
  /\ UNCHANGED tables

DeleteWorkspaceTx(r) ==
  /\ req[r].at = "deleteWorkspace"
  /\ Finish(r)
  /\ IF Live
     THEN /\ DeleteTeams(LiveTeams)
          /\ invite' = [i \in InviteIds |-> NoInvite]
          /\ member' = [u \in Users |-> NoMember]
          /\ workspace' = [workspace EXCEPT !.state = "deleted"]
     ELSE UNCHANGED tables

-----------------------------------------------------------------------------
(* leaveWorkspace: the memberships of the workspace's teams stay. *)

LeaveWorkspace(r, u) ==
  /\ Has(u)
  /\ Begin(r, [Call(IF u \in Owners THEN "leaveCount" ELSE "leaveRemove", u)
                 EXCEPT !.id = member[u].id])
  /\ UNCHANGED tables

\* Fault: the count compared with 0 instead of 1.
LeaveCountOffByOne(r) ==
  /\ req[r].at = "leaveCount"
  /\ Check(r, Cardinality(Owners) # 0, "leaveRemove")
  /\ UNCHANGED tables

LeaveCount(r) ==
  /\ req[r].at = "leaveCount"
  /\ Check(r, Cardinality(Owners) # 1, "leaveRemove")
  /\ UNCHANGED tables

\* remove(member) deletes by primary key, and deletes nothing when the row
\* that was loaded is gone.
RemoveLoadedMember(r) ==
  member' = IF member[req[r].user].id = req[r].id
            THEN [member EXCEPT ![req[r].user] = NoMember]
            ELSE member

LeaveRemove(r) ==
  /\ req[r].at = "leaveRemove"
  /\ RemoveLoadedMember(r)
  /\ Finish(r)
  /\ UNCHANGED <<workspace, invite, team, role, teamMember, teamInvite>>

-----------------------------------------------------------------------------
(* updateWorkspaceMemberRole.  Its own count of the owners is unreachable: *)
(* it asks for memberId = userId, which was refused before.                *)

\* Fault: the role of the body is dropped.
UpdateMemberRoleNoBody(r, u, v, ro) ==
  /\ u \in Owners
  /\ u # v
  /\ Begin(r, Call("roleFind", v))
  /\ UNCHANGED tables

UpdateMemberRole(r, u, v, ro) ==
  /\ u \in Owners
  /\ u # v
  /\ Begin(r, [Call("roleFind", v) EXCEPT !.wsRole = ro])
  /\ UNCHANGED tables

RoleFind(r) ==
  /\ req[r].at = "roleFind"
  /\ IF Has(req[r].user)
     THEN req' = [req EXCEPT ![r].at = "roleSave",
                             ![r].id = member[req[r].user].id]
     ELSE Finish(r)
  /\ UNCHANGED tables

\* save(member) updates the row with the loaded key and, when that row is
\* gone, inserts it again; the unique index refuses it next to a newer row.
RoleSave(r) ==
  /\ req[r].at = "roleSave"
  /\ LET v == req[r].user
     IN  IF member[v].id = req[r].id
         THEN member' = [member EXCEPT ![v].role = req[r].wsRole]
         ELSE InsertMember(v, req[r].id, req[r].wsRole)
  /\ Finish(r)
  /\ UNCHANGED <<workspace, invite, team, role, teamMember, teamInvite>>

-----------------------------------------------------------------------------
(* removeWorkspaceMember *)

RemoveMember(r, u, v) ==
  /\ u \in Owners
  /\ Begin(r, Call("removeFind", v))
  /\ UNCHANGED tables

RemoveFind(r) ==
  /\ req[r].at = "removeFind"
  /\ LET v == req[r].user
     IN  IF Has(v)
         THEN req' = [req EXCEPT
                ![r].at = IF v \in Owners THEN "removeCount" ELSE "removeTeams",
                ![r].id = member[v].id]
         ELSE Finish(r)
  /\ UNCHANGED tables

RemoveCount(r) ==
  /\ req[r].at = "removeCount"
  /\ Check(r, Cardinality(Owners) # 1, "removeTeams")
  /\ UNCHANGED tables

RemoveTeams(r) ==
  /\ req[r].at = "removeTeams"
  /\ req' = [req EXCEPT ![r].at = "removeTeamRows", ![r].teams = LiveTeams]
  /\ UNCHANGED tables

RemoveTeamRows(r) ==
  /\ req[r].at = "removeTeamRows"
  /\ teamMember' = [t \in Teams |->
       IF t \in req[r].teams
       THEN [teamMember[t] EXCEPT ![req[r].user] = NoTeamMember]
       ELSE teamMember[t]]
  /\ Advance(r, "removeRow")
  /\ UNCHANGED <<workspace, member, invite, team, role, teamInvite>>

RemoveRow(r) ==
  /\ req[r].at = "removeRow"
  /\ RemoveLoadedMember(r)
  /\ Finish(r)
  /\ UNCHANGED <<workspace, invite, team, role, teamMember, teamInvite>>

-----------------------------------------------------------------------------
(* inviteWorkspaceMember.  The notification that follows the save changes  *)
(* no table of this module.                                                *)

InviteMember(r, u, v, ro) ==
  /\ Live
  /\ u \in Owners
  /\ u # v
  /\ Begin(r, [Call("inviteMember", v) EXCEPT !.wsRole = ro])
  /\ UNCHANGED tables

InviteCheckMember(r) ==
  /\ req[r].at = "inviteMember"
  /\ Check(r, ~Has(req[r].user), "inviteFind")
  /\ UNCHANGED tables

\* findOne names no order: it answers with any invitation of the user,
\* whatever its status, and only that one is looked at.
InviteFind(r) ==
  /\ req[r].at = "inviteFind"
  /\ LET sent == {i \in InviteIds : invite[i].user = req[r].user}
     IN  \/ /\ sent = {}
            /\ Advance(r, "inviteSave")
         \/ \E i \in sent : Check(r, invite[i].status # "pending", "inviteSave")
  /\ UNCHANGED tables

InviteSave(r) ==
  /\ req[r].at = "inviteSave"
  /\ IF Live  \* workspace_invitation always has its key to workspace
     THEN \E i \in FreshInvite :
            invite' = [invite EXCEPT ![i] = [user |-> req[r].user,
                                             role |-> req[r].wsRole,
                                             status |-> "pending"]]
     ELSE UNCHANGED invite
  /\ Finish(r)
  /\ UNCHANGED <<workspace, member, team, role, teamMember, teamInvite>>

-----------------------------------------------------------------------------
(* respondToInvitation, the invitation being one to the workspace.  The    *)
(* body's status is validated against the whole enum, so it may be         *)
(* "pending" as well.                                                      *)

\* Fault: whoever knows the id of an invitation may answer it.
RespondByAnyone(r, u, i, st) ==
  /\ invite[i].status = "pending"
  /\ Begin(r, [Call("respondSave", u) EXCEPT !.inv = i, !.status = st,
                                                !.wsRole = invite[i].role])
  /\ UNCHANGED tables

Respond(r, u, i, st) ==
  /\ invite[i].user = u
  /\ invite[i].status = "pending"
  /\ Begin(r, [Call("respondSave", u) EXCEPT !.inv = i, !.status = st,
                                                !.wsRole = invite[i].role])
  /\ UNCHANGED tables

RespondSave(r) ==
  /\ req[r].at = "respondSave"
  /\ IF invite[req[r].inv] = NoInvite
     THEN Finish(r) /\ UNCHANGED invite  \* no workspace: the save fails
     ELSE /\ invite' = [invite EXCEPT ![req[r].inv].status = req[r].status]
          /\ IF req[r].status = "accepted" THEN Advance(r, "respondJoin")
                                           ELSE Finish(r)
  /\ UNCHANGED <<workspace, member, team, role, teamMember, teamInvite>>

\* Fault: the role of the invitation is not looked at.
RespondJoinAsOwner(r) ==
  /\ req[r].at = "respondJoin"
  /\ \E id \in FreshRow : InsertMember(req[r].user, id, "owner")
  /\ Finish(r)
  /\ UNCHANGED <<workspace, invite, team, role, teamMember, teamInvite>>

RespondJoin(r) ==
  /\ req[r].at = "respondJoin"
  /\ \E id \in FreshRow : InsertMember(req[r].user, id, req[r].wsRole)
  /\ Finish(r)
  /\ UNCHANGED <<workspace, invite, team, role, teamMember, teamInvite>>
=============================================================================
