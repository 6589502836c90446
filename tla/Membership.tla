----------------------------- MODULE Membership -----------------------------
(***************************************************************************)
(* A workspace, its teams and the requests served against them.            *)
(* WorkspaceMembers and TeamMembers are the handlers; this module lets     *)
(* them interleave at every await, lets any of them fail there, and says   *)
(* what must hold of the tables.                                           *)
(***************************************************************************)
EXTENDS WorkspaceMembers, TeamMembers

CONSTANTS Calls \* the operations clients call in a run

WorkspaceCalls == {"createWorkspace", "deleteWorkspace", "leaveWorkspace",
                   "updateWorkspaceMemberRole", "removeWorkspaceMember",
                   "inviteWorkspaceMember", "respondToInvitation"}
TeamCalls == {"createTeam", "deleteTeam", "createRole", "updateRole",
              "deleteRole", "inviteTeamMember", "updateTeamMemberRole",
              "removeTeamMember", "respondToTeamInvitation"}

ASSUME CallsAssumption == Calls \subseteq WorkspaceCalls \union TeamCalls

WorkspaceArrival(r) ==
  \E u \in Users :
    \/ "createWorkspace" \in Calls /\ CreateWorkspace(r, u)
    \/ "deleteWorkspace" \in Calls /\ DeleteWorkspace(r, u)
    \/ "leaveWorkspace" \in Calls /\ LeaveWorkspace(r, u)
    \/ \E v \in Users, ro \in {"owner", "member"} :
         \/ "updateWorkspaceMemberRole" \in Calls /\ UpdateMemberRole(r, u, v, ro)
         \/ "inviteWorkspaceMember" \in Calls /\ InviteMember(r, u, v, ro)
    \/ \E v \in Users :
         "removeWorkspaceMember" \in Calls /\ RemoveMember(r, u, v)
    \/ \E i \in InviteIds, st \in {"pending", "accepted", "rejected"} :
         "respondToInvitation" \in Calls /\ Respond(r, u, i, st)

WorkspaceStep(r) ==
  \/ CreateMember(r) \/ DeleteWorkspaceTx(r)
  \/ LeaveCount(r) \/ LeaveRemove(r)
  \/ RoleFind(r) \/ RoleSave(r)
  \/ RemoveFind(r) \/ RemoveCount(r) \/ RemoveTeams(r) \/ RemoveTeamRows(r)
  \/ RemoveRow(r)
  \/ InviteCheckMember(r) \/ InviteFind(r) \/ InviteSave(r)
  \/ RespondSave(r) \/ RespondJoin(r)

TeamArrival(r) ==
  \E u \in Users :
    \/ "createTeam" \in Calls /\ CreateTeam(r, u)
    \/ \E t \in Teams :
         \/ "deleteTeam" \in Calls /\ DeleteTeam(r, u, t)
         \/ \E nm \in RoleNames : "createRole" \in Calls /\ CreateRole(r, u, t, nm)
         \/ \E k \in RoleIds :
              \/ "deleteRole" \in Calls /\ DeleteRole(r, u, t, k)
              \/ \E nm \in RoleNames :
                   "updateRole" \in Calls /\ UpdateRole(r, u, t, k, nm)
              \/ \E v \in Users :
                   \/ "inviteTeamMember" \in Calls /\ InviteTeamMember(r, u, t, v, k)
                   \/ "updateTeamMemberRole" \in Calls
                      /\ UpdateTeamMemberRole(r, u, t, v, k)
         \/ \E v \in Users :
              "removeTeamMember" \in Calls /\ RemoveTeamMember(r, u, t, v)
    \/ \E i \in TeamInviteIds, st \in {"pending", "accepted", "rejected"} :
         "respondToTeamInvitation" \in Calls /\ RespondTeam(r, u, i, st)

TeamStep(r) ==
  \/ TeamSave(r) \/ TeamOwnerRole(r) \/ TeamMemberRole(r) \/ TeamCreator(r)
  \/ DeleteTeamTx(r)
  \/ NewRole(r) \/ EditRoleFind(r) \/ EditRoleSave(r)
  \/ DropRoleFind(r) \/ DropRoleCount(r) \/ DropRole(r)
  \/ TeamInviteRole(r) \/ TeamInviteUser(r) \/ TeamInviteMember(r)
  \/ TeamInviteFind(r) \/ TeamInviteSave(r)
  \/ MemberRoleFind(r) \/ MemberRoleRole(r) \/ MemberRoleOwners(r)
  \/ MemberRoleSave(r)
  \/ KickFind(r) \/ KickOwners(r) \/ Kick(r)
  \/ RespondTeamSave(r) \/ RespondTeamVerify(r) \/ RespondTeamJoin(r)

\* The query a request is waiting for fails, or the process is killed: what
\* the request wrote so far stays.
Fail(r) ==
  /\ ~Free(r)
  /\ Finish(r)
  /\ UNCHANGED tables

Next == \E r \in Requests :
  \/ WorkspaceArrival(r) \/ WorkspaceStep(r)
  \/ TeamArrival(r) \/ TeamStep(r)
  \/ Fail(r)

Spec == TablesInit /\ [][Next]_vars

-----------------------------------------------------------------------------
(* What holds whatever the interleaving *)

TypeOK == TablesTypeOK

\* Nobody is a member of the workspace or of one of its teams but its
\* founder and users an invitation to the workspace was sent to: no order of
\* answers, removals, role changes and deletions lets anybody else in.
Insider(u) == u = workspace.owner \/ \E i \in InviteIds : invite[i].user = u

OnlyInsiders ==
  \A u \in Users :
    Has(u) \/ (\E t \in Teams : InTeam(t, u)) => Insider(u)

\* A member's role, and the role an invitation offers, is a role of the same
\* team, whatever deletions of roles and teams raced with the save.
RolesMatchTeams ==
  /\ \A t \in Teams, u \in Users :
       InTeam(t, u) => RoleExists(teamMember[t][u].role, t)
  /\ \A i \in TeamInviteIds :
       teamInvite[i] # NoTeamInvite
         => RoleExists(teamInvite[i].role, teamInvite[i].team)

\* What deleteWorkspace and deleteTeam leave behind: no row that refers to a
\* workspace or a team that is gone, not even one saved by a request that was
\* in flight.
NoOrphans ==
  /\ ~Live => /\ \A u \in Users : ~Has(u)
              /\ \A i \in InviteIds : invite[i] = NoInvite
              /\ LiveTeams = {}
  /\ \A t \in Teams \ LiveTeams :
       /\ \A u \in Users : ~InTeam(t, u)
       /\ \A k \in RoleIds : role[k].team # t
       /\ \A i \in TeamInviteIds : teamInvite[i].team # t

\* A default role lives as long as its team.
DefaultRolesStay ==
  [][\A k \in RoleIds :
       role[k].isDefault /\ team'[role[k].team] = "live" => role'[k].isDefault
    ]_vars

-----------------------------------------------------------------------------
(* What the checks of the code aim at *)

\* A workspace that has an owner has one until it is deleted: leaving,
\* removing and changing roles all mean to refuse to take the only one.
OwnerNeverLost ==
  [][Owners # {} /\ workspace'.state = "live" => Owners' # {}]_vars

\* Members of a team are members of its workspace.
TeamMembersAreMembers ==
  \A t \in Teams, u \in Users : InTeam(t, u) => Has(u)

\* With requests served one by one, leaveWorkspace is the only handler that
\* leaves somebody in a team who is not in the workspace.
OutsidersHaveLeft ==
  [][\A t \in Teams, u \in Users :
       InTeam(t, u)' /\ ~Has(u)' /\ ~(InTeam(t, u) /\ ~Has(u))
         => \E r \in Requests : req[r].at = "leaveRemove"]_vars

\* With requests served one by one, a team loses its last member whose role
\* is called "Owner" only when that user is removed from the workspace or the
\* role is renamed: changing and removing team members keep one.
TeamOwnerKept ==
  [][\A t \in Teams :
       TeamOwners(t) # {} /\ team'[t] = "live" /\ TeamOwners(t)' = {}
         => \E r \in Requests : req[r].at \in {"removeTeamRows", "editRoleSave",
                                                    "editDefaultSave"}
    ]_vars

\* With requests served one by one, an answer to a team invitation is final.
AnsweredOnce ==
  [][\A i \in TeamInviteIds :
       teamInvite[i].status \in {"accepted", "rejected"}
         => teamInvite'[i].status \in {teamInvite[i].status, "none"}]_vars

\* With requests served one by one, at most one invitation of a user to a
\* team waits for an answer, and none of a user who is in the team.
OnePendingTeamInvite ==
  \A t \in Teams, u \in Users :
    LET pending == {i \in TeamInviteIds : /\ teamInvite[i].team = t
                                         /\ teamInvite[i].user = u
                                         /\ teamInvite[i].status = "pending"}
    IN  /\ Cardinality(pending) <= 1
        /\ InTeam(t, u) => pending = {}

-----------------------------------------------------------------------------
(* The handlers that can take an owner away exclude one another.  The code *)
(* has no such lock: ExclusiveSpec says how much of one its checks need.   *)

TakesOwner ==
  {"leaveCount", "leaveRemove", "roleFind", "roleSave", "removeFind",
   "removeCount", "removeTeams", "removeTeamRows", "removeRow"}

Exclusive ==
  \A q, r \in Requests :
    req[q].at \in TakesOwner /\ req[r].at \in TakesOwner => q = r

ExclusiveSpec == TablesInit /\ [][Next /\ Exclusive']_vars

Group == INSTANCE OwnedGroup WITH
  state <- workspace.state,
  place <- [u \in Users |-> member[u].role],
  invited <- {<<invite[i].user, invite[i].role>> :
                i \in {j \in InviteIds : invite[j] # NoInvite}}
             \union (IF Live THEN {<<workspace.owner, "owner">>} ELSE {})

\* With that lock the workspace is an OwnedGroup.
IsOwnedGroup == Group!Spec
=============================================================================
