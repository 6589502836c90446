-------------------------- MODULE MembershipTables --------------------------
(***************************************************************************)
(* The MySQL tables that say who belongs to a workspace and to its teams,  *)
(* and the HTTP requests being served against them.                        *)
(*                                                                         *)
(* Every service method is an async function: between two awaits of one    *)
(* request any other request may run, and no method but deleteWorkspace    *)
(* and deleteTeam opens a transaction.  A request is therefore a record    *)
(* with a control point, `at`, and the locals that survive an await; one   *)
(* action of the handler modules is the code between two awaits.           *)
(*                                                                         *)
(* The model follows one workspace.  Identifiers that the code draws with  *)
(* uuid() are natural numbers; a fresh one is the least number that no row *)
(* and no request mentions, and 0 stands for "none".                       *)
(***************************************************************************)
EXTENDS Naturals, FiniteSets

CONSTANTS Keyed,        \* do the tables have the foreign keys of the entities?
          Users,        \* accounts
          NoUser,       \* "no user", not an account
          Requests,     \* requests the server may be serving at one time
          RowIds,       \* primary keys of workspace_member and team_member rows
          Teams,        \* primary keys of teams; bounds the teams ever created
          RoleIds,      \* primary keys of team roles
          InviteIds,    \* primary keys of workspace invitations
          TeamInviteIds \* primary keys of team invitations

\* The first migration creates workspace_member, team, role, team_member and
\* team_invitation without the foreign keys that the entities declare, and adds
\* them only to tables that were there before it ran.  Both databases exist.
ASSUME KeyedAssumption == Keyed \in BOOLEAN
ASSUME NoUserAssumption == NoUser \notin Users
ASSUME IdAssumption ==
  /\ RowIds \subseteq Nat \ {0}
  /\ Teams \subseteq Nat \ {0}
  /\ RoleIds \subseteq Nat \ {0}
  /\ InviteIds \subseteq Nat \ {0}
  /\ TeamInviteIds \subseteq Nat \ {0}

VARIABLES workspace,  \* the workspace row: its state and its ownerId
          member,     \* workspace_member, one row per user at most
          invite,     \* workspace_invitation
          team,       \* the state of each team row
          role,       \* role rows: the team, the name and isDefault
          teamMember, \* team_member, one row per team and user at most
          teamInvite, \* team_invitation
          req         \* the requests in flight

tables == <<workspace, member, invite, team, role, teamMember, teamInvite>>
vars == <<workspace, member, invite, team, role, teamMember, teamInvite, req>>

-----------------------------------------------------------------------------
(* Rows *)

\* A role is called "Owner" or something else: "Member" stands for every name
\* that is not "Owner".
RoleNames == {"Owner", "Member"}

NoMember == [id |-> 0, role |-> "none"]
MemberRow == [id: RowIds, role: {"owner", "member"}]

NoInvite == [user |-> NoUser, role |-> "none", status |-> "none"]
Invite == [user: Users, role: {"owner", "member"},
           status: {"pending", "accepted", "rejected"}]

NoRole == [team |-> 0, name |-> "none", isDefault |-> FALSE]
Role == [team: Teams, name: RoleNames, isDefault: BOOLEAN]

NoTeamMember == [id |-> 0, role |-> 0]
TeamMemberRow == [id: RowIds, role: RoleIds]

NoTeamInvite == [team |-> 0, user |-> NoUser, role |-> 0, status |-> "none"]
TeamInvite == [team: Teams, user: Users, role: RoleIds,
               status: {"pending", "accepted", "rejected"}]

-----------------------------------------------------------------------------
(* Requests *)

WorkspaceLabels ==
  {"createMember", "deleteWorkspace", "leaveCount", "leaveRemove",
   "roleFind", "roleSave",
   "removeFind", "removeCount", "removeTeams", "removeTeamRows", "removeRow",
   "inviteMember", "inviteFind", "inviteSave",
   "respondSave", "respondJoin"}

TeamLabels ==
  {"teamSave", "teamOwnerRole", "teamMemberRole", "teamCreator", "deleteTeam",
   "newRole", "editRoleFind", "editRoleSave", "editDefaultSave",
   "dropRoleFind", "dropRoleCount", "dropRole",
   "teamInviteRole", "teamInviteUser", "teamInviteMember", "teamInviteFind",
   "teamInviteSave",
   "memberRoleFind", "memberRoleRole", "memberRoleOwners", "memberRoleSave",
   "kickFind", "kickOwners", "kick",
   "respondTeamSave", "respondTeamVerify", "respondTeamJoin"}

Labels == {"idle"} \union WorkspaceLabels \union TeamLabels

\* The locals of a request: the user it is about, the workspace role and the
\* status in its body, the key of the member row it has loaded, the
\* invitation, the team and the role it works on, a role name, and the ids of
\* the teams it has listed.  No handler looks at the caller again after its
\* first checks.
Request == [at: Labels,
            user: Users \union {NoUser},
            wsRole: {"none", "owner", "member"},
            status: {"none", "pending", "accepted", "rejected"},
            id: RowIds \union {0},
            inv: InviteIds \union TeamInviteIds \union {0},
            team: Teams \union {0}, roleId: RoleIds \union {0},
            name: RoleNames \union {"none"},
            teams: SUBSET Teams]

Idle == [at |-> "idle", user |-> NoUser, wsRole |-> "none", status |-> "none",
         id |-> 0, inv |-> 0, team |-> 0, roleId |-> 0, name |-> "none",
         teams |-> {}]

\* A new request about user u, stopped at its next await.
Call(l, u) == [Idle EXCEPT !.at = l, !.user = u]

Free(r) == req[r].at = "idle"
Begin(r, call) == Free(r) /\ req' = [req EXCEPT ![r] = call]
Advance(r, l) == req' = [req EXCEPT ![r].at = l]
Finish(r) == req' = [req EXCEPT ![r] = Idle]

\* The handler goes on to l when ok holds and answers with an error otherwise.
Check(r, ok, l) == (ok /\ Advance(r, l)) \/ (~ok /\ Finish(r))

-----------------------------------------------------------------------------
(* Lookups *)

Live == workspace.state = "live"
Has(u) == member[u] # NoMember
Owners == {u \in Users : member[u].role = "owner"}

LiveTeams == {t \in Teams : team[t] = "live"}
InTeam(t, u) == teamMember[t][u] # NoTeamMember
RoleExists(k, t) == role[k] # NoRole /\ role[k].team = t

\* The role of a team member is looked up by name, not by identity.
RoleName(t, u) == role[teamMember[t][u].role].name
IsTeamOwner(t, u) == InTeam(t, u) /\ RoleName(t, u) = "Owner"
TeamOwners(t) == {u \in Users : IsTeamOwner(t, u)}

HasHolder(k) == \E t \in Teams, u \in Users : teamMember[t][u].role = k
HasInvitation(k) == \E i \in TeamInviteIds : teamInvite[i].role = k

\* What a foreign key asks for before a row is written.
WorkspaceKey == Keyed => Live
TeamKey(t) == Keyed => team[t] = "live"
RoleKey(k) == Keyed => role[k] # NoRole

\* The least element of S, as a set: empty when S is.
Least(S) == {i \in S : \A j \in S : i <= j}

\* Keys a new row may get.  A key is not drawn again while a request knows it.
FreshRow == Least(RowIds \ {req[q].id : q \in Requests})
FreshTeam == Least({t \in Teams : team[t] = "unused"})
FreshRole == Least({k \in RoleIds : /\ role[k] = NoRole
                                   /\ ~HasHolder(k) /\ ~HasInvitation(k)
                                   /\ \A q \in Requests : req[q].roleId # k})
FreshInvite == Least({i \in InviteIds : invite[i] = NoInvite
                                     /\ \A q \in Requests : req[q].inv # i})
FreshTeamInvite ==
  Least({i \in TeamInviteIds : teamInvite[i] = NoTeamInvite
                            /\ \A q \in Requests : req[q].inv # i})

\* DELETE of the teams in S with their invitations, members and roles.
DeleteTeams(S) ==
  /\ teamInvite' = [i \in TeamInviteIds |->
       IF teamInvite[i].team \in S THEN NoTeamInvite ELSE teamInvite[i]]
  /\ teamMember' = [t \in Teams |->
       IF t \in S THEN [u \in Users |-> NoTeamMember] ELSE teamMember[t]]
  /\ role' = [k \in RoleIds |-> IF role[k].team \in S THEN NoRole ELSE role[k]]
  /\ team' = [t \in Teams |-> IF t \in S THEN "gone" ELSE team[t]]

-----------------------------------------------------------------------------
TablesInit ==
  /\ workspace = [state |-> "none", owner |-> NoUser]
  /\ member = [u \in Users |-> NoMember]
  /\ invite = [i \in InviteIds |-> NoInvite]
  /\ team = [t \in Teams |-> "unused"]
  /\ role = [k \in RoleIds |-> NoRole]
  /\ teamMember = [t \in Teams |-> [u \in Users |-> NoTeamMember]]
  /\ teamInvite = [i \in TeamInviteIds |-> NoTeamInvite]
  /\ req = [r \in Requests |-> Idle]

\* Tables and requests hold values of their types.
TablesTypeOK ==
  /\ workspace \in [state: {"none", "live", "deleted"},
                    owner: Users \union {NoUser}]
  /\ member \in [Users -> MemberRow \union {NoMember}]
  /\ invite \in [InviteIds -> Invite \union {NoInvite}]
  /\ team \in [Teams -> {"unused", "live", "gone"}]
  /\ role \in [RoleIds -> Role \union {NoRole}]
  /\ teamMember \in [Teams -> [Users -> TeamMemberRow \union {NoTeamMember}]]
  /\ teamInvite \in [TeamInviteIds -> TeamInvite \union {NoTeamInvite}]
  /\ req \in [Requests -> Request]
=============================================================================
