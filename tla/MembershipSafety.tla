-------------------------- MODULE MembershipSafety --------------------------
(***************************************************************************)
(* Proofs of the safety of Membership in a database that has the foreign   *)
(* keys of the entities: nothing refers to a row that is gone, roles stay  *)
(* in their team, and nobody comes in uninvited.                           *)
(***************************************************************************)
EXTENDS MembershipProofs

-----------------------------------------------------------------------------
(* The inductive invariant.  What the tables promise depends on what the   *)
(* requests in flight have already verified, which may be stale when they  *)
(* act on it: each claim below is what is left of such a check whatever    *)
(* the other requests did since.                                           *)

\* Control points at which the role of the request was found in its team.
KnowsRole ==
  {"teamMemberRole", "teamCreator", "editRoleSave", "editDefaultSave",
   "teamInviteUser", "teamInviteMember", "teamInviteFind", "teamInviteSave",
   "memberRoleOwners", "memberRoleSave",
   "respondTeamSave", "respondTeamVerify", "respondTeamJoin"}

\* Control points of requests that may still make their user a member.
MayAdmit ==
  {"createMember", "roleSave", "respondSave", "respondJoin",
   "teamSave", "teamOwnerRole", "teamMemberRole", "teamCreator",
   "memberRoleRole", "memberRoleOwners", "memberRoleSave", "respondTeamJoin"}

\* Nothing is served before the workspace is there.
StartClaim(q) == q.at # "idle" => workspace.state # "none"

\* The role is gone or still in the team in which it was found.
RoleClaim(q) ==
  q.at \in KnowsRole /\ role[q.roleId] # NoRole
    => role[q.roleId].team = q.team

\* The invitation being answered is gone or still as it was read.
AnswerClaim(q) ==
  q.at = "respondTeamSave" =>
    /\ q.inv \in TeamInviteIds
    /\ LET i == teamInvite[q.inv]
       IN  i = NoTeamInvite \/ (i.team = q.team /\ i.user = q.user
                                                /\ i.role = q.roleId)

AdmitClaim(q) == q.at \in MayAdmit /\ Live => Insider(q.user)

Claims(q) == StartClaim(q) /\ RoleClaim(q) /\ AnswerClaim(q) /\ AdmitClaim(q)

\* Two requests that know a role found it in the same team: it may be gone
\* and be inserted again by one of them.
Agree(p, q) ==
  p.at \in KnowsRole /\ q.at \in KnowsRole /\ p.roleId = q.roleId
    => p.team = q.team

SafeInv ==
  /\ TypeInv
  /\ Keyed
  /\ NoOrphans
  /\ RolesMatchTeams
  /\ OnlyInsiders
  /\ \A r \in Requests : Claims(req[r])
  /\ \A q, r \in Requests : Agree(req[q], req[r])

-----------------------------------------------------------------------------
(* A request record and its claims. *)

LEMMA IdleClaims == Claims(Idle) /\ \A q : Agree(Idle, q) /\ Agree(q, Idle)
  BY DEF Claims, StartClaim, RoleClaim, AnswerClaim, AdmitClaim, Agree, Idle,
         KnowsRole, MayAdmit

\* A step that writes no table keeps the invariant when the record it gives
\* the request lives up to its claims.
LEMMA QuietStep ==
  ASSUME SafeInv, TypeInv', UNCHANGED tables,
         NEW r \in Requests, NEW c, req' = [req EXCEPT ![r] = c],
         Claims(c), \A x \in Requests : Agree(req[x], c) /\ Agree(c, req[x]),
         Agree(c, c)
  PROVE  SafeInv'
<1> USE DEF tables
<1>1. NoOrphans' /\ RolesMatchTeams' /\ OnlyInsiders'
  BY DEF SafeInv, NoOrphans, RolesMatchTeams, OnlyInsiders, Live, Has, LiveTeams,
         InTeam, RoleExists, Insider
<1>2. ASSUME NEW q, Claims(q) PROVE Claims(q)'
  BY <1>2 DEF Claims, StartClaim, RoleClaim, AnswerClaim, AdmitClaim, Live, Insider
<1>3. \A x \in Requests : req'[x] = IF x = r THEN c ELSE req[x]
  BY DEF SafeInv, TypeInv
<1>4. ASSUME NEW x \in Requests PROVE Claims(req[x])'
  <2>1. Claims(req'[x])
    BY <1>3 DEF SafeInv
  <2> QED BY <2>1, <1>2 DEF Claims, StartClaim, RoleClaim, AnswerClaim, AdmitClaim
<1>5. ASSUME NEW x \in Requests, NEW y \in Requests PROVE Agree(req[x], req[y])'
  BY <1>3 DEF SafeInv, Agree
<1> QED BY <1>1, <1>4, <1>5 DEF SafeInv

\* The role was found just now.
LEMMA RoleFound ==
  ASSUME SafeInv, NEW c, c.at \in KnowsRole => RoleExists(c.roleId, c.team)
  PROVE  /\ RoleClaim(c)
         /\ \A x \in Requests : Agree(req[x], c) /\ Agree(c, req[x])
         /\ Agree(c, c)
  BY DEF SafeInv, Claims, RoleClaim, Agree, RoleExists

\* The role was found before, by the same request.
LEMMA RoleKept ==
  ASSUME SafeInv, NEW r \in Requests, NEW c,
         c.at \in KnowsRole => /\ req[r].at \in KnowsRole
                               /\ c.roleId = req[r].roleId
                               /\ c.team = req[r].team
  PROVE  /\ RoleClaim(c)
         /\ \A x \in Requests : Agree(req[x], c) /\ Agree(c, req[x])
         /\ Agree(c, c)
  BY DEF SafeInv, Claims, RoleClaim, Agree

LEMMA QuietFinish ==
  ASSUME SafeInv, TypeInv', UNCHANGED tables, NEW r \in Requests, Finish(r)
  PROVE  SafeInv'
  BY QuietStep, IdleClaims DEF Finish

\* A request goes on with record c, about the same user, role and team.
LEMMA QuietMove ==
  ASSUME SafeInv, TypeInv', UNCHANGED tables, NEW r \in Requests, ~Free(r),
         NEW c, req' = [req EXCEPT ![r] = c], c.at # "respondTeamSave",
         c.user = req[r].user, c.roleId = req[r].roleId, c.team = req[r].team,
         c.at \in KnowsRole => \/ req[r].at \in KnowsRole
                               \/ RoleExists(req[r].roleId, req[r].team),
         c.at \in MayAdmit => req[r].at \in MayAdmit \/ Insider(req[r].user)
  PROVE  SafeInv'
<1>1. Claims(req[r]) /\ req[r].at # "idle"
  BY DEF SafeInv, Free
<1>2. /\ RoleClaim(c)
      /\ \A x \in Requests : Agree(req[x], c) /\ Agree(c, req[x])
      /\ Agree(c, c)
  BY RoleFound, RoleKept
<1>3. StartClaim(c) /\ AnswerClaim(c) /\ AdmitClaim(c)
  BY <1>1 DEF Claims, StartClaim, AnswerClaim, AdmitClaim
<1> QED BY <1>2, <1>3, QuietStep DEF Claims

LEMMA QuietAdvance ==
  ASSUME SafeInv, TypeInv', UNCHANGED tables, NEW r \in Requests, ~Free(r),
         NEW l, Advance(r, l), l # "respondTeamSave",
         l \in KnowsRole => \/ req[r].at \in KnowsRole
                            \/ RoleExists(req[r].roleId, req[r].team),
         l \in MayAdmit => req[r].at \in MayAdmit \/ Insider(req[r].user)
  PROVE  SafeInv'
<1> DEFINE c == [req[r] EXCEPT !.at = l]
<1>1. req[r] \in Request
  BY DEF SafeInv, TypeInv, TablesTypeOK
<1>2. /\ c.at = l /\ c.roleId = req[r].roleId /\ c.team = req[r].team
      /\ c.user = req[r].user
  BY <1>1 DEF Request
<1>3. req' = [req EXCEPT ![r] = c]
  BY DEF Advance
<1> HIDE DEF c
<1> QED BY <1>2, <1>3, QuietMove

LEMMA QuietCheck ==
  ASSUME SafeInv, TypeInv', UNCHANGED tables, NEW r \in Requests, ~Free(r),
         NEW l, NEW ok, Check(r, ok, l), l # "respondTeamSave",
         ok /\ l \in KnowsRole => \/ req[r].at \in KnowsRole
                                  \/ RoleExists(req[r].roleId, req[r].team),
         ok /\ l \in MayAdmit => req[r].at \in MayAdmit \/ Insider(req[r].user)
  PROVE  SafeInv'
  BY QuietFinish, QuietAdvance DEF Check

\* Whoever is found in a table is an insider of a workspace that is live.
LEMMA Found ==
  ASSUME SafeInv
  PROVE  /\ \A u \in Users : Has(u) => Live /\ Insider(u)
         /\ \A u \in Owners : u \in Users /\ Has(u)
         /\ \A t \in Teams, u \in Users :
              InTeam(t, u) => Live /\ team[t] = "live" /\ Insider(u)
         /\ \A t \in Teams : team[t] = "live" => Live
         /\ \A i \in InviteIds : invite[i] # NoInvite => Live
         /\ \A i \in TeamInviteIds :
              teamInvite[i] # NoTeamInvite =>
                /\ Live /\ team[teamInvite[i].team] = "live"
                /\ RoleExists(teamInvite[i].role, teamInvite[i].team)
<1> USE DEF SafeInv, NoOrphans, OnlyInsiders, RolesMatchTeams, LiveTeams
<1>1. \A u \in Users : Has(u) => Live /\ Insider(u)
  OBVIOUS
<1>2. \A u \in Owners : u \in Users /\ Has(u)
  BY DEF Owners, Has, NoMember
<1>3. \A t \in Teams, u \in Users :
        InTeam(t, u) => Live /\ team[t] = "live" /\ Insider(u)
  OBVIOUS
<1>4. \A t \in Teams : team[t] = "live" => Live
  OBVIOUS
<1>5. \A i \in InviteIds : invite[i] # NoInvite => Live
  OBVIOUS
<1>6. ASSUME NEW i \in TeamInviteIds, teamInvite[i] # NoTeamInvite
      PROVE  /\ Live /\ team[teamInvite[i].team] = "live"
             /\ RoleExists(teamInvite[i].role, teamInvite[i].team)
  <2>1. teamInvite[i].team \in Teams
    BY <1>6 DEF TypeInv, TablesTypeOK, TeamInvite
  <2> QED BY <1>6, <2>1, <1>4
<1> QED BY <1>1, <1>2, <1>3, <1>4, <1>5, <1>6

-----------------------------------------------------------------------------
(* The steps that write no table. *)

QuietWorkspaceStep(r) ==
  \/ LeaveCount(r) \/ RoleFind(r) \/ RemoveFind(r) \/ RemoveCount(r)
  \/ RemoveTeams(r) \/ InviteCheckMember(r) \/ InviteFind(r)

QuietTeamStep(r) ==
  \/ EditRoleFind(r) \/ DropRoleFind(r) \/ DropRoleCount(r)
  \/ TeamInviteRole(r) \/ TeamInviteUser(r) \/ TeamInviteMember(r)
  \/ TeamInviteFind(r) \/ MemberRoleFind(r) \/ MemberRoleRole(r)
  \/ MemberRoleOwners(r) \/ KickFind(r) \/ KickOwners(r) \/ RespondTeamVerify(r)

\* The record a request gets when it has loaded a row.
LEMMA LoadFields ==
  ASSUME NEW q \in Request, NEW l, NEW i
  PROVE  LET c == [q EXCEPT !.at = l, !.id = i]
         IN  c.at = l /\ c.user = q.user /\ c.roleId = q.roleId /\ c.team = q.team
  BY DEF Request

LEMMA WorkspaceQuietSafe ==
  ASSUME SafeInv, TypeInv', NEW r \in Requests, QuietWorkspaceStep(r)
  PROVE  SafeInv'
<1> DEFINE q == req[r]
<1>q. q \in Request /\ GoodAt(q.at, q)
  BY DEF SafeInv, TypeInv, GoodRequest
<1>1. CASE LeaveCount(r)
  BY <1>1, QuietCheck DEF LeaveCount, Free, KnowsRole, MayAdmit
<1>2. CASE RoleFind(r)
  <2>1. q.user \in Users /\ ~Free(r)
    BY <1>2, <1>q DEF RoleFind, GoodAt, Free
  <2>2. CASE Has(q.user)
    <3> DEFINE c == [q EXCEPT !.at = "roleSave", !.id = member[q.user].id]
    <3>1. req' = [req EXCEPT ![r] = c]
      BY <1>2, <2>2 DEF RoleFind
    <3>2. c.at = "roleSave" /\ c.user = q.user /\ c.roleId = q.roleId
          /\ c.team = q.team
      BY <1>q, LoadFields
    <3>3. Insider(q.user)
      BY <2>1, <2>2, Found
    <3> HIDE DEF c
    <3> QED BY <1>2, <2>1, <3>1, <3>2, <3>3, QuietMove DEF RoleFind, KnowsRole
  <2> QED BY <1>2, <2>2, QuietFinish DEF RoleFind
<1>3. CASE RemoveFind(r)
  <2>1. CASE Has(q.user)
    <3> DEFINE l == IF q.user \in Owners THEN "removeCount" ELSE "removeTeams"
               c == [q EXCEPT !.at = l, !.id = member[q.user].id]
    <3>1. req' = [req EXCEPT ![r] = c]
      BY <1>3, <2>1 DEF RemoveFind
    <3>2. l \in {"removeCount", "removeTeams"}
      OBVIOUS
    <3> HIDE DEF l
    <3>3. c.at = l /\ c.user = q.user /\ c.roleId = q.roleId /\ c.team = q.team
      BY <1>q, LoadFields
    <3> HIDE DEF c
    <3> QED
      BY <1>3, <3>1, <3>2, <3>3, QuietMove DEF RemoveFind, Free, KnowsRole, MayAdmit
  <2> QED BY <1>3, <2>1, QuietFinish DEF RemoveFind
<1>4. CASE RemoveCount(r)
  BY <1>4, QuietCheck DEF RemoveCount, Free, KnowsRole, MayAdmit
<1>5. CASE RemoveTeams(r)
  <2> DEFINE c == [q EXCEPT !.at = "removeTeamRows", !.teams = LiveTeams]
  <2>1. req' = [req EXCEPT ![r] = c]
    BY <1>5 DEF RemoveTeams
  <2>2. c.at = "removeTeamRows" /\ c.user = q.user /\ c.roleId = q.roleId
        /\ c.team = q.team
    BY <1>q DEF Request
  <2> HIDE DEF c
  <2> QED BY <1>5, <2>1, <2>2, QuietMove DEF RemoveTeams, Free, KnowsRole, MayAdmit
<1>6. CASE InviteCheckMember(r)
  BY <1>6, QuietCheck DEF InviteCheckMember, Free, KnowsRole, MayAdmit
<1>7. CASE InviteFind(r)
  BY <1>7, QuietCheck, QuietAdvance DEF InviteFind, Free, KnowsRole, MayAdmit
<1> QED BY <1>1, <1>2, <1>3, <1>4, <1>5, <1>6, <1>7 DEF QuietWorkspaceStep

LEMMA TeamQuietSafe ==
  ASSUME SafeInv, TypeInv', NEW r \in Requests, QuietTeamStep(r)
  PROVE  SafeInv'
<1> DEFINE q == req[r]
<1>q. q \in Request /\ GoodAt(q.at, q)
  BY DEF SafeInv, TypeInv, GoodRequest
<1>1. CASE EditRoleFind(r)
  BY <1>1, QuietCheck DEF EditRoleFind, Free, MayAdmit
<1>2. CASE DropRoleFind(r)
  BY <1>2, QuietCheck DEF DropRoleFind, Free, KnowsRole, MayAdmit
<1>3. CASE DropRoleCount(r)
  BY <1>3, QuietCheck DEF DropRoleCount, Free, KnowsRole, MayAdmit
<1>4. CASE TeamInviteRole(r)
  BY <1>4, QuietCheck DEF TeamInviteRole, Free, MayAdmit
<1>5. CASE TeamInviteUser(r)
  BY <1>5, QuietCheck DEF TeamInviteUser, Free, KnowsRole, MayAdmit
<1>6. CASE TeamInviteMember(r)
  BY <1>6, QuietCheck DEF TeamInviteMember, Free, KnowsRole, MayAdmit
<1>7. CASE TeamInviteFind(r)
  BY <1>7, QuietCheck DEF TeamInviteFind, Free, KnowsRole, MayAdmit
<1>8. CASE MemberRoleFind(r)
  <2>1. q.user \in Users /\ q.team \in Teams /\ ~Free(r)
    BY <1>8, <1>q DEF MemberRoleFind, GoodAt, Free
  <2>2. CASE InTeam(q.team, q.user)
    <3> DEFINE c == [q EXCEPT !.at = "memberRoleRole",
                              !.id = teamMember[q.team][q.user].id,
                              !.name = RoleName(q.team, q.user)]
    <3>1. req' = [req EXCEPT ![r] = c]
      BY <1>8, <2>2 DEF MemberRoleFind
    <3>2. c.at = "memberRoleRole" /\ c.user = q.user /\ c.roleId = q.roleId
          /\ c.team = q.team
      BY <1>q DEF Request
    <3>3. Insider(q.user)
      BY <2>1, <2>2, Found
    <3> HIDE DEF c
    <3> QED BY <1>8, <2>1, <3>1, <3>2, <3>3, QuietMove DEF MemberRoleFind, KnowsRole
  <2> QED BY <1>8, <2>2, QuietFinish DEF MemberRoleFind
<1>9. CASE MemberRoleRole(r)
  BY <1>9, QuietCheck DEF MemberRoleRole, Free, MayAdmit
<1>10. CASE MemberRoleOwners(r)
  BY <1>10, QuietCheck DEF MemberRoleOwners, Free, KnowsRole, MayAdmit
<1>11. CASE KickFind(r)
  <2>1. CASE InTeam(q.team, q.user) /\ RoleName(q.team, q.user) # "none"
    <3> DEFINE l == IF IsTeamOwner(q.team, q.user) THEN "kickOwners" ELSE "kick"
               c == [q EXCEPT !.at = l, !.id = teamMember[q.team][q.user].id]
    <3>1. req' = [req EXCEPT ![r] = c]
      BY <1>11, <2>1 DEF KickFind
    <3>2. l \in {"kickOwners", "kick"}
      OBVIOUS
    <3> HIDE DEF l
    <3>3. c.at = l /\ c.user = q.user /\ c.roleId = q.roleId /\ c.team = q.team
      BY <1>q, LoadFields
    <3> HIDE DEF c
    <3> QED
      BY <1>11, <3>1, <3>2, <3>3, QuietMove DEF KickFind, Free, KnowsRole, MayAdmit
  <2> QED BY <1>11, <2>1, QuietFinish DEF KickFind
<1>12. CASE KickOwners(r)
  BY <1>12, QuietCheck DEF KickOwners, Free, KnowsRole, MayAdmit
<1>13. CASE RespondTeamVerify(r)
  <2>1. q.user \in Users
    BY <1>13, <1>q DEF RespondTeamVerify, GoodAt
  <2> QED
    BY <1>13, <2>1, QuietCheck, Found DEF RespondTeamVerify, Free, KnowsRole, MayAdmit
<1> QED
  BY <1>1, <1>2, <1>3, <1>4, <1>5, <1>6, <1>7, <1>8, <1>9, <1>10, <1>11, <1>12, <1>13
  DEF QuietTeamStep

-----------------------------------------------------------------------------
(* Arrivals. *)

\* A call for which nothing has been looked up yet but the caller.
LEMMA QuietBegin ==
  ASSUME SafeInv, TypeInv', UNCHANGED tables, NEW r \in Requests, NEW c,
         Begin(r, c), Live, c.at \notin KnowsRole,
         c.at \in MayAdmit => Insider(c.user)
  PROVE  SafeInv'
<1>1. /\ RoleClaim(c)
      /\ \A x \in Requests : Agree(req[x], c) /\ Agree(c, req[x])
      /\ Agree(c, c)
  BY RoleFound
<1>2. StartClaim(c) /\ AnswerClaim(c) /\ AdmitClaim(c)
  BY DEF StartClaim, AnswerClaim, AdmitClaim, Live, KnowsRole
<1> QED BY <1>1, <1>2, QuietStep DEF Begin, Claims

LEMMA CreateWorkspaceSafe ==
  ASSUME SafeInv, TypeInv', NEW r \in Requests, NEW u \in Users,
         CreateWorkspace(r, u)
  PROVE  SafeInv'
<1> DEFINE c == Call("createMember", u)
<1>1. c.at = "createMember" /\ c.user = u
  BY DEF Call, Idle
<1>2. req' = [req EXCEPT ![r] = c] /\ workspace'.owner = u
  BY DEF CreateWorkspace, Begin
<1> HIDE DEF c
<1>3. \A x \in Requests : req'[x] = IF x = r THEN c ELSE req[x]
  BY <1>2 DEF SafeInv, TypeInv
<1>4. \A x \in Requests : req[x].at = "idle"
  BY DEF SafeInv, Claims, StartClaim, CreateWorkspace
<1>5. NoOrphans' /\ RolesMatchTeams' /\ OnlyInsiders'
  BY DEF SafeInv, NoOrphans, RolesMatchTeams, OnlyInsiders, Live, Has, LiveTeams,
         InTeam, RoleExists, CreateWorkspace
<1>6. ASSUME NEW x \in Requests PROVE Claims(req[x])'
  BY <1>1, <1>2, <1>3, <1>4
  DEF Claims, StartClaim, RoleClaim, AnswerClaim, AdmitClaim, KnowsRole, MayAdmit,
      Insider, CreateWorkspace
<1>7. ASSUME NEW x \in Requests, NEW y \in Requests PROVE Agree(req[x], req[y])'
  BY <1>1, <1>3, <1>4 DEF Agree, KnowsRole
<1> QED BY <1>5, <1>6, <1>7 DEF SafeInv

LEMMA WorkspaceArrivalSafe ==
  ASSUME SafeInv, TypeInv', NEW r \in Requests, WorkspaceArrival(r)
  PROVE  SafeInv'
<1> USE DEF Call, Idle, KnowsRole, MayAdmit
<1>1. PICK u \in Users :
        \/ CreateWorkspace(r, u) \/ DeleteWorkspace(r, u) \/ LeaveWorkspace(r, u)
        \/ \E v \in Users, ro \in {"owner", "member"} :
             UpdateMemberRole(r, u, v, ro) \/ InviteMember(r, u, v, ro)
        \/ \E v \in Users : RemoveMember(r, u, v)
        \/ \E i \in InviteIds, st \in {"pending", "accepted", "rejected"} :
             Respond(r, u, i, st)
  BY DEF WorkspaceArrival
<1>2. CASE CreateWorkspace(r, u)
  BY <1>2, CreateWorkspaceSafe
<1>3. CASE DeleteWorkspace(r, u)
  BY <1>3, QuietBegin, Found DEF DeleteWorkspace
<1>4. CASE LeaveWorkspace(r, u)
  BY <1>4, QuietBegin, Found DEF LeaveWorkspace
<1>5. ASSUME NEW v \in Users, NEW ro \in {"owner", "member"},
             UpdateMemberRole(r, u, v, ro) \/ InviteMember(r, u, v, ro)
      PROVE  SafeInv'
  BY <1>5, QuietBegin, Found DEF UpdateMemberRole, InviteMember
<1>6. ASSUME NEW v \in Users, RemoveMember(r, u, v) PROVE SafeInv'
  BY <1>6, QuietBegin, Found DEF RemoveMember
<1>7. ASSUME NEW i \in InviteIds, NEW st \in {"pending", "accepted", "rejected"},
             Respond(r, u, i, st)
      PROVE  SafeInv'
  <2>1. Insider(u) /\ Live
    BY <1>7, Found DEF Respond, Insider, NoInvite
  <2> QED BY <1>7, <2>1, QuietBegin DEF Respond
<1> QED BY <1>1, <1>2, <1>3, <1>4, <1>5, <1>6, <1>7

LEMMA RespondTeamSafe ==
  ASSUME SafeInv, TypeInv', NEW r \in Requests, NEW u \in Users,
         NEW i \in TeamInviteIds, NEW st, RespondTeam(r, u, i, st)
  PROVE  SafeInv'
<1> DEFINE c == [TeamCall("respondTeamSave", u, teamInvite[i].team)
                   EXCEPT !.inv = i, !.status = st,
                          !.roleId = teamInvite[i].role,
                          !.teams = {teamInvite[i].team} \intersect LiveTeams]
<1>1. /\ c.at = "respondTeamSave" /\ c.user = u /\ c.inv = i
      /\ c.team = teamInvite[i].team /\ c.roleId = teamInvite[i].role
  BY DEF TeamCall, Call, Idle
<1>2. req' = [req EXCEPT ![r] = c] /\ teamInvite[i].user = u
      /\ teamInvite[i] # NoTeamInvite /\ UNCHANGED tables
  BY DEF RespondTeam, Begin, NoTeamInvite
<1> HIDE DEF c
<1>3. /\ RoleClaim(c)
      /\ \A x \in Requests : Agree(req[x], c) /\ Agree(c, req[x])
      /\ Agree(c, c)
  BY <1>1, <1>2, Found, RoleFound
<1>4. StartClaim(c) /\ AnswerClaim(c) /\ AdmitClaim(c)
  BY <1>1, <1>2, Found DEF StartClaim, AnswerClaim, AdmitClaim, Live, MayAdmit
<1> QED BY <1>2, <1>3, <1>4, QuietStep DEF Claims

LEMMA TeamArrivalSafe ==
  ASSUME SafeInv, TypeInv', NEW r \in Requests, TeamArrival(r)
  PROVE  SafeInv'
<1> USE DEF TeamCall, Call, Idle, KnowsRole, MayAdmit
<1>1. PICK u \in Users :
        \/ CreateTeam(r, u)
        \/ \E t \in Teams :
             \/ DeleteTeam(r, u, t)
             \/ \E nm \in RoleNames : CreateRole(r, u, t, nm)
             \/ \E k \in RoleIds :
                  \/ DeleteRole(r, u, t, k)
                  \/ \E nm \in RoleNames : UpdateRole(r, u, t, k, nm)
                  \/ \E v \in Users : \/ InviteTeamMember(r, u, t, v, k)
                                      \/ UpdateTeamMemberRole(r, u, t, v, k)
             \/ \E v \in Users : RemoveTeamMember(r, u, t, v)
        \/ \E i \in TeamInviteIds, st \in {"pending", "accepted", "rejected"} :
             RespondTeam(r, u, i, st)
  BY DEF TeamArrival
<1>2. CASE CreateTeam(r, u)
  BY <1>2, QuietBegin, Found DEF CreateTeam
<1>3. ASSUME NEW t \in Teams, DeleteTeam(r, u, t) PROVE SafeInv'
  BY <1>3, QuietBegin, Found DEF DeleteTeam
<1>4. ASSUME NEW t \in Teams, NEW nm, CreateRole(r, u, t, nm) PROVE SafeInv'
  BY <1>4, QuietBegin, Found DEF CreateRole
<1>5. ASSUME NEW t \in Teams, NEW k, DeleteRole(r, u, t, k) PROVE SafeInv'
  BY <1>5, QuietBegin, Found DEF DeleteRole
<1>6. ASSUME NEW t \in Teams, NEW k, NEW nm, UpdateRole(r, u, t, k, nm)
      PROVE  SafeInv'
  BY <1>6, QuietBegin, Found DEF UpdateRole
<1>7. ASSUME NEW t \in Teams, NEW k, NEW v \in Users,
             InviteTeamMember(r, u, t, v, k) \/ UpdateTeamMemberRole(r, u, t, v, k)
      PROVE  SafeInv'
  BY <1>7, QuietBegin, Found DEF InviteTeamMember, UpdateTeamMemberRole, IsTeamOwner
<1>8. ASSUME NEW t \in Teams, NEW v \in Users, RemoveTeamMember(r, u, t, v)
      PROVE  SafeInv'
  BY <1>8, QuietBegin, Found DEF RemoveTeamMember, IsTeamOwner
<1>9. ASSUME NEW i \in TeamInviteIds,
             NEW st \in {"pending", "accepted", "rejected"}, RespondTeam(r, u, i, st)
      PROVE  SafeInv'
  BY <1>9, RespondTeamSafe
<1> QED BY <1>1, <1>2, <1>3, <1>4, <1>5, <1>6, <1>7, <1>8, <1>9

-----------------------------------------------------------------------------
(* The steps that write member or team_member: claims do not read those.   *)

\* The invariant after a step that gives request r the record c.
LEMMA StepSafe ==
  ASSUME SafeInv, TypeInv', NoOrphans', RolesMatchTeams', OnlyInsiders',
         NEW r \in Requests, NEW c, req' = [req EXCEPT ![r] = c], Claims(c)',
         \A x \in Requests \ {r} : \A q : q = req[x] => Claims(q)',
         \A x \in Requests : Agree(req[x], c) /\ Agree(c, req[x]),
         Agree(c, c)
  PROVE  SafeInv'
<1>1. \A x \in Requests : req'[x] = IF x = r THEN c ELSE req[x]
  BY DEF SafeInv, TypeInv
<1>2. ASSUME NEW x \in Requests PROVE Claims(req[x])'
  <2>1. \A q : q = req'[x] => Claims(q)'
    BY <1>1
  <2> QED BY <2>1 DEF Claims, StartClaim, RoleClaim, AnswerClaim, AdmitClaim
<1>3. ASSUME NEW x \in Requests, NEW y \in Requests PROVE Agree(req[x], req[y])'
  BY <1>1 DEF SafeInv, Agree
<1> QED BY <1>2, <1>3 DEF SafeInv

\* A record that claims nothing, because the request is over or about to be.
Modest(c) == /\ c.at \notin KnowsRole \union MayAdmit \union {"respondTeamSave"}
             /\ c.at # "idle" => workspace.state # "none"

LEMMA ModestClaims ==
  ASSUME NEW c, Modest(c), UNCHANGED workspace
  PROVE  /\ Claims(c) /\ Claims(c)'
         /\ \A q : Agree(q, c) /\ Agree(c, q)
  BY DEF Modest, Claims, StartClaim, RoleClaim, AnswerClaim, AdmitClaim, Agree, Live

LEMMA IdleModest == Modest(Idle)
  BY DEF Modest, Idle, KnowsRole, MayAdmit

LEMMA MembershipWrite ==
  ASSUME SafeInv, TypeInv',
         UNCHANGED <<workspace, invite, team, role, teamInvite>>,
         NEW r \in Requests, NEW c, req' = [req EXCEPT ![r] = c], Modest(c),
         \A u \in Users : Has(u)' => Has(u) \/ (Live /\ Insider(u)),
         \A t \in Teams, u \in Users :
           InTeam(t, u)' => /\ team[t] = "live"
                            /\ Insider(u)
                            /\ \A k : k = teamMember'[t][u].role => RoleExists(k, t)
  PROVE  SafeInv'
<1>1. NoOrphans'
  BY DEF SafeInv, NoOrphans, Live, LiveTeams
<1>2. RolesMatchTeams'
  BY DEF SafeInv, RolesMatchTeams, RoleExists, InTeam
<1>3. OnlyInsiders'
  BY DEF SafeInv, OnlyInsiders, Insider
<1>4. ASSUME NEW q, Claims(q) PROVE Claims(q)'
  BY <1>4 DEF Claims, StartClaim, RoleClaim, AnswerClaim, AdmitClaim, Live, Insider
<1>5. \A x \in Requests \ {r} : \A q : q = req[x] => Claims(q)'
  BY <1>4 DEF SafeInv
<1> QED BY <1>1, <1>2, <1>3, <1>5, ModestClaims, StepSafe

\* The same, when the members of the teams stay or go.
LEMMA MemberWrite ==
  ASSUME SafeInv, TypeInv',
         UNCHANGED <<workspace, invite, team, role, teamMember, teamInvite>>,
         NEW r \in Requests, Finish(r),
         \A u \in Users : Has(u)' => Has(u) \/ (Live /\ Insider(u))
  PROVE  SafeInv'
<1>1. \A t \in Teams, u \in Users :
        InTeam(t, u)' => /\ team[t] = "live"
                         /\ Insider(u)
                         /\ \A k : k = teamMember'[t][u].role => RoleExists(k, t)
  BY Found DEF InTeam, SafeInv, RolesMatchTeams
<1> QED BY <1>1, IdleModest, MembershipWrite DEF Finish

LEMMA TeamMemberWrite ==
  ASSUME SafeInv, TypeInv',
         UNCHANGED <<workspace, member, invite, team, role, teamInvite>>,
         NEW r \in Requests, NEW c, req' = [req EXCEPT ![r] = c], Modest(c),
         \A t \in Teams, u \in Users :
           \/ teamMember'[t][u] \in {teamMember[t][u], NoTeamMember}
           \/ /\ team[t] = "live"
              /\ Insider(u)
              /\ \A k : k = teamMember'[t][u].role => RoleExists(k, t)
  PROVE  SafeInv'
<1>1. \A t \in Teams, u \in Users :
        InTeam(t, u)' => /\ team[t] = "live"
                         /\ Insider(u)
                         /\ \A k : k = teamMember'[t][u].role => RoleExists(k, t)
  BY Found DEF InTeam, SafeInv, RolesMatchTeams
<1>2. \A u \in Users : Has(u)' => Has(u)
  BY DEF Has
<1> QED BY <1>1, <1>2, MembershipWrite

\* Rows written by key: the row that was loaded, or a new one.
LEMMA InsertMemberEffect ==
  ASSUME SafeInv, NEW v \in Users, NEW id, NEW ro, InsertMember(v, id, ro),
         Live => Insider(v)
  PROVE  \A u \in Users : Has(u)' => Has(u) \/ (Live /\ Insider(u))
  BY DEF SafeInv, TypeInv, TablesTypeOK, InsertMember, WorkspaceKey, Has

LEMMA RemoveMemberEffect ==
  ASSUME SafeInv, NEW r, RemoveLoadedMember(r)
  PROVE  \A u \in Users : Has(u)' => Has(u) \/ (Live /\ Insider(u))
  BY DEF SafeInv, TypeInv, TablesTypeOK, RemoveLoadedMember, Has

LEMMA InsertTeamMemberEffect ==
  ASSUME SafeInv, NEW s \in Teams, NEW v \in Users, NEW id, NEW k,
         InsertTeamMember(s, v, id, k), Live => Insider(v),
         role[k] # NoRole => role[k].team = s
  PROVE  \A t \in Teams, u \in Users :
           \/ teamMember'[t][u] \in {teamMember[t][u], NoTeamMember}
           \/ /\ team[t] = "live"
              /\ Insider(u)
              /\ \A j : j = teamMember'[t][u].role => RoleExists(j, t)
<1> DEFINE row == [id |-> id, role |-> k]
<1>1. CASE teamMember' = teamMember
  BY <1>1
<1>2. CASE teamMember' # teamMember
  <2>1. /\ teamMember' = [teamMember EXCEPT ![s][v] = row]
        /\ team[s] = "live" /\ RoleExists(k, s)
    BY <1>2 DEF InsertTeamMember, TeamKey, RoleKey, SafeInv, RoleExists
  <2>2. Insider(v)
    BY <2>1, Found
  <2>3. \A t \in Teams, u \in Users :
          teamMember'[t][u] = IF t = s /\ u = v THEN row ELSE teamMember[t][u]
    BY <2>1 DEF SafeInv, TypeInv, TablesTypeOK
  <2>4. row.role = k
    OBVIOUS
  <2> HIDE DEF row
  <2> QED BY <2>1, <2>2, <2>3, <2>4
<1> QED BY <1>1, <1>2

MembershipStep(r) ==
  \/ CreateMember(r) \/ LeaveRemove(r) \/ RoleSave(r) \/ RemoveTeamRows(r)
  \/ RemoveRow(r) \/ RespondJoin(r)
  \/ TeamCreator(r) \/ MemberRoleSave(r) \/ Kick(r) \/ RespondTeamJoin(r)

LEMMA MembershipSafe ==
  ASSUME SafeInv, TypeInv', NEW r \in Requests, MembershipStep(r)
  PROVE  SafeInv'
<1> DEFINE q == req[r]
<1>q. /\ q \in Request /\ GoodAt(q.at, q) /\ Claims(q)
      /\ q.at \in MayAdmit => (Live => Insider(q.user))
      /\ q.at \in KnowsRole /\ role[q.roleId] # NoRole => role[q.roleId].team = q.team
  BY DEF SafeInv, TypeInv, GoodRequest, Claims, AdmitClaim, RoleClaim
<1>1. CASE CreateMember(r)
  BY <1>1, <1>q, MemberWrite, InsertMemberEffect DEF CreateMember, GoodAt, MayAdmit
<1>2. CASE LeaveRemove(r)
  BY <1>2, MemberWrite, RemoveMemberEffect DEF LeaveRemove
<1>3. CASE RoleSave(r)
  <2>1. q.user \in Users /\ q.id \in RowIds /\ (Live => Insider(q.user))
    BY <1>3, <1>q DEF RoleSave, GoodAt, MayAdmit
  <2>2. CASE member[q.user].id = q.id
    <3>1. Has(q.user)
      BY <2>1, <2>2, IdAssumption DEF Has, NoMember
    <3>2. \A u \in Users : Has(u)' => Has(u)
      BY <1>3, <2>1, <2>2, <3>1
      DEF RoleSave, Has, SafeInv, TypeInv, TablesTypeOK
    <3> QED BY <1>3, <3>2, MemberWrite DEF RoleSave
  <2>3. CASE member[q.user].id # q.id
    BY <1>3, <2>1, <2>3, MemberWrite, InsertMemberEffect DEF RoleSave
  <2> QED BY <2>2, <2>3
<1>4. CASE RemoveTeamRows(r)
  <2> DEFINE c == [q EXCEPT !.at = "removeRow"]
  <2>1. req' = [req EXCEPT ![r] = c]
    BY <1>4 DEF RemoveTeamRows, Advance
  <2>2. c.at = "removeRow"
    BY <1>q DEF Request
  <2>3. workspace.state # "none"
    BY <1>4, <1>q DEF RemoveTeamRows, Claims, StartClaim
  <2> HIDE DEF c
  <2>4. Modest(c)
    BY <2>2, <2>3 DEF Modest, KnowsRole, MayAdmit
  <2>5. \A t \in Teams, u \in Users :
          teamMember'[t][u] \in {teamMember[t][u], NoTeamMember}
    BY <1>4 DEF RemoveTeamRows, SafeInv, TypeInv, TablesTypeOK
  <2> QED BY <1>4, <2>1, <2>4, <2>5, TeamMemberWrite DEF RemoveTeamRows
<1>5. CASE RemoveRow(r)
  BY <1>5, MemberWrite, RemoveMemberEffect DEF RemoveRow
<1>6. CASE RespondJoin(r)
  BY <1>6, <1>q, MemberWrite, InsertMemberEffect DEF RespondJoin, GoodAt, MayAdmit
<1>7. CASE TeamCreator(r)
  <2>1. /\ q.user \in Users /\ q.team \in Teams /\ (Live => Insider(q.user))
        /\ role[q.roleId] # NoRole => role[q.roleId].team = q.team
    BY <1>7, <1>q DEF TeamCreator, GoodAt, MayAdmit, KnowsRole
  <2> QED
    BY <1>7, <2>1, IdleModest, InsertTeamMemberEffect, TeamMemberWrite
    DEF TeamCreator, Finish
<1>8. CASE MemberRoleSave(r)
  <2>1. /\ q.user \in Users /\ q.team \in Teams /\ (Live => Insider(q.user))
        /\ q.id \in RowIds /\ q.roleId \in RoleIds
        /\ role[q.roleId] # NoRole => role[q.roleId].team = q.team
    BY <1>8, <1>q DEF MemberRoleSave, GoodAt, MayAdmit, KnowsRole
  <2>2. CASE teamMember[q.team][q.user].id = q.id
    <3>1. InTeam(q.team, q.user)
      BY <2>1, <2>2, IdAssumption DEF InTeam, NoTeamMember
    <3>2. CASE RoleKey(q.roleId)
      <4>1. RoleExists(q.roleId, q.team)
        BY <2>1, <3>2 DEF SafeInv, RoleKey, RoleExists
      <4> DEFINE row == [teamMember[q.team][q.user] EXCEPT !.role = q.roleId]
      <4>2. row.role = q.roleId
        BY <2>1, <3>1
        DEF InTeam, SafeInv, TypeInv, TablesTypeOK, TeamMemberRow
      <4>3. teamMember' = [teamMember EXCEPT ![q.team][q.user] = row]
        BY <1>8, <2>2, <3>2 DEF MemberRoleSave
      <4> HIDE DEF row
      <4>4. \A t \in Teams, u \in Users :
              teamMember'[t][u] = IF t = q.team /\ u = q.user
                                  THEN row ELSE teamMember[t][u]
        BY <4>3 DEF SafeInv, TypeInv, TablesTypeOK
      <4>5. team[q.team] = "live" /\ Insider(q.user)
        BY <2>1, <3>1, Found
      <4>6. \A t \in Teams, u \in Users :
              \/ teamMember'[t][u] \in {teamMember[t][u], NoTeamMember}
              \/ /\ team[t] = "live"
                 /\ Insider(u)
                 /\ \A j : j = teamMember'[t][u].role => RoleExists(j, t)
        BY <4>1, <4>2, <4>4, <4>5
      <4> QED
        BY <1>8, <4>6, IdleModest, TeamMemberWrite DEF MemberRoleSave, Finish
    <3>3. CASE ~RoleKey(q.roleId)
      BY <1>8, <2>2, <3>3, IdleModest, TeamMemberWrite DEF MemberRoleSave, Finish
    <3> QED BY <3>2, <3>3
  <2>3. CASE teamMember[q.team][q.user].id # q.id
    <3>1. InsertTeamMember(q.team, q.user, q.id, q.roleId)
      BY <1>8, <2>3 DEF MemberRoleSave
    <3> QED
      BY <1>8, <2>1, <3>1, IdleModest, InsertTeamMemberEffect, TeamMemberWrite
      DEF MemberRoleSave, Finish
  <2> QED BY <2>2, <2>3
<1>9. CASE Kick(r)
  <2>1. \A t \in Teams, u \in Users :
          teamMember'[t][u] \in {teamMember[t][u], NoTeamMember}
    BY <1>9 DEF Kick, SafeInv, TypeInv, TablesTypeOK
  <2> QED BY <1>9, <2>1, IdleModest, TeamMemberWrite DEF Kick, Finish
<1>10. CASE RespondTeamJoin(r)
  <2>1. /\ q.user \in Users /\ q.team \in Teams /\ (Live => Insider(q.user))
        /\ role[q.roleId] # NoRole => role[q.roleId].team = q.team
    BY <1>10, <1>q DEF RespondTeamJoin, GoodAt, MayAdmit, KnowsRole
  <2> QED
    BY <1>10, <2>1, IdleModest, InsertTeamMemberEffect, TeamMemberWrite
    DEF RespondTeamJoin, Finish
<1> QED
  BY <1>1, <1>2, <1>3, <1>4, <1>5, <1>6, <1>7, <1>8, <1>9, <1>10 DEF MembershipStep

-----------------------------------------------------------------------------
(* The steps that write role. *)

\* What a step may do to role k: write it in a team that is live, in which
\* every other request that knows k found it, or delete it when no row holds it.
RoleEffect(r, k) ==
  /\ \A j \in RoleIds : j # k => role'[j] = role[j]
  /\ \/ role'[k] = NoRole /\ ~HasHolder(k) /\ ~HasInvitation(k)
     \/ \E t \in Teams :
          /\ team[t] = "live" /\ role'[k] # NoRole /\ role'[k].team = t
          /\ role[k] # NoRole => role[k].team = t
          /\ \A x \in Requests \ {r} :
               req[x].at \in KnowsRole /\ req[x].roleId = k => req[x].team = t

LEMMA RoleWrite ==
  ASSUME SafeInv, TypeInv',
         UNCHANGED <<workspace, member, invite, team, teamMember, teamInvite>>,
         NEW r \in Requests, NEW c, req' = [req EXCEPT ![r] = c],
         NEW k \in RoleIds, RoleEffect(r, k), Claims(c)',
         \A x \in Requests : Agree(req[x], c) /\ Agree(c, req[x]),
         Agree(c, c)
  PROVE  SafeInv'
<1>t. /\ \A x \in Requests : req[x] \in Request /\ GoodAt(req[x].at, req[x])
      /\ teamMember \in [Teams -> [Users -> TeamMemberRow \union {NoTeamMember}]]
      /\ teamInvite \in [TeamInviteIds -> TeamInvite \union {NoTeamInvite}]
      /\ role \in [RoleIds -> Role \union {NoRole}]
  BY DEF SafeInv, TypeInv, TablesTypeOK, GoodRequest
<1>1. NoOrphans'
  <2>1. \A t \in Teams \ LiveTeams : \A j \in RoleIds : role'[j].team # t
    BY IdAssumption DEF RoleEffect, LiveTeams, SafeInv, NoOrphans, NoRole
  <2> QED BY <2>1 DEF SafeInv, NoOrphans, Live, LiveTeams, Has, InTeam
<1>2. \A j \in RoleIds, t \in Teams :
        RoleExists(j, t) => \/ RoleExists(j, t)'
                            \/ ~HasHolder(j) /\ ~HasInvitation(j)
  BY DEF RoleEffect, RoleExists
<1>3. RolesMatchTeams'
  <2>1. ASSUME NEW t \in Teams, NEW u \in Users, InTeam(t, u)
        PROVE  RoleExists(teamMember[t][u].role, t)'
    <3>1. teamMember[t][u].role \in RoleIds /\ HasHolder(teamMember[t][u].role)
      BY <1>t, <2>1 DEF InTeam, TeamMemberRow, HasHolder
    <3> QED BY <1>2, <2>1, <3>1 DEF SafeInv, RolesMatchTeams, RoleExists
  <2>2. ASSUME NEW i \in TeamInviteIds, teamInvite[i] # NoTeamInvite
        PROVE  RoleExists(teamInvite[i].role, teamInvite[i].team)'
    <3>1. /\ teamInvite[i].role \in RoleIds /\ teamInvite[i].team \in Teams
          /\ HasInvitation(teamInvite[i].role)
      BY <1>t, <2>2 DEF TeamInvite, HasInvitation
    <3> QED BY <1>2, <2>2, <3>1 DEF SafeInv, RolesMatchTeams, RoleExists
  <2> QED BY <2>1, <2>2 DEF RolesMatchTeams, InTeam, RoleExists
<1>4. OnlyInsiders'
  BY DEF SafeInv, OnlyInsiders, Has, InTeam, Insider
<1>5. ASSUME NEW x \in Requests \ {r}, NEW q, q = req[x] PROVE Claims(q)'
  <2>1. Claims(q)
    BY <1>5 DEF SafeInv
  <2>2. q.at \in KnowsRole => q.roleId \in RoleIds
    BY <1>5, <1>t DEF GoodAt, KnowsRole
  <2>3. RoleClaim(q)'
    BY <1>5, <2>1, <2>2 DEF Claims, RoleClaim, RoleEffect
  <2> QED
    BY <2>1, <2>3 DEF Claims, StartClaim, AnswerClaim, AdmitClaim, Live, Insider
<1> QED BY <1>1, <1>3, <1>4, <1>5, StepSafe

\* A new role gets a key that no request mentions.
LEMMA FreshRoleEffect ==
  ASSUME SafeInv, NEW r \in Requests, NEW k \in FreshRole, NEW t \in Teams,
         team[t] = "live", NEW nm, NEW d, InsertRole(k, t, nm, d)
  PROVE  k \in RoleIds /\ RoleEffect(r, k) /\ RoleExists(k, t)'
         /\ \A x \in Requests : req[x].roleId # k
<1>1. k \in RoleIds /\ role[k] = NoRole /\ \A x \in Requests : req[x].roleId # k
  BY DEF FreshRole, Least
<1>2. role \in [RoleIds -> Role \union {NoRole}]
  BY DEF SafeInv, TypeInv, TablesTypeOK
<1>3. role'[k].team = t /\ role'[k] # NoRole
      /\ \A j \in RoleIds : j # k => role'[j] = role[j]
  BY <1>1, <1>2, IdAssumption DEF InsertRole, NoRole
<1> QED BY <1>1, <1>3 DEF RoleEffect, RoleExists

RoleStep(r) ==
  TeamOwnerRole(r) \/ TeamMemberRole(r) \/ NewRole(r) \/ EditRoleSave(r) \/ DropRole(r)

LEMMA RoleSafe ==
  ASSUME SafeInv, TypeInv', NEW r \in Requests, RoleStep(r)
  PROVE  SafeInv'
<1> DEFINE q == req[r]
<1>q. /\ q \in Request /\ GoodAt(q.at, q) /\ Claims(q) /\ Keyed
      /\ role \in [RoleIds -> Role \union {NoRole}]
  BY DEF SafeInv, TypeInv, TablesTypeOK, GoodRequest
<1>i. Claims(Idle)' /\ \A p : Agree(Idle, p) /\ Agree(p, Idle)
  BY IdleClaims DEF Claims, StartClaim, RoleClaim, AnswerClaim, AdmitClaim, Idle,
                    KnowsRole, MayAdmit
<1>t. PICK t : t = q.team
  OBVIOUS
<1>1. CASE TeamOwnerRole(r)
  <2>1. t \in Teams /\ q.at = "teamOwnerRole"
    BY <1>1, <1>q, <1>t DEF TeamOwnerRole, GoodAt
  <2>2. CASE team[t] = "live"
    <3>1. PICK k \in FreshRole :
            /\ InsertRole(k, t, "Owner", TRUE)
            /\ req' = [req EXCEPT ![r].at = "teamMemberRole", ![r].roleId = k]
      BY <1>1, <1>t, <2>2 DEF TeamOwnerRole, TeamKey
    <3>c. PICK c : c = [q EXCEPT !.at = "teamMemberRole", !.roleId = k]
      OBVIOUS
    <3>2. req' = [req EXCEPT ![r] = c]
      BY <3>1, <3>c
    <3>3. c.at = "teamMemberRole" /\ c.roleId = k /\ c.team = t /\ c.user = q.user
      BY <1>q, <1>t, <3>c DEF Request
    <3>4. /\ k \in RoleIds /\ RoleEffect(r, k) /\ RoleExists(k, t)'
          /\ \A x \in Requests : req[x].roleId # k
      BY <2>1, <2>2, <3>1, FreshRoleEffect
    <3>5. /\ \A x \in Requests : Agree(req[x], c) /\ Agree(c, req[x])
          /\ Agree(c, c)
      BY <3>3, <3>4 DEF Agree
    <3>6. RoleClaim(c)'
      BY <3>3, <3>4 DEF RoleClaim, RoleExists
    <3>7. /\ UNCHANGED <<workspace, member, invite, team, teamMember, teamInvite>>
          /\ StartClaim(c)' /\ AnswerClaim(c)' /\ AdmitClaim(c)'
      BY <1>1, <1>q, <2>1, <3>3
      DEF Claims, StartClaim, AnswerClaim, AdmitClaim, Live, Insider, MayAdmit,
          TeamOwnerRole
    <3> QED BY <3>2, <3>4, <3>5, <3>6, <3>7, RoleWrite DEF Claims
  <2>3. CASE team[t] # "live"
    BY <1>1, <1>q, <1>t, <2>3, QuietFinish DEF TeamOwnerRole, TeamKey, tables
  <2> QED BY <2>2, <2>3
<1>2. CASE TeamMemberRole(r)
  <2>1. t \in Teams /\ q.at = "teamMemberRole"
    BY <1>2, <1>q, <1>t DEF TeamMemberRole, GoodAt
  <2>2. CASE team[t] = "live"
    <3>1. PICK k \in FreshRole : InsertRole(k, t, "Member", TRUE)
      BY <1>2, <1>t, <2>2 DEF TeamMemberRole, TeamKey
    <3>c. PICK c : c = [q EXCEPT !.at = "teamCreator"]
      OBVIOUS
    <3>2. req' = [req EXCEPT ![r] = c]
      BY <1>2, <1>t, <2>2, <3>c DEF TeamMemberRole, TeamKey, Advance
    <3>3. /\ c.at = "teamCreator" /\ c.roleId = q.roleId /\ c.team = t
          /\ c.user = q.user
      BY <1>q, <1>t, <3>c DEF Request
    <3>4. /\ k \in RoleIds /\ RoleEffect(r, k)
          /\ \A x \in Requests : req[x].roleId # k
      BY <2>1, <2>2, <3>1, FreshRoleEffect
    <3>5. /\ RoleClaim(c)
          /\ \A x \in Requests : Agree(req[x], c) /\ Agree(c, req[x])
          /\ Agree(c, c)
      BY <1>t, <2>1, <3>3, RoleKept DEF KnowsRole
    <3>6. RoleClaim(c)'
      <4>1. c.roleId \in RoleIds /\ c.roleId # k
        BY <1>q, <2>1, <3>3, <3>4 DEF GoodAt
      <4> QED BY <3>4, <3>5, <4>1 DEF RoleClaim, RoleEffect
    <3>7. /\ UNCHANGED <<workspace, member, invite, team, teamMember, teamInvite>>
          /\ StartClaim(c)' /\ AnswerClaim(c)' /\ AdmitClaim(c)'
      BY <1>2, <1>q, <2>1, <3>3
      DEF Claims, StartClaim, AnswerClaim, AdmitClaim, Live, Insider, MayAdmit,
          TeamMemberRole
    <3> QED BY <3>2, <3>4, <3>5, <3>6, <3>7, RoleWrite DEF Claims
  <2>3. CASE team[t] # "live"
    BY <1>2, <1>q, <1>t, <2>3, QuietFinish DEF TeamMemberRole, TeamKey, tables
  <2> QED BY <2>2, <2>3
<1>3. CASE NewRole(r)
  <2>1. t \in Teams
    BY <1>3, <1>q, <1>t DEF NewRole, GoodAt
  <2>2. CASE team[t] = "live"
    <3>1. PICK k \in FreshRole : InsertRole(k, t, q.name, FALSE)
      BY <1>3, <1>t, <2>2 DEF NewRole, TeamKey
    <3>2. PICK nm : nm = q.name
      OBVIOUS
    <3>3. k \in RoleIds /\ RoleEffect(r, k)
      BY <2>1, <2>2, <3>1, <3>2, FreshRoleEffect
    <3> QED BY <1>3, <1>i, <3>3, RoleWrite DEF NewRole, Finish
  <2>3. CASE team[t] # "live"
    BY <1>3, <1>q, <1>t, <2>3, QuietFinish DEF NewRole, TeamKey, tables
  <2> QED BY <2>2, <2>3
<1>4. CASE EditRoleSave(r)
  <2>k. PICK k : k = q.roleId
    OBVIOUS
  <2>1. t \in Teams /\ k \in RoleIds /\ q.at \in KnowsRole
    BY <1>4, <1>q, <1>t, <2>k DEF EditRoleSave, GoodAt, KnowsRole
  <2>2. /\ role[k] # NoRole => role[k].team = t
        /\ \A x \in Requests : req[x].at \in KnowsRole /\ req[x].roleId = k
                                 => req[x].team = t
    BY <1>q, <1>t, <2>k, <2>1 DEF SafeInv, Claims, RoleClaim, Agree
  <2>3. CASE role[k] # NoRole
    <3>1. PICK row : row = [role[k] EXCEPT !.name = q.name]
      OBVIOUS
    <3>2. role' = [role EXCEPT ![k] = row]
      BY <1>4, <2>k, <2>3, <3>1 DEF EditRoleSave
    <3>3. row.team = t /\ row # NoRole
      BY <1>q, <2>1, <2>2, <2>3, <3>1, IdAssumption DEF Role, NoRole
    <3>4. team[t] = "live"
      BY <2>1, <2>2, <2>3 DEF SafeInv, NoOrphans, LiveTeams
    <3>5. RoleEffect(r, k)
      BY <1>q, <2>1, <2>2, <3>2, <3>3, <3>4 DEF RoleEffect
    <3> QED BY <1>4, <1>i, <2>1, <3>5, RoleWrite DEF EditRoleSave, Finish
  <2>4. CASE role[k] = NoRole /\ team[t] = "live"
    <3>1. InsertRole(k, t, q.name, q.at = "editDefaultSave")
      BY <1>4, <1>t, <2>k, <2>4 DEF EditRoleSave, TeamKey
    <3>2. role'[k].team = t /\ role'[k] # NoRole
          /\ \A j \in RoleIds : j # k => role'[j] = role[j]
      BY <1>q, <2>1, <3>1, IdAssumption DEF InsertRole, NoRole
    <3>3. RoleEffect(r, k)
      BY <2>1, <2>2, <2>4, <3>2 DEF RoleEffect
    <3> QED BY <1>4, <1>i, <2>1, <3>3, RoleWrite DEF EditRoleSave, Finish
  <2>5. CASE role[k] = NoRole /\ team[t] # "live"
    BY <1>4, <1>q, <1>t, <2>k, <2>5, QuietFinish DEF EditRoleSave, TeamKey, tables
  <2> QED BY <2>3, <2>4, <2>5
<1>5. CASE DropRole(r)
  <2>k. PICK k : k = q.roleId
    OBVIOUS
  <2>1. k \in RoleIds
    BY <1>5, <1>q, <2>k DEF DropRole, GoodAt
  <2>2. CASE HasHolder(k) \/ HasInvitation(k)
    BY <1>5, <1>q, <2>k, <2>2, QuietFinish DEF DropRole, tables
  <2>3. CASE ~HasHolder(k) /\ ~HasInvitation(k)
    <3>1. RoleEffect(r, k)
      BY <1>5, <1>q, <2>k, <2>1, <2>3 DEF DropRole, RoleEffect
    <3> QED BY <1>5, <1>i, <2>1, <3>1, RoleWrite DEF DropRole, Finish
  <2> QED BY <2>2, <2>3
<1> QED BY <1>1, <1>2, <1>3, <1>4, <1>5 DEF RoleStep

-----------------------------------------------------------------------------
(* The steps that write workspace_invitation: whom an invitation is for    *)
(* never changes, so that nobody stops being an insider.                   *)

LEMMA InviteWrite ==
  ASSUME SafeInv, TypeInv', Live,
         UNCHANGED <<workspace, member, team, role, teamMember, teamInvite>>,
         NEW r \in Requests, NEW c, req' = [req EXCEPT ![r] = c], Claims(c)',
         \A x \in Requests : Agree(req[x], c) /\ Agree(c, req[x]),
         Agree(c, c),
         \A i \in InviteIds : invite[i] = NoInvite \/ invite'[i].user = invite[i].user
  PROVE  SafeInv'
<1>1. ASSUME NEW u, u # NoUser, Insider(u) PROVE Insider(u)'
  BY <1>1 DEF Insider, NoInvite
<1>2. NoOrphans' /\ RolesMatchTeams'
  BY DEF SafeInv, NoOrphans, RolesMatchTeams, Live, LiveTeams, Has, InTeam,
         RoleExists
<1>3. OnlyInsiders'
  BY <1>1, NoUserAssumption DEF SafeInv, OnlyInsiders, Has, InTeam
<1>4. ASSUME NEW x \in Requests \ {r}, NEW q, q = req[x] PROVE Claims(q)'
  <2>1. Claims(q) /\ GoodAt(q.at, q)
    BY <1>4 DEF SafeInv, TypeInv, GoodRequest
  <2>2. q.at \in MayAdmit => q.user # NoUser
    BY <2>1, NoUserAssumption DEF GoodAt, MayAdmit
  <2>3. AdmitClaim(q)'
    BY <1>1, <2>1, <2>2 DEF Claims, AdmitClaim, Live
  <2> QED BY <2>1, <2>3 DEF Claims, StartClaim, RoleClaim, AnswerClaim
<1> QED BY <1>2, <1>3, <1>4, StepSafe

LEMMA InviteSafe ==
  ASSUME SafeInv, TypeInv', NEW r \in Requests, InviteSave(r) \/ RespondSave(r)
  PROVE  SafeInv'
<1> DEFINE q == req[r]
<1>q. /\ q \in Request /\ GoodAt(q.at, q) /\ Claims(q)
      /\ invite \in [InviteIds -> Invite \union {NoInvite}]
  BY DEF SafeInv, TypeInv, TablesTypeOK, GoodRequest
<1>i. Claims(Idle)' /\ \A p : Agree(Idle, p) /\ Agree(p, Idle)
  BY IdleClaims DEF Claims, StartClaim, RoleClaim, AnswerClaim, AdmitClaim, Idle,
                    KnowsRole, MayAdmit
<1>1. CASE InviteSave(r) /\ Live
  <2>1. \A i \in InviteIds : invite[i] = NoInvite \/ invite'[i].user = invite[i].user
    BY <1>1, <1>q DEF InviteSave, FreshInvite, Least
  <2> QED BY <1>1, <1>i, <2>1, InviteWrite DEF InviteSave, Finish
<1>2. CASE InviteSave(r) /\ ~Live
  BY <1>2, QuietFinish DEF InviteSave, tables
<1>3. CASE RespondSave(r) /\ invite[q.inv] = NoInvite
  BY <1>3, QuietFinish DEF RespondSave, tables
<1>4. CASE RespondSave(r) /\ invite[q.inv] # NoInvite
  <2>1. \A i \in InviteIds : invite[i] = NoInvite \/ invite'[i].user = invite[i].user
    BY <1>4, <1>q DEF RespondSave, Invite, NoInvite
  <2>2. CASE ~Live
    <3>1. \A i \in InviteIds : invite[i] = NoInvite
      BY <2>2 DEF SafeInv, NoOrphans
    <3>2. invite' = invite
      BY <1>4, <1>q, <3>1 DEF RespondSave
    <3>3. CASE q.status = "accepted"
      BY <1>4, <1>q, <3>2, <3>3, QuietAdvance
      DEF RespondSave, tables, Free, KnowsRole, MayAdmit
    <3>4. CASE q.status # "accepted"
      BY <1>4, <3>2, <3>4, QuietFinish DEF RespondSave, tables
    <3> QED BY <3>3, <3>4
  <2>3. CASE Live /\ q.status # "accepted"
    BY <1>4, <1>i, <2>1, <2>3, InviteWrite DEF RespondSave, Finish
  <2>4. CASE Live /\ q.status = "accepted"
    <3>c. PICK c : c = [q EXCEPT !.at = "respondJoin"]
      OBVIOUS
    <3>1. req' = [req EXCEPT ![r] = c]
      BY <1>4, <2>4, <3>c DEF RespondSave, Advance
    <3>2. c.at = "respondJoin" /\ c.user = q.user
      BY <1>q, <3>c DEF Request
    <3>3. \A p : Agree(c, p) /\ Agree(p, c)
      BY <3>2 DEF Agree, KnowsRole
    <3>4. q.user \in Users /\ Insider(q.user)
      BY <1>4, <1>q, <2>4 DEF RespondSave, GoodAt, Claims, AdmitClaim, MayAdmit
    <3>5. Insider(c.user)'
      BY <2>1, <3>2, <3>4, <1>4, NoUserAssumption DEF RespondSave, Insider, NoInvite
    <3>6. Claims(c)'
      BY <3>2, <3>5, <2>4, <1>4
      DEF Claims, StartClaim, RoleClaim, AnswerClaim, AdmitClaim, KnowsRole, Live,
          RespondSave
    <3> QED BY <1>4, <2>1, <2>4, <3>1, <3>3, <3>6, InviteWrite DEF RespondSave
  <2> QED BY <2>2, <2>3, <2>4
<1> QED BY <1>1, <1>2, <1>3, <1>4

-----------------------------------------------------------------------------
(* The steps that write team_invitation. *)

\* Every other request that is about to answer invitation i read row in it.
ReadByOthers(r, i, row) ==
  \A x \in Requests \ {r} :
    req[x].at = "respondTeamSave" /\ req[x].inv = i =>
      row.team = req[x].team /\ row.user = req[x].user /\ row.role = req[x].roleId

LEMMA TeamInviteWrite ==
  ASSUME SafeInv, TypeInv',
         UNCHANGED <<workspace, member, invite, team, role, teamMember>>,
         NEW r \in Requests, NEW c, req' = [req EXCEPT ![r] = c], Claims(c)',
         \A x \in Requests : Agree(req[x], c) /\ Agree(c, req[x]),
         Agree(c, c),
         NEW i \in TeamInviteIds, NEW row, teamInvite' = [teamInvite EXCEPT ![i] = row],
         row.team \in Teams, team[row.team] = "live",
         RoleExists(row.role, row.team), ReadByOthers(r, i, row)
  PROVE  SafeInv'
<1>1. \A j \in TeamInviteIds : teamInvite'[j] = IF j = i THEN row ELSE teamInvite[j]
  BY DEF SafeInv, TypeInv, TablesTypeOK
<1>2. NoOrphans'
  BY <1>1 DEF SafeInv, NoOrphans, Live, LiveTeams, Has, InTeam
<1>3. RolesMatchTeams'
  <2>1. \A j \in TeamInviteIds :
          teamInvite'[j] # NoTeamInvite
            => RoleExists(teamInvite'[j].role, teamInvite'[j].team)
    BY <1>1 DEF SafeInv, RolesMatchTeams
  <2> QED BY <2>1 DEF SafeInv, RolesMatchTeams, RoleExists, InTeam
<1>4. OnlyInsiders'
  BY DEF SafeInv, OnlyInsiders, Has, InTeam, Insider
<1>5. ASSUME NEW x \in Requests \ {r}, NEW q, q = req[x] PROVE Claims(q)'
  <2>1. Claims(q)
    BY <1>5 DEF SafeInv
  <2>2. AnswerClaim(q)'
    <3>1. CASE q.inv = i
      <4>1. teamInvite'[q.inv] = row
        BY <1>1, <3>1
      <4> QED BY <1>5, <2>1, <3>1, <4>1 DEF AnswerClaim, ReadByOthers, Claims
    <3>2. CASE q.inv # i
      <4>1. teamInvite'[q.inv] = teamInvite[q.inv]
        BY <3>2 DEF SafeInv, TypeInv, TablesTypeOK
      <4> QED BY <2>1, <4>1 DEF Claims, AnswerClaim
    <3> QED BY <3>1, <3>2
  <2> QED BY <2>1, <2>2 DEF Claims, StartClaim, RoleClaim, AdmitClaim, Live, Insider
<1> QED BY <1>2, <1>3, <1>4, <1>5, StepSafe

LEMMA TeamInviteSafe ==
  ASSUME SafeInv, TypeInv', NEW r \in Requests,
         TeamInviteSave(r) \/ RespondTeamSave(r)
  PROVE  SafeInv'
<1> DEFINE q == req[r]
<1>q. q \in Request /\ GoodAt(q.at, q) /\ Claims(q) /\ Keyed
  BY DEF SafeInv, TypeInv, GoodRequest
<1>i. Claims(Idle)' /\ \A p : Agree(Idle, p) /\ Agree(p, Idle)
  BY IdleClaims DEF Claims, StartClaim, RoleClaim, AnswerClaim, AdmitClaim, Idle,
                    KnowsRole, MayAdmit
<1>1. CASE TeamInviteSave(r)
  <2>1. /\ q.team \in Teams /\ q.roleId \in RoleIds
        /\ role[q.roleId] # NoRole => RoleExists(q.roleId, q.team)
    BY <1>1, <1>q
    DEF TeamInviteSave, GoodAt, KnowsRole, Claims, RoleClaim, RoleExists
  <2>2. CASE TeamKey(q.team) /\ RoleKey(q.roleId)
    <3>1. PICK row : row = [team |-> q.team, user |-> q.user, role |-> q.roleId,
                            status |-> "pending"]
      OBVIOUS
    <3>2. PICK i \in FreshTeamInvite : teamInvite' = [teamInvite EXCEPT ![i] = row]
      BY <1>1, <2>2, <3>1 DEF TeamInviteSave
    <3>3. i \in TeamInviteIds /\ \A x \in Requests : req[x].inv # i
      BY <3>2 DEF FreshTeamInvite, Least
    <3>4. row.team = q.team /\ row.role = q.roleId
      BY <3>1
    <3>5. /\ row.team \in Teams /\ team[row.team] = "live"
          /\ RoleExists(row.role, row.team)
      BY <1>q, <2>1, <2>2, <3>4 DEF TeamKey, RoleKey
    <3>6. ReadByOthers(r, i, row)
      BY <3>3 DEF ReadByOthers
    <3> QED
      BY <1>1, <1>i, <3>2, <3>3, <3>5, <3>6, TeamInviteWrite DEF TeamInviteSave, Finish
  <2>3. CASE ~(TeamKey(q.team) /\ RoleKey(q.roleId))
    BY <1>1, <2>3, QuietFinish DEF TeamInviteSave, tables
  <2> QED BY <2>2, <2>3
<1>2. CASE RespondTeamSave(r) /\ teamInvite[q.inv] = NoTeamInvite
  BY <1>2, <1>q, QuietFinish DEF RespondTeamSave, tables
<1>3. CASE RespondTeamSave(r) /\ teamInvite[q.inv] # NoTeamInvite
  <2>i. PICK i : i = q.inv
    OBVIOUS
  <2>1. PICK row : row = [team |-> q.team, user |-> q.user, role |-> q.roleId,
                          status |-> q.status]
    OBVIOUS
  <2>2. teamInvite' = [teamInvite EXCEPT ![i] = row]
    BY <1>3, <2>i, <2>1 DEF RespondTeamSave
  <2>3. row.team = q.team /\ row.user = q.user /\ row.role = q.roleId
    BY <2>1
  <2>4. /\ i \in TeamInviteIds
        /\ teamInvite[i].team = row.team /\ teamInvite[i].user = row.user
        /\ teamInvite[i].role = row.role
    BY <1>3, <1>q, <2>i, <2>3 DEF RespondTeamSave, Claims, AnswerClaim
  <2>5. /\ row.team \in Teams /\ team[row.team] = "live"
        /\ RoleExists(row.role, row.team)
    <3>1. row.team \in Teams
      BY <1>3, <1>q, <2>3 DEF RespondTeamSave, GoodAt
    <3>2. /\ team[teamInvite[i].team] = "live"
          /\ RoleExists(teamInvite[i].role, teamInvite[i].team)
      BY <1>3, <2>i, <2>4, Found
    <3> QED BY <3>1, <3>2, <2>4
  <2>6. ReadByOthers(r, i, row)
    <3>1. teamInvite[i] # NoTeamInvite
      BY <1>3, <2>i
    <3> QED BY <2>4, <3>1 DEF ReadByOthers, SafeInv, Claims, AnswerClaim
  <2>u. UNCHANGED <<workspace, member, invite, team, role, teamMember>>
    BY <1>3 DEF RespondTeamSave
  <2>k. i \in TeamInviteIds
    BY <2>4
  <2>7. CASE q.status # "accepted"
    <3>1. req' = [req EXCEPT ![r] = Idle]
      BY <1>3, <1>q, <2>7 DEF RespondTeamSave, Finish
    <3> QED BY <1>i, <2>u, <2>2, <2>k, <2>5, <2>6, <3>1, TeamInviteWrite
  <2>8. CASE q.status = "accepted"
    <3>c. PICK c : c = [q EXCEPT !.at = "respondTeamVerify"]
      OBVIOUS
    <3>1. req' = [req EXCEPT ![r] = c]
      BY <1>3, <2>8, <3>c DEF RespondTeamSave, Advance
    <3>2. c.at = "respondTeamVerify" /\ c.roleId = q.roleId /\ c.team = q.team
      BY <1>q, <3>c DEF Request
    <3>3. /\ RoleClaim(c)
          /\ \A x \in Requests : Agree(req[x], c) /\ Agree(c, req[x])
          /\ Agree(c, c)
      BY <1>3, <3>2, RoleKept DEF RespondTeamSave, KnowsRole
    <3>4. UNCHANGED <<workspace, role>> /\ workspace.state # "none"
      BY <1>3, <1>q DEF RespondTeamSave, Claims, StartClaim
    <3>5. Claims(c)'
      BY <3>2, <3>3, <3>4
      DEF Claims, StartClaim, RoleClaim, AnswerClaim, AdmitClaim, MayAdmit
    <3> QED
      BY <2>u, <2>2, <2>k, <2>5, <2>6, <3>1, <3>3, <3>5, TeamInviteWrite
  <2> QED BY <2>7, <2>8
<1> QED BY <1>1, <1>2, <1>3

-----------------------------------------------------------------------------
(* The steps that write workspace or team. *)

LEMMA TeamSaveSafe ==
  ASSUME SafeInv, TypeInv', NEW r \in Requests, TeamSave(r)
  PROVE  SafeInv'
<1> DEFINE q == req[r]
<1>q. q \in Request /\ Claims(q) /\ Keyed /\ q.at = "teamSave"
  BY DEF SafeInv, TypeInv, GoodRequest, TeamSave
<1>1. CASE ~Live
  BY <1>1, <1>q, QuietFinish DEF TeamSave, WorkspaceKey, tables
<1>2. CASE Live
  <2>1. PICK t \in FreshTeam :
          /\ team' = [team EXCEPT ![t] = "live"]
          /\ req' = [req EXCEPT ![r].at = "teamOwnerRole", ![r].team = t]
    BY <1>2 DEF TeamSave, WorkspaceKey
  <2>c. PICK c : c = [q EXCEPT !.at = "teamOwnerRole", !.team = t]
    OBVIOUS
  <2>2. req' = [req EXCEPT ![r] = c]
    BY <2>1, <2>c
  <2>3. c.at = "teamOwnerRole" /\ c.user = q.user
    BY <1>q, <2>c DEF Request
  <2>4. \A s \in Teams : team[s] = "live" => team'[s] = "live"
    BY <2>1 DEF FreshTeam, Least, SafeInv, TypeInv, TablesTypeOK
  <2>5. NoOrphans' /\ RolesMatchTeams' /\ OnlyInsiders'
    BY <1>2, <2>4
    DEF TeamSave, SafeInv, NoOrphans, RolesMatchTeams, OnlyInsiders, Live, LiveTeams,
        Has, InTeam, RoleExists, Insider
  <2>6. ASSUME NEW p, Claims(p) PROVE Claims(p)'
    BY <2>6
    DEF TeamSave, Claims, StartClaim, RoleClaim, AnswerClaim, AdmitClaim, Live, Insider
  <2>7. Claims(c)
    BY <1>q, <2>3
    DEF Claims, StartClaim, RoleClaim, AnswerClaim, AdmitClaim, KnowsRole, MayAdmit
  <2>8. \A p : Agree(c, p) /\ Agree(p, c)
    BY <2>3 DEF Agree, KnowsRole
  <2>9. \A x \in Requests \ {r} : \A p : p = req[x] => Claims(p)'
    BY <2>6 DEF SafeInv
  <2>10. Claims(c)'
    BY <2>6, <2>7
  <2> QED BY <2>2, <2>5, <2>8, <2>9, <2>10, StepSafe
<1> QED BY <1>1, <1>2

\* Deleting teams deletes what refers to them, and nothing else.
LEMMA DeleteTeamsSafe ==
  ASSUME SafeInv, TypeInv', NEW r \in Requests, Finish(r), NEW S, DeleteTeams(S),
         \/ UNCHANGED <<workspace, member, invite>>
         \/ /\ S = LiveTeams /\ workspace'.state = "deleted"
            /\ invite' = [i \in InviteIds |-> NoInvite]
            /\ member' = [u \in Users |-> NoMember]
  PROVE  SafeInv'
<1>t. /\ team \in [Teams -> {"unused", "live", "gone"}]
      /\ teamMember \in [Teams -> [Users -> TeamMemberRow \union {NoTeamMember}]]
      /\ teamInvite \in [TeamInviteIds -> TeamInvite \union {NoTeamInvite}]
      /\ role \in [RoleIds -> Role \union {NoRole}]
      /\ 0 \notin Teams
  BY IdAssumption DEF SafeInv, TypeInv, TablesTypeOK
<1>1. /\ \A t \in Teams : team'[t] = IF t \in S THEN "gone" ELSE team[t]
      /\ \A t \in Teams, u \in Users :
           teamMember'[t][u] = IF t \in S THEN NoTeamMember ELSE teamMember[t][u]
      /\ \A i \in TeamInviteIds :
           teamInvite'[i] = IF teamInvite[i].team \in S
                            THEN NoTeamInvite ELSE teamInvite[i]
      /\ \A k \in RoleIds :
           role'[k] = IF role[k].team \in S THEN NoRole ELSE role[k]
  BY <1>t DEF DeleteTeams
<1>2. \A t \in Teams : t \in LiveTeams' => t \in LiveTeams /\ t \notin S
  BY <1>1 DEF LiveTeams
<1>3. \A t \in Teams : t \notin LiveTeams' => t \in S \/ t \notin LiveTeams
  BY <1>1 DEF LiveTeams
<1>4. NoOrphans'
  <2>1. ~Live' => /\ \A u \in Users : ~Has(u)'
                  /\ \A i \in InviteIds : invite'[i] = NoInvite
                  /\ LiveTeams' = {}
    <3>1. CASE UNCHANGED <<workspace, member, invite>>
      BY <1>2, <3>1 DEF Live, SafeInv, NoOrphans, Has, LiveTeams
    <3>2. CASE S = LiveTeams /\ invite' = [i \in InviteIds |-> NoInvite]
               /\ member' = [u \in Users |-> NoMember]
      BY <1>2, <3>2 DEF Has, LiveTeams
    <3> QED BY <3>1, <3>2
  <2>2. ASSUME NEW t \in Teams, t \notin LiveTeams'
        PROVE  /\ \A u \in Users : ~InTeam(t, u)'
               /\ \A k \in RoleIds : role'[k].team # t
               /\ \A i \in TeamInviteIds : teamInvite'[i].team # t
    <3>1. \/ t \in S
          \/ /\ \A u \in Users : teamMember[t][u] = NoTeamMember
             /\ \A k \in RoleIds : role[k].team # t
             /\ \A i \in TeamInviteIds : teamInvite[i].team # t
      BY <1>3, <2>2 DEF SafeInv, NoOrphans, InTeam
    <3>2. NoRole.team = 0 /\ NoTeamInvite.team = 0 /\ t # 0
      BY <1>t DEF NoRole, NoTeamInvite
    <3>3. \A u \in Users : ~InTeam(t, u)'
      BY <1>1, <3>1 DEF InTeam
    <3>4. \A k \in RoleIds : role'[k].team # t
      BY <1>1, <3>1, <3>2
    <3>5. \A i \in TeamInviteIds : teamInvite'[i].team # t
      BY <1>1, <3>1, <3>2
    <3> QED BY <3>3, <3>4, <3>5
  <2> QED BY <2>1, <2>2 DEF NoOrphans, Live, Has, InTeam, LiveTeams
<1>5. RolesMatchTeams'
  <2>1. \A k \in RoleIds, t \in Teams :
          RoleExists(k, t) /\ t \notin S => RoleExists(k, t)'
    BY <1>1 DEF RoleExists
  <2>2. ASSUME NEW t \in Teams, NEW u \in Users, InTeam(t, u)'
        PROVE  RoleExists(teamMember[t][u].role, t)'
    <3>1. t \notin S /\ teamMember'[t][u] = teamMember[t][u] /\ InTeam(t, u)
      BY <1>1, <2>2 DEF InTeam
    <3>2. teamMember[t][u].role \in RoleIds
      BY <1>t, <3>1 DEF InTeam, TeamMemberRow
    <3> QED BY <2>1, <3>1, <3>2 DEF SafeInv, RolesMatchTeams, RoleExists
  <2>3. ASSUME NEW i \in TeamInviteIds, teamInvite'[i] # NoTeamInvite
        PROVE  RoleExists(teamInvite[i].role, teamInvite[i].team)'
    <3>1. /\ teamInvite[i].team \notin S /\ teamInvite'[i] = teamInvite[i]
          /\ teamInvite[i] # NoTeamInvite
      BY <1>1, <2>3
    <3>2. teamInvite[i].role \in RoleIds /\ teamInvite[i].team \in Teams
      BY <1>t, <3>1 DEF TeamInvite
    <3> QED BY <2>1, <3>1, <3>2 DEF SafeInv, RolesMatchTeams, RoleExists
  <2> QED BY <2>2, <2>3 DEF RolesMatchTeams, InTeam, RoleExists
<1>6. OnlyInsiders'
  <2>1. CASE UNCHANGED <<workspace, member, invite>>
    BY <1>1, <2>1 DEF SafeInv, OnlyInsiders, Has, InTeam, Insider
  <2>2. CASE S = LiveTeams /\ member' = [u \in Users |-> NoMember]
    <3>1. \A u \in Users : ~Has(u)'
      BY <2>2 DEF Has
    <3>2. \A t \in Teams : t \notin LiveTeams'
      BY <1>2, <2>2
    <3>3. \A t \in Teams, u \in Users : ~InTeam(t, u)'
      BY <1>4, <3>2 DEF NoOrphans
    <3> QED BY <3>1, <3>3 DEF OnlyInsiders
  <2> QED BY <2>1, <2>2
<1>7. ASSUME NEW q, Claims(q), GoodAt(q.at, q) PROVE Claims(q)'
  <2>1. RoleClaim(q)'
    <3>1. q.at \in KnowsRole => q.roleId \in RoleIds
      BY <1>7 DEF GoodAt, KnowsRole
    <3> QED BY <1>1, <1>7, <3>1 DEF Claims, RoleClaim
  <2>2. AnswerClaim(q)'
    BY <1>1, <1>7 DEF Claims, AnswerClaim
  <2>3. StartClaim(q)' /\ AdmitClaim(q)'
    BY <1>7 DEF Claims, StartClaim, AdmitClaim, Live, Insider
  <2> QED BY <2>1, <2>2, <2>3 DEF Claims
<1>8. \A x \in Requests \ {r} : \A q : q = req[x] => Claims(q)'
  BY <1>7 DEF SafeInv, TypeInv, GoodRequest
<1>9. Claims(Idle)' /\ \A p : Agree(Idle, p) /\ Agree(p, Idle)
  BY IdleClaims DEF Claims, StartClaim, RoleClaim, AnswerClaim, AdmitClaim, Idle,
                    KnowsRole, MayAdmit
<1> QED BY <1>4, <1>5, <1>6, <1>8, <1>9, StepSafe DEF Finish

LEMMA DeletionSafe ==
  ASSUME SafeInv, TypeInv', NEW r \in Requests,
         DeleteWorkspaceTx(r) \/ DeleteTeamTx(r)
  PROVE  SafeInv'
<1>1. CASE DeleteWorkspaceTx(r) /\ Live
  <2>1. workspace'.state = "deleted"
    BY <1>1 DEF DeleteWorkspaceTx, SafeInv, TypeInv, TablesTypeOK
  <2>2. PICK S : S = LiveTeams
    OBVIOUS
  <2> QED BY <1>1, <2>1, <2>2, DeleteTeamsSafe DEF DeleteWorkspaceTx
<1>2. CASE DeleteWorkspaceTx(r) /\ ~Live
  BY <1>2, QuietFinish DEF DeleteWorkspaceTx
<1>3. CASE DeleteTeamTx(r) /\ team[req[r].team] = "live"
  <2>1. PICK S : S = {req[r].team}
    OBVIOUS
  <2> QED BY <1>3, <2>1, DeleteTeamsSafe DEF DeleteTeamTx
<1>4. CASE DeleteTeamTx(r) /\ team[req[r].team] # "live"
  BY <1>4, QuietFinish DEF DeleteTeamTx, tables
<1> QED BY <1>1, <1>2, <1>3, <1>4

-----------------------------------------------------------------------------

LEMMA InitSafe == Keyed /\ TablesInit => SafeInv
<1> SUFFICES ASSUME Keyed, TablesInit PROVE SafeInv
  OBVIOUS
<1>1. NoOrphans /\ RolesMatchTeams /\ OnlyInsiders
  BY IdAssumption
  DEF TablesInit, NoOrphans, RolesMatchTeams, OnlyInsiders, Live, LiveTeams, Has,
      InTeam, NoRole, NoTeamInvite
<1>2. \A q, r \in Requests : Claims(req[r]) /\ Agree(req[q], req[r])
  BY IdleClaims DEF TablesInit
<1> QED BY <1>1, <1>2, InitType DEF SafeInv

LEMMA NextSafe == SafeInv /\ [Next]_vars => SafeInv'
<1> SUFFICES ASSUME SafeInv, [Next]_vars PROVE SafeInv'
  OBVIOUS
<1>1. TypeInv'
  BY NextType DEF SafeInv
<1>2. CASE UNCHANGED vars
  BY <1>1, <1>2
  DEF vars, SafeInv, NoOrphans, RolesMatchTeams, OnlyInsiders, Live, LiveTeams, Has,
      InTeam, RoleExists, Insider, Claims, StartClaim, RoleClaim, AnswerClaim,
      AdmitClaim, Agree
<1>3. ASSUME NEW r \in Requests,
             \/ WorkspaceArrival(r) \/ WorkspaceStep(r)
             \/ TeamArrival(r) \/ TeamStep(r) \/ Fail(r)
      PROVE  SafeInv'
  <2>1. WorkspaceStep(r) =>
          \/ QuietWorkspaceStep(r) \/ MembershipStep(r)
          \/ InviteSave(r) \/ RespondSave(r) \/ DeleteWorkspaceTx(r)
    BY DEF WorkspaceStep, QuietWorkspaceStep, MembershipStep
  <2>2. TeamStep(r) =>
          \/ QuietTeamStep(r) \/ MembershipStep(r) \/ RoleStep(r)
          \/ TeamInviteSave(r) \/ RespondTeamSave(r)
          \/ TeamSave(r) \/ DeleteTeamTx(r)
    BY DEF TeamStep, QuietTeamStep, MembershipStep, RoleStep
  <2>3. Fail(r) => SafeInv'
    BY <1>1, QuietFinish DEF Fail
  <2> QED
    BY <1>1, <1>3, <2>1, <2>2, <2>3, WorkspaceArrivalSafe, TeamArrivalSafe,
       WorkspaceQuietSafe, TeamQuietSafe, MembershipSafe, InviteSafe, RoleSafe,
       TeamInviteSafe, TeamSaveSafe, DeletionSafe
<1> QED BY <1>2, <1>3 DEF Next

\* Whatever the interleaving and wherever requests fail, every claim a request
\* relies on after an await still holds in its weakened form.
THEOREM SafetyInvariant == Keyed /\ Spec => []SafeInv
  BY InitSafe, NextSafe, PTL DEF Spec

\* No row refers to a workspace or a team that is gone.
THEOREM NoOrphansEver == Keyed /\ Spec => []NoOrphans
<1>1. SafeInv => NoOrphans
  BY DEF SafeInv
<1> QED BY <1>1, SafetyInvariant, PTL

\* Members hold, and invitations offer, roles of their own team.
THEOREM RolesAlwaysMatch == Keyed /\ Spec => []RolesMatchTeams
<1>1. SafeInv => RolesMatchTeams
  BY DEF SafeInv
<1> QED BY <1>1, SafetyInvariant, PTL

\* Nobody is in the workspace or in a team who was not invited to the workspace
\* or founded it.
THEOREM OnlyInsidersEver == Keyed /\ Spec => []OnlyInsiders
<1>1. SafeInv => OnlyInsiders
  BY DEF SafeInv
<1> QED BY <1>1, SafetyInvariant, PTL
=============================================================================
