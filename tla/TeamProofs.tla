------------------------------ MODULE TeamProofs -----------------------------
(***************************************************************************)
(* Proofs about the teams of Membership: default roles, however requests   *)
(* interleave; and, for requests served one by one, the invitations, the   *)
(* owners and the members of a team.                                       *)
(***************************************************************************)
EXTENDS MembershipSafety, FiniteSetTheorems

-----------------------------------------------------------------------------
(* What a step does to the record of its request *)

\* What a request does between two awaits.
Step(r) ==
  \/ WorkspaceArrival(r) \/ WorkspaceStep(r)
  \/ TeamArrival(r) \/ TeamStep(r)
  \/ Fail(r)

Elsewhere(r) == \A x \in Requests \ {r} : req'[x] = req[x]

LEMMA RecordTyped ==
  ASSUME TypeInv, NEW r \in Requests
  PROVE  req[r] \in Request /\ GoodAt(req[r].at, req[r])
BY DEF TypeInv, GoodRequest

LEMMA FinishMoves ==
  ASSUME TypeInv, NEW r \in Requests, Finish(r)
  PROVE  Elsewhere(r) /\ req'[r].at = "idle"
BY DEF TypeInv, Finish, Idle, Elsewhere

LEMMA AdvanceMoves ==
  ASSUME TypeInv, NEW r \in Requests, NEW l, Advance(r, l)
  PROVE  /\ Elsewhere(r)
         /\ LET p == req'[r]
                q == req[r]
            IN  /\ p.at = l /\ p.user = q.user /\ p.id = q.id /\ p.inv = q.inv
                /\ p.team = q.team /\ p.roleId = q.roleId /\ p.name = q.name
                /\ p.status = q.status /\ p.teams = q.teams
<1> DEFINE p == [req[r] EXCEPT !.at = l]
<1>1. req'[r] = p /\ Elsewhere(r)
  BY DEF TypeInv, Advance, Elsewhere
<1>2. /\ p.at = l /\ p.user = req[r].user /\ p.id = req[r].id /\ p.inv = req[r].inv
      /\ p.team = req[r].team /\ p.roleId = req[r].roleId /\ p.name = req[r].name
      /\ p.status = req[r].status /\ p.teams = req[r].teams
  BY RecordTyped DEF Request
<1> QED
  BY <1>1, <1>2

LEMMA RecordMoves ==
  ASSUME TypeInv, NEW r \in Requests, NEW c, req' = [req EXCEPT ![r] = c]
  PROVE  Elsewhere(r) /\ req'[r] = c
BY DEF TypeInv, Elsewhere

LEMMA BeginMoves ==
  ASSUME TypeInv, NEW r \in Requests, NEW c, Begin(r, c)
  PROVE  Elsewhere(r) /\ req'[r] = c /\ req[r].at = "idle"
BY RecordMoves DEF Begin, Free

\* A check that ends the request or lets it go on.
LEMMA CheckMoves ==
  ASSUME TypeInv, NEW r \in Requests, NEW ok, NEW l, Check(r, ok, l)
  PROVE  /\ Elsewhere(r)
         /\ \/ req'[r].at = "idle"
            \/ LET p == req'[r]
                   q == req[r]
               IN  /\ ok
                   /\ p.at = l /\ p.user = q.user /\ p.id = q.id /\ p.inv = q.inv
                   /\ p.team = q.team /\ p.roleId = q.roleId /\ p.name = q.name
                   /\ p.status = q.status /\ p.teams = q.teams
<1>1. CASE Finish(r)
  BY <1>1, FinishMoves
<1>2. CASE ok /\ Advance(r, l)
  BY <1>2, AdvanceMoves
<1> QED
  BY <1>1, <1>2 DEF Check

\* Where a request can be after a step that may load something on the way to l.
LEMMA Moves ==
  ASSUME TypeInv, NEW r \in Requests, NEW l, NEW a, NEW b,
         \/ Finish(r) \/ Advance(r, l)
         \/ req' = [req EXCEPT ![r].at = l, ![r].id = a]
         \/ req' = [req EXCEPT ![r].at = l, ![r].id = a, ![r].name = b]
         \/ req' = [req EXCEPT ![r].at = l, ![r].team = a]
         \/ req' = [req EXCEPT ![r].at = l, ![r].teams = a]
         \/ req' = [req EXCEPT ![r].at = l, ![r].roleId = a]
  PROVE  Elsewhere(r) /\ req'[r].at \in {"idle", l}
<1>1. req \in [Requests -> Request] /\ req[r] \in Request
  BY DEF TypeInv, TablesTypeOK
<1> QED
  BY <1>1 DEF Finish, Advance, Idle, Request, Elsewhere

LEMMA ArrivalWrites ==
  ASSUME NEW r, WorkspaceArrival(r) \/ TeamArrival(r)
  PROVE  UNCHANGED <<member, team, role, teamMember, teamInvite>>
BY DEF WorkspaceArrival, TeamArrival, tables, CreateWorkspace, DeleteWorkspace, LeaveWorkspace,
       UpdateMemberRole, InviteMember, RemoveMember, Respond, CreateTeam, DeleteTeam,
       CreateRole, DeleteRole, UpdateRole, InviteTeamMember, UpdateTeamMemberRole,
       RemoveTeamMember, RespondTeam

\* Where a request is when it has passed the checks made at its arrival.
Entries ==
  {"createMember", "deleteWorkspace", "leaveCount", "leaveRemove", "roleFind", "inviteMember",
   "removeFind", "respondSave", "teamSave", "deleteTeam", "newRole", "editRoleFind",
   "dropRoleFind", "teamInviteRole", "memberRoleFind", "kickFind", "respondTeamSave"}

Arrived(r) ==
  /\ Elsewhere(r)
  /\ req'[r].at \in Entries
  /\ req'[r].at = "teamSave" => Has(req'[r].user)
  /\ req'[r].at = "respondTeamSave" => teamInvite[req'[r].inv].status = "pending"

LEMMA Begins ==
  ASSUME TypeInv, NEW r \in Requests, NEW c, Begin(r, c), c.at \in Entries,
         c.at = "teamSave" => Has(c.user),
         c.at = "respondTeamSave" => teamInvite[c.inv].status = "pending"
  PROVE  Arrived(r)
BY BeginMoves DEF Arrived

LEMMA Arrives ==
  ASSUME TypeInv, NEW r \in Requests, WorkspaceArrival(r) \/ TeamArrival(r)
  PROVE  Arrived(r)
<1> USE DEF Call, TeamCall, Idle, Entries
<1>1. ASSUME NEW u \in Users, CreateWorkspace(r, u) \/ DeleteWorkspace(r, u) \/ LeaveWorkspace(r, u)
      PROVE  Arrived(r)
  BY <1>1, Begins DEF CreateWorkspace, DeleteWorkspace, LeaveWorkspace
<1>2. ASSUME NEW u \in Users, NEW v \in Users, NEW ro \in {"owner", "member"},
             UpdateMemberRole(r, u, v, ro) \/ InviteMember(r, u, v, ro)
      PROVE  Arrived(r)
  BY <1>2, Begins DEF UpdateMemberRole, InviteMember
<1>3. ASSUME NEW u \in Users, NEW v \in Users, RemoveMember(r, u, v) PROVE Arrived(r)
  BY <1>3, Begins DEF RemoveMember
<1>4. ASSUME NEW u \in Users, NEW i, NEW st, Respond(r, u, i, st) PROVE Arrived(r)
  BY <1>4, Begins DEF Respond
<1>5. ASSUME NEW u \in Users, CreateTeam(r, u) PROVE Arrived(r)
  <2>1. Has(u)
    BY <1>5 DEF CreateTeam, Owners, Has, NoMember
  <2> QED
    BY <1>5, <2>1, Begins DEF CreateTeam
<1>6. ASSUME NEW u \in Users, NEW t, DeleteTeam(r, u, t) PROVE Arrived(r)
  BY <1>6, Begins DEF DeleteTeam
<1>7. ASSUME NEW u \in Users, NEW t, NEW k, NEW nm,
             CreateRole(r, u, t, nm) \/ DeleteRole(r, u, t, k) \/ UpdateRole(r, u, t, k, nm)
      PROVE  Arrived(r)
  BY <1>7, Begins DEF CreateRole, DeleteRole, UpdateRole
<1>8. ASSUME NEW u \in Users, NEW t, NEW v, NEW k,
             InviteTeamMember(r, u, t, v, k) \/ UpdateTeamMemberRole(r, u, t, v, k)
      PROVE  Arrived(r)
  BY <1>8, Begins DEF InviteTeamMember, UpdateTeamMemberRole
<1>9. ASSUME NEW u \in Users, NEW t, NEW v, RemoveTeamMember(r, u, t, v) PROVE Arrived(r)
  BY <1>9, Begins DEF RemoveTeamMember
<1>10. ASSUME NEW u \in Users, NEW i, NEW st, RespondTeam(r, u, i, st) PROVE Arrived(r)
  BY <1>10, Begins DEF RespondTeam
<1>11. WorkspaceArrival(r) => Arrived(r)
  BY <1>1, <1>2, <1>3, <1>4 DEF WorkspaceArrival
<1>12. TeamArrival(r) => Arrived(r)
  BY <1>5, <1>6, <1>7, <1>8, <1>9, <1>10 DEF TeamArrival
<1> QED
  BY <1>11, <1>12

-----------------------------------------------------------------------------
(* Default roles.  What a request has read about the kind of a role stays  *)
(* true, also when the role is deleted and saved again: a key is not drawn *)
(* anew while a request knows it, and all who know it agree on its kind.   *)

\* Control points at which the role was found not to be a default role.
FoundPlain == {"editRoleSave", "dropRoleCount", "dropRole"}

KindClaim(q) ==
  /\ q.at = "editDefaultSave" /\ role[q.roleId] # NoRole => role[q.roleId].isDefault
  /\ q.at \in FoundPlain => ~role[q.roleId].isDefault

KindsAgree(p, q) ==
  p.at = "editDefaultSave" /\ q.at \in FoundPlain => p.roleId # q.roleId

KindInv ==
  /\ TypeInv
  /\ \A r \in Requests : KindClaim(req[r])
  /\ \A q, r \in Requests : KindsAgree(req[q], req[r])

\* What a step of r does to roles: a default role goes only with its team, no role
\* changes its kind, and a role that was gone comes back with the one it had.
KindEffect(r) ==
  \A k \in RoleIds :
    \/ role'[k] = role[k]
    \/ role'[k] = NoRole /\ (role[k].isDefault => team'[role[k].team] # "live")
    \/ role[k] # NoRole /\ role'[k] # NoRole /\ role'[k].isDefault = role[k].isDefault
    \/ role[k] = NoRole /\ \A x \in Requests : req[x].roleId # k
    \/ /\ role[k] = NoRole /\ k = req[r].roleId
       /\ req[r].at \in {"editRoleSave", "editDefaultSave"}
       /\ role'[k].isDefault = (req[r].at = "editDefaultSave")

\* What it does to the request: the kind of its role has just been found, or was
\* found before and is still relied upon.
KindMove(r) ==
  /\ Elsewhere(r)
  /\ \/ req'[r].at \notin FoundPlain \union {"editDefaultSave"}
     \/ /\ UNCHANGED role
        /\ req'[r].roleId = req[r].roleId
        /\ \/ req[r].at \in FoundPlain /\ req'[r].at \in FoundPlain
           \/ /\ role[req[r].roleId] # NoRole
              /\ role[req[r].roleId].isDefault = (req'[r].at = "editDefaultSave")

LEMMA KindStep ==
  ASSUME KindInv, TypeInv', NEW r \in Requests, KindEffect(r), KindMove(r)
  PROVE  KindInv'
<1>a. ASSUME NEW x \in Requests, req[x].at \in FoundPlain \union {"editDefaultSave"}
      PROVE  req[x].roleId \in RoleIds
  BY <1>a, RecordTyped DEF KindInv, FoundPlain, GoodAt
<1>b. NoRole.isDefault = FALSE
  BY DEF NoRole
<1>1. ASSUME NEW x \in Requests \ {r} PROVE KindClaim(req[x])'
  <2> DEFINE k == req[x].roleId
  <2>1. req'[x] = req[x]
    BY DEF KindMove, Elsewhere
  <2>2. CASE req[x].at = "editDefaultSave"
    <3>1. role[k] # NoRole => role[k].isDefault
      BY <2>2 DEF KindInv, KindClaim
    <3>2. ~(k = req[r].roleId /\ req[r].at = "editRoleSave")
      BY <2>2 DEF KindInv, KindsAgree, FoundPlain
    <3>3. role'[k] # NoRole => role'[k].isDefault
      BY <1>a, <2>2, <3>1, <3>2 DEF KindEffect
    <3> QED
      BY <2>1, <2>2, <3>3 DEF KindClaim, FoundPlain
  <2>3. CASE req[x].at \in FoundPlain
    <3>1. ~role[k].isDefault
      BY <2>3 DEF KindInv, KindClaim
    <3>2. ~(k = req[r].roleId /\ req[r].at = "editDefaultSave")
      BY <2>3 DEF KindInv, KindsAgree
    <3>3. ~role'[k].isDefault
      BY <1>a, <1>b, <2>3, <3>1, <3>2 DEF KindEffect
    <3> QED
      BY <2>1, <2>3, <3>3 DEF KindClaim, FoundPlain
  <2> QED
    BY <2>1, <2>2, <2>3 DEF KindClaim
<1>2. KindClaim(req[r])'
  <2>1. req[r].at \in FoundPlain => ~role[req[r].roleId].isDefault
    BY DEF KindInv, KindClaim
  <2> QED
    BY <2>1 DEF KindMove, KindClaim, FoundPlain
<1>3. ASSUME NEW x \in Requests, NEW y \in Requests PROVE KindsAgree(req[x], req[y])'
  <2>1. KindsAgree(req[x], req[y]) /\ KindClaim(req[x]) /\ KindClaim(req[y])
    BY DEF KindInv
  <2>2. x # r => req'[x] = req[x]
    BY DEF KindMove, Elsewhere
  <2>3. y # r => req'[y] = req[y]
    BY DEF KindMove, Elsewhere
  <2> QED
    BY <2>1, <2>2, <2>3 DEF KindMove, KindsAgree, KindClaim, FoundPlain
<1> QED
  BY <1>1, <1>2, <1>3 DEF KindInv

LEMMA KindOfFresh ==
  ASSUME TypeInv, NEW r \in Requests, NEW k \in FreshRole, NEW t, NEW nm, NEW d,
         InsertRole(k, t, nm, d)
  PROVE  KindEffect(r)
<1>1. k \in RoleIds /\ role[k] = NoRole /\ \A x \in Requests : req[x].roleId # k
  BY DEF FreshRole, Least
<1>2. \A j \in RoleIds \ {k} : role'[j] = role[j]
  BY DEF InsertRole, TypeInv, TablesTypeOK
<1> QED
  BY <1>1, <1>2 DEF KindEffect

LEMMA KindOfDeleted ==
  ASSUME TypeInv, NEW r \in Requests, NEW S, DeleteTeams(S)
  PROVE  KindEffect(r)
<1>1. ASSUME NEW k \in RoleIds, role[k].isDefault, role[k].team \in S
      PROVE  team'[role[k].team] # "live"
  <2>1. role[k].team \in Teams
    BY <1>1 DEF TypeInv, TablesTypeOK, Role, NoRole
  <2> QED
    BY <1>1, <2>1 DEF DeleteTeams
<1>2. \A k \in RoleIds : role'[k] = IF role[k].team \in S THEN NoRole ELSE role[k]
  BY DEF DeleteTeams
<1> QED
  BY <1>1, <1>2 DEF KindEffect

LEMMA KindStays ==
  ASSUME NEW r, role' = role
  PROVE  KindEffect(r)
BY DEF KindEffect

Ordinary == Labels \ (FoundPlain \union {"editDefaultSave"})

LEMMA KindMoves ==
  ASSUME TypeInv, NEW r \in Requests, NEW l \in Ordinary, NEW a, NEW b,
         \/ Finish(r) \/ Advance(r, l)
         \/ req' = [req EXCEPT ![r].at = l, ![r].id = a]
         \/ req' = [req EXCEPT ![r].at = l, ![r].id = a, ![r].name = b]
         \/ req' = [req EXCEPT ![r].at = l, ![r].team = a]
         \/ req' = [req EXCEPT ![r].at = l, ![r].teams = a]
         \/ req' = [req EXCEPT ![r].at = l, ![r].roleId = a]
  PROVE  KindMove(r)
<1>1. Elsewhere(r) /\ req'[r].at \in {"idle", l}
  BY Moves
<1> QED
  BY <1>1 DEF KindMove, Ordinary, FoundPlain

LEMMA KindCheck ==
  ASSUME TypeInv, NEW r \in Requests, NEW l \in Ordinary, NEW ok, Check(r, ok, l)
  PROVE  KindMove(r)
BY CheckMoves DEF KindMove, Ordinary, FoundPlain

LEMMA KindFinish ==
  ASSUME TypeInv, NEW r \in Requests, Finish(r)
  PROVE  KindMove(r)
BY FinishMoves DEF KindMove, FoundPlain

\* An arrival of a client has not looked at a role yet.
LEMMA KindArrival ==
  ASSUME TypeInv, NEW r \in Requests, WorkspaceArrival(r) \/ TeamArrival(r)
  PROVE  KindEffect(r) /\ KindMove(r)
BY Arrives, ArrivalWrites, KindStays DEF Arrived, KindMove, FoundPlain, Entries

LEMMA KindTeamStep ==
  ASSUME KindInv, NEW r \in Requests, TeamStep(r)
  PROVE  KindEffect(r) /\ KindMove(r)
<1>a. TypeInv /\ req[r] \in Request /\ GoodAt(req[r].at, req[r])
  BY RecordTyped DEF KindInv
<1> USE DEF Labels, WorkspaceLabels, TeamLabels, Ordinary, FoundPlain
<1>1. CASE TeamSave(r)
  <2>1. \/ Finish(r)
        \/ \E t : req' = [req EXCEPT ![r].at = "teamOwnerRole", ![r].team = t]
    BY <1>1 DEF TeamSave
  <2> QED
    BY <1>1, <1>a, <2>1, KindMoves, KindFinish, KindStays DEF TeamSave
<1>2. CASE TeamOwnerRole(r)
  <2>1. \/ Finish(r)
        \/ \E k : req' = [req EXCEPT ![r].at = "teamMemberRole", ![r].roleId = k]
    BY <1>2 DEF TeamOwnerRole
  <2>2. KindMove(r)
    BY <1>a, <2>1, KindMoves, KindFinish
  <2> QED
    BY <1>2, <1>a, <2>2, KindStays, KindOfFresh DEF TeamOwnerRole
<1>3. CASE TeamMemberRole(r)
  <2>1. KindMove(r)
    BY <1>3, <1>a, KindMoves, KindFinish DEF TeamMemberRole
  <2> QED
    BY <1>3, <1>a, <2>1, KindStays, KindOfFresh DEF TeamMemberRole
<1>4. CASE NewRole(r)
  BY <1>4, <1>a, KindFinish, KindStays, KindOfFresh DEF NewRole
<1>5. CASE DeleteTeamTx(r)
  BY <1>5, <1>a, KindFinish, KindStays, KindOfDeleted DEF DeleteTeamTx
<1>6. CASE \/ TeamCreator(r) \/ TeamInviteSave(r) \/ MemberRoleSave(r) \/ Kick(r)
           \/ RespondTeamJoin(r)
  BY <1>6, <1>a, KindFinish, KindStays DEF TeamCreator, TeamInviteSave, MemberRoleSave, Kick, RespondTeamJoin
<1>7. CASE \/ TeamInviteRole(r) \/ TeamInviteUser(r) \/ TeamInviteMember(r) \/ TeamInviteFind(r)
           \/ MemberRoleOwners(r) \/ KickOwners(r) \/ RespondTeamVerify(r)
  BY <1>7, <1>a, KindCheck, KindStays
  DEF TeamInviteRole, TeamInviteUser, TeamInviteMember, TeamInviteFind, MemberRoleOwners,
      KickOwners, RespondTeamVerify, tables
<1>8. CASE MemberRoleRole(r)
  <2>1. \E ok : \E l \in {"memberRoleOwners", "memberRoleSave"} : Check(r, ok, l)
    BY <1>8 DEF MemberRoleRole
  <2> QED
    BY <1>8, <1>a, <2>1, KindCheck, KindStays DEF MemberRoleRole, tables
<1>9. CASE MemberRoleFind(r)
  <2>1. \/ Finish(r)
        \/ \E a, b : req' = [req EXCEPT ![r].at = "memberRoleRole", ![r].id = a, ![r].name = b]
    BY <1>9 DEF MemberRoleFind
  <2>2. "memberRoleRole" \in Ordinary
    OBVIOUS
  <2>3. ASSUME NEW a, NEW b,
               req' = [req EXCEPT ![r].at = "memberRoleRole", ![r].id = a, ![r].name = b]
        PROVE  KindMove(r)
    BY <1>a, <2>2, <2>3, KindMoves
  <2>4. KindMove(r)
    BY <1>a, <2>1, <2>3, KindFinish
  <2> QED
    BY <1>9, <2>4, KindStays DEF MemberRoleFind, tables
<1>10. CASE KickFind(r)
  <2>1. \/ Finish(r)
        \/ \E l \in {"kick", "kickOwners"} : \E a : req' = [req EXCEPT ![r].at = l, ![r].id = a]
    BY <1>10 DEF KickFind
  <2> QED
    BY <1>10, <1>a, <2>1, KindMoves, KindFinish, KindStays DEF KickFind, tables
<1>11. CASE RespondTeamSave(r)
  BY <1>11, <1>a, KindMoves, KindFinish, KindStays DEF RespondTeamSave
<1>12. CASE EditRoleFind(r)
  <2> DEFINE k == req[r].roleId
             l == IF role[k].isDefault THEN "editDefaultSave" ELSE "editRoleSave"
  <2>1. Check(r, RoleExists(k, req[r].team), l) /\ role' = role
    BY <1>12 DEF EditRoleFind, tables
  <2>2. k \in RoleIds
    BY <1>12, <1>a DEF EditRoleFind, GoodAt
  <2>3. role[k] # NoRole => role[k].isDefault \in BOOLEAN
    BY <1>a, <2>2 DEF TypeInv, TablesTypeOK, Role
  <2>4. /\ Elsewhere(r)
        /\ \/ req'[r].at = "idle"
           \/ req'[r].at = l /\ req'[r].roleId = k /\ role[k] # NoRole
    BY <1>a, <2>1, CheckMoves DEF RoleExists
  <2>5. KindMove(r)
    BY <2>1, <2>3, <2>4 DEF KindMove
  <2> QED
    BY <2>1, <2>5, KindStays
<1>13. CASE DropRoleFind(r)
  <2> DEFINE k == req[r].roleId
  <2>1. Check(r, RoleExists(k, req[r].team) /\ ~role[k].isDefault, "dropRoleCount") /\ role' = role
    BY <1>13 DEF DropRoleFind, tables
  <2>2. k \in RoleIds
    BY <1>13, <1>a DEF DropRoleFind, GoodAt
  <2>3. role[k] # NoRole => role[k].isDefault \in BOOLEAN
    BY <1>a, <2>2 DEF TypeInv, TablesTypeOK, Role
  <2>4. /\ Elsewhere(r)
        /\ \/ req'[r].at = "idle"
           \/ /\ req'[r].at = "dropRoleCount" /\ req'[r].roleId = k
              /\ role[k] # NoRole /\ ~role[k].isDefault
    BY <1>a, <2>1, CheckMoves DEF RoleExists
  <2>5. KindMove(r)
    BY <2>1, <2>3, <2>4 DEF KindMove
  <2> QED
    BY <2>1, <2>5, KindStays
<1>14. CASE DropRoleCount(r)
  <2>1. \E ok : Check(r, ok, "dropRole")
    BY <1>14 DEF DropRoleCount
  <2> QED
    BY <1>14, <1>a, <2>1, CheckMoves, KindStays DEF DropRoleCount, KindMove, tables
<1>15. CASE EditRoleSave(r)
  <2> DEFINE k == req[r].roleId
             row == [team |-> req[r].team, name |-> req[r].name,
                     isDefault |-> req[r].at = "editDefaultSave"]
  <2>1. k \in RoleIds /\ req[r].team \in Teams /\ req[r].name \in RoleNames
    BY <1>15, <1>a DEF EditRoleSave, GoodAt
  <2>2. KindEffect(r)
    <3>1. CASE role[k] # NoRole
      <4>1. role' = [role EXCEPT ![k] = [role[k] EXCEPT !.name = req[r].name]]
        BY <1>15, <3>1 DEF EditRoleSave
      <4> DEFINE changed == [role[k] EXCEPT !.name = req[r].name]
      <4>2. role[k] \in Role
        BY <1>a, <2>1, <3>1 DEF TypeInv, TablesTypeOK
      <4>3. changed.isDefault = role[k].isDefault /\ changed.team = role[k].team
        BY <4>2 DEF Role
      <4>4. changed # NoRole
        BY <4>2, <4>3, IdAssumption DEF Role, NoRole
      <4> HIDE DEF changed
      <4>5. \A j \in RoleIds : role'[j] = IF j = k THEN changed ELSE role[j]
        BY <1>a, <4>1 DEF TypeInv, TablesTypeOK, changed
      <4> QED
        BY <3>1, <4>3, <4>4, <4>5 DEF KindEffect
    <3>2. CASE role[k] = NoRole /\ TeamKey(req[r].team)
      <4>1. role' = [role EXCEPT ![k] = row]
        BY <1>15, <3>2 DEF EditRoleSave, InsertRole
      <4>2. row.isDefault = (req[r].at = "editDefaultSave")
        OBVIOUS
      <4> HIDE DEF row
      <4>3. \A j \in RoleIds : role'[j] = IF j = k THEN row ELSE role[j]
        BY <1>a, <4>1 DEF TypeInv, TablesTypeOK
      <4>4. req[r].at \in {"editRoleSave", "editDefaultSave"}
        BY <1>15 DEF EditRoleSave
      <4> QED
        BY <3>2, <4>2, <4>3, <4>4 DEF KindEffect
    <3>3. CASE role[k] = NoRole /\ ~TeamKey(req[r].team)
      BY <1>15, <3>3, KindStays DEF EditRoleSave
    <3> QED
      BY <3>1, <3>2, <3>3
  <2> QED
    BY <1>15, <1>a, KindFinish, <2>2 DEF EditRoleSave
<1>16. CASE DropRole(r)
  <2> DEFINE k == req[r].roleId
  <2>1. k \in RoleIds /\ ~role[k].isDefault
    BY <1>16, <1>a DEF DropRole, GoodAt, KindInv, KindClaim
  <2>2. role' = role \/ role' = [role EXCEPT ![k] = NoRole]
    BY <1>16 DEF DropRole
  <2>3. KindEffect(r)
    BY <1>a, <2>1, <2>2 DEF KindEffect, TypeInv, TablesTypeOK
  <2> QED
    BY <1>16, <1>a, KindFinish, <2>3 DEF DropRole
<1> QED
  BY <1>1, <1>2, <1>3, <1>4, <1>5, <1>6, <1>7, <1>8, <1>9, <1>10, <1>11, <1>12, <1>13, <1>14,
     <1>15, <1>16
  DEF TeamStep

LEMMA KindWorkspaceStep ==
  ASSUME KindInv, NEW r \in Requests, WorkspaceStep(r)
  PROVE  KindEffect(r) /\ KindMove(r)
<1>a. TypeInv
  BY DEF KindInv
<1> USE DEF Labels, WorkspaceLabels, TeamLabels, Ordinary, FoundPlain
<1>1. CASE \/ CreateMember(r) \/ LeaveRemove(r) \/ RoleSave(r) \/ RemoveRow(r)
           \/ InviteSave(r) \/ RespondJoin(r)
  BY <1>1, <1>a, KindFinish, KindStays
  DEF CreateMember, LeaveRemove, RoleSave, RemoveRow, InviteSave, RespondJoin
<1>2. CASE DeleteWorkspaceTx(r)
  BY <1>2, <1>a, KindFinish, KindStays, KindOfDeleted DEF DeleteWorkspaceTx, tables
<1>3. CASE LeaveCount(r) \/ RemoveCount(r) \/ InviteCheckMember(r)
  BY <1>3, <1>a, KindCheck, KindStays DEF LeaveCount, RemoveCount, InviteCheckMember, tables
<1>4. CASE RoleFind(r)
  <2>1. Finish(r) \/ \E a : req' = [req EXCEPT ![r].at = "roleSave", ![r].id = a]
    BY <1>4 DEF RoleFind
  <2> QED
    BY <1>4, <1>a, <2>1, KindMoves, KindFinish, KindStays DEF RoleFind, tables
<1>5. CASE RemoveFind(r)
  <2>1. \/ Finish(r)
        \/ \E l \in {"removeCount", "removeTeams"} : \E a :
             req' = [req EXCEPT ![r].at = l, ![r].id = a]
    BY <1>5 DEF RemoveFind
  <2> QED
    BY <1>5, <1>a, <2>1, KindMoves, KindFinish, KindStays DEF RemoveFind, tables
<1>6. CASE RemoveTeams(r) \/ RemoveTeamRows(r)
  BY <1>6, <1>a, KindMoves, KindStays DEF RemoveTeams, RemoveTeamRows, tables
<1>7. CASE InviteFind(r)
  <2>1. Advance(r, "inviteSave") \/ \E ok : Check(r, ok, "inviteSave")
    BY <1>7 DEF InviteFind
  <2> QED
    BY <1>7, <1>a, <2>1, KindMoves, KindCheck, KindStays DEF InviteFind, tables
<1>8. CASE RespondSave(r)
  BY <1>8, <1>a, KindMoves, KindFinish, KindStays DEF RespondSave
<1> QED
  BY <1>1, <1>2, <1>3, <1>4, <1>5, <1>6, <1>7, <1>8 DEF WorkspaceStep

LEMMA KindNext ==
  ASSUME KindInv, NEW r \in Requests, Step(r)
  PROVE  KindEffect(r) /\ KindMove(r)
<1>1. TypeInv
  BY DEF KindInv
<1>2. Fail(r) => KindEffect(r) /\ KindMove(r)
  BY <1>1, KindFinish, KindStays DEF Fail, tables
<1> QED
  BY <1>1, <1>2, KindArrival, KindStays, KindWorkspaceStep, KindTeamStep DEF Step

LEMMA KindPreserved == KindInv /\ [Next]_vars => KindInv'
<1> SUFFICES ASSUME KindInv, [Next]_vars PROVE KindInv'
  OBVIOUS
<1>1. TypeInv'
  BY NextType DEF KindInv
<1>2. CASE UNCHANGED vars
  BY <1>1, <1>2 DEF vars, KindInv, KindClaim, KindsAgree
<1>3. CASE Next
  BY <1>1, <1>3, KindNext, KindStep DEF Next, Step
<1> QED
  BY <1>2, <1>3

LEMMA DefaultRoleStays ==
  ASSUME KindInv, [Next]_vars
  PROVE  \A k \in RoleIds :
           role[k].isDefault /\ team'[role[k].team] = "live" => role'[k].isDefault
<1>1. CASE UNCHANGED vars
  BY <1>1 DEF vars
<1>2. CASE Next
  <2>1. PICK r \in Requests : KindEffect(r)
    BY <1>2, KindNext DEF Next, Step
  <2>2. NoRole.isDefault = FALSE
    BY DEF NoRole
  <2> QED
    BY <2>1, <2>2 DEF KindEffect
<1> QED
  BY <1>1, <1>2

\* What the requests in flight know of the kind of a role is true, whatever the
\* others have deleted, renamed or inserted again since updateRole or deleteRole
\* found it.
THEOREM KindsAlwaysKnown == Spec => []KindInv
<1>1. TablesInit => KindInv
  <2>1. KindClaim(Idle) /\ KindsAgree(Idle, Idle)
    BY DEF KindClaim, KindsAgree, Idle, FoundPlain
  <2> QED
    BY <2>1, InitType DEF TablesInit, KindInv
<1> QED
  BY <1>1, KindPreserved, PTL DEF Spec

\* A default role goes only with its team, however deleteRole and updateRole race.
THEOREM DefaultRolesAlwaysStay == Spec => DefaultRolesStay
<1>1. KindInv /\ [Next]_vars =>
        [\A k \in RoleIds :
           role[k].isDefault /\ team'[role[k].team] = "live" => role'[k].isDefault]_vars
  BY DefaultRoleStays
<1> QED
  BY <1>1, KindsAlwaysKnown, PTL DEF Spec, DefaultRolesStay
-----------------------------------------------------------------------------
(* Requests served one by one.  What a request has read about the team, its *)
(* members and invitations is then still so when it acts upon it.          *)

Pending(i, t, u) ==
  /\ teamInvite[i].team = t
  /\ teamInvite[i].user = u
  /\ teamInvite[i].status = "pending"
NonePending(t, u) == \A i \in TeamInviteIds : ~Pending(i, t, u)

\* A user waits for one answer at most per team, and for none once inside.
OnePending ==
  /\ \A i, j \in TeamInviteIds :
       /\ teamInvite[i].status = "pending"
       /\ Pending(j, teamInvite[i].team, teamInvite[i].user)
       => i = j
  /\ \A t \in Teams, u \in Users : InTeam(t, u) => NonePending(t, u)

\* createTeam, from the team it made to the membership of its creator
Founding == {"teamOwnerRole", "teamMemberRole", "teamCreator"}
FoundClaim(q) ==
  /\ q.at \in Founding => \A i \in TeamInviteIds : teamInvite[i].team # q.team
  /\ q.at \in Founding \union {"teamSave", "respondTeamJoin"} => Has(q.user)

\* inviteTeamMember and the answer to a team invitation
WaitClaim(q) ==
  /\ q.at \in {"teamInviteFind", "teamInviteSave"} => ~InTeam(q.team, q.user)
  /\ q.at \in {"teamInviteSave", "respondTeamVerify", "respondTeamJoin"}
       => NonePending(q.team, q.user)
  /\ q.at = "respondTeamSave" => teamInvite[q.inv].status = "pending"

\* updateTeamMemberRole and removeTeamMember
NotTheOwner(q) == TeamOwners(q.team) # {q.user}
StaffClaim(q) ==
  /\ q.at \in {"memberRoleRole", "memberRoleOwners", "memberRoleSave"}
       => InTeam(q.team, q.user) /\ teamMember[q.team][q.user].id = q.id
  /\ q.at = "memberRoleRole" => q.name = RoleName(q.team, q.user)
  /\ q.at = "memberRoleSave" => NotTheOwner(q) \/ role[q.roleId].name = "Owner"
  /\ q.at = "kick" => NotTheOwner(q)

\* removeWorkspaceMember
OutClaim(q) ==
  /\ q.at = "removeTeamRows" => q.teams = LiveTeams
  /\ q.at = "removeRow" => \A t \in Teams : ~InTeam(t, q.user)

SerialClaim(q) == FoundClaim(q) /\ WaitClaim(q) /\ StaffClaim(q) /\ OutClaim(q)
SerialInv == OnePending /\ \A r \in Requests : SerialClaim(req[r])

\* Which steps write which table.
Deletes == \E S : DeleteTeams(S)

LEMMA InviteWriters ==
  ASSUME NEW r, Step(r)
  PROVE  teamInvite' = teamInvite \/ TeamInviteSave(r) \/ RespondTeamSave(r) \/ Deletes
<1>1. WorkspaceStep(r) => teamInvite' = teamInvite \/ Deletes
  BY DEF WorkspaceStep, CreateMember, DeleteWorkspaceTx, LeaveCount, LeaveRemove, RoleFind, RoleSave,
         RemoveFind, RemoveCount, RemoveTeams, RemoveTeamRows, RemoveRow, InviteCheckMember,
         InviteFind, InviteSave, RespondSave, RespondJoin, tables, Deletes
<1>2. TeamStep(r) => \/ teamInvite' = teamInvite \/ TeamInviteSave(r) \/ RespondTeamSave(r)
                     \/ Deletes
  BY DEF TeamStep, TeamSave, TeamOwnerRole, TeamMemberRole, TeamCreator, DeleteTeamTx, NewRole,
         EditRoleFind, EditRoleSave, DropRoleFind, DropRoleCount, DropRole, TeamInviteRole,
         TeamInviteUser, TeamInviteMember, TeamInviteFind, MemberRoleFind, MemberRoleRole,
         MemberRoleOwners, MemberRoleSave, KickFind, KickOwners, Kick, RespondTeamVerify,
         RespondTeamJoin, tables, Deletes
<1> QED
  BY <1>1, <1>2, ArrivalWrites DEF Step, Fail, tables

LEMMA TeamMemberWriters ==
  ASSUME NEW r, Step(r)
  PROVE  \/ teamMember' = teamMember \/ RemoveTeamRows(r) \/ TeamCreator(r)
         \/ MemberRoleSave(r) \/ Kick(r) \/ RespondTeamJoin(r) \/ Deletes
<1>1. WorkspaceStep(r) => teamMember' = teamMember \/ RemoveTeamRows(r) \/ Deletes
  BY DEF WorkspaceStep, CreateMember, DeleteWorkspaceTx, LeaveCount, LeaveRemove, RoleFind, RoleSave,
         RemoveFind, RemoveCount, RemoveTeams, RemoveRow, InviteCheckMember,
         InviteFind, InviteSave, RespondSave, RespondJoin, tables, Deletes
<1>2. TeamStep(r) => \/ teamMember' = teamMember \/ TeamCreator(r) \/ MemberRoleSave(r)
                     \/ Kick(r) \/ RespondTeamJoin(r) \/ Deletes
  BY DEF TeamStep, TeamSave, TeamOwnerRole, TeamMemberRole, DeleteTeamTx, NewRole,
         EditRoleFind, EditRoleSave, DropRoleFind, DropRoleCount, DropRole, TeamInviteRole,
         TeamInviteUser, TeamInviteMember, TeamInviteFind, TeamInviteSave, MemberRoleFind,
         MemberRoleRole, MemberRoleOwners, KickFind, KickOwners, RespondTeamSave,
         RespondTeamVerify, tables, Deletes
<1> QED
  BY <1>1, <1>2, ArrivalWrites DEF Step, Fail, tables

LEMMA RoleWriters ==
  ASSUME NEW r, Step(r)
  PROVE  \/ role' = role \/ TeamOwnerRole(r) \/ TeamMemberRole(r) \/ NewRole(r)
         \/ EditRoleSave(r) \/ DropRole(r) \/ Deletes
<1>1. WorkspaceStep(r) => role' = role \/ Deletes
  BY DEF WorkspaceStep, CreateMember, DeleteWorkspaceTx, LeaveCount, LeaveRemove, RoleFind, RoleSave,
         RemoveFind, RemoveCount, RemoveTeams, RemoveTeamRows, RemoveRow, InviteCheckMember,
         InviteFind, InviteSave, RespondSave, RespondJoin, tables, Deletes
<1>2. TeamStep(r) => \/ role' = role \/ TeamOwnerRole(r) \/ TeamMemberRole(r) \/ NewRole(r)
                     \/ EditRoleSave(r) \/ DropRole(r) \/ Deletes
  BY DEF TeamStep, TeamSave, TeamCreator, DeleteTeamTx, EditRoleFind, DropRoleFind,
         DropRoleCount, TeamInviteRole, TeamInviteUser, TeamInviteMember, TeamInviteFind,
         TeamInviteSave, MemberRoleFind, MemberRoleRole, MemberRoleOwners, MemberRoleSave,
         KickFind, KickOwners, Kick, RespondTeamSave, RespondTeamVerify, RespondTeamJoin,
         tables, Deletes
<1> QED
  BY <1>1, <1>2, ArrivalWrites DEF Step, Fail, tables

\* Who loses a row of the workspace, and how.
LEMMA MemberWriters ==
  ASSUME NEW r, Step(r)
  PROVE  \/ member' = member \/ CreateMember(r) \/ RoleSave(r) \/ RespondJoin(r)
         \/ LeaveRemove(r) \/ RemoveRow(r) \/ (DeleteWorkspaceTx(r) /\ Live)
<1>1. WorkspaceStep(r) =>
        \/ member' = member \/ CreateMember(r) \/ RoleSave(r) \/ RespondJoin(r)
        \/ LeaveRemove(r) \/ RemoveRow(r) \/ (DeleteWorkspaceTx(r) /\ Live)
  BY DEF WorkspaceStep, DeleteWorkspaceTx, LeaveCount, RoleFind,
         RemoveFind, RemoveCount, RemoveTeams, RemoveTeamRows, InviteCheckMember,
         InviteFind, InviteSave, RespondSave, tables
<1>2. TeamStep(r) => member' = member
  BY DEF TeamStep, TeamSave, TeamOwnerRole, TeamMemberRole, TeamCreator, DeleteTeamTx, NewRole,
         EditRoleFind, EditRoleSave, DropRoleFind, DropRoleCount, DropRole, TeamInviteRole,
         TeamInviteUser, TeamInviteMember, TeamInviteFind, TeamInviteSave, MemberRoleFind,
         MemberRoleRole, MemberRoleOwners, MemberRoleSave, KickFind, KickOwners, Kick,
         RespondTeamSave, RespondTeamVerify, RespondTeamJoin, tables
<1> QED
  BY <1>1, <1>2, ArrivalWrites DEF Step, Fail, tables

-----------------------------------------------------------------------------
(* What a step does to invitations and to the members of teams. *)

LEMMA InvitesAfter ==
  ASSUME SafeInv, NEW r \in Requests, SerialClaim(req[r]), Step(r), NEW i \in TeamInviteIds
  PROVE  /\ \/ TeamInviteSave(r)
            \/ teamInvite'[i].status = "pending" =>
                 /\ teamInvite[i].status = "pending"
                 /\ teamInvite'[i].team = teamInvite[i].team
                 /\ teamInvite'[i].user = teamInvite[i].user
         /\ teamInvite[i].status \in {"accepted", "rejected"}
              => teamInvite'[i].status \in {teamInvite[i].status, "none"}
         /\ \/ TeamInviteSave(r)
            \/ teamInvite'[i].team \in {teamInvite[i].team, 0}
<1>t. /\ teamInvite \in [TeamInviteIds -> TeamInvite \union {NoTeamInvite}]
      /\ NoTeamInvite.status = "none" /\ NoTeamInvite.team = 0
  BY DEF SafeInv, TypeInv, TablesTypeOK, NoTeamInvite
<1>1. CASE teamInvite' = teamInvite
  BY <1>1
<1>2. CASE TeamInviteSave(r)
  <2> DEFINE row == [team |-> req[r].team, user |-> req[r].user,
                     role |-> req[r].roleId, status |-> "pending"]
  <2>1. CASE teamInvite' # teamInvite
    <3>1. PICK j \in FreshTeamInvite : teamInvite' = [teamInvite EXCEPT ![j] = row]
      BY <1>2, <2>1 DEF TeamInviteSave
    <3>2. teamInvite[j] = NoTeamInvite
      BY <3>1 DEF FreshTeamInvite, Least
    <3> QED
      BY <1>2, <1>t, <3>1, <3>2
  <2> QED
    BY <1>2, <2>1
<1>3. CASE RespondTeamSave(r)
  <2> DEFINE q == req[r]
             row == [team |-> q.team, user |-> q.user, role |-> q.roleId, status |-> q.status]
  <2>1. teamInvite[q.inv].status = "pending"
    BY <1>3 DEF RespondTeamSave, SerialClaim, WaitClaim
  <2>2. /\ q.inv \in TeamInviteIds
        /\ teamInvite[q.inv].team = q.team /\ teamInvite[q.inv].user = q.user
    BY <1>3, <1>t, <2>1 DEF RespondTeamSave, SafeInv, Claims, AnswerClaim
  <2>3. teamInvite' = teamInvite \/ teamInvite' = [teamInvite EXCEPT ![q.inv] = row]
    BY <1>3 DEF RespondTeamSave
  <2>4. row.team = q.team /\ row.user = q.user
    OBVIOUS
  <2> HIDE DEF row
  <2> QED
    BY <1>t, <2>1, <2>2, <2>3, <2>4
<1>4. CASE Deletes
  BY <1>t, <1>4 DEF Deletes, DeleteTeams
<1> QED
  BY <1>1, <1>2, <1>3, <1>4, InviteWriters

\* A row for user v in team s, inserted or not.
LEMMA RowInserted ==
  ASSUME TypeInv, NEW s \in Teams, NEW v \in Users, NEW id, NEW k,
         InsertTeamMember(s, v, id, k), NEW t \in Teams, NEW u \in Users
  PROVE  \/ teamMember'[t][u] = teamMember[t][u]
         \/ t = s /\ u = v /\ ~InTeam(t, u)
BY DEF TypeInv, TablesTypeOK, InsertTeamMember

\* The loaded row of user v in team s gets another role.
LEMMA RowChanged ==
  ASSUME SafeInv, NEW r \in Requests, SerialClaim(req[r]), MemberRoleSave(r)
  PROVE  LET q == req[r]
         IN  /\ q.team \in Teams /\ q.user \in Users /\ InTeam(q.team, q.user)
             /\ q.roleId \in RoleIds
             /\ \A t \in Teams, u \in Users :
                  \/ teamMember'[t][u] = teamMember[t][u]
                  \/ /\ t = q.team /\ u = q.user
                     /\ role[q.roleId] # NoRole
                     /\ teamMember'[t][u].role = q.roleId
<1> DEFINE q == req[r]
<1>1. q \in Request /\ GoodAt(q.at, q) /\ Claims(q) /\ q.at = "memberRoleSave"
  BY RecordTyped DEF SafeInv, MemberRoleSave
<1>2. q.team \in Teams /\ q.user \in Users /\ q.roleId \in RoleIds
  BY <1>1 DEF GoodAt
<1>3. InTeam(q.team, q.user) /\ teamMember[q.team][q.user].id = q.id
  BY <1>1 DEF SerialClaim, StaffClaim
<1>4. teamMember' = IF RoleKey(q.roleId)
                    THEN [teamMember EXCEPT ![q.team][q.user].role = q.roleId]
                    ELSE teamMember
  BY <1>3 DEF MemberRoleSave
<1>5. RoleKey(q.roleId) => RoleExists(q.roleId, q.team)
  BY <1>1 DEF RoleKey, SafeInv, Claims, RoleClaim, KnowsRole, RoleExists
<1>6. CASE RoleKey(q.roleId)
  <2> DEFINE row == [teamMember[q.team][q.user] EXCEPT !.role = q.roleId]
  <2>1. teamMember[q.team][q.user] \in TeamMemberRow
    BY <1>2, <1>3 DEF SafeInv, TypeInv, TablesTypeOK, InTeam
  <2>2. row.role = q.roleId
    BY <2>1 DEF TeamMemberRow
  <2>3. teamMember' = [teamMember EXCEPT ![q.team] = [@ EXCEPT ![q.user] = row]]
    BY <1>4, <1>6
  <2> HIDE DEF row
  <2>4. \A t \in Teams, u \in Users :
          \/ teamMember'[t][u] = teamMember[t][u]
          \/ t = q.team /\ u = q.user /\ teamMember'[t][u].role = q.roleId
    BY <1>2, <2>2, <2>3 DEF SafeInv, TypeInv, TablesTypeOK
  <2> QED
    BY <1>2, <1>3, <1>5, <1>6, <2>4 DEF RoleExists
<1>7. CASE ~RoleKey(q.roleId)
  BY <1>2, <1>3, <1>4, <1>7
<1> QED
  BY <1>6, <1>7

\* Rows that others had, or that are gone.
LEMMA RowsRemoved ==
  ASSUME TypeInv, NEW r \in Requests, RemoveTeamRows(r) \/ Kick(r) \/ Deletes,
         NEW t \in Teams, NEW u \in Users
  PROVE  \/ teamMember'[t][u] = teamMember[t][u]
         \/ teamMember'[t][u] = NoTeamMember
<1>1. CASE RemoveTeamRows(r)
  BY <1>1 DEF RemoveTeamRows, TypeInv, TablesTypeOK
<1>2. CASE Kick(r)
  BY <1>2 DEF Kick, TypeInv, TablesTypeOK
<1>3. CASE Deletes
  BY <1>3 DEF Deletes, DeleteTeams
<1> QED
  BY <1>1, <1>2, <1>3

\* Whoever comes into a team is in the workspace and awaits no other answer.
LEMMA MembersAfter ==
  ASSUME SafeInv, NEW r \in Requests, SerialClaim(req[r]), Step(r),
         NEW t \in Teams, NEW u \in Users, InTeam(t, u)'
  PROVE  InTeam(t, u) \/ (NonePending(t, u) /\ Has(u))
<1>a. TypeInv /\ req[r] \in Request /\ GoodAt(req[r].at, req[r])
  BY RecordTyped DEF SafeInv
<1>1. CASE teamMember' = teamMember
  BY <1>1 DEF InTeam
<1>2. CASE RemoveTeamRows(r) \/ Kick(r) \/ Deletes
  BY <1>a, <1>2, RowsRemoved DEF InTeam
<1>3. CASE TeamCreator(r)
  <2>1. req[r].team \in Teams /\ req[r].user \in Users
    BY <1>a, <1>3 DEF TeamCreator, GoodAt
  <2>2. InTeam(t, u) \/ (t = req[r].team /\ u = req[r].user)
    BY <1>a, <1>3, <2>1, RowInserted DEF TeamCreator, InTeam
  <2> QED
    BY <1>3, <2>2 DEF TeamCreator, SerialClaim, FoundClaim, Founding, NonePending, Pending
<1>4. CASE RespondTeamJoin(r)
  <2>1. req[r].team \in Teams /\ req[r].user \in Users
    BY <1>a, <1>4 DEF RespondTeamJoin, GoodAt
  <2>2. InTeam(t, u) \/ (t = req[r].team /\ u = req[r].user)
    BY <1>a, <1>4, <2>1, RowInserted DEF RespondTeamJoin, InTeam
  <2> QED
    BY <1>4, <2>2 DEF RespondTeamJoin, SerialClaim, FoundClaim, WaitClaim
<1>5. CASE MemberRoleSave(r)
  BY <1>5, RowChanged DEF InTeam
<1> QED
  BY <1>1, <1>2, <1>3, <1>4, <1>5, TeamMemberWriters

-----------------------------------------------------------------------------
(* The claims are inductive while one request is served at a time. *)

LEMMA OnePendingNext ==
  ASSUME SafeInv, OnePending, NEW r \in Requests, SerialClaim(req[r]), Step(r)
  PROVE  OnePending'
<1>1. CASE ~TeamInviteSave(r)
  <2>1. \A i \in TeamInviteIds :
          teamInvite'[i].status = "pending" =>
            /\ teamInvite[i].status = "pending"
            /\ teamInvite'[i].team = teamInvite[i].team
            /\ teamInvite'[i].user = teamInvite[i].user
    BY <1>1, InvitesAfter
  <2>2. \A t \in Teams, u \in Users : InTeam(t, u)' => NonePending(t, u)
    BY MembersAfter DEF OnePending
  <2> QED
    BY <2>1, <2>2 DEF OnePending, NonePending, Pending
<1>2. CASE TeamInviteSave(r)
  <2> DEFINE q == req[r]
             row == [team |-> q.team, user |-> q.user, role |-> q.roleId, status |-> "pending"]
  <2>1. ~InTeam(q.team, q.user) /\ NonePending(q.team, q.user) /\ teamMember' = teamMember
    BY <1>2 DEF TeamInviteSave, SerialClaim, WaitClaim
  <2>2. CASE teamInvite' = teamInvite
    BY <2>1, <2>2 DEF OnePending, NonePending, Pending, InTeam
  <2>3. CASE teamInvite' # teamInvite
    <3>1. PICK j \in FreshTeamInvite : teamInvite' = [teamInvite EXCEPT ![j] = row]
      BY <1>2, <2>3 DEF TeamInviteSave
    <3>2. row.team = q.team /\ row.user = q.user
      OBVIOUS
    <3> HIDE DEF row
    <3>3. \A i \in TeamInviteIds : teamInvite'[i] = IF i = j THEN row ELSE teamInvite[i]
      BY <3>1 DEF SafeInv, TypeInv, TablesTypeOK
    <3> QED
      BY <2>1, <3>2, <3>3 DEF OnePending, NonePending, Pending, InTeam
  <2> QED
    BY <2>2, <2>3
<1> QED
  BY <1>1, <1>2

\* Control points with a claim.
Claimed ==
  Founding \union
  {"teamSave", "respondTeamJoin", "teamInviteFind", "teamInviteSave", "respondTeamVerify",
   "respondTeamSave", "memberRoleRole", "memberRoleOwners", "memberRoleSave", "kick",
   "removeTeamRows", "removeRow"}

LEMMA Unclaimed ==
  ASSUME NEW r, req'[r].at \notin Claimed
  PROVE  SerialClaim(req[r])'
BY DEF Claimed, Founding, SerialClaim, FoundClaim, WaitClaim, StaffClaim, OutClaim

LEMMA ClaimAfterArrival ==
  ASSUME SafeInv, NEW r \in Requests, WorkspaceArrival(r) \/ TeamArrival(r)
  PROVE  SerialClaim(req[r])'
<1>1. Arrived(r) /\ UNCHANGED <<member, teamInvite>>
  BY Arrives, ArrivalWrites DEF SafeInv
<1>2. CASE req'[r].at \in {"teamSave", "respondTeamSave"}
  BY <1>1, <1>2
  DEF Arrived, SerialClaim, FoundClaim, WaitClaim, StaffClaim, OutClaim, Founding, Has
<1>3. CASE req'[r].at \notin {"teamSave", "respondTeamSave"}
  BY <1>1, <1>3, Unclaimed DEF Arrived, Entries, Claimed, Founding
<1> QED
  BY <1>2, <1>3

LEMMA ClaimAfterWorkspaceStep ==
  ASSUME SafeInv, NEW r \in Requests, SerialClaim(req[r]), WorkspaceStep(r)
  PROVE  SerialClaim(req[r])'
<1>a. TypeInv /\ req[r] \in Request /\ GoodAt(req[r].at, req[r])
  BY RecordTyped DEF SafeInv
<1> USE DEF Claimed, Founding
<1>1. CASE \/ CreateMember(r) \/ LeaveRemove(r) \/ RoleSave(r) \/ RemoveRow(r)
           \/ InviteSave(r) \/ RespondJoin(r) \/ DeleteWorkspaceTx(r)
  BY <1>1, <1>a, FinishMoves, Unclaimed
  DEF CreateMember, LeaveRemove, RoleSave, RemoveRow, InviteSave, RespondJoin, DeleteWorkspaceTx
<1>2. CASE LeaveCount(r) \/ RemoveCount(r) \/ InviteCheckMember(r)
  <2>1. \E ok : \E l \in {"leaveRemove", "removeTeams", "inviteFind"} : Check(r, ok, l)
    BY <1>2 DEF LeaveCount, RemoveCount, InviteCheckMember
  <2> QED
    BY <1>a, <2>1, CheckMoves, Unclaimed
<1>3. CASE RoleFind(r) \/ RemoveFind(r)
  <2>1. \/ Finish(r)
        \/ \E l \in {"roleSave", "removeCount", "removeTeams"} : \E a :
             req' = [req EXCEPT ![r].at = l, ![r].id = a]
    BY <1>3 DEF RoleFind, RemoveFind
  <2>2. ASSUME NEW l \in {"roleSave", "removeCount", "removeTeams"}, NEW a,
               req' = [req EXCEPT ![r].at = l, ![r].id = a]
        PROVE  req'[r].at \in {"idle", l}
    BY <1>a, <2>2, Moves
  <2> QED
    BY <1>a, <2>1, <2>2, FinishMoves, Unclaimed
<1>4. CASE RemoveTeams(r)
  <2> DEFINE p == [req[r] EXCEPT !.at = "removeTeamRows", !.teams = LiveTeams]
  <2>1. p.at = "removeTeamRows" /\ p.teams = LiveTeams
    BY <1>a DEF Request
  <2>2. req'[r] = p
    BY <1>4, <1>a DEF RemoveTeams, TypeInv
  <2>3. LiveTeams' = LiveTeams
    BY <1>4 DEF RemoveTeams, tables, LiveTeams
  <2> QED
    BY <2>1, <2>2, <2>3 DEF SerialClaim, FoundClaim, WaitClaim, StaffClaim, OutClaim
<1>5. CASE RemoveTeamRows(r)
  <2>1. req'[r].at = "removeRow" /\ req'[r].user = req[r].user
    BY <1>5, <1>a, AdvanceMoves DEF RemoveTeamRows
  <2>2. req[r].teams = LiveTeams /\ req[r].user \in Users
    BY <1>5, <1>a DEF RemoveTeamRows, GoodAt, SerialClaim, OutClaim
  <2>3. ASSUME NEW t \in Teams PROVE teamMember'[t][req[r].user] = NoTeamMember
    <3>1. CASE t \in LiveTeams
      BY <1>5, <1>a, <2>2, <3>1 DEF RemoveTeamRows, TypeInv, TablesTypeOK
    <3>2. CASE t \notin LiveTeams
      <4>1. teamMember[t][req[r].user] = NoTeamMember
        BY <2>2, <3>2 DEF SafeInv, NoOrphans, InTeam
      <4> QED
        BY <1>5, <2>2, <3>2, <4>1 DEF RemoveTeamRows
    <3> QED
      BY <3>1, <3>2
  <2> QED
    BY <2>1, <2>3 DEF SerialClaim, FoundClaim, WaitClaim, StaffClaim, OutClaim, InTeam
<1>6. CASE InviteFind(r)
  <2>1. Advance(r, "inviteSave") \/ \E ok : Check(r, ok, "inviteSave")
    BY <1>6 DEF InviteFind
  <2> QED
    BY <1>a, <2>1, AdvanceMoves, CheckMoves, Unclaimed
<1>7. CASE RespondSave(r)
  <2>1. Finish(r) \/ Advance(r, "respondJoin")
    BY <1>7 DEF RespondSave
  <2> QED
    BY <1>a, <2>1, FinishMoves, AdvanceMoves, Unclaimed
<1> QED
  BY <1>1, <1>2, <1>3, <1>4, <1>5, <1>6, <1>7 DEF WorkspaceStep

\* A request that goes on and writes no table takes its claims from what it has read.
LEMMA QuietClaim ==
  ASSUME NEW r, UNCHANGED tables, SerialClaim(req'[r])
  PROVE  SerialClaim(req[r])'
BY DEF tables, SerialClaim, FoundClaim, WaitClaim, StaffClaim, OutClaim, NonePending, Pending, Has,
       InTeam, NotTheOwner, TeamOwners, IsTeamOwner, RoleName, LiveTeams

\* A count of the owners other than one is not the user alone.
LEMMA CountedOwners ==
  ASSUME NEW t, NEW u, Cardinality(TeamOwners(t)) # 1
  PROVE  TeamOwners(t) # {u}
<1>1. Cardinality({u}) = 1
  BY FS_Singleton
<1> QED
  BY <1>1

LEMMA ClaimWhileFounding ==
  ASSUME SafeInv, NEW r \in Requests, SerialClaim(req[r]),
         TeamSave(r) \/ TeamOwnerRole(r) \/ TeamMemberRole(r) \/ TeamCreator(r)
  PROVE  SerialClaim(req[r])'
<1>a. TypeInv /\ req[r] \in Request
  BY RecordTyped DEF SafeInv
<1>0. CASE Finish(r)
  BY <1>0, <1>a, FinishMoves, Unclaimed DEF Claimed, Founding
<1>1. CASE TeamSave(r) /\ ~Finish(r)
  <2>1. PICK t \in FreshTeam : req' = [req EXCEPT ![r].at = "teamOwnerRole", ![r].team = t]
    BY <1>1 DEF TeamSave
  <2> DEFINE p == [req[r] EXCEPT !.at = "teamOwnerRole", !.team = t]
  <2>2. p.at = "teamOwnerRole" /\ p.team = t /\ p.user = req[r].user
    BY <1>a DEF Request
  <2>3. req'[r] = p
    BY <1>a, <2>1 DEF TypeInv
  <2>4. t \in Teams \ LiveTeams
    BY <2>1 DEF FreshTeam, Least, LiveTeams
  <2>5. \A i \in TeamInviteIds : teamInvite'[i].team # t
    BY <1>1, <2>4 DEF TeamSave, SafeInv, NoOrphans
  <2>6. Has(req[r].user) /\ member' = member
    BY <1>1 DEF TeamSave, SerialClaim, FoundClaim
  <2> HIDE DEF p
  <2> QED
    BY <2>2, <2>3, <2>5, <2>6
    DEF SerialClaim, FoundClaim, WaitClaim, StaffClaim, OutClaim, Has
<1>2. CASE TeamOwnerRole(r) /\ ~Finish(r)
  <2>1. PICK k : req' = [req EXCEPT ![r].at = "teamMemberRole", ![r].roleId = k]
    BY <1>2 DEF TeamOwnerRole
  <2> DEFINE p == [req[r] EXCEPT !.at = "teamMemberRole", !.roleId = k]
  <2>2. p.at = "teamMemberRole" /\ p.team = req[r].team /\ p.user = req[r].user
    BY <1>a DEF Request
  <2>3. req'[r] = p
    BY <1>a, <2>1 DEF TypeInv
  <2> HIDE DEF p
  <2> QED
    BY <1>2, <2>2, <2>3
    DEF TeamOwnerRole, SerialClaim, FoundClaim, WaitClaim, StaffClaim, OutClaim, Founding, Has
<1>3. CASE TeamMemberRole(r) /\ ~Finish(r)
  <2>1. /\ req'[r].at = "teamCreator" /\ req'[r].team = req[r].team
        /\ req'[r].user = req[r].user
    BY <1>3, <1>a, AdvanceMoves DEF TeamMemberRole
  <2> QED
    BY <1>3, <2>1
    DEF TeamMemberRole, SerialClaim, FoundClaim, WaitClaim, StaffClaim, OutClaim, Founding, Has
<1> QED
  BY <1>0, <1>1, <1>2, <1>3 DEF TeamCreator

LEMMA ClaimWhileInviting ==
  ASSUME SafeInv, OnePending, NEW r \in Requests, SerialClaim(req[r]),
         \/ TeamInviteRole(r) \/ TeamInviteUser(r) \/ TeamInviteMember(r)
         \/ TeamInviteFind(r) \/ TeamInviteSave(r)
         \/ RespondTeamSave(r) \/ RespondTeamVerify(r) \/ RespondTeamJoin(r)
  PROVE  SerialClaim(req[r])'
<1> DEFINE q == req[r]
<1>a. TypeInv /\ q \in Request
  BY RecordTyped DEF SafeInv
<1> USE DEF Claimed, Founding
<1>0. CASE Finish(r)
  BY <1>0, <1>a, FinishMoves, Unclaimed
<1>1. CASE TeamInviteRole(r) \/ TeamInviteUser(r)
  <2>1. \E ok : \E l \in {"teamInviteUser", "teamInviteMember"} : Check(r, ok, l)
    BY <1>1 DEF TeamInviteRole, TeamInviteUser
  <2> QED
    BY <1>a, <2>1, CheckMoves, Unclaimed
<1>2. CASE TeamInviteMember(r) /\ ~Finish(r)
  <2>1. /\ req'[r].at = "teamInviteFind" /\ req'[r].team = q.team /\ req'[r].user = q.user
        /\ ~InTeam(q.team, q.user) /\ UNCHANGED tables
    BY <1>2, <1>a, AdvanceMoves DEF TeamInviteMember, Check
  <2> QED
    BY <2>1, QuietClaim DEF SerialClaim, FoundClaim, WaitClaim, StaffClaim, OutClaim
<1>3. CASE TeamInviteFind(r) /\ ~Finish(r)
  <2>1. /\ req'[r].at = "teamInviteSave" /\ req'[r].team = q.team /\ req'[r].user = q.user
        /\ UNCHANGED tables
    BY <1>3, <1>a, AdvanceMoves DEF TeamInviteFind, Check
  <2>2. NonePending(q.team, q.user)
    BY <1>3 DEF TeamInviteFind, Check, NonePending, Pending
  <2>3. ~InTeam(q.team, q.user)
    BY <1>3 DEF TeamInviteFind, SerialClaim, WaitClaim
  <2> QED
    BY <2>1, <2>2, <2>3, QuietClaim DEF SerialClaim, FoundClaim, WaitClaim, StaffClaim, OutClaim
<1>4. CASE RespondTeamSave(r) /\ ~Finish(r)
  <2>1. /\ req'[r].at = "respondTeamVerify" /\ req'[r].team = q.team /\ req'[r].user = q.user
        /\ q.status = "accepted"
    BY <1>4, <1>a, AdvanceMoves DEF RespondTeamSave
  <2>2. /\ q.inv \in TeamInviteIds /\ teamInvite[q.inv].status = "pending"
        /\ teamInvite[q.inv].team = q.team /\ teamInvite[q.inv].user = q.user
    <3>1. teamInvite[q.inv].status = "pending"
      BY <1>4 DEF RespondTeamSave, SerialClaim, WaitClaim
    <3> QED
      BY <1>4, <3>1 DEF RespondTeamSave, SafeInv, Claims, AnswerClaim, NoTeamInvite
  <2>3. teamInvite'[q.inv].status = "accepted"
    BY <1>4, <1>a, <2>1, <2>2 DEF RespondTeamSave, TypeInv, TablesTypeOK
  <2>4. ASSUME NEW i \in TeamInviteIds, teamInvite'[i].status = "pending",
               teamInvite'[i].team = q.team, teamInvite'[i].user = q.user
        PROVE  FALSE
    <3>1. /\ teamInvite[i].status = "pending"
          /\ teamInvite[i].team = q.team /\ teamInvite[i].user = q.user
      <4>1. Step(r) /\ ~TeamInviteSave(r)
        BY <1>4 DEF Step, TeamStep, RespondTeamSave, TeamInviteSave
      <4> QED
        BY <2>4, <4>1, InvitesAfter
    <3>2. i = q.inv
      BY <2>2, <3>1 DEF OnePending, Pending
    <3> QED
      BY <2>3, <2>4, <3>2
  <2>5. \A i \in TeamInviteIds : ~Pending(i, req[r].team, req[r].user)'
    BY <2>1, <2>4 DEF Pending
  <2> QED
    BY <2>1, <2>5 DEF SerialClaim, FoundClaim, WaitClaim, StaffClaim, OutClaim, NonePending
<1>5. CASE RespondTeamVerify(r) /\ ~Finish(r)
  <2>1. /\ req'[r].at = "respondTeamJoin" /\ req'[r].team = q.team /\ req'[r].user = q.user
        /\ Has(q.user) /\ UNCHANGED tables
    BY <1>5, <1>a, AdvanceMoves DEF RespondTeamVerify, Check
  <2>2. NonePending(q.team, q.user)
    BY <1>5 DEF RespondTeamVerify, SerialClaim, WaitClaim
  <2> QED
    BY <2>1, <2>2, QuietClaim DEF SerialClaim, FoundClaim, WaitClaim, StaffClaim, OutClaim
<1> QED
  BY <1>0, <1>1, <1>2, <1>3, <1>4, <1>5 DEF TeamInviteSave, RespondTeamJoin

LEMMA ClaimWhileStaffing ==
  ASSUME SafeInv, NEW r \in Requests, SerialClaim(req[r]),
         \/ MemberRoleFind(r) \/ MemberRoleRole(r) \/ MemberRoleOwners(r) \/ MemberRoleSave(r)
         \/ KickFind(r) \/ KickOwners(r) \/ Kick(r)
  PROVE  SerialClaim(req[r])'
<1> DEFINE q == req[r]
           p == req'[r]
<1>a. TypeInv /\ q \in Request /\ GoodAt(q.at, q)
  BY RecordTyped DEF SafeInv
<1>0. CASE Finish(r)
  BY <1>0, <1>a, FinishMoves, Unclaimed DEF Claimed, Founding
<1>b. ~Finish(r) /\ ~MemberRoleSave(r) /\ ~Kick(r) => UNCHANGED tables
  BY DEF MemberRoleFind, MemberRoleRole, MemberRoleOwners, KickFind, KickOwners
<1>1. CASE MemberRoleFind(r) /\ ~Finish(r)
  <2> DEFINE c == [q EXCEPT !.at = "memberRoleRole", !.id = teamMember[q.team][q.user].id,
                            !.name = RoleName(q.team, q.user)]
  <2>1. InTeam(q.team, q.user) /\ p = c /\ UNCHANGED tables
    BY <1>1, <1>a DEF MemberRoleFind, TypeInv
  <2>2. /\ c.at = "memberRoleRole" /\ c.team = q.team /\ c.user = q.user
        /\ c.id = teamMember[q.team][q.user].id /\ c.name = RoleName(q.team, q.user)
    BY <1>a DEF Request
  <2> HIDE DEF c
  <2>3. SerialClaim(p)
    BY <2>1, <2>2
    DEF SerialClaim, FoundClaim, WaitClaim, StaffClaim, OutClaim, Founding
  <2> QED
    BY <2>1, <2>3, QuietClaim
<1>2. CASE MemberRoleRole(r) /\ ~Finish(r)
  <2> DEFINE demotes == q.name = "Owner" /\ role[q.roleId].name # "Owner"
             l == IF demotes THEN "memberRoleOwners" ELSE "memberRoleSave"
  <2>1. Advance(r, l) /\ UNCHANGED tables
    BY <1>2 DEF MemberRoleRole, Check
  <2>2. p.at = l /\ p.team = q.team /\ p.user = q.user /\ p.id = q.id /\ p.roleId = q.roleId
    BY <1>a, <2>1, AdvanceMoves
  <2>3. /\ InTeam(q.team, q.user) /\ teamMember[q.team][q.user].id = q.id
        /\ q.name = RoleName(q.team, q.user)
    BY <1>2 DEF MemberRoleRole, SerialClaim, StaffClaim
  <2>4. ~demotes => role[q.roleId].name = "Owner" \/ NotTheOwner(q)
    BY <2>3 DEF NotTheOwner, TeamOwners, IsTeamOwner
  <2>5. SerialClaim(p)
    BY <2>2, <2>3, <2>4
    DEF SerialClaim, FoundClaim, WaitClaim, StaffClaim, OutClaim, Founding, NotTheOwner
  <2> QED
    BY <2>1, <2>5, QuietClaim
<1>3. CASE MemberRoleOwners(r) /\ ~Finish(r)
  <2>1. Advance(r, "memberRoleSave") /\ UNCHANGED tables /\ OwnersCounted(q.team)
    BY <1>3 DEF MemberRoleOwners, Check
  <2>2. p.at = "memberRoleSave" /\ p.team = q.team /\ p.user = q.user /\ p.id = q.id
    BY <1>a, <2>1, AdvanceMoves
  <2>3. InTeam(q.team, q.user) /\ teamMember[q.team][q.user].id = q.id
    BY <1>3 DEF MemberRoleOwners, SerialClaim, StaffClaim
  <2>4. NotTheOwner(p)
    BY <2>1, <2>2, CountedOwners DEF OwnersCounted, NotTheOwner
  <2>5. SerialClaim(p)
    BY <2>2, <2>3, <2>4
    DEF SerialClaim, FoundClaim, WaitClaim, StaffClaim, OutClaim, Founding
  <2> QED
    BY <2>1, <2>5, QuietClaim
<1>4. CASE KickFind(r) /\ ~Finish(r)
  <2> DEFINE l == IF IsTeamOwner(q.team, q.user) THEN "kickOwners" ELSE "kick"
             c == [q EXCEPT !.at = l, !.id = teamMember[q.team][q.user].id]
  <2>1. p = c /\ UNCHANGED tables
    BY <1>4, <1>a DEF KickFind, TypeInv
  <2>2. c.at = l /\ c.team = q.team /\ c.user = q.user
    BY <1>a DEF Request
  <2> HIDE DEF c
  <2>3. l = "kick" => NotTheOwner(q)
    BY DEF NotTheOwner, TeamOwners
  <2>4. SerialClaim(p)
    BY <2>1, <2>2, <2>3
    DEF SerialClaim, FoundClaim, WaitClaim, StaffClaim, OutClaim, Founding, NotTheOwner
  <2> QED
    BY <2>1, <2>4, QuietClaim
<1>5. CASE KickOwners(r) /\ ~Finish(r)
  <2>1. Advance(r, "kick") /\ UNCHANGED tables /\ OwnersCounted(q.team)
    BY <1>5 DEF KickOwners, Check
  <2>2. p.at = "kick" /\ p.team = q.team /\ p.user = q.user
    BY <1>a, <2>1, AdvanceMoves
  <2>3. NotTheOwner(p)
    BY <2>1, <2>2, CountedOwners DEF OwnersCounted, NotTheOwner
  <2>4. SerialClaim(p)
    BY <2>2, <2>3 DEF SerialClaim, FoundClaim, WaitClaim, StaffClaim, OutClaim, Founding
  <2> QED
    BY <2>1, <2>4, QuietClaim
<1> QED
  BY <1>0, <1>1, <1>2, <1>3, <1>4, <1>5 DEF MemberRoleSave, Kick

LEMMA ClaimNext ==
  ASSUME SafeInv, OnePending, NEW r \in Requests, SerialClaim(req[r]), Step(r)
  PROVE  SerialClaim(req[r])'
<1>a. TypeInv
  BY DEF SafeInv
<1> USE DEF Claimed, Founding
<1>1. CASE Finish(r)
  BY <1>1, <1>a, FinishMoves, Unclaimed
<1>2. CASE EditRoleFind(r) \/ DropRoleFind(r) \/ DropRoleCount(r)
  <2>1. \E ok : \E l \in {"editDefaultSave", "editRoleSave", "dropRoleCount", "dropRole"} :
          Check(r, ok, l)
    BY <1>2 DEF EditRoleFind, DropRoleFind, DropRoleCount
  <2> QED
    BY <1>a, <2>1, CheckMoves, Unclaimed
<1>3. DeleteTeamTx(r) \/ NewRole(r) \/ EditRoleSave(r) \/ DropRole(r) \/ Fail(r) => Finish(r)
  BY DEF DeleteTeamTx, NewRole, EditRoleSave, DropRole, Fail
<1>4. TeamStep(r) => SerialClaim(req[r])'
  BY <1>1, <1>2, <1>3, ClaimWhileFounding, ClaimWhileInviting, ClaimWhileStaffing DEF TeamStep
<1> QED
  BY <1>1, <1>3, <1>4, ClaimAfterArrival, ClaimAfterWorkspaceStep DEF Step

LEMMA SerialInit == TablesInit => SerialInv
BY DEF TablesInit, SerialInv, OnePending, Pending, NonePending, InTeam, NoTeamInvite, SerialClaim,
       FoundClaim, WaitClaim, StaffClaim, OutClaim, Founding, Idle

LEMMA SerialNext ==
  ASSUME NEW CONSTANT one, Requests = {one}, SafeInv, SerialInv, [Next]_vars
  PROVE  SerialInv'
<1>1. CASE UNCHANGED vars
  BY <1>1
  DEF vars, SerialInv, OnePending, Pending, NonePending, Has, InTeam, NotTheOwner, TeamOwners,
      IsTeamOwner, RoleName, LiveTeams, SerialClaim, FoundClaim, WaitClaim, StaffClaim, OutClaim
<1>2. CASE Next
  <2>1. Step(one) /\ SerialClaim(req[one])
    BY <1>2 DEF Next, Step, SerialInv
  <2>2. OnePending' /\ SerialClaim(req[one])'
    BY <2>1, OnePendingNext, ClaimNext DEF SerialInv
  <2> QED
    BY <2>2 DEF SerialInv
<1> QED
  BY <1>1, <1>2

\* While requests are served one by one, whatever a request has read about a team,
\* its members and its invitations is still so when it acts upon it.
THEOREM SerialInvariant ==
  ASSUME NEW CONSTANT one, Requests = {one}
  PROVE  Keyed /\ Spec => [](SafeInv /\ SerialInv)
<1>1. Keyed /\ TablesInit => SafeInv /\ SerialInv
  BY InitSafe, SerialInit
<1>2. SafeInv /\ SerialInv /\ [Next]_vars => (SafeInv /\ SerialInv)'
  BY NextSafe, SerialNext
<1> QED
  BY <1>1, <1>2, PTL DEF Spec

\* A user is asked once at a time into a team, and never when already inside.
THEOREM OneTeamInvitePending ==
  ASSUME NEW CONSTANT one, Requests = {one}
  PROVE  Keyed /\ Spec => []OnePendingTeamInvite
<1>1. SafeInv /\ SerialInv => OnePendingTeamInvite
  <2> SUFFICES ASSUME SafeInv, SerialInv, NEW t \in Teams, NEW u \in Users
               PROVE  LET pending == {i \in TeamInviteIds : /\ teamInvite[i].team = t
                                                            /\ teamInvite[i].user = u
                                                            /\ teamInvite[i].status = "pending"}
                      IN  /\ Cardinality(pending) <= 1
                          /\ InTeam(t, u) => pending = {}
    BY DEF OnePendingTeamInvite
  <2> DEFINE pending == {i \in TeamInviteIds : /\ teamInvite[i].team = t
                                               /\ teamInvite[i].user = u
                                               /\ teamInvite[i].status = "pending"}
  <2>1. InTeam(t, u) => pending = {}
    BY DEF SerialInv, OnePending, NonePending, Pending
  <2>2. pending = {} \/ \E i : pending = {i}
    BY DEF SerialInv, OnePending, Pending
  <2>3. Cardinality(pending) <= 1
    <3> HIDE DEF pending
    <3>1. \A i : Cardinality({i}) = 1
      BY FS_Singleton
    <3>2. Cardinality({}) = 0
      BY FS_EmptySet
    <3> QED
      BY <2>2, <3>1, <3>2
  <2> QED
    BY <2>1, <2>3
<1> QED
  BY <1>1, SerialInvariant, PTL

\* An answer to a team invitation is final.
THEOREM AnsweredOnlyOnce ==
  ASSUME NEW CONSTANT one, Requests = {one}
  PROVE  Keyed /\ Spec => AnsweredOnce
<1> DEFINE Final == \A i \in TeamInviteIds :
                      teamInvite[i].status \in {"accepted", "rejected"}
                        => teamInvite'[i].status \in {teamInvite[i].status, "none"}
<1>1. SafeInv /\ SerialInv /\ [Next]_vars => [Final]_vars
  <2> SUFFICES ASSUME SafeInv, SerialInv, Next PROVE Final
    OBVIOUS
  <2>1. Step(one) /\ SerialClaim(req[one])
    BY DEF Next, Step, SerialInv
  <2> QED
    BY <2>1, InvitesAfter
<1> QED
  BY <1>1, SerialInvariant, PTL DEF Spec, AnsweredOnce

\* Who is in a team after a step and not in the workspace was so before, or leaves.
LEMMA OutsidersAfter ==
  ASSUME SafeInv, SafeInv', NEW r \in Requests, SerialClaim(req[r]), Step(r),
         req[r].at # "leaveRemove", NEW t \in Teams, NEW u \in Users, InTeam(t, u)', ~Has(u)'
  PROVE  InTeam(t, u) /\ ~Has(u)
<1>a. /\ member \in [Users -> MemberRow \union {NoMember}]
      /\ NoMember.id = 0 /\ 0 \notin RowIds
  BY IdAssumption DEF SafeInv, TypeInv, TablesTypeOK, NoMember
<1>1. Has(u) => FALSE
  <2> SUFFICES ASSUME Has(u) PROVE FALSE
    OBVIOUS
  <2>1. CASE member' = member
    BY <2>1 DEF Has
  <2>2. CASE CreateMember(r) \/ RespondJoin(r)
    <3>1. \E v, id, ro : InsertMember(v, id, ro)
      BY <2>2 DEF CreateMember, RespondJoin
    <3> QED
      BY <1>a, <3>1 DEF InsertMember, Has
  <2>3. CASE RoleSave(r)
    <3> DEFINE v == req[r].user
               row == [member[v] EXCEPT !.role = req[r].wsRole]
    <3>1. v \in Users /\ req[r].id \in RowIds
      BY <2>3, RecordTyped DEF SafeInv, RoleSave, GoodAt
    <3>2. \/ member[v].id = req[r].id /\ member' = [member EXCEPT ![v] = row]
          \/ InsertMember(v, req[r].id, req[r].wsRole)
      BY <2>3 DEF RoleSave
    <3>3. CASE InsertMember(v, req[r].id, req[r].wsRole)
      BY <1>a, <3>3 DEF InsertMember, Has
    <3>4. CASE member[v].id = req[r].id /\ member' = [member EXCEPT ![v] = row]
      <4>1. row.id = req[r].id
        BY <1>a, <3>1, <3>4 DEF MemberRow, NoMember
      <4>2. row # NoMember
        BY <1>a, <3>1, <4>1
      <4> HIDE DEF row
      <4> QED
        BY <1>a, <3>4, <4>2 DEF Has
    <3> QED
      BY <3>2, <3>3, <3>4
  <2>4. CASE RemoveRow(r)
    <3>1. teamMember' = teamMember /\ ~InTeam(t, req[r].user)
      BY <2>4 DEF RemoveRow, SerialClaim, OutClaim
    <3>2. u = req[r].user
      BY <2>4, <1>a DEF RemoveRow, RemoveLoadedMember, Has
    <3> QED
      BY <3>1, <3>2 DEF InTeam
  <2>5. CASE DeleteWorkspaceTx(r) /\ Live
    <3>1. ~Live'
      BY <2>5 DEF DeleteWorkspaceTx, Live, SafeInv, TypeInv, TablesTypeOK
    <3> QED
      BY <3>1 DEF SafeInv, NoOrphans, LiveTeams
  <2> QED
    BY <2>1, <2>2, <2>3, <2>4, <2>5, MemberWriters DEF LeaveRemove
<1> QED
  BY <1>1, MembersAfter

\* leaveWorkspace is the only handler that leaves somebody in a team who is not in
\* the workspace.
THEOREM OnlyLeaversStay ==
  ASSUME NEW CONSTANT one, Requests = {one}
  PROVE  Keyed /\ Spec => OutsidersHaveLeft
<1> DEFINE Left == \A t \in Teams, u \in Users :
                     InTeam(t, u)' /\ ~Has(u)' /\ ~(InTeam(t, u) /\ ~Has(u))
                       => \E r \in Requests : req[r].at = "leaveRemove"
<1>1. SafeInv /\ SerialInv /\ [Next]_vars => [Left]_vars
  <2> SUFFICES ASSUME SafeInv, SerialInv, Next PROVE Left
    OBVIOUS
  <2>1. Step(one) /\ SerialClaim(req[one]) /\ SafeInv'
    BY NextSafe DEF Next, Step, SerialInv
  <2> QED
    BY <2>1, OutsidersAfter
<1> QED
  BY <1>1, SerialInvariant, PTL DEF Spec, OutsidersHaveLeft

-----------------------------------------------------------------------------
(* The owners of a team. *)

\* A member whose role is untouched keeps its name.
LEMMA OwnerStays ==
  ASSUME NEW t, NEW u, IsTeamOwner(t, u), teamMember'[t][u] = teamMember[t][u],
         role'[teamMember[t][u].role] = role[teamMember[t][u].role]
  PROVE  IsTeamOwner(t, u)'
BY DEF IsTeamOwner, InTeam, RoleName

\* Steps on roles leave the role of a member alone, but for updateRole.
LEMMA HeldRoles ==
  ASSUME SafeInv, NEW r \in Requests, Step(r), ~EditRoleSave(r),
         NEW t \in Teams, NEW u \in Users, InTeam(t, u), team'[t] = "live"
  PROVE  role'[teamMember[t][u].role] = role[teamMember[t][u].role]
<1> DEFINE k == teamMember[t][u].role
<1>a. k \in RoleIds /\ HasHolder(k) /\ RoleExists(k, t)
  BY DEF SafeInv, TypeInv, TablesTypeOK, InTeam, TeamMemberRow, HasHolder, RolesMatchTeams
<1>b. role \in [RoleIds -> Role \union {NoRole}]
  BY DEF SafeInv, TypeInv, TablesTypeOK
<1>1. CASE role' = role
  BY <1>1
<1>2. CASE TeamOwnerRole(r) \/ TeamMemberRole(r) \/ NewRole(r)
  <2>1. role' = role \/ \E j \in FreshRole : \E s, nm, d : InsertRole(j, s, nm, d)
    BY <1>2 DEF TeamOwnerRole, TeamMemberRole, NewRole
  <2>2. \A j \in FreshRole : role[j] = NoRole
    BY DEF FreshRole, Least
  <2>3. \A j \in FreshRole : j # k
    BY <1>a, <2>2 DEF RoleExists
  <2> QED
    BY <1>a, <1>b, <2>1, <2>3 DEF InsertRole
<1>3. CASE DropRole(r)
  <2>1. role' = role \/ (~HasHolder(req[r].roleId) /\ role' = [role EXCEPT ![req[r].roleId] = NoRole])
    BY <1>3 DEF DropRole, SafeInv
  <2> QED
    BY <1>a, <1>b, <2>1
<1>4. CASE Deletes
  <2>1. PICK S : DeleteTeams(S)
    BY <1>4 DEF Deletes
  <2>2. t \notin S
    BY <2>1 DEF DeleteTeams
  <2> QED
    BY <1>a, <2>1, <2>2 DEF DeleteTeams, RoleExists
<1> QED
  BY <1>1, <1>2, <1>3, <1>4, RoleWriters

\* A step other than those the property names leaves a team some owner.
LEMMA OwnersAfter ==
  ASSUME SafeInv, SafeInv', NEW r \in Requests, SerialClaim(req[r]), Step(r),
         ~RemoveTeamRows(r), ~EditRoleSave(r),
         NEW t \in Teams, team'[t] = "live", NEW v \in TeamOwners(t)
  PROVE  TeamOwners(t)' # {}
<1> DEFINE q == req[r]
<1>a. TypeInv /\ v \in Users /\ IsTeamOwner(t, v) /\ InTeam(t, v)
  BY DEF SafeInv, TeamOwners, IsTeamOwner
<1>s. SUFFICES \E u \in Users : IsTeamOwner(t, u)'
  BY DEF TeamOwners
<1>k. ASSUME NEW u \in TeamOwners(t), teamMember'[t][u] = teamMember[t][u]
      PROVE  IsTeamOwner(t, u)'
  <2>1. u \in Users /\ IsTeamOwner(t, u) /\ InTeam(t, u)
    BY DEF TeamOwners, IsTeamOwner
  <2> QED
    BY <1>k, <2>1, HeldRoles, OwnerStays
<1>1. CASE teamMember'[t][v] = teamMember[t][v]
  BY <1>1, <1>a, <1>k
<1>2. CASE teamMember'[t][v] # teamMember[t][v] /\ Kick(r)
  <2>1. q.team \in Teams /\ q.user \in Users
    BY <1>2, <1>a, RecordTyped DEF Kick, GoodAt
  <2>2. \A s \in Teams, u \in Users :
          s # q.team \/ u # q.user => teamMember'[s][u] = teamMember[s][u]
    BY <1>2, <1>a DEF Kick, TypeInv, TablesTypeOK
  <2>3. t = q.team /\ v = q.user
    BY <1>2, <1>a, <2>2
  <2>4. TeamOwners(t) # {v}
    BY <1>2, <2>3 DEF Kick, SerialClaim, StaffClaim, NotTheOwner
  <2>5. PICK u \in TeamOwners(t) : u # v
    BY <2>4
  <2>6. u \in Users
    BY DEF TeamOwners
  <2> QED
    BY <1>k, <2>2, <2>3, <2>5, <2>6
<1>3. CASE teamMember'[t][v] # teamMember[t][v] /\ MemberRoleSave(r)
  <2>1. \A s \in Teams, u \in Users :
          \/ teamMember'[s][u] = teamMember[s][u]
          \/ /\ s = q.team /\ u = q.user
             /\ role[q.roleId] # NoRole /\ teamMember'[s][u].role = q.roleId
    BY <1>3, RowChanged
  <2>2. t = q.team /\ v = q.user /\ teamMember'[t][v].role = q.roleId
    BY <1>3, <1>a, <2>1
  <2>3. TeamOwners(t) # {v} \/ role[q.roleId].name = "Owner"
    BY <1>3, <2>2 DEF MemberRoleSave, SerialClaim, StaffClaim, NotTheOwner
  <2>4. CASE TeamOwners(t) # {v}
    <3>1. PICK u \in TeamOwners(t) : u # v
      BY <2>4
    <3>2. u \in Users
      BY DEF TeamOwners
    <3> QED
      BY <1>k, <2>1, <2>2, <3>1, <3>2
  <2>5. CASE role[q.roleId].name = "Owner"
    <3>1. InTeam(t, v)'
      <4>1. teamMember'[t][v].role \in RoleIds
        BY <1>3, <1>a, <2>2, RecordTyped DEF MemberRoleSave, GoodAt
      <4> QED
        BY <4>1, IdAssumption DEF InTeam, NoTeamMember
    <3>2. role' = role
      BY <1>3 DEF MemberRoleSave
    <3> QED
      BY <1>a, <2>2, <2>5, <3>1, <3>2 DEF IsTeamOwner, RoleName
  <2> QED
    BY <2>3, <2>4, <2>5
<1>4. CASE teamMember'[t][v] # teamMember[t][v] /\ Deletes
  <2>1. PICK S : DeleteTeams(S)
    BY <1>4 DEF Deletes
  <2>2. t \notin S
    BY <2>1 DEF DeleteTeams
  <2> QED
    BY <1>4, <2>1, <2>2 DEF DeleteTeams
<1>5. CASE teamMember'[t][v] # teamMember[t][v] /\ (TeamCreator(r) \/ RespondTeamJoin(r))
  <2>1. q.team \in Teams /\ q.user \in Users
    BY <1>5, <1>a, RecordTyped DEF TeamCreator, RespondTeamJoin, GoodAt
  <2>2. \E id : InsertTeamMember(q.team, q.user, id, q.roleId)
    BY <1>5 DEF TeamCreator, RespondTeamJoin
  <2> QED
    BY <1>5, <1>a, <2>1, <2>2, RowInserted
<1> QED
  BY <1>1, <1>2, <1>3, <1>4, <1>5, TeamMemberWriters

\* A team loses its last owner only with the owner's membership of the workspace, or
\* when a role is renamed.
THEOREM TeamOwnersKept ==
  ASSUME NEW CONSTANT one, Requests = {one}
  PROVE  Keyed /\ Spec => TeamOwnerKept
<1> DEFINE Kept == \A t \in Teams :
                     TeamOwners(t) # {} /\ team'[t] = "live" /\ TeamOwners(t)' = {}
                       => \E r \in Requests : req[r].at \in {"removeTeamRows", "editRoleSave",
                                                             "editDefaultSave"}
<1>1. SafeInv /\ SerialInv /\ [Next]_vars => [Kept]_vars
  <2> SUFFICES ASSUME SafeInv, SerialInv, Next PROVE Kept
    OBVIOUS
  <2>1. Step(one) /\ SerialClaim(req[one]) /\ SafeInv'
    BY NextSafe DEF Next, Step, SerialInv
  <2>2. RemoveTeamRows(one) \/ EditRoleSave(one) =>
          req[one].at \in {"removeTeamRows", "editRoleSave", "editDefaultSave"}
    BY DEF RemoveTeamRows, EditRoleSave
  <2> QED
    BY <2>1, <2>2, OwnersAfter
<1> QED
  BY <1>1, SerialInvariant, PTL DEF Spec, TeamOwnerKept
=============================================================================
