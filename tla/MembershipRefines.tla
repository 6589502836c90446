-------------------------- MODULE MembershipRefines -------------------------
(***************************************************************************)
(* Proof that a workspace whose owner-taking handlers exclude one another  *)
(* is an OwnedGroup, and so keeps an owner until it is deleted.            *)
(***************************************************************************)
EXTENDS MembershipSafety, FiniteSetTheorems

-----------------------------------------------------------------------------
(* The inductive invariant: what is left of the checks of a request that   *)
(* offers, takes up, changes or ends a membership, as long as no second    *)
(* request that takes owners away runs beside it.                          *)

AnotherOwner(u) == \E w \in Owners : w # u

\* Somebody was an owner when the caller was looked up.
OwnerClaim(q) ==
  q.at \in {"deleteWorkspace", "inviteMember", "inviteFind", "inviteSave"}
    => Owners # {}

\* The user was offered the role.
OfferClaim(q) ==
  /\ q.at = "createMember" => q.user = workspace.owner
  /\ q.at \in {"respondSave", "respondJoin"} =>
       \E i \in InviteIds : /\ invite[i] # NoInvite
                            /\ invite[i].user = q.user
                            /\ invite[i].role = q.wsRole

\* The caller is an owner next to the user, whose row is still there.
RoleChangeClaim(q) ==
  /\ q.at \in {"roleFind", "roleSave"} => AnotherOwner(q.user)
  /\ q.at = "roleSave" => member[q.user].id = q.id

\* The row that was loaded is not the last owner's.
DepartureClaim(q) ==
  q.at \in {"leaveRemove", "removeTeams", "removeTeamRows", "removeRow"}
    => \/ member[q.user].id # q.id
       \/ member[q.user].role # "owner"
       \/ AnotherOwner(q.user)

GroupClaim(q) ==
  Live => OwnerClaim(q) /\ OfferClaim(q) /\ RoleChangeClaim(q) /\ DepartureClaim(q)

GroupInv == SafeInv /\ Exclusive /\ \A r \in Requests : GroupClaim(req[r])

-----------------------------------------------------------------------------
(* What a step of request r may do to the people of the workspace. *)

Offered ==
  {<<invite[i].user, invite[i].role>> : i \in {j \in InviteIds : invite[j] # NoInvite}}
    \union (IF Live THEN {<<workspace.owner, "owner">>} ELSE {})

Stays == UNCHANGED <<workspace, member, invite>>

Founds(u) ==
  /\ workspace.state = "none"
  /\ workspace' = [state |-> "live", owner |-> u]
  /\ UNCHANGED <<member, invite>>

Enters(v, row) ==
  /\ Live /\ ~Has(v) /\ <<v, row.role>> \in Offered
  /\ \A x \in Requests : req[x].id # row.id
  /\ member' = [member EXCEPT ![v] = row]
  /\ UNCHANGED <<workspace, invite>>

\* The row of v is replaced by one with the same key, or by none.
Moves(r, v, row) ==
  /\ Live /\ Has(v)
  /\ row.role \in {"none", "member", "owner"}
  /\ member[v].role = "owner" \/ row.role # "none" => AnotherOwner(v)
  /\ req[r].at \in TakesOwner
  /\ member' = [member EXCEPT ![v] = row]
  /\ UNCHANGED <<workspace, invite>>

Invites(i, row) ==
  /\ Live /\ Owners # {} /\ invite[i] = NoInvite
  /\ row \in Invite
  /\ invite' = [invite EXCEPT ![i] = row]
  /\ UNCHANGED <<workspace, member>>

Answers ==
  /\ \A i \in InviteIds :
       /\ invite[i] = NoInvite <=> invite'[i] = NoInvite
       /\ invite'[i].user = invite[i].user /\ invite'[i].role = invite[i].role
  /\ UNCHANGED <<workspace, member>>

Ends ==
  /\ Live /\ Owners # {}
  /\ workspace' = [workspace EXCEPT !.state = "deleted"]
  /\ member' = [u \in Users |-> NoMember]
  /\ invite' = [i \in InviteIds |-> NoInvite]

Effect(r) ==
  \/ Stays
  \/ \E u \in Users : Founds(u)
  \/ \E v \in Users, row \in MemberRow : Enters(v, row)
  \/ \E v \in Users, row \in MemberRow \union {NoMember} : Moves(r, v, row)
  \/ \E i \in InviteIds, row \in Invite : Invites(i, row)
  \/ Answers
  \/ Ends

-----------------------------------------------------------------------------
(* Such steps keep an owner, keep the claims of the other requests, and    *)
(* are steps of OwnedGroup.                                                *)

LEMMA RowsType ==
  ASSUME SafeInv
  PROVE  /\ workspace \in [state: {"none", "live", "deleted"},
                           owner: Users \union {NoUser}]
         /\ member \in [Users -> MemberRow \union {NoMember}]
         /\ invite \in [InviteIds -> Invite \union {NoInvite}]
         /\ \A u \in Users : u \in Owners <=> member[u].role = "owner"
         /\ \A u \in Users : u \in Owners => Has(u)
         /\ \A r \in Requests : req[r] \in Request /\ GoodAt(req[r].at, req[r])
  BY DEF SafeInv, TypeInv, TablesTypeOK, Owners, GoodRequest, Has, NoMember

\* How a write of one member row changes the set of owners.
LEMMA OwnersAfter ==
  ASSUME SafeInv, NEW v \in Users, NEW row,
         member' = [member EXCEPT ![v] = row]
  PROVE  /\ \A u \in Users : member'[u] = IF u = v THEN row ELSE member[u]
         /\ \A u \in Users \ {v} : u \in Owners' <=> u \in Owners
         /\ v \in Owners' <=> row.role = "owner"
  BY RowsType DEF Owners

LEMMA OwnerKept ==
  ASSUME SafeInv, NEW r, Effect(r), Owners # {}, workspace'.state = "live"
  PROVE  Owners' # {}
<1>1. CASE Stays \/ Answers \/ (\E u \in Users : Founds(u))
           \/ (\E i \in InviteIds, row \in Invite : Invites(i, row))
  BY <1>1 DEF Stays, Answers, Founds, Invites, Owners
<1>2. ASSUME NEW v \in Users, NEW row, Enters(v, row) PROVE Owners' # {}
  <2>1. PICK w \in Owners : TRUE
    OBVIOUS
  <2>2. w \in Users /\ w # v
    BY <1>2, <2>1, RowsType DEF Enters, Owners
  <2> QED BY <1>2, <2>1, <2>2, OwnersAfter DEF Enters
<1>3. ASSUME NEW v \in Users, NEW row, Moves(r, v, row) PROVE Owners' # {}
  <2>1. PICK w \in Owners : w # v
    BY <1>3, RowsType DEF Moves, AnotherOwner, Owners
  <2>2. w \in Users
    BY DEF Owners
  <2> QED BY <1>3, <2>1, <2>2, OwnersAfter DEF Moves
<1>4. CASE Ends
  BY <1>4, RowsType DEF Ends
<1> QED BY <1>1, <1>2, <1>3, <1>4 DEF Effect

\* The claim of a request that did not take the step.
LEMMA OthersKeep ==
  ASSUME GroupInv, NEW r \in Requests, Effect(r), NEW x \in Requests \ {r},
         NEW q, q = req[x]
  PROVE  GroupClaim(q)'
<1>q. /\ GroupClaim(q) /\ GoodAt(q.at, q) /\ q \in Request
      /\ SafeInv
  BY RowsType, IdAssumption DEF GroupInv
<1>l. SUFFICES ASSUME Live'
             PROVE  (OwnerClaim(q) /\ OfferClaim(q) /\ RoleChangeClaim(q)
                       /\ DepartureClaim(q))'
  BY DEF GroupClaim
<1>1. CASE Stays
  BY <1>1, <1>q, <1>l
  DEF Stays, GroupClaim, OwnerClaim, OfferClaim, RoleChangeClaim, DepartureClaim,
      AnotherOwner, Owners, Live
<1>2. CASE \E u \in Users : Founds(u)
  <2>1. q.at = "idle"
    BY <1>2, <1>q DEF Founds, SafeInv, Claims, StartClaim
  <2> QED BY <2>1 DEF OwnerClaim, OfferClaim, RoleChangeClaim, DepartureClaim
<1>3. ASSUME NEW v \in Users, NEW row \in MemberRow, Enters(v, row)
      PROVE  (OwnerClaim(q) /\ OfferClaim(q) /\ RoleChangeClaim(q)
                /\ DepartureClaim(q))'
  <2>1. /\ Live /\ q.id # row.id /\ UNCHANGED <<workspace, invite>>
        /\ \A u \in Users : u \in Owners => u \in Owners'
        /\ \A u \in Users : member'[u] = IF u = v THEN row ELSE member[u]
    BY <1>3, <1>q, OwnersAfter, RowsType DEF Enters
  <2>2. /\ q.at \in {"roleFind", "roleSave", "leaveRemove", "removeTeams",
                     "removeTeamRows", "removeRow"} => q.user \in Users
        /\ q.at = "roleSave" => q.id \in RowIds
    BY <1>q DEF GoodAt
  <2>3. q.user \in Users /\ AnotherOwner(q.user) => AnotherOwner(q.user)'
    BY <2>1 DEF AnotherOwner, Owners
  <2>4. OwnerClaim(q)' /\ OfferClaim(q)'
    BY <1>q, <2>1 DEF GroupClaim, OwnerClaim, OfferClaim, Owners
  <2>5. RoleChangeClaim(q)'
    <3>1. CASE q.at = "roleSave"
      <4>1. q.user # v
        BY <1>3, <1>q, <2>1, <2>2, <3>1, IdAssumption
        DEF Enters, Has, NoMember, GroupClaim, RoleChangeClaim
      <4> QED BY <1>q, <2>1, <2>2, <2>3, <3>1, <4>1 DEF GroupClaim, RoleChangeClaim
    <3>2. CASE q.at # "roleSave"
      BY <1>q, <2>1, <2>2, <2>3, <3>2 DEF GroupClaim, RoleChangeClaim
    <3> QED BY <3>1, <3>2
  <2>6. DepartureClaim(q)'
    BY <1>q, <2>1, <2>2, <2>3 DEF GroupClaim, DepartureClaim
  <2> QED BY <2>4, <2>5, <2>6
<1>4. ASSUME NEW v \in Users, NEW row, Moves(r, v, row)
      PROVE  (OwnerClaim(q) /\ OfferClaim(q) /\ RoleChangeClaim(q)
                /\ DepartureClaim(q))'
  <2>1. q.at \notin TakesOwner
    BY <1>4 DEF GroupInv, Exclusive, Moves
  <2>2. OwnerClaim(q)'
    BY <1>4, <1>q, OwnerKept DEF Moves, GroupClaim, OwnerClaim, Live
  <2>3. OfferClaim(q)'
    BY <1>4, <1>q DEF Moves, GroupClaim, OfferClaim
  <2>4. RoleChangeClaim(q)' /\ DepartureClaim(q)'
    BY <2>1 DEF TakesOwner, RoleChangeClaim, DepartureClaim
  <2> QED BY <2>2, <2>3, <2>4
<1>5. ASSUME NEW i \in InviteIds, NEW row \in Invite, Invites(i, row)
      PROVE  (OwnerClaim(q) /\ OfferClaim(q) /\ RoleChangeClaim(q)
                /\ DepartureClaim(q))'
  <2>1. \A j \in InviteIds : invite[j] # NoInvite => invite'[j] = invite[j]
    BY <1>5, RowsType, <1>q DEF Invites
  <2> QED
    BY <1>5, <1>q, <2>1
    DEF Invites, GroupClaim, OwnerClaim, OfferClaim, RoleChangeClaim, DepartureClaim,
        AnotherOwner, Owners
<1>6. CASE Answers
  BY <1>6, <1>q, <1>l
  DEF Answers, GroupClaim, OwnerClaim, OfferClaim, RoleChangeClaim, DepartureClaim,
      AnotherOwner, Owners, Live
<1>7. CASE Ends
  BY <1>7, <1>l, <1>q, RowsType DEF Ends, Live
<1> QED BY <1>1, <1>2, <1>3, <1>4, <1>5, <1>6, <1>7 DEF Effect

\* Each effect is a step of OwnedGroup or leaves it alone.
LEMMA EffectRefines ==
  ASSUME SafeInv, NEW r, Effect(r)
  PROVE  Group!Next \/ UNCHANGED Group!groupVars
<1>t. /\ \A u \in Users : member[u] \in MemberRow \union {NoMember}
      /\ \A u \in Users : member[u].role \in {"none", "member", "owner"}
      /\ NoMember.role = "none"
  BY RowsType DEF MemberRow, NoMember
<1>o. \A v \in Users : AnotherOwner(v) => Group!AnotherOwner(v)
  BY DEF AnotherOwner, Owners, Group!AnotherOwner
<1>1. CASE Stays
  BY <1>1 DEF Stays, Group!groupVars, Live
<1>2. ASSUME NEW u \in Users, Founds(u) PROVE Group!Next
  <2>1. \A i \in InviteIds : invite[i] = NoInvite
    BY <1>2 DEF Founds, SafeInv, NoOrphans, Live
  <2>2. workspace'.state = "live" /\ workspace'.owner = u
    BY <1>2 DEF Founds
  <2>3. Offered' = {<<u, "owner">>}
    <3>1. {j \in InviteIds : invite'[j] # NoInvite} = {}
      BY <1>2, <2>1 DEF Founds
    <3> QED BY <2>2, <3>1 DEF Offered, Live
  <2>4. Group!Create(u)
    BY <1>2, <2>2, <2>3 DEF Founds, Offered, Group!Create
  <2> QED BY <2>4 DEF Group!Next
<1>3. ASSUME NEW v \in Users, NEW row \in MemberRow, Enters(v, row)
      PROVE  Group!Next
  <2>1. row.role \in {"member", "owner"}
    BY DEF MemberRow
  <2>2. /\ \A u \in Users : member'[u] = IF u = v THEN row ELSE member[u]
        /\ member[v].role = "none" /\ UNCHANGED <<workspace, invite>>
    <3>1. member' = [member EXCEPT ![v] = row]
      BY <1>3 DEF Enters
    <3>2. \A u \in Users : member'[u] = IF u = v THEN row ELSE member[u]
      BY <3>1, OwnersAfter
    <3>3. member[v] = NoMember
      BY <1>3 DEF Enters, Has
    <3> QED BY <1>3, <1>t, <3>2, <3>3 DEF Enters
  <2>3. [u \in Users |-> member[u].role]'
          = [[u \in Users |-> member[u].role] EXCEPT ![v] = row.role]
    BY <2>2
  <2>4. Group!Enter(v, row.role)
    BY <1>3, <2>2, <2>3 DEF Enters, Offered, Group!Enter, Live
  <2> QED BY <2>1, <2>4 DEF Group!Next
<1>4. ASSUME NEW v \in Users, NEW row \in MemberRow \union {NoMember},
             Moves(r, v, row)
      PROVE  Group!Next
  <2>1. /\ \A u \in Users : member'[u] = IF u = v THEN row ELSE member[u]
        /\ UNCHANGED <<workspace, invite>>
    BY <1>4, OwnersAfter DEF Moves
  <2>2. [u \in Users |-> member[u].role]'
          = [[u \in Users |-> member[u].role] EXCEPT ![v] = row.role]
    BY <2>1
  <2>3. member[v].role # "none"
    BY <1>4, <1>t DEF Moves, Has, MemberRow
  <2>4. CASE row.role = "none"
    <3>1. Group!Depart(v)
      BY <1>4, <1>o, <2>1, <2>2, <2>4 DEF Moves, Group!Depart, Live
    <3> QED BY <3>1 DEF Group!Next
  <2>5. CASE row.role \in {"member", "owner"}
    <3>1. Group!ChangeRole(v, row.role)
      BY <1>4, <1>o, <2>1, <2>2, <2>3, <2>5 DEF Moves, Group!ChangeRole, Live
    <3> QED BY <2>5, <3>1 DEF Group!Next
  <2> QED BY <1>4, <2>4, <2>5 DEF Moves
<1>5. ASSUME NEW i \in InviteIds, NEW row \in Invite, Invites(i, row)
      PROVE  Group!Next
  <2>1. /\ row.user \in Users /\ row.role \in {"member", "owner"} /\ row # NoInvite
        /\ \A j \in InviteIds : invite'[j] = IF j = i THEN row ELSE invite[j]
    BY <1>5, RowsType, NoUserAssumption DEF Invites, Invite, NoInvite
  <2>2. Offered' = Offered \union {<<row.user, row.role>>}
    BY <1>5, <2>1 DEF Invites, Offered, Live
  <2>3. \E w \in Users : member[w].role = "owner"
    BY <1>5 DEF Invites, Owners
  <2>4. Group!Offer(row.user, row.role)
    BY <1>5, <2>2, <2>3 DEF Invites, Offered, Group!Offer, Live
  <2> QED BY <2>1, <2>4 DEF Group!Next
<1>6. CASE Answers
  <2>1. Offered' = Offered
    BY <1>6 DEF Answers, Offered, Live
  <2> QED BY <1>6, <2>1 DEF Answers, Offered, Group!groupVars
<1>7. CASE Ends
  <2>1. \E w \in Users : member[w].role = "owner"
    BY <1>7 DEF Ends, Owners
  <2>2. workspace'.state = "deleted"
    BY <1>7, RowsType DEF Ends
  <2>3. Group!Delete
    BY <1>7, <1>t, <2>1, <2>2 DEF Ends, Group!Delete, Live
  <2> QED BY <2>3 DEF Group!Next
<1> QED BY <1>1, <1>2, <1>3, <1>4, <1>5, <1>6, <1>7 DEF Effect

-----------------------------------------------------------------------------
(* Every step of the handlers has one of those effects, and the request    *)
(* that takes it lives up to its next claim.                               *)

LEMMA IdleGroupClaim == \A c : c.at \in {"idle"} \union TeamLabels => GroupClaim(c)'
  BY DEF GroupClaim, OwnerClaim, OfferClaim, RoleChangeClaim, DepartureClaim,
         TeamLabels

LEMMA GroupStep ==
  ASSUME GroupInv, SafeInv', Exclusive', NEW r \in Requests, Effect(r),
         \A x \in Requests \ {r} : req'[x] = req[x],
         \A c : c = req'[r] => GroupClaim(c)'
  PROVE  GroupInv'
<1>1. ASSUME NEW x \in Requests PROVE GroupClaim(req[x])'
  <2>1. PICK c : c = req'[x]
    OBVIOUS
  <2>2. GroupClaim(c)'
    BY <2>1, OthersKeep
  <2> QED
    BY <2>1, <2>2 DEF GroupClaim, OwnerClaim, OfferClaim, RoleChangeClaim,
                      DepartureClaim
<1> QED BY <1>1 DEF GroupInv

\* What the control operators do to the records.
LEMMA Records ==
  ASSUME SafeInv, NEW r \in Requests
  PROVE  /\ Finish(r) => /\ \A x \in Requests \ {r} : req'[x] = req[x]
                         /\ req'[r].at = "idle"
         /\ \A l : Advance(r, l) =>
              /\ \A x \in Requests \ {r} : req'[x] = req[x]
              /\ req'[r] = [req[r] EXCEPT !.at = l]
              /\ req'[r].at = l /\ req'[r].user = req[r].user
              /\ req'[r].id = req[r].id /\ req'[r].wsRole = req[r].wsRole
         /\ \A c : Begin(r, c) =>
              /\ \A x \in Requests \ {r} : req'[x] = req[x]
              /\ req'[r] = c
<1>1. req \in [Requests -> Request]
  BY DEF SafeInv, TypeInv, TablesTypeOK
<1>2. req[r] \in Request
  BY <1>1
<1>3. Finish(r) => /\ \A x \in Requests \ {r} : req'[x] = req[x]
                   /\ req'[r].at = "idle"
  BY <1>1 DEF Finish, Idle
<1>4. ASSUME NEW l, Advance(r, l)
      PROVE  /\ \A x \in Requests \ {r} : req'[x] = req[x]
             /\ req'[r] = [req[r] EXCEPT !.at = l]
             /\ req'[r].at = l /\ req'[r].user = req[r].user
             /\ req'[r].id = req[r].id /\ req'[r].wsRole = req[r].wsRole
  BY <1>1, <1>2, <1>4 DEF Advance, Request
<1>5. ASSUME NEW c, Begin(r, c)
      PROVE  /\ \A x \in Requests \ {r} : req'[x] = req[x]
             /\ req'[r] = c
  BY <1>1, <1>5 DEF Begin
<1> QED BY <1>3, <1>4, <1>5

\* The handlers of TeamMembers leave the people of the workspace alone.
TeamStay(r) ==
  /\ Stays
  /\ \A x \in Requests \ {r} : req'[x] = req[x]
  /\ req'[r].at \in {"idle"} \union TeamLabels

LEMMA BeginStays ==
  ASSUME SafeInv, NEW r \in Requests, NEW c, Begin(r, c), UNCHANGED tables,
         c.at \in TeamLabels
  PROVE  TeamStay(r)
<1>1. Stays
  BY DEF Stays, tables
<1> QED BY <1>1, Records DEF TeamStay

LEMMA FinishStays ==
  ASSUME SafeInv, NEW r \in Requests, Finish(r), Stays
  PROVE  TeamStay(r)
  BY Records DEF TeamStay

LEMMA AdvanceStays ==
  ASSUME SafeInv, NEW r \in Requests, NEW l \in TeamLabels, Advance(r, l), Stays
  PROVE  TeamStay(r)
<1>1. /\ \A x \in Requests \ {r} : req'[x] = req[x]
      /\ req'[r].at = l
  BY Records
<1> QED BY <1>1 DEF TeamStay

LEMMA CheckStays ==
  ASSUME SafeInv, NEW r \in Requests, NEW l \in TeamLabels, NEW ok,
         Check(r, ok, l), UNCHANGED tables
  PROVE  TeamStay(r)
<1>1. Stays
  BY DEF Stays, tables
<1>2. CASE Finish(r)
  BY <1>1, <1>2, FinishStays
<1>3. CASE Advance(r, l)
  BY <1>1, <1>3, AdvanceStays
<1> QED BY <1>2, <1>3 DEF Check

LEMMA EditStays ==
  ASSUME SafeInv, NEW r \in Requests, NEW l \in TeamLabels, Stays, NEW a, NEW b,
         \/ req' = [req EXCEPT ![r].at = l, ![r].id = a]
         \/ req' = [req EXCEPT ![r].at = l, ![r].id = a, ![r].name = b]
         \/ req' = [req EXCEPT ![r].at = l, ![r].team = a]
         \/ req' = [req EXCEPT ![r].at = l, ![r].roleId = a]
  PROVE  TeamStay(r)
<1>1. req \in [Requests -> Request] /\ req[r] \in Request
  BY DEF SafeInv, TypeInv, TablesTypeOK
<1>2. /\ \A x \in Requests \ {r} : req'[x] = req[x]
      /\ req'[r].at = l
  BY <1>1 DEF Request
<1> QED BY <1>2 DEF TeamStay

LEMMA TeamArrivalStays ==
  ASSUME SafeInv, NEW r \in Requests, TeamArrival(r)
  PROVE  TeamStay(r)
<1> USE BeginStays DEF TeamCall, Call, Idle, TeamLabels
<1>1. PICK u \in Users :
        \/ CreateTeam(r, u)
        \/ \E t \in Teams :
             \/ DeleteTeam(r, u, t)
             \/ \E nm \in RoleNames : CreateRole(r, u, t, nm)
             \/ \E k \in RoleIds :
                  \/ DeleteRole(r, u, t, k)
                  \/ \E nm \in RoleNames : UpdateRole(r, u, t, k, nm)
                  \/ \E v \in Users : \/ InviteTeamMember(r, u, t, v, k)
                                      \/ UpdateTeamMemberRole(r, u, t, v, k)
             \/ \E v \in Users : RemoveTeamMember(r, u, t, v)
        \/ \E i \in TeamInviteIds, st \in {"pending", "accepted", "rejected"} :
             RespondTeam(r, u, i, st)
  BY DEF TeamArrival
<1>2. CASE CreateTeam(r, u)
  BY <1>2 DEF CreateTeam
<1>3. ASSUME NEW t \in Teams, DeleteTeam(r, u, t) PROVE TeamStay(r)
  BY <1>3 DEF DeleteTeam
<1>4. ASSUME NEW t \in Teams, NEW nm \in RoleNames, CreateRole(r, u, t, nm)
      PROVE  TeamStay(r)
  BY <1>4 DEF CreateRole
<1>5. ASSUME NEW t \in Teams, NEW k \in RoleIds, DeleteRole(r, u, t, k)
      PROVE  TeamStay(r)
  BY <1>5 DEF DeleteRole
<1>6. ASSUME NEW t \in Teams, NEW k \in RoleIds, NEW nm \in RoleNames,
             UpdateRole(r, u, t, k, nm)
      PROVE  TeamStay(r)
  BY <1>6 DEF UpdateRole
<1>7. ASSUME NEW t \in Teams, NEW k \in RoleIds, NEW v \in Users,
             InviteTeamMember(r, u, t, v, k) \/ UpdateTeamMemberRole(r, u, t, v, k)
      PROVE  TeamStay(r)
  BY <1>7 DEF InviteTeamMember, UpdateTeamMemberRole
<1>8. ASSUME NEW t \in Teams, NEW v \in Users, RemoveTeamMember(r, u, t, v)
      PROVE  TeamStay(r)
  BY <1>8 DEF RemoveTeamMember
<1>9. ASSUME NEW i \in TeamInviteIds, NEW st, RespondTeam(r, u, i, st)
      PROVE  TeamStay(r)
  BY <1>9 DEF RespondTeam
<1> QED BY <1>1, <1>2, <1>3, <1>4, <1>5, <1>6, <1>7, <1>8, <1>9

LEMMA TeamStepStays ==
  ASSUME SafeInv, NEW r \in Requests, TeamStep(r)
  PROVE  TeamStay(r)
<1>1. Stays
  BY DEF TeamStep, Stays, tables, TeamSave, TeamOwnerRole, TeamMemberRole, TeamCreator,
         DeleteTeamTx, NewRole, EditRoleFind, EditRoleSave, DropRoleFind,
         DropRoleCount, DropRole, TeamInviteRole, TeamInviteUser, TeamInviteMember,
         TeamInviteFind, TeamInviteSave, MemberRoleFind, MemberRoleRole,
         MemberRoleOwners, MemberRoleSave, KickFind, KickOwners, Kick,
         RespondTeamSave, RespondTeamVerify, RespondTeamJoin
<1> USE <1>1
<1>2. CASE \/ TeamCreator(r) \/ DeleteTeamTx(r) \/ NewRole(r) \/ EditRoleSave(r)
           \/ DropRole(r) \/ TeamInviteSave(r) \/ MemberRoleSave(r) \/ Kick(r)
           \/ RespondTeamJoin(r)
  BY <1>2, FinishStays
  DEF TeamCreator, DeleteTeamTx, NewRole, EditRoleSave, DropRole, TeamInviteSave,
      MemberRoleSave, Kick, RespondTeamJoin
<1>3. CASE TeamMemberRole(r) \/ RespondTeamSave(r)
  BY <1>3, FinishStays, AdvanceStays DEF TeamMemberRole, RespondTeamSave, TeamLabels
<1>4. CASE \/ EditRoleFind(r) \/ DropRoleFind(r) \/ DropRoleCount(r)
           \/ TeamInviteRole(r) \/ TeamInviteUser(r) \/ TeamInviteMember(r)
  BY <1>4, CheckStays
  DEF EditRoleFind, DropRoleFind, DropRoleCount, TeamInviteRole, TeamInviteUser,
      TeamInviteMember, TeamLabels
<1>5. CASE \/ TeamInviteFind(r) \/ MemberRoleRole(r) \/ MemberRoleOwners(r)
           \/ KickOwners(r) \/ RespondTeamVerify(r)
  BY <1>5, CheckStays
  DEF TeamInviteFind, MemberRoleRole, MemberRoleOwners, KickOwners,
      RespondTeamVerify, TeamLabels
<1>6. CASE TeamSave(r)
  <2>1. \/ Finish(r)
        \/ \E t : req' = [req EXCEPT ![r].at = "teamOwnerRole", ![r].team = t]
    BY <1>6 DEF TeamSave
  <2> QED BY <2>1, FinishStays, EditStays DEF TeamLabels
<1>7. CASE TeamOwnerRole(r)
  <2>1. \/ Finish(r)
        \/ \E k : req' = [req EXCEPT ![r].at = "teamMemberRole", ![r].roleId = k]
    BY <1>7 DEF TeamOwnerRole
  <2> QED BY <2>1, FinishStays, EditStays DEF TeamLabels
<1>8. CASE MemberRoleFind(r)
  <2>1. \/ Finish(r)
        \/ \E a, b : req' = [req EXCEPT ![r].at = "memberRoleRole", ![r].id = a,
                                       ![r].name = b]
    BY <1>8 DEF MemberRoleFind
  <2> QED BY <2>1, FinishStays, EditStays DEF TeamLabels
<1>9. CASE KickFind(r)
  <2>1. \/ Finish(r)
        \/ \E l \in {"kick", "kickOwners"} : \E a :
              req' = [req EXCEPT ![r].at = l, ![r].id = a]
    BY <1>9 DEF KickFind
  <2> QED BY <2>1, FinishStays, EditStays DEF TeamLabels
<1> QED BY <1>2, <1>3, <1>4, <1>5, <1>6, <1>7, <1>8, <1>9 DEF TeamStep

-----------------------------------------------------------------------------
(* The handlers of WorkspaceMembers. *)

Sound(r) ==
  /\ Effect(r)
  /\ \A x \in Requests \ {r} : req'[x] = req[x]
  /\ \A c : c = req'[r] => GroupClaim(c)'

LEMMA TeamSound ==
  ASSUME SafeInv, NEW r \in Requests, TeamStay(r)
  PROVE  Sound(r)
<1>1. ASSUME NEW c, c = req'[r] PROVE GroupClaim(c)'
  BY <1>1, IdleGroupClaim DEF TeamStay
<1> QED BY <1>1 DEF Sound, TeamStay, Effect

\* A request that only moves on, with record c.
LEMMA QuietSound ==
  ASSUME SafeInv, NEW r \in Requests, Stays, NEW c, GroupClaim(c), req'[r] = c,
         \A x \in Requests \ {r} : req'[x] = req[x]
  PROVE  Sound(r)
<1>1. GroupClaim(c)'
  BY DEF Stays, GroupClaim, OwnerClaim, OfferClaim, RoleChangeClaim, DepartureClaim,
         AnotherOwner, Owners, Live
<1> QED BY <1>1 DEF Sound, Effect

LEMMA BeginSound ==
  ASSUME SafeInv, NEW r \in Requests, UNCHANGED tables, NEW c, Begin(r, c),
         GroupClaim(c)
  PROVE  Sound(r)
<1>1. Stays
  BY DEF Stays, tables
<1>2. /\ \A x \in Requests \ {r} : req'[x] = req[x]
      /\ req'[r] = c
  BY Records
<1> QED BY <1>1, <1>2, QuietSound

\* A request that ends with an effect.
LEMMA FinishSound ==
  ASSUME SafeInv, NEW r \in Requests, Finish(r), Effect(r)
  PROVE  Sound(r)
<1>1. /\ \A x \in Requests \ {r} : req'[x] = req[x]
      /\ req'[r].at = "idle"
  BY Records
<1>2. ASSUME NEW c, c = req'[r] PROVE GroupClaim(c)'
  BY <1>1, <1>2, IdleGroupClaim
<1> QED BY <1>1, <1>2 DEF Sound

\* A request that goes on with the values it has.
LEMMA AdvanceSound ==
  ASSUME SafeInv, NEW r \in Requests, Stays, NEW l, Advance(r, l),
         \A c : /\ c.at = l /\ c.user = req[r].user /\ c.id = req[r].id
                /\ c.wsRole = req[r].wsRole
                => GroupClaim(c)
  PROVE  Sound(r)
<1>1. PICK c : c = req'[r]
  OBVIOUS
<1>2. /\ \A x \in Requests \ {r} : req'[x] = req[x]
      /\ c.at = l /\ c.user = req[r].user /\ c.id = req[r].id
      /\ c.wsRole = req[r].wsRole
  BY <1>1, Records
<1> QED BY <1>1, <1>2, QuietSound

LEMMA CreateWorkspaceSound ==
  ASSUME SafeInv, NEW r \in Requests, NEW u \in Users, CreateWorkspace(r, u)
  PROVE  Sound(r)
<1>1. PICK c : c = Call("createMember", u)
  OBVIOUS
<1>2. c.at = "createMember" /\ c.user = u
  BY <1>1 DEF Call, Idle
<1>3. /\ \A x \in Requests \ {r} : req'[x] = req[x]
      /\ req'[r] = c
  BY <1>1, Records DEF CreateWorkspace
<1>4. Founds(u)
  BY DEF CreateWorkspace, Founds
<1>5. GroupClaim(c)'
  BY <1>2, <1>4
  DEF GroupClaim, OwnerClaim, OfferClaim, RoleChangeClaim, DepartureClaim, Founds
<1> QED BY <1>3, <1>4, <1>5 DEF Sound, Effect

LEMMA WorkspaceArrivalSound ==
  ASSUME SafeInv, NEW r \in Requests, WorkspaceArrival(r)
  PROVE  Sound(r)
<1> USE BeginSound
    DEF GroupClaim, OwnerClaim, OfferClaim, RoleChangeClaim, DepartureClaim
<1>0. \A l, v : Call(l, v).at = l /\ Call(l, v).user = v
  BY DEF Call, Idle
<1>1. PICK u \in Users :
        \/ CreateWorkspace(r, u) \/ DeleteWorkspace(r, u) \/ LeaveWorkspace(r, u)
        \/ \E v \in Users, ro \in {"owner", "member"} :
             UpdateMemberRole(r, u, v, ro) \/ InviteMember(r, u, v, ro)
        \/ \E v \in Users : RemoveMember(r, u, v)
        \/ \E i \in InviteIds, st \in {"pending", "accepted", "rejected"} :
             Respond(r, u, i, st)
  BY DEF WorkspaceArrival
<1>2. CASE CreateWorkspace(r, u)
  BY <1>2, CreateWorkspaceSound
<1>3. CASE DeleteWorkspace(r, u)
  BY <1>0, <1>3 DEF DeleteWorkspace
<1>4. CASE LeaveWorkspace(r, u)
  <2>1. PICK c : c = [Call(IF u \in Owners THEN "leaveCount" ELSE "leaveRemove", u)
                        EXCEPT !.id = member[u].id]
    OBVIOUS
  <2>2. /\ c.user = u
        /\ c.at = IF u \in Owners THEN "leaveCount" ELSE "leaveRemove"
    BY <2>1 DEF Call, Idle
  <2>3. Begin(r, c) /\ UNCHANGED tables
    BY <1>4, <2>1 DEF LeaveWorkspace
  <2>4. GroupClaim(c)
    BY <2>2, RowsType
  <2> QED BY <2>3, <2>4
<1>5. ASSUME NEW v \in Users, NEW ro, UpdateMemberRole(r, u, v, ro)
      PROVE  Sound(r)
  <2>1. PICK c : c = [Call("roleFind", v) EXCEPT !.wsRole = ro]
    OBVIOUS
  <2>2. c.at = "roleFind" /\ c.user = v
    BY <2>1 DEF Call, Idle
  <2>3. Begin(r, c) /\ UNCHANGED tables /\ AnotherOwner(v)
    BY <1>5, <2>1 DEF UpdateMemberRole, AnotherOwner
  <2> QED BY <2>2, <2>3
<1>6. ASSUME NEW v \in Users, NEW ro, InviteMember(r, u, v, ro)
      PROVE  Sound(r)
  <2>1. PICK c : c = [Call("inviteMember", v) EXCEPT !.wsRole = ro]
    OBVIOUS
  <2>2. c.at = "inviteMember"
    BY <2>1 DEF Call, Idle
  <2>3. Begin(r, c) /\ UNCHANGED tables /\ Owners # {}
    BY <1>6, <2>1 DEF InviteMember
  <2>4. GroupClaim(c)
    BY <2>2, <2>3
  <2> QED BY <2>3, <2>4
<1>7. ASSUME NEW v \in Users, RemoveMember(r, u, v) PROVE Sound(r)
  BY <1>0, <1>7 DEF RemoveMember
<1>8. ASSUME NEW i \in InviteIds, NEW st, Respond(r, u, i, st) PROVE Sound(r)
  <2>1. PICK c : c = [Call("respondSave", u) EXCEPT !.inv = i, !.status = st,
                                                   !.wsRole = invite[i].role]
    OBVIOUS
  <2>2. c.at = "respondSave" /\ c.user = u /\ c.wsRole = invite[i].role
    BY <2>1 DEF Call, Idle
  <2>3. /\ Begin(r, c) /\ UNCHANGED tables
        /\ invite[i].user = u /\ invite[i] # NoInvite
    BY <1>8, <2>1 DEF Respond, NoInvite
  <2> QED BY <2>2, <2>3
<1> QED BY <1>1, <1>2, <1>3, <1>4, <1>5, <1>6, <1>7, <1>8

\* The only owner cannot leave: the count finds one.
LEMMA OnlyOwner ==
  ASSUME SafeInv, NEW u \in Users, Cardinality(Owners) # 1, member[u].role = "owner"
  PROVE  AnotherOwner(u)
<1>1. u \in Owners
  BY DEF Owners
<1>2. Cardinality({u}) = 1
  BY FS_Singleton
<1>3. Owners # {u}
  BY <1>2
<1> QED BY <1>1, <1>3 DEF AnotherOwner

\* A row that is there belongs to a live workspace.
LEMMA RowOfLive ==
  ASSUME SafeInv, NEW v \in Users, member[v].id \in RowIds
  PROVE  Live /\ Has(v) /\ member[v] \in MemberRow
<1>1. member[v] # NoMember
  BY IdAssumption DEF NoMember
<1> QED BY <1>1, RowsType DEF SafeInv, NoOrphans, Has

LEMMA LeaveSteps ==
  ASSUME GroupInv, NEW r \in Requests, \/ LeaveCount(r) \/ LeaveRemove(r)
                                       \/ RemoveCount(r) \/ RemoveRow(r)
  PROVE  Sound(r)
<1>q. SafeInv /\ GroupClaim(req[r]) /\ GoodAt(req[r].at, req[r])
  BY RowsType DEF GroupInv
<1>v. PICK v : v = req[r].user
  OBVIOUS
<1>1. ASSUME LeaveCount(r) \/ RemoveCount(r), NEW l \in {"leaveRemove", "removeTeams"},
             Check(r, Cardinality(Owners) # 1, l), UNCHANGED tables
      PROVE  Sound(r)
  <2>1. CASE Finish(r)
    BY <1>q, <1>1, <2>1, FinishSound DEF Effect, Stays, tables
  <2>2. CASE Cardinality(Owners) # 1 /\ Advance(r, l)
    <3>1. v \in Users
      BY <1>q, <1>v, <1>1 DEF LeaveCount, RemoveCount, GoodAt
    <3>2. member[v].role # "owner" \/ AnotherOwner(v)
      BY <1>q, <2>2, <3>1, OnlyOwner
    <3>3. \A c : c.at = l /\ c.user = req[r].user => GroupClaim(c)
      BY <1>1, <1>v, <3>2
      DEF GroupClaim, OwnerClaim, OfferClaim, RoleChangeClaim, DepartureClaim
    <3>4. Stays
      BY <1>1 DEF Stays, tables
    <3> QED BY <1>q, <2>2, <3>3, <3>4, AdvanceSound
  <2> QED BY <1>1, <2>1, <2>2 DEF Check
<1>2. ASSUME LeaveRemove(r) \/ RemoveRow(r), RemoveLoadedMember(r), Finish(r),
             UNCHANGED <<workspace, invite>>
      PROVE  Sound(r)
  <2>1. v \in Users /\ req[r].id \in RowIds /\ req[r].at \in TakesOwner
    BY <1>q, <1>v, <1>2 DEF LeaveRemove, RemoveRow, GoodAt, TakesOwner
  <2>2. CASE member[v].id # req[r].id
    <3>1. Stays
      BY <1>v, <1>2, <2>2 DEF RemoveLoadedMember, Stays
    <3> QED BY <1>q, <1>2, <3>1, FinishSound DEF Effect
  <2>3. CASE member[v].id = req[r].id
    <3>1. Live /\ Has(v)
      BY <1>q, <2>1, <2>3, RowOfLive
    <3>2. member[v].role # "owner" \/ AnotherOwner(v)
      BY <1>q, <1>v, <1>2, <2>3, <3>1
      DEF LeaveRemove, RemoveRow, GroupClaim, DepartureClaim
    <3>3. member' = [member EXCEPT ![v] = NoMember] /\ NoMember.role = "none"
      BY <1>v, <1>2, <2>3 DEF RemoveLoadedMember, NoMember
    <3>4. Moves(r, v, NoMember)
      BY <1>2, <2>1, <3>1, <3>2, <3>3 DEF Moves
    <3> QED BY <1>q, <1>2, <2>1, <3>4, FinishSound DEF Effect
  <2> QED BY <2>2, <2>3
<1>3. LeaveCount(r) => Sound(r)
  BY <1>1 DEF LeaveCount
<1>4. RemoveCount(r) => Sound(r)
  BY <1>1 DEF RemoveCount
<1>5. LeaveRemove(r) => Sound(r)
  BY <1>2 DEF LeaveRemove
<1>6. RemoveRow(r) => Sound(r)
  BY <1>2 DEF RemoveRow
<1> QED BY <1>3, <1>4, <1>5, <1>6

LEMMA RoleSteps ==
  ASSUME GroupInv, NEW r \in Requests, RoleFind(r) \/ RoleSave(r)
  PROVE  Sound(r)
<1>q. SafeInv /\ GroupClaim(req[r]) /\ GoodAt(req[r].at, req[r])
  BY RowsType DEF GroupInv
<1>v. PICK v : v = req[r].user
  OBVIOUS
<1>1. CASE RoleFind(r)
  <2>0. Stays
    BY <1>1 DEF RoleFind, Stays, tables
  <2>1. CASE Finish(r)
    BY <1>q, <2>0, <2>1, FinishSound DEF Effect
  <2>2. CASE req' = [req EXCEPT ![r].at = "roleSave",
                                ![r].id = member[req[r].user].id]
    <3>1. req \in [Requests -> Request] /\ req[r] \in Request
      BY <1>q DEF SafeInv, TypeInv, TablesTypeOK
    <3>2. PICK c : c = req'[r]
      OBVIOUS
    <3>3. /\ c.at = "roleSave" /\ c.user = v /\ c.id = member[v].id
          /\ \A x \in Requests \ {r} : req'[x] = req[x]
      BY <1>v, <2>2, <3>1, <3>2 DEF Request
    <3>4. Live => AnotherOwner(v)
      BY <1>q, <1>v, <1>1 DEF RoleFind, GroupClaim, RoleChangeClaim
    <3>5. GroupClaim(c)
      BY <3>3, <3>4
      DEF GroupClaim, OwnerClaim, OfferClaim, RoleChangeClaim, DepartureClaim
    <3> QED BY <1>q, <2>0, <3>2, <3>3, <3>5, QuietSound
  <2> QED BY <1>1, <2>1, <2>2 DEF RoleFind
<1>2. CASE RoleSave(r)
  <2>1. /\ v \in Users /\ req[r].id \in RowIds /\ req[r].at \in TakesOwner
        /\ req[r].wsRole \in {"owner", "member"}
        /\ Live => member[v].id = req[r].id /\ AnotherOwner(v)
    BY <1>q, <1>v, <1>2
    DEF RoleSave, GoodAt, TakesOwner, GroupClaim, RoleChangeClaim
  <2>2. CASE member[v].id = req[r].id
    <3>1. Live /\ Has(v) /\ member[v] \in MemberRow
      BY <1>q, <2>1, <2>2, RowOfLive
    <3>2. PICK row : row = [member[v] EXCEPT !.role = req[r].wsRole]
      OBVIOUS
    <3>3. row \in MemberRow /\ row.role \in {"owner", "member"}
      BY <2>1, <3>1, <3>2 DEF MemberRow
    <3>4. member' = [member EXCEPT ![v] = row]
      BY <1>v, <1>2, <2>2, <3>2 DEF RoleSave
    <3>5. UNCHANGED <<workspace, invite>>
      BY <1>2 DEF RoleSave
    <3>6. Moves(r, v, row)
      BY <2>1, <3>1, <3>3, <3>4, <3>5 DEF Moves
    <3> QED BY <1>q, <1>2, <2>1, <3>3, <3>6, FinishSound DEF RoleSave, Effect
  <2>3. CASE member[v].id # req[r].id
    <3>1. ~Live /\ Keyed
      BY <1>q, <2>1, <2>3 DEF SafeInv
    <3>2. Stays
      BY <1>v, <1>2, <2>3, <3>1 DEF RoleSave, InsertMember, WorkspaceKey, Stays
    <3> QED BY <1>q, <1>2, <3>2, FinishSound DEF RoleSave, Effect
  <2> QED BY <2>2, <2>3
<1> QED BY <1>1, <1>2

LEMMA RemoveSteps ==
  ASSUME GroupInv, NEW r \in Requests,
         RemoveFind(r) \/ RemoveTeams(r) \/ RemoveTeamRows(r)
  PROVE  Sound(r)
<1>q. /\ SafeInv /\ GroupClaim(req[r]) /\ GoodAt(req[r].at, req[r])
      /\ req \in [Requests -> Request] /\ req[r] \in Request
  BY RowsType DEF GroupInv, SafeInv, TypeInv, TablesTypeOK
<1>v. PICK v : v = req[r].user
  OBVIOUS
<1>s. Stays
  BY DEF RemoveFind, RemoveTeams, RemoveTeamRows, Stays, tables
<1>c. PICK c : c = req'[r]
  OBVIOUS
<1>1. CASE RemoveFind(r)
  <2>1. CASE Finish(r)
    BY <1>q, <1>s, <2>1, FinishSound DEF Effect
  <2>2. CASE req' = [req EXCEPT
          ![r].at = IF req[r].user \in Owners THEN "removeCount" ELSE "removeTeams",
          ![r].id = member[req[r].user].id]
    <3>1. /\ c.user = v
          /\ c.at = IF v \in Owners THEN "removeCount" ELSE "removeTeams"
          /\ \A x \in Requests \ {r} : req'[x] = req[x]
      BY <1>q, <1>v, <1>c, <2>2 DEF Request
    <3>2. v \in Users
      BY <1>q, <1>v, <1>1 DEF RemoveFind, GoodAt
    <3>3. v \notin Owners => member[v].role # "owner"
      BY <3>2 DEF Owners
    <3>4. GroupClaim(c)
      BY <3>1, <3>3
      DEF GroupClaim, OwnerClaim, OfferClaim, RoleChangeClaim, DepartureClaim
    <3> QED BY <1>q, <1>s, <1>c, <3>1, <3>4, QuietSound
  <2> QED BY <1>1, <2>1, <2>2 DEF RemoveFind
<1>2. CASE RemoveTeams(r) \/ RemoveTeamRows(r)
  <2>1. Live => \/ member[v].id # req[r].id
                \/ member[v].role # "owner"
                \/ AnotherOwner(v)
    BY <1>q, <1>v, <1>2 DEF RemoveTeams, RemoveTeamRows, GroupClaim, DepartureClaim
  <2>2. /\ c.user = v /\ c.id = req[r].id
        /\ c.at \in {"removeTeamRows", "removeRow"}
        /\ \A x \in Requests \ {r} : req'[x] = req[x]
    <3>1. CASE RemoveTeams(r)
      BY <1>q, <1>v, <1>c, <3>1 DEF RemoveTeams, Request
    <3>2. CASE RemoveTeamRows(r)
      BY <1>q, <1>v, <1>c, <3>2 DEF RemoveTeamRows, Advance, Request
    <3> QED BY <1>2, <3>1, <3>2
  <2>3. GroupClaim(c)
    BY <2>1, <2>2
    DEF GroupClaim, OwnerClaim, OfferClaim, RoleChangeClaim, DepartureClaim
  <2> QED BY <1>q, <1>s, <1>c, <2>2, <2>3, QuietSound
<1> QED BY <1>1, <1>2

LEMMA InviteSteps ==
  ASSUME GroupInv, NEW r \in Requests,
         InviteCheckMember(r) \/ InviteFind(r) \/ InviteSave(r)
  PROVE  Sound(r)
<1>q. /\ SafeInv /\ GoodAt(req[r].at, req[r])
      /\ Live => OwnerClaim(req[r])
  BY RowsType DEF GroupInv, GroupClaim
<1>1. Live => Owners # {}
  BY <1>q DEF OwnerClaim, InviteCheckMember, InviteFind, InviteSave
<1>2. CASE InviteCheckMember(r) \/ InviteFind(r)
  <2>1. PICK l \in {"inviteFind", "inviteSave"} : Finish(r) \/ Advance(r, l)
    BY <1>2 DEF InviteCheckMember, InviteFind, Check
  <2>2. Stays
    BY <1>2 DEF InviteCheckMember, InviteFind, Stays, tables
  <2>3. \A c : c.at = l => GroupClaim(c)
    BY <1>1 DEF GroupClaim, OwnerClaim, OfferClaim, RoleChangeClaim, DepartureClaim
  <2>4. CASE Finish(r)
    BY <1>q, <2>2, <2>4, FinishSound DEF Effect
  <2>5. CASE Advance(r, l)
    BY <1>q, <2>2, <2>3, <2>5, AdvanceSound
  <2> QED BY <2>1, <2>4, <2>5
<1>3. CASE InviteSave(r) /\ Live
  <2>1. PICK row : row = [user |-> req[r].user, role |-> req[r].wsRole,
                          status |-> "pending"]
    OBVIOUS
  <2>2. PICK i \in FreshInvite : invite' = [invite EXCEPT ![i] = row]
    BY <1>3, <2>1 DEF InviteSave
  <2>3. i \in InviteIds /\ invite[i] = NoInvite
    BY <2>2 DEF FreshInvite, Least
  <2>4. row \in Invite
    BY <1>q, <1>3, <2>1 DEF InviteSave, GoodAt, Invite
  <2>5. Invites(i, row)
    BY <1>1, <1>3, <2>2, <2>3, <2>4 DEF InviteSave, Invites
  <2> QED BY <1>q, <1>3, <2>3, <2>4, <2>5, FinishSound DEF InviteSave, Effect
<1>4. CASE InviteSave(r) /\ ~Live
  BY <1>q, <1>4, FinishSound DEF InviteSave, Effect, Stays
<1> QED BY <1>2, <1>3, <1>4

LEMMA RespondSaveSound ==
  ASSUME GroupInv, NEW r \in Requests, RespondSave(r)
  PROVE  Sound(r)
<1>q. SafeInv /\ GroupClaim(req[r]) /\ req[r].at = "respondSave"
  BY DEF GroupInv, RespondSave
<1>1. CASE invite[req[r].inv] = NoInvite
  BY <1>q, <1>1, FinishSound DEF RespondSave, Effect, Stays
<1>2. CASE invite[req[r].inv] # NoInvite
  <2>i. PICK i : i = req[r].inv
    OBVIOUS
  <2>1. invite' = [invite EXCEPT ![i].status = req[r].status]
    BY <1>2, <2>i DEF RespondSave
  <2>2. ASSUME NEW j \in InviteIds
        PROVE  /\ invite[j] = NoInvite <=> invite'[j] = NoInvite
               /\ invite'[j].user = invite[j].user /\ invite'[j].role = invite[j].role
    <3>1. CASE j # i
      BY <1>q, <2>1, <3>1, RowsType
    <3>2. CASE j = i
      <4>1. invite[j] \in Invite
        BY <1>q, <1>2, <2>i, <3>2, RowsType
      <4>2. invite'[j] = [invite[j] EXCEPT !.status = req[r].status]
        BY <1>q, <2>1, <3>2, RowsType
      <4>3. invite[j].user \in Users /\ NoInvite.user \notin Users
        BY <4>1, NoUserAssumption DEF Invite, NoInvite
      <4>4. /\ invite'[j].user = invite[j].user
            /\ invite'[j].role = invite[j].role
        BY <4>1, <4>2 DEF Invite
      <4> QED BY <4>3, <4>4
    <3> QED BY <3>1, <3>2
  <2>3. Answers
    BY <2>2 DEF RespondSave, Answers
  <2>4. CASE Finish(r)
    BY <1>q, <2>3, <2>4, FinishSound DEF Effect
  <2>5. CASE Advance(r, "respondJoin")
    <3>1. PICK c : c = req'[r]
      OBVIOUS
    <3>2. /\ c.at = "respondJoin" /\ c.user = req[r].user /\ c.wsRole = req[r].wsRole
          /\ \A x \in Requests \ {r} : req'[x] = req[x]
      BY <1>q, <2>5, <3>1, Records
    <3>3. Live => \E k \in InviteIds : /\ invite[k] # NoInvite
                                       /\ invite[k].user = c.user
                                       /\ invite[k].role = c.wsRole
      BY <1>q, <3>2 DEF GroupClaim, OfferClaim
    <3>4. Live' => \E k \in InviteIds : /\ invite'[k] # NoInvite
                                        /\ invite'[k].user = c.user
                                        /\ invite'[k].role = c.wsRole
      BY <2>3, <3>3 DEF Answers, Live
    <3>5. GroupClaim(c)'
      BY <3>2, <3>4
      DEF GroupClaim, OwnerClaim, OfferClaim, RoleChangeClaim, DepartureClaim
    <3> QED BY <2>3, <3>1, <3>2, <3>5 DEF Sound, Effect
  <2> QED BY <1>2, <2>4, <2>5 DEF RespondSave
<1> QED BY <1>1, <1>2

LEMMA JoinSteps ==
  ASSUME GroupInv, NEW r \in Requests, CreateMember(r) \/ RespondJoin(r)
  PROVE  Sound(r)
<1>q. /\ SafeInv /\ GroupClaim(req[r]) /\ GoodAt(req[r].at, req[r]) /\ Keyed
  BY RowsType DEF GroupInv, SafeInv
<1>v. PICK v : v = req[r].user
  OBVIOUS
<1>1. PICK ro \in {"owner", "member"}, id \in FreshRow :
        /\ InsertMember(v, id, ro)
        /\ Live => <<v, ro>> \in Offered
  <2>1. CASE CreateMember(r)
    <3>1. Live => <<v, "owner">> \in Offered
      BY <1>q, <1>v, <2>1 DEF CreateMember, GroupClaim, OfferClaim, Offered
    <3> QED BY <1>v, <2>1, <3>1 DEF CreateMember
  <2>2. CASE RespondJoin(r)
    <3>1. Live => <<v, req[r].wsRole>> \in Offered
      <4>1. ASSUME Live
            PROVE  \E i \in InviteIds : /\ invite[i] # NoInvite
                                        /\ invite[i].user = v
                                        /\ invite[i].role = req[r].wsRole
        BY <1>q, <1>v, <2>2, <4>1 DEF RespondJoin, GroupClaim, OfferClaim
      <4> QED BY <4>1 DEF Offered
    <3>2. req[r].wsRole \in {"owner", "member"}
      BY <1>q, <2>2 DEF RespondJoin, GoodAt
    <3> QED BY <1>v, <2>2, <3>1, <3>2 DEF RespondJoin
  <2> QED BY <2>1, <2>2
<1>2. id \in RowIds /\ \A x \in Requests : req[x].id # id
  BY DEF FreshRow, Least
<1>3. v \in Users
  BY <1>q, <1>v DEF CreateMember, RespondJoin, GoodAt
<1>4. Finish(r) /\ UNCHANGED <<workspace, invite>>
  BY DEF CreateMember, RespondJoin
<1>5. CASE Live /\ ~Has(v)
  <2>1. PICK row : row = [id |-> id, role |-> ro]
    OBVIOUS
  <2>2. row \in MemberRow /\ row.id = id /\ row.role = ro
    BY <1>2, <2>1 DEF MemberRow
  <2>3. member' = [member EXCEPT ![v] = row]
    BY <1>1, <1>5, <2>1 DEF InsertMember, WorkspaceKey
  <2>4. Enters(v, row)
    BY <1>1, <1>2, <1>4, <1>5, <2>2, <2>3 DEF Enters
  <2> QED BY <1>q, <1>3, <1>4, <2>2, <2>4, FinishSound DEF Effect
<1>6. CASE ~(Live /\ ~Has(v))
  <2>1. Stays
    BY <1>q, <1>1, <1>4, <1>6 DEF InsertMember, WorkspaceKey, Stays
  <2> QED BY <1>q, <1>4, <2>1, FinishSound DEF Effect
<1> QED BY <1>5, <1>6

LEMMA EndSteps ==
  ASSUME GroupInv, NEW r \in Requests, DeleteWorkspaceTx(r) \/ Fail(r)
  PROVE  Sound(r)
<1>q. SafeInv /\ GroupClaim(req[r])
  BY DEF GroupInv
<1>1. CASE DeleteWorkspaceTx(r) /\ Live
  <2>1. Ends
    BY <1>q, <1>1 DEF DeleteWorkspaceTx, GroupClaim, OwnerClaim, Ends
  <2> QED BY <1>q, <1>1, <2>1, FinishSound DEF DeleteWorkspaceTx, Effect
<1>2. CASE DeleteWorkspaceTx(r) /\ ~Live
  BY <1>q, <1>2, FinishSound DEF DeleteWorkspaceTx, Effect, Stays, tables
<1>3. CASE Fail(r)
  BY <1>q, <1>3, FinishSound DEF Fail, Effect, Stays, tables
<1> QED BY <1>1, <1>2, <1>3

-----------------------------------------------------------------------------
(* The theorems *)

LEMMA NextSound ==
  ASSUME GroupInv, NEW r \in Requests,
         \/ WorkspaceArrival(r) \/ WorkspaceStep(r)
         \/ TeamArrival(r) \/ TeamStep(r)
         \/ Fail(r)
  PROVE  Sound(r)
<1>1. SafeInv
  BY DEF GroupInv
<1>2. CASE WorkspaceArrival(r)
  BY <1>1, <1>2, WorkspaceArrivalSound
<1>3. CASE WorkspaceStep(r)
  BY <1>3, LeaveSteps, RoleSteps, RemoveSteps, InviteSteps, RespondSaveSound,
     JoinSteps, EndSteps DEF WorkspaceStep
<1>4. CASE TeamArrival(r) \/ TeamStep(r)
  BY <1>1, <1>4, TeamArrivalStays, TeamStepStays, TeamSound
<1>5. CASE Fail(r)
  BY <1>5, EndSteps
<1> QED BY <1>2, <1>3, <1>4, <1>5

LEMMA InitGroup == Keyed /\ TablesInit => GroupInv /\ Group!Init
<1> SUFFICES ASSUME Keyed, TablesInit PROVE GroupInv /\ Group!Init
  OBVIOUS
<1>1. SafeInv
  BY InitSafe
<1>2. Exclusive
  BY DEF TablesInit, Exclusive, Idle, TakesOwner
<1>3. \A r \in Requests : GroupClaim(req[r])
  BY DEF TablesInit, GroupClaim, Live
<1>4. Group!Init
  <2>1. {j \in InviteIds : invite[j] # NoInvite} = {} /\ ~Live
    BY DEF TablesInit, Live
  <2>2. [u \in Users |-> member[u].role] = [u \in Users |-> "none"]
    BY DEF TablesInit, NoMember
  <2> QED BY <2>1, <2>2 DEF TablesInit, Group!Init
<1> QED BY <1>1, <1>2, <1>3, <1>4 DEF GroupInv

LEMMA NextGroup ==
  ASSUME GroupInv, [Next /\ Exclusive']_vars
  PROVE  /\ GroupInv'
         /\ [Group!Next]_Group!groupVars
         /\ Owners # {} /\ workspace'.state = "live" => Owners' # {}
<1>1. CASE UNCHANGED vars
  <2>1. SafeInv' /\ Exclusive'
    BY <1>1, NextSafe DEF GroupInv, Exclusive, vars
  <2>2. \A r \in Requests : GroupClaim(req[r])'
    BY <1>1 DEF GroupInv, vars, GroupClaim, OwnerClaim, OfferClaim, RoleChangeClaim,
                DepartureClaim, AnotherOwner, Owners, Live
  <2>3. UNCHANGED Group!groupVars
    BY <1>1 DEF vars, Group!groupVars, Live
  <2> QED BY <1>1, <2>1, <2>2, <2>3 DEF GroupInv, vars, Owners
<1>2. CASE Next /\ Exclusive'
  <2>1. PICK r \in Requests : \/ WorkspaceArrival(r) \/ WorkspaceStep(r)
                              \/ TeamArrival(r) \/ TeamStep(r)
                              \/ Fail(r)
    BY <1>2 DEF Next
  <2>2. Sound(r)
    BY <2>1, NextSound
  <2>3. SafeInv /\ SafeInv'
    BY <1>2, NextSafe DEF GroupInv
  <2>4. GroupInv'
    BY <1>2, <2>2, <2>3, GroupStep DEF Sound
  <2> QED BY <2>2, <2>3, <2>4, OwnerKept, EffectRefines DEF Sound
<1> QED BY <1>1, <1>2

\* As long as requests that can take an owner away do not overlap, every check
\* a request made before an await still holds when the request acts on it.
THEOREM ExclusiveInvariant == Keyed /\ ExclusiveSpec => []GroupInv
  BY InitGroup, NextGroup, PTL DEF ExclusiveSpec

\* A workspace that has an owner has one until it is deleted.
THEOREM OwnerNeverLostExclusively == Keyed /\ ExclusiveSpec => OwnerNeverLost
<1>1. GroupInv /\ [Next /\ Exclusive']_vars
        => [Owners # {} /\ workspace'.state = "live" => Owners' # {}]_vars
  BY NextGroup
<1> QED BY <1>1, ExclusiveInvariant, PTL DEF ExclusiveSpec, OwnerNeverLost

\* The workspace implements the abstract group: every step of every handler is
\* one step of OwnedGroup or leaves it alone.
THEOREM ExclusiveRefines == Keyed /\ ExclusiveSpec => IsOwnedGroup
<1>1. Keyed /\ TablesInit => Group!Init
  BY InitGroup
<1>2. GroupInv /\ [Next /\ Exclusive']_vars => [Group!Next]_Group!groupVars
  BY NextGroup
<1> QED BY <1>1, <1>2, ExclusiveInvariant, PTL DEF ExclusiveSpec, IsOwnedGroup, Group!Spec
=============================================================================
