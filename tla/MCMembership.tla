---------------------------- MODULE MCMembership ----------------------------
(***************************************************************************)
(* Instances of Membership for TLC.  Runs about teams start from a         *)
(* workspace that its founder has made and a second user has joined; the   *)
(* steps to that state are those of the runs about workspaces.             *)
(***************************************************************************)
EXTENDS Membership, TLC

CONSTANTS Founder, Guest \* two of the users

Sym == Permutations(Requests)
SymAll == Permutations(Users) \union Permutations(Requests)

StaffedInit ==
  /\ workspace = [state |-> "live", owner |-> Founder]
  /\ member = [u \in Users |->
                 CASE u = Founder -> [id |-> 1, role |-> "owner"]
                   [] u = Guest -> [id |-> 1, role |-> "member"]
                   [] OTHER -> NoMember]
  /\ invite = [i \in InviteIds |->
                 IF i = 1 THEN [user |-> Guest, role |-> "member",
                                status |-> "accepted"]
                          ELSE NoInvite]
  /\ team = [t \in Teams |-> "unused"]
  /\ role = [k \in RoleIds |-> NoRole]
  /\ teamMember = [t \in Teams |-> [u \in Users |-> NoTeamMember]]
  /\ teamInvite = [i \in TeamInviteIds |-> NoTeamInvite]
  /\ req = [r \in Requests |-> Idle]

StaffedSpec == StaffedInit /\ [][Next]_vars

\* Creation and deletion of teams and roles against invitations and answers.
TeamRaceCalls == {"createTeam", "deleteTeam", "createRole", "deleteRole",
                  "inviteTeamMember", "respondToTeamInvitation"}

TeamSerialCalls ==
  TeamCalls \union {"leaveWorkspace", "removeWorkspaceMember"}
=============================================================================
