----------------------------- MODULE OwnedGroup -----------------------------
(***************************************************************************)
(* What a workspace promises about its people, with every operation done   *)
(* in one step: a user comes in only in a role the user was invited to     *)
(* take, and once the workspace has an owner it has one until it is        *)
(* deleted.                                                                *)
(***************************************************************************)
CONSTANTS Users

VARIABLES state,  \* "none", "live" or "deleted"
          place,  \* the role of each user, "none" for an outsider
          invited \* the <<user, role>> pairs ever offered

groupVars == <<state, place, invited>>

AnotherOwner(u) == \E v \in Users \ {u} : place[v] = "owner"

Init ==
  /\ state = "none"
  /\ place = [u \in Users |-> "none"]
  /\ invited = {}

\* The founder is offered the ownership and takes it up in a later step.
Create(u) ==
  /\ state = "none"
  /\ state' = "live"
  /\ invited' = {<<u, "owner">>}
  /\ UNCHANGED place

Offer(u, ro) ==
  /\ state = "live"
  /\ \E v \in Users : place[v] = "owner"
  /\ invited' = invited \union {<<u, ro>>}
  /\ UNCHANGED <<state, place>>

Enter(u, ro) ==
  /\ <<u, ro>> \in invited
  /\ place[u] = "none"
  /\ place' = [place EXCEPT ![u] = ro]
  /\ UNCHANGED <<state, invited>>

ChangeRole(u, ro) ==
  /\ place[u] # "none"
  /\ AnotherOwner(u)
  /\ place' = [place EXCEPT ![u] = ro]
  /\ UNCHANGED <<state, invited>>

Depart(u) ==
  /\ place[u] = "owner" => AnotherOwner(u)
  /\ place' = [place EXCEPT ![u] = "none"]
  /\ UNCHANGED <<state, invited>>

Delete ==
  /\ state = "live"
  /\ \E v \in Users : place[v] = "owner"
  /\ state' = "deleted"
  /\ place' = [u \in Users |-> "none"]
  /\ invited' = {}

Next ==
  \/ Delete
  \/ \E u \in Users : \/ Create(u)
                      \/ Depart(u)
                      \/ \E ro \in {"member", "owner"} :
                           Offer(u, ro) \/ Enter(u, ro) \/ ChangeRole(u, ro)

Spec == Init /\ [][Next]_groupVars
=============================================================================
