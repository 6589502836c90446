----------------------------- MODULE NightlyCheck -----------------------------
(***************************************************************************)
(* TaskScheduleService.checkRobotConnection against everything that        *)
(* clients do to connections and robots: each night it refreshes every     *)
(* connection that a robot uses and reports to the owner of the robot each *)
(* one it could not refresh.                                               *)
(***************************************************************************)
EXTENDS Robots

VARIABLES night,   \* the check: its list, what it has checked, its locals
          pending, \* names of connections whose report is being saved
          unread   \* names of connections with a report the user has not read

nightVars == <<night, pending, unread>>
vars == <<conn, link, robot, token, req, faults, number, docs, status, code, asked,
          outlived, night, pending, unread>>

\* An entry of the list: a link with the name its connection had at midnight.
Entry == [robot: Robots, key: Keys, name: Own]
Night == [at: {"idle", "next", "load", "askGoogle", "connSave"},
          todo: SUBSET Entry, checked: SUBSET Keys,
          name: Own \union {NoName}, row: Conn]

Asleep == [at |-> "idle", todo |-> {}, checked |-> {}, name |-> NoName, row |-> NoConn]

\* Keys that the list may still name are not drawn again.
Listed == {e.key : e \in night.todo} \union night.checked \union {night.row.key}

-----------------------------------------------------------------------------
(* The check *)

\* At midnight.  The check of one night is taken to be over by the next.
Midnight ==
  /\ night.at = "idle"
  /\ \E b \in Robots, k \in Keys : link[b][k] # "none"
  /\ night' = [Asleep EXCEPT !.at = "next",
                 !.todo = {e \in Entry : /\ link[e.robot][e.key] # "none"
                                         /\ conn[e.name].key = e.key}]
  /\ UNCHANGED <<stores, req, pending, unread>>

\* The next link whose connection was not checked yet, in any order.  A
\* connection is added to `checked` once its refresh has ended; nothing looks
\* there before.
NextEntry ==
  /\ night.at = "next"
  /\ LET open == {e \in night.todo : e.key \notin night.checked}
     IN  \/ open = {} /\ night' = Asleep
         \/ \E e \in open :
              night' = [night EXCEPT !.at = "load", !.todo = open \ {e},
                                     !.checked = @ \union {e.key}, !.name = e.name]
  /\ UNCHANGED <<stores, req, pending, unread>>

\* The end of one refresh: the loop goes on.
Continue == night' = [night EXCEPT !.at = "next", !.name = NoName, !.row = NoConn]

\* Nobody awaits createNotification.
Report == Continue /\ pending' = pending \union {night.name}

\* Fault: nothing catches the exception of a refresh, which ends the check.
LoadEnds ==
  /\ night.at = "load"
  /\ IF night.name \in Google /\ Exists(night.name)
     THEN night' = [night EXCEPT !.at = "askGoogle", !.row = conn[night.name]]
     ELSE night' = Asleep
  /\ UNCHANGED <<stores, req, pending, unread>>

\* refreshToken of a connection that is gone, or not Google's, fails.
Load ==
  /\ night.at = "load"
  /\ \/ /\ night.name \in Google
        /\ Exists(night.name)
        /\ night' = [night EXCEPT !.at = "askGoogle", !.row = conn[night.name]]
        /\ UNCHANGED pending
     \/ /\ night.name \in Google => ~Exists(night.name)
        /\ Report
  /\ UNCHANGED <<stores, req, unread>>

\* Fault: the loop stays at a connection that cannot be refreshed.
NightAskRetries ==
  /\ night.at = "askGoogle"
  /\ \/ \E row \in Answers(night.row) :
          /\ Grant(row.refresh)
          /\ night' = [night EXCEPT !.at = "connSave", !.row = row]
          /\ UNCHANGED pending
     \/ /\ Answers(night.row) = {}
        /\ night' = [night EXCEPT !.at = "load"]
        /\ pending' = pending \union {night.name}
        /\ UNCHANGED token
  /\ UNCHANGED <<conn, link, robot, req, faults, robotVars, unread>>

NightAsk ==
  /\ night.at = "askGoogle"
  /\ \/ \E row \in Answers(night.row) :
          /\ Grant(row.refresh)
          /\ night' = [night EXCEPT !.at = "connSave", !.row = row]
          /\ UNCHANGED pending
     \/ Answers(night.row) = {} /\ Report /\ UNCHANGED token
  /\ UNCHANGED <<conn, link, robot, req, faults, robotVars, unread>>

NightSave ==
  /\ night.at = "connSave"
  /\ Write(night.name, night.row)
  /\ IF InUse(night.name) /\ night.row.key # conn[night.name].key
     THEN Report ELSE Continue /\ UNCHANGED pending
  /\ UNCHANGED <<link, robot, token, req, faults, robotVars, unread>>

\* Google does not answer, or a query fails: the refresh fails.
NightFail ==
  /\ faults < MaxFaults
  /\ night.at \in {"load", "askGoogle", "connSave"}
  /\ Report
  /\ faults' = faults + 1
  /\ UNCHANGED <<conn, link, robot, token, req, robotVars, unread>>

\* createNotification: the report is in the database.
Notify(n) ==
  /\ n \in pending
  /\ pending' = pending \ {n}
  /\ unread' = unread \union {n}
  /\ UNCHANGED <<stores, req, night>>

\* markAsRead
MarkAsRead(n) ==
  /\ n \in unread
  /\ unread' = unread \ {n}
  /\ UNCHANGED <<stores, req, night, pending>>

-----------------------------------------------------------------------------
(* Failures *)

\* A query of a request fails, or an external call: only the revocation of a
\* token and the termination of a workspace's robot are allowed to.
Fail(r) ==
  /\ faults < MaxFaults
  /\ ~Free(r)
  /\ req[r].at # "revoke"
  /\ req[r].at = "terminate" => req[r].kind = "personal"
  /\ Finish(r)
  /\ faults' = faults + 1
  /\ UNCHANGED <<conn, link, robot, token, robotVars, nightVars>>

\* The server dies, for instance because a report could not be saved, whose
\* rejection nobody handles; and starts again.
Crash ==
  /\ faults < MaxFaults
  /\ req' = [r \in Requests |-> Idle]
  /\ night' = Asleep
  /\ pending' = {}
  /\ faults' = faults + 1
  /\ UNCHANGED <<conn, link, robot, token, robotVars, unread>>

-----------------------------------------------------------------------------

Init ==
  /\ conn = [n \in Names |-> NoConn]
  /\ link = [b \in Robots |-> [k \in Keys |-> "none"]]
  /\ robot = [b \in Robots |-> NoRow]
  /\ token = [t \in Tokens |-> "unused"]
  /\ req = [r \in Requests |-> Idle]
  /\ faults = 0
  /\ number = [k \in Kinds |-> 1]
  /\ docs = {1}
  /\ status = "Draft"
  /\ code = [k \in Kinds |-> [v \in Numbers |-> NoRobot]]
  /\ asked = [b \in Robots |-> {}]
  /\ outlived = {}
  /\ night = Asleep
  /\ pending = {}
  /\ unread = {}

Arrival(r) ==
  /\ \/ ConnectionArrival(r) /\ UNCHANGED robotVars
     \/ RobotArrival(r)
  /\ UNCHANGED nightVars

Step(r) ==
  /\ \/ ConnectionStep(r, Listed) /\ UNCHANGED robotVars
     \/ RobotStep(r)
  /\ UNCHANGED nightVars

CheckStep == NextEntry \/ Load \/ NightAsk \/ NightSave \/ NightFail

\* What happens without the check.
DayNext ==
  \/ \E r \in Requests : Arrival(r) \/ Step(r) \/ Fail(r)
  \/ \E t \in Tokens : Withdraw(t) /\ UNCHANGED <<robotVars, nightVars>>

Next ==
  \/ DayNext
  \/ Midnight \/ CheckStep
  \/ \E n \in Own : Notify(n) \/ MarkAsRead(n)
  \/ Crash

\* The timer fires every night, what it started goes on as long as the server
\* lives, and Google and the database answer or fail.  Clients need not.
Fairness ==
  /\ WF_vars(Midnight)
  /\ WF_vars(CheckStep)
  /\ \A n \in Own : WF_vars(Notify(n))

Spec == Init /\ [][Next]_vars /\ Fairness

-----------------------------------------------------------------------------

\* The tables, the requests and the check hold values of their types.
TypeOK ==
  /\ conn \in [Names -> Conn]
  /\ link \in [Robots -> [Keys -> Links]]
  /\ robot \in [Robots -> RobotRow]
  /\ token \in [Tokens -> {"unused", "valid", "revoked"}]
  /\ req \in [Requests -> Request]
  /\ faults \in 0..MaxFaults
  /\ number \in [Kinds -> Numbers]
  /\ docs \subseteq Numbers \ {0}
  /\ status \in {"Draft", "Published"}
  /\ code \in [Kinds -> [Numbers -> Robots \union {NoRobot}]]
  /\ asked \in [Robots -> SUBSET Keys]
  /\ outlived \subseteq Robots
  /\ night \in Night
  /\ pending \subseteq Own
  /\ unread \subseteq Own

Quiet == \A r \in Requests : Free(r)

\* The code that a robot of the user or the workspace runs was stored before its
\* row was, however creations interleave and wherever they fail.
CodeStored ==
  \A b \in Robots :
    Live(b) /\ robot[b].kind # "team" => code[robot[b].kind][robot[b].number] # NoRobot

\* With requests served one by one, wherever they fail, a personal robot runs the
\* code that was made for it, not another robot's, as long as its process is not
\* deleted: made again, the process numbers its versions from 1, and a robot of a
\* number used before puts its code in the place of the older robot's.
RunsOwnCode ==
  \A b \in Personal \ outlived : code["personal"][robot[b].number] = b

\* getRobotConnection finds a robot by the version it runs: with requests
\* served one by one, what it returns are connections the robot was made with,
\* whatever failed meanwhile, unless a robot of that version is left from before
\* the process was deleted.
OwnCredentials ==
  \A b \in Personal :
    Found(robot[b].number) \cap outlived = {} =>
      \A c \in Found(robot[b].number), k \in Keys :
        link[c][k] # "none" => k \in asked[b]

\* With requests served one by one and no failure, a process is Published only
\* as long as one of its robots lives, also when it was deleted and made again.
PublishedHasRobot ==
  Quiet /\ faults = 0 /\ status = "Published" => Personal # {}

\* A check that has begun ends, whatever clients do meanwhile.
CheckEnds == night.at # "idle" ~> night.at = "idle"

\* A robot depends on a connection whose permission is gone.
Broken(n) ==
  /\ Exists(n)
  /\ conn[n].refresh \notin {t \in Tokens : token[t] = "valid"}
  /\ InUse(n)

\* A broken connection does not stay unreported: its owner has a report to
\* read, or it is repaired, or no robot uses it any more.
BrokenReported == \A n \in Google : Broken(n) ~> (n \in unread \/ ~Broken(n))
=============================================================================
