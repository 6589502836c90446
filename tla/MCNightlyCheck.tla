---------------------------- MODULE MCNightlyCheck ----------------------------
(***************************************************************************)
(* Small instances of what goes on while the user looks elsewhere: the     *)
(* nightly check of connections, robots of a workspace, robots that are    *)
(* made and deleted at the same time, and the process of a team, which     *)
(* others change.  Each behaviour is of one of them.                       *)
(***************************************************************************)
EXTENDS SharedProcesses, TLC

CONSTANTS OtherToken, NoToken, NoName, NoRobot, MaxFaults, Others

VARIABLES part, \* which of them the behaviour is of
          \* NightlyCheck, for the check
          conn, link, robot, token, desk, faults, number, docs, status, code, asked,
          outlived, night, pending, unread,
          \* NightlyCheck, for robots by day
          dconn, dlink, drobot, dtoken, ddesk, dfaults, dnumber, ddocs, dstatus, dcode,
          dasked, doutlived, dnight, dpending, dunread

TeamCalls == {"createTeamProcess", "updateTeamProcess", "deleteTeamProcess",
              "addComment"}

\* Of the three ways to make a robot the shortest.
Check == INSTANCE NightlyCheck
  WITH Google <- {"g"}, Moodle <- {}, Other <- {"e"}, Shared <- {}, Keys <- {1, 2},
       Tokens <- {1, 2}, Robots <- {1}, MaxVersion <- 1, req <- desk,
       Calls <- {"reconnect", "refreshToken", "removeConnection", "team", "deleteRobot"}

SharedRobot == INSTANCE NightlyCheck
  WITH Google <- {"g"}, Moodle <- {"m"}, Other <- {}, Shared <- {"s"}, Keys <- {1},
       Tokens <- {}, Robots <- 1..2, MaxVersion <- 2,
       Calls <- {"createConnection", "removeConnection", "toggleRobotActivation",
                 "workspace", "deleteRobot", "editProcess", "replaceProcess"},
       conn <- dconn, link <- dlink, robot <- drobot, token <- dtoken, req <- ddesk,
       faults <- dfaults, number <- dnumber, docs <- ddocs, status <- dstatus,
       code <- dcode, asked <- dasked, outlived <- doutlived, night <- dnight,
       pending <- dpending, unread <- dunread

\* Creations and deletions that overlap.
RacingRobot == INSTANCE NightlyCheck
  WITH Google <- {}, Moodle <- {}, Other <- {}, Shared <- {}, Keys <- {1},
       Tokens <- {}, Robots <- 1..2, MaxVersion <- 2, Requests <- Others,
       Calls <- {"personal", "deleteRobot", "editProcess", "replaceProcess"},
       conn <- dconn, link <- dlink, robot <- drobot, token <- dtoken, req <- ddesk,
       faults <- dfaults, number <- dnumber, docs <- ddocs, status <- dstatus,
       code <- dcode, asked <- dasked, outlived <- doutlived, night <- dnight,
       pending <- dpending, unread <- dunread

checkTables == <<conn, link, robot, token, desk, faults, number, docs, status, code,
                 asked, outlived, night, pending, unread>>
dayTables == <<dconn, dlink, drobot, dtoken, ddesk, dfaults, dnumber, ddocs, dstatus,
               dcode, dasked, doutlived, dnight, dpending, dunread>>

\* The user has made one connection at Google and one elsewhere, and no robot yet.
ConnectedInit ==
  /\ conn = [n \in {"g", "e"} |->
               IF n = "g" THEN [key |-> 1, refresh |-> 1]
                          ELSE [key |-> 2, refresh |-> OtherToken]]
  /\ link = [b \in {1} |-> [k \in {1, 2} |-> "none"]]
  /\ robot = [b \in {1} |-> Check!NoRow]
  /\ token = [t \in {1, 2} |-> IF t = 1 THEN "valid" ELSE "unused"]
  /\ desk = [r \in Requests |-> Check!Idle]
  /\ faults = 0
  /\ number = [k \in Check!Kinds |-> 1]
  /\ docs = {1}
  /\ status = "Draft"
  /\ code = [k \in Check!Kinds |-> [v \in 0..1 |-> NoRobot]]
  /\ asked = [b \in {1} |-> {}]
  /\ outlived = {}
  /\ night = Check!Asleep
  /\ pending = {}
  /\ unread = {}

PartsInit ==
  /\ part \in {"check", "sharedRobots", "racingRobots", "team"}
  /\ ConnectedInit
  /\ IF part = "racingRobots" THEN RacingRobot!Init ELSE SharedRobot!Init
  /\ SharedInit

PartsNext ==
  \/ part = "check" /\ Check!Next /\ UNCHANGED <<part, dayTables, sharedVars>>
  \/ /\ \/ part = "sharedRobots" /\ SharedRobot!DayNext
        \/ part = "racingRobots" /\ RacingRobot!DayNext
     /\ UNCHANGED <<part, checkTables, sharedVars>>
  \/ part = "team" /\ SharedNext /\ UNCHANGED <<part, checkTables, dayTables>>

PartsSpec ==
  /\ PartsInit
  /\ [][PartsNext]_<<part, checkTables, dayTables, sharedVars>>
  /\ Check!Fairness

-----------------------------------------------------------------------------

\* A check that has begun ends, whatever clients do meanwhile.
NightCheckEnds == Check!CheckEnds

\* A broken connection does not stay unreported, unless it is repaired or given up.
BrokenIsReported == Check!BrokenReported

\* The code that a robot of the user or of the workspace runs was stored before
\* its row, however creations interleave and wherever they fail.
RobotsCodeStored ==
  /\ part = "sharedRobots" => SharedRobot!CodeStored
  /\ part = "racingRobots" => RacingRobot!CodeStored
=============================================================================
