-------------------------------- MODULE Robots --------------------------------
(***************************************************************************)
(* RobotService, WorkspaceRobotsService and TeamRobotsService: a process   *)
(* is published as a robot, and robots are deleted.                        *)
(*                                                                         *)
(* A personal robot is found again by the version of the process that it   *)
(* was made of, by which also the storage of its code is named.  The       *)
(* version itself is made by ProcessesService, whose awaits are those of   *)
(* ProcessVersions: here each of its calls is one step.  Deleting a        *)
(* process deletes none of its robots.                                     *)
(***************************************************************************)
EXTENDS Connections

VARIABLES number,  \* the version number of the process of each kind, 0 for no process
          docs,    \* the versions of the personal process that have a document
          status,  \* is the personal process "Draft" or "Published"?
          code,    \* robot-code.json by kind and version: the robot it is of
          asked,   \* history: the connections that each robot was made with
          outlived \* history: the robots that lived on when the personal process
                   \* they were made of was deleted

robotVars == <<number, docs, status, code, asked, outlived>>
stores == <<conn, link, robot, token, faults, robotVars>>

Numbers == 0..MaxVersion

\* The creation of a robot under the key b.
NewRobot(l, k, b, ks) ==
  [Idle EXCEPT !.at = l, !.kind = k, !.robot = b, !.own = b, !.keys = ks,
               !.number = number[k]]

\* The least robot key that no row and no request has.
FreshRobot ==
  LET free == {b \in Robots : robot[b] = NoRow /\ \A q \in Requests : req[q].own # b}
  IN  {b \in free : \A c \in free : b <= c}

\* The keys that users see: those of their own connections, and in a team those
\* of its workspace.
Offered(k) ==
  {conn[n].key : n \in {m \in IF k = "team" THEN Names ELSE Own :
                          Exists(m) /\ conn[m].key # 0}}

\* The robots of the personal process.
Personal == {b \in Robots : Live(b) /\ robot[b].kind = "personal"}

\* createProcessVersion for the personal process: the document of the next
\* number must not be there yet.
AddVersion ==
  /\ number["personal"] < MaxVersion
  /\ number["personal"] + 1 \notin docs
  /\ number' = [number EXCEPT !["personal"] = @ + 1]
  /\ docs' = docs \union {number["personal"] + 1}

-----------------------------------------------------------------------------
(* Creation *)

CreateRobot(r, k) ==
  /\ \E b \in FreshRobot, ks \in SUBSET Offered(k) :
       /\ k # "personal" => number[k] > 0
       /\ Begin(r, NewRobot(CASE k = "personal" -> "newVersion"
                              [] k = "workspace" -> "codePut"
                              [] OTHER -> "robotSave", k, b, ks))
       /\ asked' = [asked EXCEPT ![b] = ks]
  /\ UNCHANGED <<conn, link, robot, token, faults, number, docs, status, code, outlived>>

\* createProcessVersionFromCurrent: without a process, or without its document,
\* the call ends.
NewVersion(r) ==
  /\ req[r].at = "newVersion"
  /\ \/ /\ number["personal"] \in docs
        /\ AddVersion
        /\ Advance(r, "processRead")
     \/ /\ number["personal"] \in docs => number["personal"] + 1 \in docs
        /\ Finish(r)
        /\ UNCHANGED <<number, docs>>
  /\ UNCHANGED <<conn, link, robot, token, faults, status, code, asked, outlived>>

\* The number is what the process has by now, not what the version was given.
ProcessRead(r) ==
  /\ req[r].at = "processRead"
  /\ Go(r, [req[r] EXCEPT !.at = "publish", !.number = number["personal"]])
  /\ UNCHANGED stores

\* The mark of the process, if there is one.
Mark(s) == status' = IF number["personal"] = 0 THEN status ELSE s

\* Only now does a creation that has read no process end.
Publish(r) ==
  /\ req[r].at = "publish"
  /\ Mark("Published")
  /\ IF req[r].number = 0 THEN Finish(r) ELSE Advance(r, "codePut")
  /\ UNCHANGED <<conn, link, robot, token, faults, number, docs, code, asked, outlived>>

\* Fault: the row is saved and the code is forgotten.
CodePutSkipped(r) ==
  /\ req[r].at = "codePut"
  /\ Advance(r, "robotSave")
  /\ UNCHANGED stores

CodePut(r) ==
  /\ req[r].at = "codePut"
  /\ code' = [code EXCEPT ![req[r].kind][req[r].number] = req[r].own]
  /\ Advance(r, "robotSave")
  /\ UNCHANGED <<conn, link, robot, token, faults, number, docs, status, asked, outlived>>

RobotSave(r) ==
  /\ req[r].at = "robotSave"
  /\ LET k == req[r].kind
     IN  /\ robot' = [robot EXCEPT ![req[r].own] =
                        [state |-> "live", kind |-> k, number |-> req[r].number]]
         /\ IF k = "personal" THEN Advance(r, "robotFind")
            ELSE IF req[r].keys = {} THEN Finish(r) ELSE Advance(r, "linksSave")
  /\ UNCHANGED <<conn, link, token, faults, robotVars>>

\* The robots that findOne may return for a version of the personal process.
Found(v) == {b \in Personal : robot[b].number = v}

\* Fault: the version is left out of the query.
RobotFindAny(r) ==
  /\ req[r].at = "robotFind"
  /\ \E b \in Personal : Go(r, [req[r] EXCEPT !.at = "linksSave", !.robot = b])
  /\ UNCHANGED stores

\* The row saved is looked up again by its process and version.
RobotFind(r) ==
  /\ req[r].at = "robotFind"
  /\ \/ \E b \in Found(req[r].number) :
          Go(r, [req[r] EXCEPT !.at = "linksSave", !.robot = b])
     \/ Found(req[r].number) = {} /\ Finish(r)
  /\ UNCHANGED stores

LinksSave(r) ==
  /\ req[r].at = "linksSave"
  /\ LET b == req[r].robot
     IN  IF Linkable(b, req[r].keys)
         THEN link' = [link EXCEPT ![b] =
                         [k \in Keys |-> IF k \in req[r].keys THEN "on" ELSE @[k]]]
         ELSE UNCHANGED link
  /\ Finish(r)
  /\ UNCHANGED <<conn, robot, token, faults, robotVars>>

-----------------------------------------------------------------------------
(* Deletion *)

DeleteRobot(r, b) ==
  /\ Live(b)
  /\ Begin(r, [NewRobot(IF robot[b].kind = "team" THEN "linksDelete" ELSE "terminate",
                        robot[b].kind, b, {}) EXCEPT !.own = NoRobot])
  /\ UNCHANGED stores

\* Fault: the process stays as it was marked.
TerminateOnly(r) ==
  /\ req[r].at = "terminate"
  /\ Advance(r, "robotDelete")
  /\ UNCHANGED stores

\* Only the personal service marks the process, and gives up when its robot
\* cannot be terminated.
Terminate(r) ==
  /\ req[r].at = "terminate"
  /\ Advance(r, IF req[r].kind = "personal" THEN "unpublish" ELSE "robotDelete")
  /\ UNCHANGED stores

Unpublish(r) ==
  /\ req[r].at = "unpublish"
  /\ Mark("Draft")
  /\ Advance(r, "robotDelete")
  /\ UNCHANGED <<conn, link, robot, token, faults, number, docs, code, asked, outlived>>

Unlinked(b) == [link EXCEPT ![b] = [k \in Keys |-> "none"]]

LinksDelete(r) ==
  /\ req[r].at = "linksDelete"
  /\ link' = Unlinked(req[r].robot)
  /\ Advance(r, "robotDelete")
  /\ UNCHANGED <<conn, robot, token, faults, robotVars>>

\* The links of a robot go with it.
RobotDelete(r) ==
  /\ req[r].at = "robotDelete"
  /\ robot' = [robot EXCEPT ![req[r].robot].state = "deleted"]
  /\ link' = Unlinked(req[r].robot)
  /\ Finish(r)
  /\ UNCHANGED <<conn, token, faults, robotVars>>

-----------------------------------------------------------------------------
(* Calls of ProcessesService, and of the services of workspaces and teams *)

\* A new version of a process.
EditProcess(k) ==
  /\ {"editProcess", k} \subseteq Calls
  /\ number[k] > 0
  /\ IF k = "personal" THEN AddVersion
     ELSE /\ number[k] < MaxVersion
          /\ number' = [number EXCEPT ![k] = @ + 1]
          /\ UNCHANGED docs
  /\ UNCHANGED <<conn, link, robot, token, req, faults, status, code, asked, outlived>>

\* The row of the personal process goes; its robots stay.
DropProcess ==
  /\ number' = [number EXCEPT !["personal"] = 0]
  /\ status' = "Draft"
  /\ outlived' = outlived \union Personal

\* Of the documents only the one of the current version goes.
DeleteProcess(r) ==
  /\ Free(r)
  /\ number["personal"] > 0
  /\ DropProcess
  /\ docs' = docs \ {number["personal"]}
  /\ UNCHANGED <<conn, link, robot, token, req, faults, code, asked>>

\* createProcess and createProcessAllParams under the same id.  When the first
\* document is refused, the row goes, also one that was there before.
CreateProcess(r) ==
  /\ Free(r)
  /\ \/ AddVersion /\ UNCHANGED <<status, outlived>>
     \/ /\ number["personal"] + 1 \in docs
        /\ DropProcess
        /\ UNCHANGED docs
  /\ UNCHANGED <<conn, link, robot, token, req, faults, code, asked>>

\* deleteProcessVersion
DeleteVersion(r, v) ==
  /\ Free(r)
  /\ number["personal"] > 0
  /\ v \in docs
  /\ docs' = docs \ {v}
  /\ UNCHANGED <<conn, link, robot, token, req, faults, number, status, code, asked,
                 outlived>>

\* The process of a workspace or a team is deleted, or made again, a team's
\* without being deleted first: the number starts again.
ReplaceProcess(r, k) ==
  /\ Free(r)
  /\ \E n \in Numbers \cap (0..2) :
       /\ n = 0 => number[k] > 0
       /\ n > 0 => number[k] = 0 \/ k = "team"
       /\ n = 2 => k = "team"
       /\ number' = [number EXCEPT ![k] = n]
  /\ UNCHANGED <<conn, link, robot, token, req, faults, docs, status, code, asked, outlived>>

ProcessArrival(r) ==
  \/ \E k \in Kinds : EditProcess(k)
  \/ /\ {"replaceProcess", "personal"} \subseteq Calls
     /\ DeleteProcess(r) \/ CreateProcess(r)
  \/ /\ {"deleteProcessVersion", "personal"} \subseteq Calls
     /\ \E v \in Numbers : DeleteVersion(r, v)
  \/ /\ "replaceProcess" \in Calls
     /\ \E k \in {"workspace", "team"} \cap Calls : ReplaceProcess(r, k)

RobotArrival(r) ==
  \/ \E k \in Kinds : k \in Calls /\ CreateRobot(r, k)
  \/ \E b \in Robots : "deleteRobot" \in Calls /\ DeleteRobot(r, b)
  \/ ProcessArrival(r)

RobotStep(r) ==
  \/ NewVersion(r) \/ ProcessRead(r) \/ Publish(r) \/ CodePut(r)
  \/ RobotSave(r) \/ RobotFind(r) \/ LinksSave(r)
  \/ Terminate(r) \/ Unpublish(r) \/ LinksDelete(r) \/ RobotDelete(r)
=============================================================================
