----------------------------- MODULE Connections -----------------------------
(***************************************************************************)
(* ConnectionService and WorkspaceConnectionsService: accounts at other    *)
(* providers that robots use, and the requests that change them.           *)
(*                                                                         *)
(* A connection of a user is a row of the table connection, one of a       *)
(* workspace a row of workspace_connection.  Both are looked up by name    *)
(* and carry a key; robot_connection links a robot to the key of a row of  *)
(* connection.  The model follows the connections of one user and one      *)
(* workspace; a name stands for a provider and a name.                     *)
(***************************************************************************)
EXTENDS Naturals, FiniteSets

CONSTANTS Google,     \* names of the user's connections at Google's providers
          Moodle,     \* names of those at Moodle
          Other,      \* names of those at ERPNext or SAP
          Shared,     \* names of the workspace's connections
          Keys,       \* connection keys ever drawn
          Tokens,     \* refresh tokens Google ever grants
          OtherToken, \* the token of any provider but Google
          NoToken,    \* the empty string in place of a refresh token
          NoName,     \* "no name"
          Robots,     \* robot keys ever drawn
          NoRobot,    \* "no robot"
          MaxVersion, \* bound on the version number of a process
          Requests,   \* requests the server may be serving at one time
          Calls,      \* the operations clients call in a run
          MaxFaults   \* bound on the failures in a run

Own == Google \union Moodle \union Other
Names == Own \union Shared

ASSUME KeyAssumption == Keys \subseteq Nat \ {0}
ASSUME TokenAssumption == Tokens \subseteq Nat /\ {OtherToken, NoToken} \cap Tokens = {}
ASSUME RobotAssumption == NoRobot \notin Robots
ASSUME VersionAssumption == MaxVersion \in Nat \ {0}
ASSUME FaultAssumption == MaxFaults \in Nat
ASSUME NameAssumption == Own \cap Shared = {} /\ Google \cap (Moodle \union Other) = {}

VARIABLES conn,   \* connection and workspace_connection, by name
          link,   \* robot_connection, by robot and key
          robot,  \* robot
          token,  \* what Google makes of each refresh token
          req,    \* the requests in flight
          faults  \* how many failures there were

-----------------------------------------------------------------------------
(* Rows *)

\* A database that is not in strict mode gives a connection saved without a key
\* the empty string as one: 0 stands for it.
NoConn == [key |-> 0, refresh |-> NoToken]
Conn == [key: Keys \union {0}, refresh: Tokens \union {OtherToken, NoToken}]

Links == {"none", "on", "off"}

\* The process a robot runs is the user's, the workspace's or a team's.
Kinds == {"personal", "workspace", "team"}
NoRow == [state |-> "unused", kind |-> "personal", number |-> 0]
RobotRow == [state: {"unused", "live", "deleted"}, kind: Kinds, number: 0..MaxVersion]

Exists(n) == conn[n] # NoConn
Live(b) == robot[b].state = "live"
Linked(k) == \E b \in Robots : link[b][k] # "none"

-----------------------------------------------------------------------------
(* Requests *)

Labels == {"idle",
           "connInsert", "askGoogle", "connSave", "revoke", "connDelete", "linkSave",
           "newVersion", "processRead", "publish", "codePut", "robotSave",
           "robotFind", "linksSave", "terminate", "unpublish", "linksDelete",
           "robotDelete"}

\* The locals of a request: the name and the row of the connection it works on,
\* the robot, the keys to link to it, and the process and version of the robot.
Request == [at: Labels, name: Names \union {NoName}, row: Conn, robot: Robots \union {NoRobot},
            own: Robots \union {NoRobot}, keys: SUBSET Keys, kind: Kinds,
            number: 0..MaxVersion]

Idle == [at |-> "idle", name |-> NoName, row |-> NoConn,
         robot |-> NoRobot, own |-> NoRobot, keys |-> {}, kind |-> "personal",
         number |-> 0]

Free(r) == req[r].at = "idle"
Begin(r, call) == Free(r) /\ req' = [req EXCEPT ![r] = call]
Go(r, q) == req' = [req EXCEPT ![r] = q]
Advance(r, l) == Go(r, [req[r] EXCEPT !.at = l])
Finish(r) == Go(r, Idle)

Work(l, n, row) == [Idle EXCEPT !.at = l, !.name = n, !.row = row]

\* The next key that no row, no link and no request mentions, nor does `listed`.
FreshKey(listed) ==
  LET free == {k \in Keys \ listed :
                 /\ \A n \in Names : conn[n].key # k
                 /\ ~Linked(k)
                 /\ \A q \in Requests : req[q].row.key # k /\ k \notin req[q].keys}
  IN  {k \in free : \A j \in free : k <= j}

FreshToken ==
  LET free == {t \in Tokens : token[t] = "unused"}
  IN  {t \in free : \A s \in free : t <= s}

\* The foreign key of robot_connection: the key of a row a robot uses stays.
InUse(n) == n \in Own /\ conn[n].key \in Keys /\ Linked(conn[n].key)

Write(n, row) ==
  conn' = IF InUse(n) /\ row.key # conn[n].key THEN conn
                                               ELSE [conn EXCEPT ![n] = row]

\* Google grants t, or nothing when t is the empty string.
Grant(t) ==
  token' = IF t \in Tokens THEN [token EXCEPT ![t] = "valid"] ELSE token

-----------------------------------------------------------------------------
(* Creation: the name is looked up in one await and saved in a later one.  *)

CreateConnection(r, n) ==
  /\ ~Exists(n)
  /\ \E t \in IF n \in Google THEN FreshToken \union {NoToken} ELSE {OtherToken} :
       /\ Begin(r, Work("connInsert", n, [NoConn EXCEPT !.refresh = t]))
       /\ Grant(t)
  /\ UNCHANGED <<conn, link, robot, faults>>

\* createMoodleConnection saves a connection without a key: the database refuses
\* it, or gives it the empty one if no other connection has it.
ConnInsert(r, listed) ==
  /\ req[r].at = "connInsert"
  /\ LET n == req[r].name
     IN  \/ /\ n \notin Moodle
            /\ \E k \in FreshKey(listed) : Write(n, [req[r].row EXCEPT !.key = k])
         \/ /\ n \in Moodle
            /\ \A m \in Own : Exists(m) => conn[m].key # 0
            /\ Write(n, req[r].row)
         \/ n \in Moodle /\ UNCHANGED conn
  /\ Finish(r)
  /\ UNCHANGED <<link, robot, token, faults>>

-----------------------------------------------------------------------------
(* Changes of the tokens: what is saved is the row that was loaded before. *)

\* createConnection with reconnect, updateconnectionAccessToken and the update
\* of a workspace's connection.  Without a new refresh token the old one stays.
Reconnect(r, n) ==
  /\ Exists(n)
  /\ n \notin Moodle
  /\ \E t \in IF n \in Google THEN FreshToken \union {NoToken} ELSE {OtherToken} :
       /\ Begin(r, Work("connSave", n,
                        [conn[n] EXCEPT !.refresh = IF t = NoToken THEN @ ELSE t]))
       /\ Grant(t)
  /\ UNCHANGED <<conn, link, robot, faults>>

\* refreshToken called by a client.
Refresh(r, n) ==
  /\ n \in Google
  /\ Exists(n)
  /\ Begin(r, Work("askGoogle", n, conn[n]))
  /\ UNCHANGED <<conn, link, robot, token, faults>>

\* What refreshAccessToken may answer to a token: the row to save, with a new
\* refresh token at times, when Google honours it.
Answers(row) ==
  IF row.refresh \in Tokens /\ token[row.refresh] = "valid"
    THEN {row} \union {[row EXCEPT !.refresh = t] : t \in FreshToken}
    ELSE {}

AskGoogle(r) ==
  /\ req[r].at = "askGoogle"
  /\ \/ \E row \in Answers(req[r].row) :
          /\ Grant(row.refresh)
          /\ Go(r, [req[r] EXCEPT !.at = "connSave", !.row = row])
     \/ /\ Answers(req[r].row) = {}
        /\ Finish(r)
        /\ UNCHANGED token
  /\ UNCHANGED <<conn, link, robot, faults>>

\* save inserts the row again if it is gone.
ConnSave(r) ==
  /\ req[r].at = "connSave"
  /\ Write(req[r].name, req[r].row)
  /\ Finish(r)
  /\ UNCHANGED <<link, robot, token, faults>>

-----------------------------------------------------------------------------
(* Removal *)

RemoveConnection(r, n) ==
  /\ Exists(n)
  /\ Begin(r, Work(IF n \in Moodle \union Shared THEN "connDelete" ELSE "revoke",
                   n, conn[n]))
  /\ UNCHANGED <<conn, link, robot, token, faults>>

\* A failure of revokeToken is logged and the removal goes on.
Revoke(r) ==
  /\ req[r].at = "revoke"
  /\ LET t == req[r].row.refresh
     IN  token' \in {token} \union
           (IF t \in Tokens THEN {[token EXCEPT ![t] = "revoked"]} ELSE {})
  /\ Advance(r, "connDelete")
  /\ UNCHANGED <<conn, link, robot, faults>>

\* The database refuses to delete a connection that a robot uses, whose token
\* has been revoked by now.
ConnDelete(r) ==
  /\ req[r].at = "connDelete"
  /\ Write(req[r].name, NoConn)
  /\ Finish(r)
  /\ UNCHANGED <<link, robot, token, faults>>

-----------------------------------------------------------------------------
(* toggleRobotActivation: a missing link is an exception at its null.      *)

ToggleActivation(r, b, k, status) ==
  /\ link[b][k] # "none"
  /\ Begin(r, [Idle EXCEPT !.at = "linkSave", !.robot = b, !.keys = {k},
                           !.number = IF status = "on" THEN 1 ELSE 0])
  /\ UNCHANGED <<conn, link, robot, token, faults>>

\* The foreign keys of a link: its robot and a connection of the user.
Linkable(b, ks) == Live(b) /\ \A k \in ks : \E n \in Own : Exists(n) /\ conn[n].key = k

LinkSave(r) ==
  /\ req[r].at = "linkSave"
  /\ LET b == req[r].robot
         status == IF req[r].number = 1 THEN "on" ELSE "off"
     IN  IF Linkable(b, req[r].keys)
         THEN link' = [link EXCEPT ![b] =
                         [k \in Keys |-> IF k \in req[r].keys THEN status ELSE @[k]]]
         ELSE UNCHANGED link
  /\ Finish(r)
  /\ UNCHANGED <<conn, robot, token, faults>>

-----------------------------------------------------------------------------

\* The user takes the permission back at Google.
Withdraw(t) ==
  /\ token[t] = "valid"
  /\ token' = [token EXCEPT ![t] = "revoked"]
  /\ UNCHANGED <<conn, link, robot, req, faults>>

ConnectionArrival(r) ==
  \/ \E n \in Names :
       \/ "createConnection" \in Calls /\ CreateConnection(r, n)
       \/ "reconnect" \in Calls /\ Reconnect(r, n)
       \/ "refreshToken" \in Calls /\ Refresh(r, n)
       \/ "removeConnection" \in Calls /\ RemoveConnection(r, n)
  \/ \E b \in Robots, k \in Keys, status \in {"on", "off"} :
       "toggleRobotActivation" \in Calls /\ ToggleActivation(r, b, k, status)

ConnectionStep(r, listed) ==
  \/ ConnInsert(r, listed) \/ AskGoogle(r) \/ ConnSave(r)
  \/ Revoke(r) \/ ConnDelete(r) \/ LinkSave(r)
=============================================================================
