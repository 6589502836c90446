-------------------------- MODULE NightlyCheckProofs --------------------------
(***************************************************************************)
(* Proofs about NightlyCheck, with Connections and Robots, for any number  *)
(* of connections, robots, versions, requests and failures.                *)
(***************************************************************************)
EXTENDS NightlyCheck, FiniteSetTheorems, TLAPS

-----------------------------------------------------------------------------
(* Records of requests *)

Creating == {"newVersion", "processRead", "publish", "codePut", "robotSave", "robotFind"}
Deleting == {"terminate", "unpublish", "linksDelete", "robotDelete"}
Linking == {"linkSave", "linksSave"}

\* What a request holds at its control point.
Claim(q) ==
  /\ q.at \in Creating => q.own \in Robots /\ q.robot = q.own
  /\ q.at \in Deleting \union Linking => q.robot \in Robots

TypeInv ==
  /\ TypeOK
  /\ \A r \in Requests : Claim(req[r])
  /\ night.at \in {"load", "askGoogle", "connSave"} => night.name \in Own

LEMMA IdleTyped == Idle \in Request /\ Claim(Idle) /\ Idle.at = "idle"
BY VersionAssumption DEF Idle, Request, Labels, NoConn, Conn, Kinds, Claim, Creating, Deleting, Linking

LEMMA WorkTyped ==
  ASSUME NEW l \in Labels, NEW n \in Names, NEW row \in Conn
  PROVE  /\ Work(l, n, row) \in Request
         /\ Work(l, n, row).at = l
<1>1. Idle \in Request
  BY IdleTyped
<1>2. Work(l, n, row) = [Idle EXCEPT !.at = l, !.name = n, !.row = row]
  BY DEF Work
<1> HIDE DEF Names
<1> QED
  BY <1>1, <1>2 DEF Request

LEMMA NewRobotTyped ==
  ASSUME number \in [Kinds -> Numbers],
         NEW l \in Labels, NEW k \in Kinds, NEW b \in Robots, NEW ks \in SUBSET Keys
  PROVE  LET q == NewRobot(l, k, b, ks)
         IN  /\ q \in Request
             /\ q.at = l /\ q.kind = k /\ q.robot = b /\ q.own = b /\ q.keys = ks
             /\ q.number = number[k]
BY DEF NewRobot, Idle, Request, NoConn, Conn, Numbers

LEMMA AdvanceTyped ==
  ASSUME NEW q \in Request, NEW l \in Labels
  PROVE  LET p == [q EXCEPT !.at = l]
         IN  /\ p \in Request
             /\ p.at = l /\ p.name = q.name /\ p.row = q.row /\ p.robot = q.robot
             /\ p.own = q.own /\ p.keys = q.keys /\ p.kind = q.kind /\ p.number = q.number
BY DEF Request

\* What Google may answer is a row.
LEMMA AnswersTyped ==
  ASSUME NEW row \in Conn, NEW answer \in Answers(row)
  PROVE  answer \in Conn
BY DEF Answers, Conn, FreshToken

\* A request that moves on with locals of their types.
LEMMA MoveTyped ==
  ASSUME TypeInv, NEW r \in Requests, NEW q \in Request, Claim(q), Go(r, q)
  PROVE  req' \in [Requests -> Request] /\ \A s \in Requests : Claim(req'[s])
BY DEF TypeInv, TypeOK, Go

LEMMA FinishTyped ==
  ASSUME TypeInv, NEW r \in Requests, Finish(r)
  PROVE  req' \in [Requests -> Request] /\ \A s \in Requests : Claim(req'[s])
<1>1. Go(r, Idle)
  BY DEF Finish, Go
<1> QED
  BY <1>1, IdleTyped, MoveTyped

\* The labels among which a request only moves from one to the next.
LEMMA AdvanceClaims ==
  ASSUME TypeInv, NEW r \in Requests, NEW l \in Labels, Advance(r, l),
         \/ req[r].at \in Creating /\ l \in Creating \union Linking
         \/ req[r].at \in Deleting /\ l \in Deleting
         \/ l \notin Creating \union Deleting \union Linking
  PROVE  req' \in [Requests -> Request] /\ \A s \in Requests : Claim(req'[s])
<1> DEFINE q == [req[r] EXCEPT !.at = l]
<1>1. req[r] \in Request /\ Claim(req[r])
  BY DEF TypeInv, TypeOK
<1>2. q \in Request /\ q.at = l /\ q.robot = req[r].robot /\ q.own = req[r].own
  BY <1>1, AdvanceTyped
<1>3. Claim(q)
  BY <1>1, <1>2 DEF Claim, Creating, Deleting, Linking
<1>4. Go(r, q)
  BY DEF Advance
<1> QED
  BY <1>2, <1>3, <1>4, MoveTyped

LEMMA WorkClaims ==
  ASSUME TypeInv, NEW r \in Requests, NEW n \in Names, NEW row \in Conn,
         NEW l \in {"connInsert", "askGoogle", "connSave", "revoke", "connDelete"},
         Begin(r, Work(l, n, row))
  PROVE  req' \in [Requests -> Request] /\ \A s \in Requests : Claim(req'[s])
<1>1. l \in Labels
  BY DEF Labels
<1>2. Work(l, n, row) \in Request /\ Work(l, n, row).at = l
  BY <1>1, WorkTyped
<1>3. Claim(Work(l, n, row))
  BY <1>2 DEF Claim, Creating, Deleting, Linking
<1>4. Go(r, Work(l, n, row))
  BY DEF Begin, Go
<1> QED
  BY <1>2, <1>3, <1>4, MoveTyped

-----------------------------------------------------------------------------
(* Every step keeps types and claims *)

LEMMA NoConnTyped == NoConn \in Conn /\ NoConn.key = 0 /\ NoConn.refresh = NoToken
BY DEF NoConn, Conn

LEMMA WriteTyped ==
  ASSUME TypeOK, NEW n, NEW row \in Conn, Write(n, row)
  PROVE  conn' \in [Names -> Conn]
BY DEF TypeOK, Write

LEMMA GrantTyped ==
  ASSUME TypeOK, NEW t, Grant(t)
  PROVE  token' \in [Tokens -> {"unused", "valid", "revoked"}]
BY DEF TypeOK, Grant

\* What the steps of connections leave alone.
LEMMA ConnectionsTyped ==
  ASSUME TypeInv, UNCHANGED <<robotVars, nightVars>>,
         conn' \in [Names -> Conn], link' \in [Robots -> [Keys -> Links]],
         robot' \in [Robots -> RobotRow],
         token' \in [Tokens -> {"unused", "valid", "revoked"}],
         req' \in [Requests -> Request], \A s \in Requests : Claim(req'[s]),
         faults' \in 0..MaxFaults
  PROVE  TypeInv'
<1>1. TypeOK'
  BY DEF TypeInv, TypeOK, robotVars, nightVars
<1>2. \A r \in Requests : Claim(req'[r])
  OBVIOUS
<1> QED
  BY <1>1, <1>2 DEF TypeInv, nightVars, Claim

LEMMA ConnectionArrivalTyped ==
  ASSUME TypeInv, NEW r \in Requests, ConnectionArrival(r), UNCHANGED <<robotVars, nightVars>>
  PROVE  TypeInv'
<1> USE DEF TypeInv, TypeOK
<1>1. ASSUME NEW n \in Names, CreateConnection(r, n) PROVE TypeInv'
  <2> DEFINE T == IF n \in Google THEN FreshToken \union {NoToken} ELSE {OtherToken}
  <2>1. PICK t \in T :
          /\ Begin(r, Work("connInsert", n, [NoConn EXCEPT !.refresh = t]))
          /\ Grant(t)
    BY <1>1 DEF CreateConnection
  <2>2. t \in Tokens \union {NoToken, OtherToken}
    BY <2>1 DEF FreshToken
  <2>3. [NoConn EXCEPT !.refresh = t] \in Conn
    BY <2>2, NoConnTyped DEF Conn
  <2>4. req' \in [Requests -> Request] /\ \A s \in Requests : Claim(req'[s])
    BY <2>1, <2>3, WorkClaims
  <2>5. token' \in [Tokens -> {"unused", "valid", "revoked"}]
    BY <2>1, GrantTyped
  <2> QED
    BY <1>1, <2>4, <2>5, ConnectionsTyped DEF CreateConnection
<1>2. ASSUME NEW n \in Names, Reconnect(r, n) PROVE TypeInv'
  <2> DEFINE T == IF n \in Google THEN FreshToken \union {NoToken} ELSE {OtherToken}
             row(t) == [conn[n] EXCEPT !.refresh = IF t = NoToken THEN @ ELSE t]
  <2>1. PICK t \in T : Begin(r, Work("connSave", n, row(t))) /\ Grant(t)
    BY <1>2 DEF Reconnect
  <2>2. t \in Tokens \union {NoToken, OtherToken}
    BY <2>1 DEF FreshToken
  <2>3. conn[n] \in Conn
    OBVIOUS
  <2>4. row(t) \in Conn
    BY <2>2, <2>3 DEF Conn
  <2>5. req' \in [Requests -> Request] /\ \A s \in Requests : Claim(req'[s])
    BY <2>1, <2>4, WorkClaims
  <2>6. token' \in [Tokens -> {"unused", "valid", "revoked"}]
    BY <2>1, GrantTyped
  <2> QED
    BY <1>2, <2>5, <2>6, ConnectionsTyped DEF Reconnect
<1>3. ASSUME NEW n \in Names, Refresh(r, n) PROVE TypeInv'
  <2>1. req' \in [Requests -> Request] /\ \A s \in Requests : Claim(req'[s])
    BY <1>3, WorkClaims DEF Refresh
  <2> QED
    BY <1>3, <2>1, ConnectionsTyped DEF Refresh
<1>4. ASSUME NEW n \in Names, RemoveConnection(r, n) PROVE TypeInv'
  <2>1. req' \in [Requests -> Request] /\ \A s \in Requests : Claim(req'[s])
    BY <1>4, WorkClaims DEF RemoveConnection
  <2> QED
    BY <1>4, <2>1, ConnectionsTyped DEF RemoveConnection
<1>5. ASSUME NEW b \in Robots, NEW k \in Keys, NEW s \in {"on", "off"},
             ToggleActivation(r, b, k, s)
      PROVE  TypeInv'
  <2> DEFINE q == [Idle EXCEPT !.at = "linkSave", !.robot = b, !.keys = {k},
                               !.number = IF s = "on" THEN 1 ELSE 0]
  <2>1. q \in Request /\ q.at = "linkSave" /\ q.robot = b
    <3>1. (IF s = "on" THEN 1 ELSE 0) \in 0..MaxVersion
      BY VersionAssumption
    <3>2. {k} \in SUBSET Keys /\ "linkSave" \in Labels
      BY DEF Labels
    <3> HIDE DEF Names
    <3> QED
      BY <3>1, <3>2, IdleTyped DEF Request
  <2>2. Claim(q)
    BY <2>1 DEF Claim, Creating, Deleting, Linking
  <2>3. Go(r, q)
    BY <1>5 DEF ToggleActivation, Begin, Go
  <2>4. req' \in [Requests -> Request] /\ \A t \in Requests : Claim(req'[t])
    BY <2>1, <2>2, <2>3, MoveTyped
  <2> QED
    BY <1>5, <2>4, ConnectionsTyped DEF ToggleActivation
<1> QED
  BY <1>1, <1>2, <1>3, <1>4, <1>5 DEF ConnectionArrival

LEMMA ConnectionStepTyped ==
  ASSUME TypeInv, NEW r \in Requests, NEW listed, ConnectionStep(r, listed),
         UNCHANGED <<robotVars, nightVars>>
  PROVE  TypeInv'
<1> USE DEF TypeInv, TypeOK
<1>a. req[r] \in Request /\ req[r].row \in Conn /\ Claim(req[r])
  BY DEF Request
<1>1. CASE ConnInsert(r, listed)
  <2>1. \A k \in FreshKey(listed) : [req[r].row EXCEPT !.key = k] \in Conn
    BY <1>a DEF FreshKey, Conn
  <2>2. conn' \in [Names -> Conn]
    BY <1>1, <1>a, <2>1, WriteTyped DEF ConnInsert
  <2>3. req' \in [Requests -> Request] /\ \A s \in Requests : Claim(req'[s])
    BY <1>1, FinishTyped DEF ConnInsert
  <2> QED
    BY <1>1, <2>2, <2>3, ConnectionsTyped DEF ConnInsert
<1>2. CASE AskGoogle(r)
  <2>1. CASE \E row \in Answers(req[r].row) :
               /\ Grant(row.refresh)
               /\ Go(r, [req[r] EXCEPT !.at = "connSave", !.row = row])
    <3>1. PICK row \in Answers(req[r].row) :
            /\ Grant(row.refresh)
            /\ Go(r, [req[r] EXCEPT !.at = "connSave", !.row = row])
      BY <2>1
    <3> DEFINE q == [req[r] EXCEPT !.at = "connSave", !.row = row]
    <3>2. row \in Conn
      BY <1>a, <3>1, AnswersTyped
    <3>3. q \in Request /\ q.at = "connSave"
      BY <1>a, <3>2 DEF Request, Labels
    <3>4. Claim(q)
      BY <3>3 DEF Claim, Creating, Deleting, Linking
    <3>5. req' \in [Requests -> Request] /\ \A s \in Requests : Claim(req'[s])
      BY <3>1, <3>3, <3>4, MoveTyped
    <3>6. token' \in [Tokens -> {"unused", "valid", "revoked"}]
      BY <3>1, GrantTyped
    <3> QED
      BY <1>2, <3>5, <3>6, ConnectionsTyped DEF AskGoogle
  <2>2. CASE Finish(r) /\ UNCHANGED token
    <3>1. req' \in [Requests -> Request] /\ \A s \in Requests : Claim(req'[s])
      BY <2>2, FinishTyped
    <3> QED
      BY <1>2, <2>2, <3>1, ConnectionsTyped DEF AskGoogle
  <2> QED
    BY <1>2, <2>1, <2>2 DEF AskGoogle
<1>3. CASE ConnSave(r)
  <2>1. req' \in [Requests -> Request] /\ \A s \in Requests : Claim(req'[s])
    BY <1>3, FinishTyped DEF ConnSave
  <2>2. conn' \in [Names -> Conn]
    BY <1>3, <1>a, WriteTyped DEF ConnSave
  <2> QED
    BY <1>3, <2>1, <2>2, ConnectionsTyped DEF ConnSave
<1>4. CASE Revoke(r)
  <2>1. req' \in [Requests -> Request] /\ \A s \in Requests : Claim(req'[s])
    BY <1>4, AdvanceClaims DEF Revoke, Labels, Creating, Deleting, Linking
  <2>2. token' \in [Tokens -> {"unused", "valid", "revoked"}]
    BY <1>4 DEF Revoke
  <2> QED
    BY <1>4, <2>1, <2>2, ConnectionsTyped DEF Revoke
<1>5. CASE ConnDelete(r)
  <2>1. req' \in [Requests -> Request] /\ \A s \in Requests : Claim(req'[s])
    BY <1>5, FinishTyped DEF ConnDelete
  <2>2. conn' \in [Names -> Conn]
    BY <1>5, NoConnTyped, WriteTyped DEF ConnDelete
  <2> QED
    BY <1>5, <2>1, <2>2, ConnectionsTyped DEF ConnDelete
<1>6. CASE LinkSave(r)
  <2>1. req' \in [Requests -> Request] /\ \A s \in Requests : Claim(req'[s])
    BY <1>6, FinishTyped DEF LinkSave
  <2>2. link' \in [Robots -> [Keys -> Links]]
    <3> DEFINE b == req[r].robot
               status_ == IF req[r].number = 1 THEN "on" ELSE "off"
               row == [k \in Keys |-> IF k \in req[r].keys THEN status_ ELSE link[b][k]]
    <3>1. b \in Robots
      BY <1>6, <1>a DEF LinkSave, Claim, Linking
    <3>2. row \in [Keys -> Links]
      BY <3>1 DEF Links
    <3>3. link' = link \/ link' = [link EXCEPT ![b] = row]
      BY <1>6, <3>1 DEF LinkSave
    <3> QED
      BY <3>2, <3>3
  <2> QED
    BY <1>6, <2>1, <2>2, ConnectionsTyped DEF LinkSave
<1> QED
  BY <1>1, <1>2, <1>3, <1>4, <1>5, <1>6 DEF ConnectionStep

\* What the steps of robots leave alone.
LEMMA RobotsTyped ==
  ASSUME TypeInv, UNCHANGED <<conn, token, faults, nightVars>>,
         link' \in [Robots -> [Keys -> Links]], robot' \in [Robots -> RobotRow],
         req' \in [Requests -> Request], \A s \in Requests : Claim(req'[s]),
         number' \in [Kinds -> Numbers], docs' \subseteq Numbers \ {0},
         status' \in {"Draft", "Published"},
         code' \in [Kinds -> [Numbers -> Robots \union {NoRobot}]],
         asked' \in [Robots -> SUBSET Keys], outlived' \subseteq Robots
  PROVE  TypeInv'
<1>1. TypeOK'
  BY DEF TypeInv, TypeOK, nightVars
<1>2. \A r \in Requests : Claim(req'[r])
  OBVIOUS
<1> QED
  BY <1>1, <1>2 DEF TypeInv, nightVars, Claim

LEMMA AddVersionTyped ==
  ASSUME TypeInv, AddVersion
  PROVE  /\ number' \in [Kinds -> Numbers] /\ docs' \subseteq Numbers \ {0}
         /\ number'["personal"] = number["personal"] + 1
<1>1. /\ number \in [Kinds -> Numbers] /\ "personal" \in Kinds
      /\ docs \subseteq Numbers \ {0}
  BY DEF TypeInv, TypeOK, Kinds
<1>2. number["personal"] + 1 \in Numbers \ {0}
  BY <1>1, VersionAssumption DEF AddVersion, Numbers
<1>3. /\ number' = [number EXCEPT !["personal"] = number["personal"] + 1]
      /\ docs' = docs \union {number["personal"] + 1}
  BY DEF AddVersion
<1> QED
  BY <1>1, <1>2, <1>3

\* What calls about processes do: they touch no robot, and unless they are about
\* other processes, the personal one gets its next number, or goes while no robot
\* is being made.
Numbered ==
  /\ status' = status /\ outlived' = outlived
  /\ number'["personal"] \in {number["personal"], number["personal"] + 1}

Dropped ==
  /\ number'["personal"] = 0 /\ status' = "Draft"
  /\ outlived' = outlived \union Personal

LEMMA ProcessCalls ==
  ASSUME TypeInv, NEW r \in Requests, ProcessArrival(r)
  PROVE  /\ UNCHANGED <<conn, link, robot, token, req, faults, code, asked>>
         /\ number' \in [Kinds -> Numbers] /\ docs' \subseteq Numbers \ {0}
         /\ Numbered \/ (Dropped /\ req[r].at = "idle")
<1>a. /\ number \in [Kinds -> Numbers] /\ Kinds = {"personal", "workspace", "team"}
      /\ docs \subseteq Numbers \ {0}
      /\ Numbers = 0..MaxVersion /\ MaxVersion \in Nat \ {0}
  BY VersionAssumption DEF TypeInv, TypeOK, Kinds, Numbers
<1>b. DropProcess => Dropped /\ number' \in [Kinds -> Numbers]
  BY <1>a DEF DropProcess, Dropped
<1>1. CASE DeleteProcess(r) \/ CreateProcess(r)
  BY <1>a, <1>b, <1>1, AddVersionTyped DEF DeleteProcess, CreateProcess, Numbered, Free
<1>2. ASSUME NEW v \in Numbers, DeleteVersion(r, v)
      PROVE  /\ UNCHANGED <<conn, link, robot, token, req, faults, code, asked>>
             /\ number' = number /\ docs' \subseteq docs /\ Numbered
  BY <1>2 DEF DeleteVersion, Numbered
<1>3. ASSUME NEW k \in Kinds \ {"personal"}, ReplaceProcess(r, k) \/ EditProcess(k)
      PROVE  /\ UNCHANGED <<conn, link, robot, token, req, faults, code, asked>>
             /\ number' \in [Kinds -> Numbers] /\ docs' = docs /\ Numbered
  <2>1. PICK n \in Numbers : number' = [number EXCEPT ![k] = n]
    <3>1. CASE ReplaceProcess(r, k)
      BY <3>1 DEF ReplaceProcess
    <3>2. CASE EditProcess(k)
      <4>1. number[k] < MaxVersion /\ number' = [number EXCEPT ![k] = number[k] + 1]
        BY <3>2 DEF EditProcess
      <4>2. number[k] + 1 \in Numbers
        BY <1>a, <4>1
      <4> QED
        BY <4>1, <4>2
    <3> QED
      BY <1>3, <3>1, <3>2
  <2>2. number' \in [Kinds -> Numbers] /\ number'["personal"] = number["personal"]
    BY <1>a, <2>1
  <2> QED
    BY <1>3, <2>2 DEF ReplaceProcess, EditProcess, Numbered
<1>4. CASE EditProcess("personal")
  BY <1>4, AddVersionTyped DEF EditProcess, Numbered
<1> QED
  BY <1>a, <1>1, <1>2, <1>3, <1>4 DEF ProcessArrival

\* A call about the robot b.
LEMMA NewRobotClaims ==
  ASSUME TypeInv, NEW r \in Requests, NEW k \in Kinds, NEW b \in Robots,
         NEW ks \in SUBSET Keys, NEW l \in Creating,
         Begin(r, NewRobot(l, k, b, ks))
  PROVE  req' \in [Requests -> Request] /\ \A s \in Requests : Claim(req'[s])
<1> DEFINE q == NewRobot(l, k, b, ks)
<1>1. l \in Labels
  BY DEF Creating, Labels
<1>2. q \in Request /\ q.at = l /\ q.robot = b /\ q.own = b
  BY <1>1, NewRobotTyped DEF TypeInv, TypeOK
<1>3. Claim(q)
  BY <1>2 DEF Claim
<1>4. Go(r, q)
  BY DEF Begin, Go
<1> QED
  BY <1>2, <1>3, <1>4, MoveTyped

LEMMA RobotArrivalTyped ==
  ASSUME TypeInv, NEW r \in Requests, RobotArrival(r), UNCHANGED nightVars
  PROVE  TypeInv'
<1> USE DEF TypeInv, TypeOK
<1>1. ASSUME NEW k \in Kinds, CreateRobot(r, k) PROVE TypeInv'
  <2> DEFINE l == CASE k = "personal" -> "newVersion"
                    [] k = "workspace" -> "codePut"
                    [] OTHER -> "robotSave"
  <2>1. PICK b \in FreshRobot, ks \in SUBSET Offered(k) :
          /\ Begin(r, NewRobot(l, k, b, ks))
          /\ asked' = [asked EXCEPT ![b] = ks]
    BY <1>1 DEF CreateRobot
  <2>2. l \in Creating
    BY DEF Creating, Kinds
  <2>3. Offered(k) \subseteq Keys
    BY DEF Offered, Own, Names, Conn
  <2>4. ks \in SUBSET Keys /\ b \in Robots
    BY <2>1, <2>3 DEF FreshRobot
  <2> HIDE DEF l
  <2>5. req' \in [Requests -> Request] /\ \A s \in Requests : Claim(req'[s])
    BY <2>1, <2>2, <2>4, NewRobotClaims
  <2>6. asked' \in [Robots -> SUBSET Keys]
    BY <2>1, <2>4
  <2> QED
    BY <1>1, <2>5, <2>6, RobotsTyped DEF CreateRobot
<1>2. ASSUME NEW b \in Robots, DeleteRobot(r, b) PROVE TypeInv'
  <2> DEFINE k == robot[b].kind
             l == IF k = "team" THEN "linksDelete" ELSE "terminate"
             p == NewRobot(l, k, b, {})
             q == [p EXCEPT !.own = NoRobot]
  <2>1. k \in Kinds /\ l \in Labels /\ l \in Deleting
    BY DEF RobotRow, Labels, Deleting
  <2>2. p \in Request /\ p.at = l /\ p.robot = b
    BY <2>1, NewRobotTyped
  <2>3. q \in Request /\ q.at = l /\ q.robot = b
    <3> HIDE DEF p
    <3> QED
      BY <2>2 DEF Request
  <2>4. Claim(q)
    BY <2>1, <2>3 DEF Claim, Creating, Deleting
  <2>5. Go(r, q)
    BY <1>2 DEF DeleteRobot, Begin, Go
  <2>6. req' \in [Requests -> Request] /\ \A s \in Requests : Claim(req'[s])
    BY <2>3, <2>4, <2>5, MoveTyped
  <2> QED
    BY <1>2, <2>6, RobotsTyped DEF DeleteRobot, stores, robotVars
<1>3. CASE ProcessArrival(r)
  <2>1. status' \in {"Draft", "Published"} /\ outlived' \subseteq Robots
    BY <1>3, ProcessCalls DEF Numbered, Dropped, Personal
  <2> QED
    BY <1>3, <2>1, ProcessCalls, RobotsTyped
<1> QED
  BY <1>1, <1>2, <1>3 DEF RobotArrival

LEMMA RobotStepTyped ==
  ASSUME TypeInv, NEW r \in Requests, RobotStep(r), UNCHANGED nightVars
  PROVE  TypeInv'
<1> USE DEF TypeInv, TypeOK
<1> DEFINE Moved == req' \in [Requests -> Request] /\ \A s \in Requests : Claim(req'[s])
<1>a. req[r] \in Request /\ req[r].kind \in Kinds /\ req[r].number \in Numbers /\ Claim(req[r])
  BY DEF Request, Numbers
<1>1. CASE NewVersion(r)
  <2>1. Moved
    BY <1>1, AdvanceClaims, FinishTyped DEF NewVersion, Labels, Creating
  <2>2. number' \in [Kinds -> Numbers] /\ docs' \subseteq Numbers \ {0}
    BY <1>1, AddVersionTyped DEF NewVersion
  <2> QED
    BY <1>1, <2>1, <2>2, RobotsTyped DEF NewVersion
<1>2. CASE ProcessRead(r)
  <2> DEFINE q == [req[r] EXCEPT !.at = "publish", !.number = number["personal"]]
  <2>1. number["personal"] \in 0..MaxVersion
    BY DEF Kinds, Numbers
  <2>2. q \in Request /\ q.at = "publish" /\ q.own = req[r].own /\ q.robot = req[r].robot
    BY <1>a, <2>1 DEF Request, Labels
  <2>3. Claim(q)
    BY <1>2, <1>a, <2>2 DEF ProcessRead, Claim, Creating, Deleting, Linking
  <2>4. Moved
    BY <1>2, <2>2, <2>3, MoveTyped DEF ProcessRead
  <2> QED
    BY <1>2, <2>4, RobotsTyped DEF ProcessRead, stores, robotVars
<1>3. CASE Publish(r)
  <2>1. Moved
    BY <1>3, AdvanceClaims, FinishTyped DEF Publish, Labels, Creating
  <2> QED
    BY <1>3, <2>1, RobotsTyped DEF Publish, Mark
<1>4. CASE CodePut(r)
  <2>1. Moved
    BY <1>4, AdvanceClaims DEF CodePut, Labels, Creating
  <2>2. req[r].own \in Robots
    BY <1>4, <1>a DEF CodePut, Claim, Creating
  <2>3. code' \in [Kinds -> [Numbers -> Robots \union {NoRobot}]]
    BY <1>4, <1>a, <2>2 DEF CodePut
  <2> QED
    BY <1>4, <2>1, <2>3, RobotsTyped DEF CodePut
<1>5. CASE RobotSave(r)
  <2>1. Moved
    <3>1. CASE Finish(r)
      BY <3>1, FinishTyped
    <3>2. CASE Advance(r, "robotFind") \/ Advance(r, "linksSave")
      BY <1>5, <3>2, AdvanceClaims DEF RobotSave, Labels, Creating, Linking
    <3> QED
      BY <1>5, <3>1, <3>2 DEF RobotSave
  <2>2. robot' \in [Robots -> RobotRow]
    BY <1>5, <1>a DEF RobotSave, RobotRow, Numbers
  <2> QED
    BY <1>5, <2>1, <2>2, RobotsTyped DEF RobotSave, robotVars
<1>6. CASE RobotFind(r)
  <2>1. Moved
    <3>1. CASE Finish(r)
      BY <3>1, FinishTyped
    <3>2. ASSUME NEW b \in Found(req[r].number),
                 Go(r, [req[r] EXCEPT !.at = "linksSave", !.robot = b])
          PROVE  Moved
      <4> DEFINE q == [req[r] EXCEPT !.at = "linksSave", !.robot = b]
      <4>1. b \in Robots
        BY DEF Found, Personal
      <4>2. q \in Request /\ q.at = "linksSave" /\ q.robot = b
        BY <1>a, <4>1 DEF Request, Labels
      <4>3. Claim(q)
        BY <4>1, <4>2 DEF Claim, Creating, Linking
      <4> QED
        BY <3>2, <4>2, <4>3, MoveTyped
    <3> QED
      BY <1>6, <3>1, <3>2 DEF RobotFind
  <2> QED
    BY <1>6, <2>1, RobotsTyped DEF RobotFind, stores, robotVars
<1>7. CASE LinksSave(r)
  <2>1. Moved
    BY <1>7, FinishTyped DEF LinksSave
  <2>2. link' \in [Robots -> [Keys -> Links]]
    <3> DEFINE b == req[r].robot
               row == [k \in Keys |-> IF k \in req[r].keys THEN "on" ELSE link[b][k]]
    <3>1. b \in Robots
      BY <1>7, <1>a DEF LinksSave, Claim, Linking
    <3>2. row \in [Keys -> Links]
      BY <3>1 DEF Links
    <3>3. link' = link \/ link' = [link EXCEPT ![b] = row]
      BY <1>7, <3>1 DEF LinksSave
    <3> QED
      BY <3>2, <3>3
  <2> QED
    BY <1>7, <2>1, <2>2, RobotsTyped DEF LinksSave, robotVars
<1>8. CASE Terminate(r)
  <2>1. Moved
    BY <1>8, AdvanceClaims DEF Terminate, Labels, Deleting
  <2> QED
    BY <1>8, <2>1, RobotsTyped DEF Terminate, stores, robotVars
<1>9. CASE Unpublish(r)
  <2>1. Moved
    BY <1>9, AdvanceClaims DEF Unpublish, Labels, Deleting
  <2> QED
    BY <1>9, <2>1, RobotsTyped DEF Unpublish, Mark
<1>10. CASE LinksDelete(r)
  <2>1. Moved
    BY <1>10, AdvanceClaims DEF LinksDelete, Labels, Deleting
  <2>2. link' \in [Robots -> [Keys -> Links]]
    BY <1>10 DEF LinksDelete, Unlinked, Links
  <2> QED
    BY <1>10, <2>1, <2>2, RobotsTyped DEF LinksDelete, robotVars
<1>11. CASE RobotDelete(r)
  <2>1. Moved
    BY <1>11, FinishTyped DEF RobotDelete
  <2>2. link' \in [Robots -> [Keys -> Links]]
    BY <1>11 DEF RobotDelete, Unlinked, Links
  <2>3. req[r].robot \in Robots
    BY <1>11, <1>a DEF RobotDelete, Claim, Deleting
  <2>4. [robot[req[r].robot] EXCEPT !.state = "deleted"] \in RobotRow
    BY <2>3 DEF RobotRow
  <2>5. robot' \in [Robots -> RobotRow]
    BY <1>11, <2>3, <2>4 DEF RobotDelete
  <2> QED
    BY <1>11, <2>1, <2>2, <2>5, RobotsTyped DEF RobotDelete, robotVars
<1> QED
  BY <1>1, <1>2, <1>3, <1>4, <1>5, <1>6, <1>7, <1>8, <1>9, <1>10, <1>11 DEF RobotStep

\* What the steps of the check leave alone.
LEMMA NightlyTyped ==
  ASSUME TypeInv, UNCHANGED <<link, robot, req, robotVars>>,
         conn' \in [Names -> Conn],
         token' \in [Tokens -> {"unused", "valid", "revoked"}],
         faults' \in 0..MaxFaults, night' \in Night,
         night'.at \in {"load", "askGoogle", "connSave"} => night'.name \in Own,
         pending' \subseteq Own, unread' \subseteq Own
  PROVE  TypeInv'
<1>1. TypeOK'
  BY DEF TypeInv, TypeOK, robotVars
<1> QED
  BY <1>1 DEF TypeInv, Claim

LEMMA AsleepTyped == Asleep \in Night /\ Asleep.at = "idle"
BY NoConnTyped DEF Asleep, Night

LEMMA ContinueTyped ==
  ASSUME TypeInv, Continue
  PROVE  night' \in Night /\ night'.at = "next"
BY NoConnTyped DEF TypeInv, TypeOK, Continue, Night

LEMMA CheckTyped ==
  ASSUME TypeInv, CheckStep \/ Midnight
  PROVE  TypeInv'
<1> USE DEF TypeInv, TypeOK
<1> DEFINE Awake == {"load", "askGoogle", "connSave"}
<1>a. night \in Night /\ night.row \in Conn
  BY DEF Night
<1>1. CASE Midnight
  <2> DEFINE todo == {e \in Entry : /\ link[e.robot][e.key] # "none"
                                    /\ conn[e.name].key = e.key}
  <2>1. night' = [Asleep EXCEPT !.at = "next", !.todo = todo]
    BY <1>1 DEF Midnight
  <2>2. todo \in SUBSET Entry
    OBVIOUS
  <2> HIDE DEF todo
  <2>3. night' \in Night /\ night'.at = "next"
    BY <2>1, <2>2, AsleepTyped DEF Night
  <2> QED
    BY <1>1, <2>3, NightlyTyped DEF Midnight, stores
<1>2. CASE NextEntry
  <2> DEFINE open == {e \in night.todo : e.key \notin night.checked}
  <2>1. night' \in Night /\ (night'.at \in Awake => night'.name \in Own)
    <3>1. CASE night' = Asleep
      BY <3>1, AsleepTyped
    <3>2. ASSUME NEW e \in open,
                 night' = [night EXCEPT !.at = "load", !.todo = open \ {e},
                                        !.checked = @ \union {e.key}, !.name = e.name]
          PROVE  night' \in Night /\ night'.name \in Own
      <4>1. e \in Entry /\ open \ {e} \in SUBSET Entry
        BY <1>a DEF Night
      <4>2. e.key \in Keys /\ e.name \in Own
        BY <4>1 DEF Entry
      <4>3. night.checked \union {e.key} \in SUBSET Keys
        BY <1>a, <4>2 DEF Night
      <4> HIDE DEF open
      <4> QED
        BY <1>a, <3>2, <4>1, <4>2, <4>3 DEF Night
    <3> QED
      BY <1>2, <3>1, <3>2 DEF NextEntry
  <2> QED
    BY <1>2, <2>1, NightlyTyped DEF NextEntry, stores
<1>3. CASE Load
  <2>0. night.name \in Own
    BY <1>3 DEF Load
  <2>1. CASE night.name \in Google /\ night' = [night EXCEPT !.at = "askGoogle", !.row = conn[night.name]]
             /\ UNCHANGED pending
    <3>1. conn[night.name] \in Conn
      BY <2>0 DEF Names
    <3>2. night' \in Night /\ night'.name \in Own
      BY <1>a, <2>0, <2>1, <3>1 DEF Night
    <3> QED
      BY <1>3, <2>1, <3>2, NightlyTyped DEF Load, stores
  <2>2. CASE Report
    <3>1. night' \in Night /\ night'.at = "next"
      BY <2>2, ContinueTyped DEF Report
    <3>2. pending' \subseteq Own
      BY <2>0, <2>2 DEF Report
    <3> QED
      BY <1>3, <3>1, <3>2, NightlyTyped DEF Load, stores
  <2> QED
    BY <1>3, <2>1, <2>2 DEF Load
<1>4. CASE NightAsk
  <2>0. night.name \in Own
    BY <1>4 DEF NightAsk
  <2>1. ASSUME NEW row \in Answers(night.row), Grant(row.refresh),
               night' = [night EXCEPT !.at = "connSave", !.row = row], UNCHANGED pending
        PROVE  TypeInv'
    <3>1. row \in Conn
      BY <1>a, AnswersTyped
    <3>2. night' \in Night /\ night'.name \in Own
      BY <1>a, <2>0, <2>1, <3>1 DEF Night
    <3>3. token' \in [Tokens -> {"unused", "valid", "revoked"}]
      BY <2>1, GrantTyped
    <3> QED
      BY <1>4, <2>1, <3>2, <3>3, NightlyTyped DEF NightAsk
  <2>2. CASE Report /\ UNCHANGED token
    <3>1. night' \in Night /\ night'.at = "next"
      BY <2>2, ContinueTyped DEF Report
    <3>2. pending' \subseteq Own
      BY <2>0, <2>2 DEF Report
    <3> QED
      BY <1>4, <2>2, <3>1, <3>2, NightlyTyped DEF NightAsk
  <2> QED
    BY <1>4, <2>1, <2>2 DEF NightAsk
<1>5. CASE NightSave
  <2>0. night.name \in Own
    BY <1>5 DEF NightSave
  <2>1. night' \in Night /\ night'.at = "next"
    BY <1>5, ContinueTyped DEF NightSave, Report
  <2>2. pending' \subseteq Own
    BY <1>5, <2>0 DEF NightSave, Report
  <2>3. conn' \in [Names -> Conn]
    BY <1>5, <1>a, WriteTyped DEF NightSave
  <2> QED
    BY <1>5, <2>1, <2>2, <2>3, NightlyTyped DEF NightSave
<1>6. CASE NightFail
  <2>0. night.name \in Own
    BY <1>6 DEF NightFail
  <2>1. night' \in Night /\ night'.at = "next"
    BY <1>6, ContinueTyped DEF NightFail, Report
  <2>2. pending' \subseteq Own
    BY <1>6, <2>0 DEF NightFail, Report
  <2>3. faults' \in 0..MaxFaults
    BY <1>6, FaultAssumption DEF NightFail
  <2> QED
    BY <1>6, <2>1, <2>2, <2>3, NightlyTyped DEF NightFail
<1> QED
  BY <1>1, <1>2, <1>3, <1>4, <1>5, <1>6 DEF CheckStep

LEMMA NextTyped ==
  ASSUME TypeInv, [Next]_vars
  PROVE  TypeInv'
<1> USE DEF TypeInv, TypeOK
<1>1. ASSUME NEW r \in Requests, Arrival(r) PROVE TypeInv'
  BY <1>1, ConnectionArrivalTyped, RobotArrivalTyped DEF Arrival
<1>2. ASSUME NEW r \in Requests, Step(r) PROVE TypeInv'
  BY <1>2, ConnectionStepTyped, RobotStepTyped DEF Step
<1>3. ASSUME NEW r \in Requests, Fail(r) PROVE TypeInv'
  <2>1. req' \in [Requests -> Request] /\ \A s \in Requests : Claim(req'[s])
    BY <1>3, FinishTyped DEF Fail
  <2>2. faults' \in 0..MaxFaults
    BY <1>3, FaultAssumption DEF Fail
  <2> QED
    BY <1>3, <2>1, <2>2, ConnectionsTyped DEF Fail
<1>4. ASSUME NEW t \in Tokens, Withdraw(t), UNCHANGED <<robotVars, nightVars>> PROVE TypeInv'
  <2>1. token' \in [Tokens -> {"unused", "valid", "revoked"}]
    BY <1>4 DEF Withdraw
  <2> QED
    BY <1>4, <2>1, ConnectionsTyped DEF Withdraw
<1>5. CASE Midnight \/ CheckStep
  BY <1>5, CheckTyped
<1>6. ASSUME NEW n \in Own, Notify(n) \/ MarkAsRead(n) PROVE TypeInv'
  BY <1>6, NightlyTyped DEF Notify, MarkAsRead, stores
<1>7. CASE Crash
  <2>1. req' \in [Requests -> Request] /\ \A s \in Requests : Claim(req'[s])
    BY <1>7, IdleTyped DEF Crash
  <2>2. night' \in Night /\ night'.at = "idle"
    BY <1>7, AsleepTyped DEF Crash
  <2>3. faults' \in 0..MaxFaults
    BY <1>7, FaultAssumption DEF Crash
  <2>4. TypeOK'
    BY <1>7, <2>1, <2>2, <2>3 DEF Crash, robotVars
  <2> QED
    BY <2>1, <2>2, <2>4
<1>8. CASE UNCHANGED vars
  BY <1>8 DEF vars, Claim
<1> QED
  BY <1>1, <1>2, <1>3, <1>4, <1>5, <1>6, <1>7, <1>8 DEF Next, DayNext

LEMMA InitTyped == Init => TypeInv
<1> SUFFICES ASSUME Init PROVE TypeInv
  OBVIOUS
<1>1. conn \in [Names -> Conn] /\ req \in [Requests -> Request] /\ night \in Night
  BY NoConnTyped, IdleTyped, AsleepTyped DEF Init
<1>2. \A r \in Requests : Claim(req[r])
  BY IdleTyped DEF Init
<1>3. robot \in [Robots -> RobotRow] /\ link \in [Robots -> [Keys -> Links]]
  BY VersionAssumption DEF Init, NoRow, RobotRow, Kinds, Links
<1>4. /\ faults \in 0..MaxFaults /\ number \in [Kinds -> Numbers]
      /\ docs \subseteq Numbers \ {0}
  BY VersionAssumption, FaultAssumption DEF Init, Numbers
<1>5. code \in [Kinds -> [Numbers -> Robots \union {NoRobot}]]
  BY DEF Init
<1>6. /\ token \in [Tokens -> {"unused", "valid", "revoked"}]
      /\ status \in {"Draft", "Published"} /\ asked \in [Robots -> SUBSET Keys]
      /\ outlived \subseteq Robots /\ pending \subseteq Own /\ unread \subseteq Own
  BY DEF Init
<1> QED
  BY <1>1, <1>2, <1>3, <1>4, <1>5, <1>6, AsleepTyped DEF TypeInv, TypeOK, Init

\* The tables, the requests of clients and the nightly check hold values of
\* their types; the check refreshes only connections of the user.
THEOREM NightTyped == Spec => []TypeInv
<1> QED
  BY InitTyped, NextTyped, PTL DEF Spec

-----------------------------------------------------------------------------
(* Code is stored before the row of its robot *)

\* A request that is about to save a row has stored the code, for good.
CodeInv ==
  /\ CodeStored
  /\ \A r \in Requests :
       req[r].at = "robotSave" /\ req[r].kind # "team" =>
         code[req[r].kind][req[r].number] # NoRobot

\* One by one, the request has the process to itself, but for new versions made
\* in calls of their own.  Robots left from before the process was deleted are out
\* of account; none is being made.
RunsInv(q) ==
  /\ \A b \in Personal \ outlived :
         /\ code["personal"][robot[b].number] = b
         /\ robot[b].number <= number["personal"]
         /\ q.at = "processRead" => robot[b].number < number["personal"]
         /\ q.at \in {"publish", "codePut", "robotSave"} /\ q.kind = "personal" =>
              robot[b].number < q.number
  /\ q.at = "processRead" => number["personal"] > 0
  /\ q.at \in {"publish", "codePut", "robotSave"} /\ q.kind = "personal" =>
       0 < q.number /\ q.number <= number["personal"]
  /\ q.at = "robotSave" /\ q.kind = "personal" => code["personal"][q.number] = q.own
  /\ q.at \in {"newVersion", "processRead", "publish", "robotFind"} => q.kind = "personal"
  /\ q.at = "robotFind" => q.own \in Personal /\ robot[q.own].number = q.number
  /\ q.at \in Creating => q.own \notin outlived
  /\ \A b \in outlived : robot[b].state # "unused"

\* Robots are linked to what they were made with, and those not yet saved to nothing.
\* A robot left from before the process was deleted may be linked to what another of
\* its version was made with.
LinksInv(q) ==
  /\ \A b \in Robots, k \in Keys :
       link[b][k] # "none" =>
         (b \notin outlived => k \in asked[b]) /\ robot[b].state # "unused"
  /\ q.at \in Creating => q.keys \subseteq asked[q.own]
  /\ q.at \in Linking /\ q.robot \notin outlived => q.keys \subseteq asked[q.robot]

\* A published process has a robot or is about to get it; a robot goes after its
\* process was marked.
PublishedInv(q) ==
  /\ q.at \in Deleting => Live(q.robot) /\ robot[q.robot].kind = q.kind
  /\ q.at = "linksDelete" => q.kind = "team"
  /\ q.at \in Creating \ {"robotFind"} => robot[q.own].state = "unused"
  /\ q.at = "robotDelete" /\ q.kind = "personal" => status = "Draft"
  /\ number["personal"] = 0 => status = "Draft"
  /\ faults = 0 /\ status = "Published" =>
       Personal # {} \/ (q.at \in {"codePut", "robotSave"} /\ q.kind = "personal")

SerialInv == \A r \in Requests : RunsInv(req[r]) /\ LinksInv(req[r]) /\ PublishedInv(req[r])

-----------------------------------------------------------------------------
(* What steps do to requests *)

\* Requests about connections never come to where robots are made or deleted.
Elsewhere == {"idle", "connInsert", "askGoogle", "connSave", "revoke", "connDelete",
              "linkSave"}

LEMMA GoMoves ==
  ASSUME TypeInv, NEW r \in Requests, NEW q, Go(r, q)
  PROVE  req'[r] = q /\ \A s \in Requests \ {r} : req'[s] = req[s]
BY DEF TypeInv, TypeOK, Go

LEMMA FinishMoves ==
  ASSUME TypeInv, NEW r \in Requests, Finish(r)
  PROVE  req'[r].at = "idle" /\ \A s \in Requests \ {r} : req'[s] = req[s]
<1>1. Go(r, Idle)
  BY DEF Finish, Go
<1> QED
  BY <1>1, GoMoves, IdleTyped

LEMMA AdvanceMoves ==
  ASSUME TypeInv, NEW r \in Requests, NEW l \in Labels, Advance(r, l)
  PROVE  /\ \A s \in Requests \ {r} : req'[s] = req[s]
         /\ LET p == req'[r]
                q == req[r]
            IN  /\ p.at = l /\ p.kind = q.kind /\ p.number = q.number
                /\ p.own = q.own /\ p.robot = q.robot /\ p.keys = q.keys
<1> DEFINE p == [req[r] EXCEPT !.at = l]
<1>1. req[r] \in Request
  BY DEF TypeInv, TypeOK
<1>2. Go(r, p)
  BY DEF Advance
<1>3. /\ p.at = l /\ p.kind = req[r].kind /\ p.number = req[r].number
      /\ p.own = req[r].own /\ p.robot = req[r].robot /\ p.keys = req[r].keys
  BY <1>1, AdvanceTyped
<1> HIDE DEF p
<1>4. req'[r] = p /\ \A s \in Requests \ {r} : req'[s] = req[s]
  BY <1>2, GoMoves
<1> QED
  BY <1>3, <1>4

LEMMA WorkMoves ==
  ASSUME TypeInv, NEW r \in Requests, NEW l \in Labels, NEW n \in Names, NEW row \in Conn,
         Begin(r, Work(l, n, row))
  PROVE  req'[r].at = l /\ \A s \in Requests \ {r} : req'[s] = req[s]
<1>1. Go(r, Work(l, n, row))
  BY DEF Begin, Go
<1> QED
  BY <1>1, GoMoves, WorkTyped

LEMMA NewRobotMoves ==
  ASSUME TypeInv, NEW r \in Requests, NEW l \in Labels, NEW k \in Kinds, NEW b \in Robots,
         NEW ks \in SUBSET Keys, Begin(r, NewRobot(l, k, b, ks))
  PROVE  /\ \A s \in Requests \ {r} : req'[s] = req[s]
         /\ LET p == req'[r]
            IN  /\ p.at = l /\ p.kind = k /\ p.robot = b /\ p.own = b /\ p.keys = ks
                /\ p.number = number[k]
<1>1. Go(r, NewRobot(l, k, b, ks))
  BY DEF Begin, Go
<1> QED
  BY <1>1, GoMoves, NewRobotTyped DEF TypeInv, TypeOK

LEMMA DeleteMoves ==
  ASSUME TypeInv, NEW r \in Requests, NEW b \in Robots, DeleteRobot(r, b)
  PROVE  /\ \A s \in Requests \ {r} : req'[s] = req[s]
         /\ LET p == req'[r]
            IN  /\ p.at = IF robot[b].kind = "team" THEN "linksDelete" ELSE "terminate"
                /\ p.kind = robot[b].kind /\ p.robot = b
<1> DEFINE k == robot[b].kind
           l == IF k = "team" THEN "linksDelete" ELSE "terminate"
           p == NewRobot(l, k, b, {})
<1>1. k \in Kinds /\ l \in Labels
  BY DEF TypeInv, TypeOK, RobotRow, Labels
<1>2. p \in Request /\ p.at = l /\ p.kind = k /\ p.robot = b
  BY <1>1, NewRobotTyped DEF TypeInv, TypeOK
<1>3. Go(r, [p EXCEPT !.own = NoRobot])
  BY DEF DeleteRobot, Begin, Go
<1> HIDE DEF p
<1>4. req'[r] = [p EXCEPT !.own = NoRobot] /\ \A s \in Requests \ {r} : req'[s] = req[s]
  BY <1>3, GoMoves
<1> QED
  BY <1>2, <1>4 DEF Request

\* After a deletion the rows that live are those that lived, unchanged.
LEMMA DeletedRow ==
  ASSUME TypeInv, NEW c, robot' = [robot EXCEPT ![c].state = "deleted"]
  PROVE  /\ \A b \in Robots : robot'[b].state = "live" => robot'[b] = robot[b]
         /\ \A b \in Robots \ {c} : robot'[b] = robot[b]
         /\ \A b \in Robots : robot[b].state # "unused" => robot'[b].state # "unused"
<1>1. \A b \in Robots \ {c} : robot'[b] = robot[b]
  BY DEF TypeInv, TypeOK
<1>2. ASSUME c \in Robots PROVE robot'[c].state = "deleted"
  <2>1. [robot[c] EXCEPT !.state = "deleted"].state = "deleted"
    BY <1>2 DEF TypeInv, TypeOK, RobotRow
  <2>2. robot'[c] = [robot[c] EXCEPT !.state = "deleted"]
    BY <1>2 DEF TypeInv, TypeOK
  <2> QED
    BY <2>1, <2>2
<1> QED
  BY <1>1, <1>2

\* The activation of a link is about one that is there.
Toggled(q) == \E b \in Robots, k \in Keys : link[b][k] # "none" /\ q.robot = b /\ q.keys = {k}

LEMMA ConnectionMoves ==
  ASSUME TypeInv, NEW r \in Requests, NEW listed,
         ConnectionArrival(r) \/ ConnectionStep(r, listed)
  PROVE  /\ req'[r].at \in Elsewhere
         /\ req'[r].at = "linkSave" => Toggled(req'[r])
         /\ \A s \in Requests \ {r} : req'[s] = req[s]
         /\ robot' = robot /\ faults' = faults
         /\ link' = link \/ LinkSave(r)
<1> USE DEF Elsewhere, Labels
<1>a. req[r].row \in Conn
  BY DEF TypeInv, TypeOK, Request
<1>1. ASSUME NEW n \in Names, CreateConnection(r, n)
      PROVE  req'[r].at = "connInsert" /\ \A s \in Requests \ {r} : req'[s] = req[s]
  <2> DEFINE T == IF n \in Google THEN FreshToken \union {NoToken} ELSE {OtherToken}
  <2>1. PICK t \in T : Begin(r, Work("connInsert", n, [NoConn EXCEPT !.refresh = t]))
    BY <1>1 DEF CreateConnection
  <2>2. t \in Tokens \union {NoToken, OtherToken}
    BY DEF FreshToken
  <2>3. [NoConn EXCEPT !.refresh = t] \in Conn
    BY <2>2, NoConnTyped DEF Conn
  <2> QED
    BY <2>1, <2>3, WorkMoves
<1>2. ASSUME NEW n \in Names, Reconnect(r, n)
      PROVE  req'[r].at = "connSave" /\ \A s \in Requests \ {r} : req'[s] = req[s]
  <2> DEFINE T == IF n \in Google THEN FreshToken \union {NoToken} ELSE {OtherToken}
             row(t) == [conn[n] EXCEPT !.refresh = IF t = NoToken THEN @ ELSE t]
  <2>1. PICK t \in T : Begin(r, Work("connSave", n, row(t)))
    BY <1>2 DEF Reconnect
  <2>2. t \in Tokens \union {NoToken, OtherToken}
    BY DEF FreshToken
  <2>3. conn[n] \in Conn
    BY DEF TypeInv, TypeOK
  <2>4. row(t) \in Conn
    BY <2>2, <2>3 DEF Conn
  <2> QED
    BY <2>1, <2>4, WorkMoves
<1>3. ASSUME NEW n \in Names, Refresh(r, n) \/ RemoveConnection(r, n)
      PROVE  /\ req'[r].at \in Elsewhere \ {"linkSave"}
             /\ \A s \in Requests \ {r} : req'[s] = req[s]
  <2>1. conn[n] \in Conn
    BY DEF TypeInv, TypeOK
  <2>2. \/ Begin(r, Work("askGoogle", n, conn[n]))
        \/ Begin(r, Work("connDelete", n, conn[n]))
        \/ Begin(r, Work("revoke", n, conn[n]))
    BY <1>3 DEF Refresh, RemoveConnection
  <2> QED
    BY <2>1, <2>2, WorkMoves
<1>4. ASSUME NEW b \in Robots, NEW k \in Keys, NEW s \in {"on", "off"},
             ToggleActivation(r, b, k, s)
      PROVE  /\ req'[r].at = "linkSave" /\ Toggled(req'[r])
             /\ \A t \in Requests \ {r} : req'[t] = req[t]
  <2> DEFINE q == [Idle EXCEPT !.at = "linkSave", !.robot = b, !.keys = {k},
                               !.number = IF s = "on" THEN 1 ELSE 0]
  <2>1. Go(r, q)
    BY <1>4 DEF ToggleActivation, Begin, Go
  <2>2. q.at = "linkSave" /\ q.robot = b /\ q.keys = {k}
    BY DEF Idle
  <2> HIDE DEF q
  <2>3. req'[r] = q /\ \A t \in Requests \ {r} : req'[t] = req[t]
    BY <2>1, GoMoves
  <2> QED
    BY <1>4, <2>2, <2>3 DEF ToggleActivation, Toggled
<1>5. CASE ConnectionArrival(r)
  <2>1. /\ req'[r].at \in Elsewhere
        /\ req'[r].at = "linkSave" => Toggled(req'[r])
        /\ \A s \in Requests \ {r} : req'[s] = req[s]
    BY <1>1, <1>2, <1>3, <1>4, <1>5 DEF ConnectionArrival
  <2> QED
    BY <1>5, <2>1 DEF ConnectionArrival, CreateConnection, Reconnect, Refresh, RemoveConnection,
                      ToggleActivation
<1>6. CASE AskGoogle(r)
  <2>1. ASSUME NEW row, Go(r, [req[r] EXCEPT !.at = "connSave", !.row = row])
        PROVE  req'[r].at \in Elsewhere \ {"linkSave"} /\ \A s \in Requests \ {r} : req'[s] = req[s]
    <3>1. req[r] \in Request
      BY DEF TypeInv, TypeOK
    <3>2. [req[r] EXCEPT !.at = "connSave", !.row = row].at = "connSave"
      BY <3>1 DEF Request
    <3> QED
      BY <2>1, <3>2, GoMoves
  <2>2. (\E row : Go(r, [req[r] EXCEPT !.at = "connSave", !.row = row])) \/ Finish(r)
    BY <1>6 DEF AskGoogle
  <2>3. req'[r].at \in Elsewhere \ {"linkSave"} /\ \A s \in Requests \ {r} : req'[s] = req[s]
    BY <2>1, <2>2, FinishMoves
  <2> QED
    BY <1>6, <2>3 DEF AskGoogle
<1>7. CASE ConnectionStep(r, listed) /\ ~AskGoogle(r)
  <2>1. Finish(r) \/ Advance(r, "connDelete")
    BY <1>7 DEF ConnectionStep, ConnInsert, ConnSave, Revoke, ConnDelete, LinkSave
  <2>2. req'[r].at \in Elsewhere \ {"linkSave"} /\ \A s \in Requests \ {r} : req'[s] = req[s]
    BY <2>1, FinishMoves, AdvanceMoves
  <2> QED
    BY <1>7, <2>2 DEF ConnectionStep, ConnInsert, ConnSave, Revoke, ConnDelete, LinkSave
<1> QED
  BY <1>5, <1>6, <1>7

-----------------------------------------------------------------------------
(* The invariant of code is kept *)

\* Steps that store nothing and bring no request to the end of a creation.
LEMMA CodeFrame ==
  ASSUME CodeInv, UNCHANGED <<robot, code>>,
         \A s \in Requests : req'[s] = req[s] \/ req'[s].at # "robotSave"
  PROVE  CodeInv'
BY DEF CodeInv, CodeStored, Live

LEMMA CodeMove ==
  ASSUME CodeInv, UNCHANGED <<robot, code>>, NEW r \in Requests,
         \A s \in Requests \ {r} : req'[s] = req[s],
         \/ req'[r].at # "robotSave"
         \/ req'[r].kind = "team"
  PROVE  CodeInv'
BY DEF CodeInv, CodeStored, Live

LEMMA RobotArrivalCode ==
  ASSUME TypeInv, CodeInv, NEW r \in Requests, RobotArrival(r)
  PROVE  CodeInv'
<1>1. ASSUME NEW k \in Kinds, CreateRobot(r, k) PROVE CodeInv'
  <2> DEFINE l == CASE k = "personal" -> "newVersion"
                    [] k = "workspace" -> "codePut"
                    [] OTHER -> "robotSave"
  <2>1. PICK b \in FreshRobot, ks \in SUBSET Offered(k) : Begin(r, NewRobot(l, k, b, ks))
    BY <1>1 DEF CreateRobot
  <2>2. Offered(k) \subseteq Keys
    BY DEF Offered, Own, Names, Conn, TypeInv, TypeOK
  <2>3. ks \in SUBSET Keys /\ b \in Robots
    BY <2>1, <2>2 DEF FreshRobot
  <2>4. l \in Labels /\ (l = "robotSave" => k = "team")
    BY DEF Labels, Kinds
  <2> HIDE DEF l
  <2>5. /\ req'[r].at = l /\ req'[r].kind = k
        /\ \A s \in Requests \ {r} : req'[s] = req[s]
    BY <2>1, <2>3, <2>4, NewRobotMoves
  <2> QED
    BY <1>1, <2>4, <2>5, CodeMove DEF CreateRobot
<1>2. ASSUME NEW b \in Robots, DeleteRobot(r, b) PROVE CodeInv'
  BY <1>2, DeleteMoves, CodeMove DEF DeleteRobot, stores, robotVars
<1>3. CASE ProcessArrival(r)
  BY <1>3, ProcessCalls, CodeFrame
<1> QED
  BY <1>1, <1>2, <1>3 DEF RobotArrival

LEMMA RobotStepCode ==
  ASSUME TypeInv, CodeInv, NEW r \in Requests, RobotStep(r)
  PROVE  CodeInv'
<1>a. req[r] \in Request /\ req[r].kind \in Kinds /\ req[r].number \in Numbers /\ Claim(req[r])
  BY DEF TypeInv, TypeOK, Request, Numbers
<1>1. CASE NewVersion(r)
  BY <1>1, AdvanceMoves, FinishMoves, CodeMove DEF NewVersion, Labels
<1>2. CASE ProcessRead(r)
  <2> DEFINE q == [req[r] EXCEPT !.at = "publish", !.number = number["personal"]]
  <2>1. q.at = "publish"
    BY <1>a DEF Request
  <2>2. req'[r] = q /\ \A s \in Requests \ {r} : req'[s] = req[s]
    BY <1>2, GoMoves DEF ProcessRead
  <2> QED
    BY <1>2, <2>1, <2>2, CodeMove DEF ProcessRead, stores, robotVars
<1>3. CASE Publish(r)
  BY <1>3, AdvanceMoves, FinishMoves, CodeMove DEF Publish, Labels
<1>4. CASE CodePut(r)
  <2> DEFINE k == req[r].kind
             v == req[r].number
  <2>1. /\ \A s \in Requests \ {r} : req'[s] = req[s]
        /\ req'[r].kind = k /\ req'[r].number = v
    BY <1>4, AdvanceMoves DEF CodePut, Labels
  <2>2. code' = [code EXCEPT ![k][v] = req[r].own] /\ robot' = robot
    BY <1>4 DEF CodePut
  <2>3. code \in [Kinds -> [Numbers -> Robots \union {NoRobot}]]
    BY DEF TypeInv, TypeOK
  <2>4. req[r].own # NoRobot
    BY <1>4, <1>a, RobotAssumption DEF CodePut, Claim, Creating
  <2>5. code'[k][v] # NoRobot
    BY <1>a, <2>2, <2>3, <2>4
  <2>6. \A j \in Kinds, w \in Numbers : code[j][w] # NoRobot => code'[j][w] # NoRobot
    BY <1>a, <2>2, <2>3, <2>4
  <2>7. CodeStored'
    BY <2>2, <2>6 DEF CodeInv, CodeStored, Live, TypeInv, TypeOK, RobotRow, Numbers
  <2>8. ASSUME NEW s \in Requests, req'[s].at = "robotSave", req'[s].kind # "team"
        PROVE  code'[req'[s].kind][req'[s].number] # NoRobot
    <3>1. CASE s = r
      BY <2>1, <2>5, <3>1
    <3>2. CASE s # r
      <4>1. req'[s] = req[s] /\ req[s].kind \in Kinds /\ req[s].number \in Numbers
        BY <2>1, <3>2 DEF TypeInv, TypeOK, Request, Numbers
      <4> QED
        BY <2>6, <2>8, <4>1 DEF CodeInv
    <3> QED
      BY <3>1, <3>2
  <2> QED
    BY <2>7, <2>8 DEF CodeInv
<1>5. CASE RobotSave(r)
  <2>1. req'[r].at # "robotSave" /\ \A s \in Requests \ {r} : req'[s] = req[s]
    <3>1. Finish(r) \/ Advance(r, "robotFind") \/ Advance(r, "linksSave")
      BY <1>5 DEF RobotSave
    <3> QED
      BY <3>1, FinishMoves, AdvanceMoves DEF Labels
  <2>2. /\ robot' = [robot EXCEPT ![req[r].own] =
                      [state |-> "live", kind |-> req[r].kind, number |-> req[r].number]]
        /\ code' = code
    BY <1>5 DEF RobotSave, robotVars
  <2>3. req[r].kind # "team" => code[req[r].kind][req[r].number] # NoRobot
    BY <1>5 DEF RobotSave, CodeInv
  <2>4. CodeStored'
    BY <2>2, <2>3 DEF CodeInv, CodeStored, Live, TypeInv, TypeOK
  <2> QED
    BY <2>1, <2>2, <2>4 DEF CodeInv
<1>6. CASE RobotFind(r)
  <2>1. ASSUME NEW b, Go(r, [req[r] EXCEPT !.at = "linksSave", !.robot = b])
        PROVE  req'[r].at # "robotSave" /\ \A s \in Requests \ {r} : req'[s] = req[s]
    <3>1. [req[r] EXCEPT !.at = "linksSave", !.robot = b].at = "linksSave"
      BY <1>a DEF Request
    <3> QED
      BY <2>1, <3>1, GoMoves
  <2>2. (\E b : Go(r, [req[r] EXCEPT !.at = "linksSave", !.robot = b])) \/ Finish(r)
    BY <1>6 DEF RobotFind
  <2>3. req'[r].at # "robotSave" /\ \A s \in Requests \ {r} : req'[s] = req[s]
    BY <2>1, <2>2, FinishMoves
  <2> QED
    BY <1>6, <2>3, CodeMove DEF RobotFind, stores, robotVars
<1>7. CASE LinksSave(r)
  BY <1>7, FinishMoves, CodeMove DEF LinksSave, robotVars
<1>8. CASE Terminate(r)
  BY <1>8, AdvanceMoves, CodeMove DEF Terminate, stores, robotVars, Labels
<1>9. CASE Unpublish(r)
  BY <1>9, AdvanceMoves, CodeMove DEF Unpublish, Labels
<1>10. CASE LinksDelete(r)
  BY <1>10, AdvanceMoves, CodeMove DEF LinksDelete, robotVars, Labels
<1>11. CASE RobotDelete(r)
  <2>1. req'[r].at # "robotSave" /\ \A s \in Requests \ {r} : req'[s] = req[s]
    BY <1>11, FinishMoves DEF RobotDelete
  <2>2. robot' = [robot EXCEPT ![req[r].robot].state = "deleted"] /\ code' = code
    BY <1>11 DEF RobotDelete, robotVars
  <2>3. \A b \in Robots : robot'[b].state = "live" => robot'[b] = robot[b]
    BY <2>2, DeletedRow
  <2>4. CodeStored'
    BY <2>2, <2>3 DEF CodeInv, CodeStored, Live
  <2> QED
    BY <2>1, <2>2, <2>4 DEF CodeInv
<1> QED
  BY <1>1, <1>2, <1>3, <1>4, <1>5, <1>6, <1>7, <1>8, <1>9, <1>10, <1>11 DEF RobotStep

LEMMA NextCode ==
  ASSUME TypeInv, CodeInv, [Next]_vars
  PROVE  CodeInv'
<1>1. ASSUME NEW r \in Requests, Arrival(r) \/ Step(r) PROVE CodeInv'
  <2>1. CASE RobotArrival(r) \/ RobotStep(r)
    BY <2>1, RobotArrivalCode, RobotStepCode
  <2>2. CASE (ConnectionArrival(r) \/ ConnectionStep(r, Listed)) /\ UNCHANGED robotVars
    BY <2>2, ConnectionMoves, CodeMove DEF Elsewhere, robotVars
  <2> QED
    BY <1>1, <2>1, <2>2 DEF Arrival, Step
<1>2. ASSUME NEW r \in Requests, Fail(r) PROVE CodeInv'
  BY <1>2, FinishMoves, CodeMove DEF Fail, robotVars
<1>3. CASE Crash
  BY <1>3, IdleTyped, CodeFrame DEF Crash, robotVars
<1>4. CASE UNCHANGED <<robot, req, robotVars>>
  BY <1>4, CodeFrame DEF robotVars
<1>5. (\E t \in Tokens : Withdraw(t) /\ UNCHANGED <<robotVars, nightVars>>)
        \/ Midnight \/ CheckStep \/ (\E n \in Own : Notify(n) \/ MarkAsRead(n))
        \/ UNCHANGED vars
      => UNCHANGED <<robot, req, robotVars>>
  BY DEF Withdraw, Midnight, CheckStep, NextEntry, Load, NightAsk, NightSave, NightFail,
         Notify, MarkAsRead, vars, stores, robotVars
<1> QED
  BY <1>1, <1>2, <1>3, <1>4, <1>5 DEF Next, DayNext

\* The code that a robot of the user or the workspace runs was stored before its
\* row was: however many requests create, delete and link robots at once, wherever
\* they fail, and whenever the server dies.
THEOREM CodeAlwaysStored == Spec => []CodeStored
<1>1. Init => CodeInv
  BY IdleTyped DEF Init, CodeInv, CodeStored, Live, NoRow
<1>2. TypeInv /\ CodeInv /\ [Next]_vars => CodeInv'
  BY NextCode
<1>3. CodeInv => CodeStored
  BY DEF CodeInv
<1> QED
  BY <1>1, <1>2, <1>3, NightTyped, PTL DEF Spec

-----------------------------------------------------------------------------
(* One request at a time: robots run their own code *)

\* What requests and rows hold, as numbers.
LEMMA NumbersTyped ==
  ASSUME TypeInv, NEW r \in Requests
  PROVE  /\ req[r] \in Request /\ req[r].kind \in Kinds /\ req[r].number \in Numbers
         /\ Claim(req[r]) /\ Numbers \subseteq Nat /\ number["personal"] \in Numbers
         /\ \A b \in Robots : robot[b].number \in Numbers /\ robot[b].kind \in Kinds
BY VersionAssumption DEF TypeInv, TypeOK, Request, Numbers, Kinds, RobotRow

LEMMA RunsFrame ==
  ASSUME TypeInv, TypeInv', NEW r \in Requests, RunsInv(req[r]),
         \A b \in Robots : robot'[b].state = "live" => robot'[b] = robot[b],
         \A b \in Robots : robot[b].state # "unused" => robot'[b].state # "unused",
         code'["personal"] = code["personal"], outlived' = outlived,
         number'["personal"] >= number["personal"],
         req'[r].at \notin {"processRead", "publish", "robotFind"},
         req'[r].at = "newVersion" => req'[r].kind = "personal",
         req'[r].at \in {"codePut", "robotSave"} => req'[r].kind # "personal",
         req'[r].at \in Creating => req'[r].own \notin outlived
  PROVE  RunsInv(req[r])'
<1>1. /\ Numbers \subseteq Nat
      /\ \A b \in Robots : robot[b].number \in Numbers
      /\ number["personal"] \in Numbers /\ number'["personal"] \in Numbers
  BY VersionAssumption DEF TypeInv, TypeOK, Numbers, Kinds, RobotRow
<1>2. ASSUME NEW b \in Robots \ outlived, robot'[b].state = "live", robot'[b].kind = "personal"
      PROVE  /\ code'["personal"][robot'[b].number] = b
             /\ robot'[b].number <= number'["personal"]
  <2>1. robot'[b] = robot[b] /\ robot[b].state = "live" /\ robot[b].kind = "personal"
    BY <1>2
  <2>2. code["personal"][robot[b].number] = b /\ robot[b].number <= number["personal"]
    BY <2>1 DEF RunsInv, Personal, Live
  <2>3. /\ robot[b].number \in Nat
        /\ number["personal"] \in Nat /\ number'["personal"] \in Nat
    BY <1>1
  <2>4. robot'[b].number = robot[b].number
    BY <2>1
  <2>5. robot'[b].number <= number'["personal"]
    BY <2>2, <2>3, <2>4
  <2> QED
    BY <2>2, <2>4, <2>5
<1>3. /\ req'[r].at \notin {"processRead", "publish", "robotFind"}
      /\ ~(req'[r].at \in {"publish", "codePut", "robotSave"} /\ req'[r].kind = "personal")
      /\ req'[r].at \in {"newVersion", "processRead", "publish", "robotFind"} =>
           req'[r].kind = "personal"
  OBVIOUS
<1>4. \A b \in outlived : robot'[b].state # "unused"
  BY DEF RunsInv, TypeInv, TypeOK
<1> QED
  BY <1>2, <1>3, <1>4 DEF RunsInv, Personal, Live

LEMMA RunsArrival ==
  ASSUME TypeInv, TypeInv', NEW r \in Requests, RunsInv(req[r]), RobotArrival(r)
  PROVE  RunsInv(req[r])'
<1>a. number["personal"] \in Nat
  BY NumbersTyped
<1>1. ASSUME NEW k \in Kinds, CreateRobot(r, k) PROVE RunsInv(req[r])'
  <2> DEFINE l == CASE k = "personal" -> "newVersion"
                    [] k = "workspace" -> "codePut"
                    [] OTHER -> "robotSave"
  <2>1. PICK b \in FreshRobot, ks \in SUBSET Offered(k) : Begin(r, NewRobot(l, k, b, ks))
    BY <1>1 DEF CreateRobot
  <2>2. Offered(k) \subseteq Keys
    BY DEF Offered, Own, Names, Conn, TypeInv, TypeOK
  <2>3. ks \in SUBSET Keys /\ b \in Robots /\ robot[b].state = "unused"
    BY <2>1, <2>2 DEF FreshRobot, NoRow
  <2>4. /\ l \in Labels /\ l \in {"newVersion", "codePut", "robotSave"}
        /\ l = "newVersion" <=> k = "personal"
    BY DEF Labels, Kinds
  <2> HIDE DEF l
  <2>5. req'[r].at = l /\ req'[r].kind = k /\ req'[r].own = b
    BY <2>1, <2>3, <2>4, NewRobotMoves
  <2>6. robot' = robot /\ code' = code /\ number' = number /\ outlived' = outlived
    BY <1>1 DEF CreateRobot
  <2>7. b \notin outlived
    BY <2>3 DEF RunsInv
  <2> QED
    BY <1>a, <2>4, <2>5, <2>6, <2>7, RunsFrame
<1>2. ASSUME NEW b \in Robots, DeleteRobot(r, b) PROVE RunsInv(req[r])'
  <2>1. req'[r].at \in {"linksDelete", "terminate"}
    BY <1>2, DeleteMoves
  <2> QED
    BY <1>a, <1>2, <2>1, RunsFrame DEF DeleteRobot, stores, robotVars, Creating
<1>3. CASE ProcessArrival(r)
  <2>1. req' = req /\ robot' = robot /\ code' = code
    BY <1>3, ProcessCalls
  <2>2. /\ \A b \in Robots : robot[b].number \in Nat
        /\ req[r].number \in Nat
    BY NumbersTyped
  <2>3. CASE Numbered
    BY <1>a, <2>1, <2>2, <2>3 DEF Numbered, RunsInv, Personal, Live
  <2>4. CASE Dropped /\ req[r].at = "idle"
    BY <2>1, <2>4 DEF Dropped, RunsInv, Personal, Live, Creating
  <2> QED
    BY <1>3, <2>3, <2>4, ProcessCalls
<1> QED
  BY <1>1, <1>2, <1>3 DEF RobotArrival

LEMMA RunsStep ==
  ASSUME TypeInv, TypeInv', NEW r \in Requests, RunsInv(req[r]), RobotStep(r)
  PROVE  RunsInv(req[r])'
<1>a. /\ req[r] \in Request /\ req[r].kind \in Kinds /\ req[r].number \in Nat
      /\ Claim(req[r]) /\ number["personal"] \in Nat
      /\ \A b \in Robots : robot[b].number \in Nat
  BY NumbersTyped
<1>b. req[r].at \in Creating => req[r].own \notin outlived
  BY DEF RunsInv
<1>c. "idle" \notin Creating /\ Deleting \cap Creating = {} /\ "linksSave" \notin Creating
  BY DEF Creating, Deleting
<1>1. CASE NewVersion(r)
  <2>1. robot' = robot /\ code' = code /\ outlived' = outlived /\ req[r].at = "newVersion"
    BY <1>1 DEF NewVersion
  <2>2. CASE AddVersion /\ Advance(r, "processRead")
    <3>1. /\ req'[r].at = "processRead" /\ req'[r].kind = "personal"
          /\ req'[r].own = req[r].own
      BY <2>1, <2>2, AdvanceMoves DEF Labels, RunsInv
    <3>2. number'["personal"] = number["personal"] + 1
      BY <2>2, AddVersionTyped
    <3> QED
      BY <1>a, <1>b, <2>1, <3>1, <3>2 DEF RunsInv, Personal, Live, Creating
  <2>3. CASE Finish(r) /\ number' = number
    BY <1>a, <1>c, <2>1, <2>3, FinishMoves, RunsFrame
  <2> QED
    BY <1>1, <2>2, <2>3 DEF NewVersion
<1>2. CASE ProcessRead(r)
  <2> DEFINE q == [req[r] EXCEPT !.at = "publish", !.number = number["personal"]]
  <2>1. /\ q.at = "publish" /\ q.number = number["personal"] /\ q.kind = req[r].kind
        /\ q.own = req[r].own
    BY <1>a DEF Request
  <2> HIDE DEF q
  <2>2. req'[r] = q
    BY <1>2, GoMoves DEF ProcessRead, q
  <2>3. robot' = robot /\ code' = code /\ number' = number /\ outlived' = outlived
    BY <1>2 DEF ProcessRead, stores, robotVars
  <2>4. req[r].kind = "personal" /\ req[r].at = "processRead"
    BY <1>2 DEF ProcessRead, RunsInv
  <2> QED
    BY <1>a, <1>b, <2>1, <2>2, <2>3, <2>4 DEF RunsInv, Personal, Live, Creating
<1>3. CASE Publish(r)
  <2>1. /\ robot' = robot /\ code' = code /\ number' = number /\ outlived' = outlived
        /\ req[r].at = "publish" /\ req[r].number # 0
    BY <1>3, <1>a DEF Publish, RunsInv
  <2>2. /\ req'[r].at = "codePut" /\ req'[r].kind = req[r].kind
        /\ req'[r].number = req[r].number /\ req'[r].own = req[r].own
    BY <1>3, <2>1, AdvanceMoves DEF Publish, Labels
  <2> QED
    BY <1>a, <1>b, <2>1, <2>2 DEF RunsInv, Personal, Live, Creating
<1>4. CASE CodePut(r)
  <2> DEFINE k == req[r].kind
             v == req[r].number
  <2>1. /\ req'[r].at = "robotSave" /\ req'[r].kind = k /\ req'[r].number = v
        /\ req'[r].own = req[r].own /\ req[r].at = "codePut"
    BY <1>4, AdvanceMoves DEF CodePut, Labels
  <2>2. /\ robot' = robot /\ number' = number /\ outlived' = outlived
        /\ code' = [code EXCEPT ![k][v] = req[r].own]
    BY <1>4 DEF CodePut
  <2>3. code \in [Kinds -> [Numbers -> Robots \union {NoRobot}]]
    BY DEF TypeInv, TypeOK
  <2>4. CASE k # "personal"
    <3>1. code'["personal"] = code["personal"]
      BY <2>2, <2>3, <2>4 DEF Kinds
    <3> QED
      BY <1>a, <1>b, <2>1, <2>2, <2>4, <3>1, RunsFrame DEF Creating
  <2>5. CASE k = "personal"
    <3>1. /\ code'["personal"][v] = req[r].own
          /\ \A w \in Numbers : w # v => code'["personal"][w] = code["personal"][w]
      BY <2>2, <2>3, <2>5, NumbersTyped DEF Kinds
    <3>2. \A b \in Robots : robot[b].number \in Numbers
      BY NumbersTyped
    <3> QED
      BY <1>a, <1>b, <2>1, <2>2, <2>5, <3>1, <3>2 DEF RunsInv, Personal, Live, Creating
  <2> QED
    BY <2>4, <2>5
<1>5. CASE RobotSave(r)
  <2> DEFINE k == req[r].kind
             row == [state |-> "live", kind |-> k, number |-> req[r].number]
  <2>1. /\ robot' = [robot EXCEPT ![req[r].own] = row]
        /\ code' = code /\ number' = number /\ outlived' = outlived
        /\ req[r].at = "robotSave"
    BY <1>5 DEF RobotSave, robotVars
  <2>2. req[r].own \in Robots
    BY <1>a, <2>1 DEF Claim, Creating
  <2>3. robot'[req[r].own] = row /\ \A b \in Robots \ {req[r].own} : robot'[b] = robot[b]
    BY <2>1, <2>2 DEF TypeInv, TypeOK
  <2>4. CASE k = "personal"
    <3>1. Advance(r, "robotFind")
      BY <1>5, <2>4 DEF RobotSave
    <3>2. /\ req'[r].at = "robotFind" /\ req'[r].kind = k
          /\ req'[r].own = req[r].own /\ req'[r].number = req[r].number
      BY <3>1, AdvanceMoves DEF Labels
    <3> QED
      BY <1>a, <1>b, <2>1, <2>2, <2>3, <2>4, <3>2 DEF RunsInv, Personal, Live, Creating
  <2>5. CASE k # "personal"
    <3>1. Finish(r) \/ Advance(r, "linksSave")
      BY <1>5, <2>5 DEF RobotSave
    <3>2. req'[r].at \in {"idle", "linksSave"}
      BY <3>1, FinishMoves, AdvanceMoves DEF Labels
    <3> QED
      BY <1>a, <1>c, <2>1, <2>2, <2>3, <2>5, <3>2 DEF RunsInv, Personal, Live
  <2> QED
    BY <2>4, <2>5
<1>6. CASE RobotFind(r)
  <2>1. ASSUME NEW b, Go(r, [req[r] EXCEPT !.at = "linksSave", !.robot = b])
        PROVE  req'[r].at \in {"idle", "linksSave"}
    <3>1. [req[r] EXCEPT !.at = "linksSave", !.robot = b].at = "linksSave"
      BY <1>a DEF Request
    <3> QED
      BY <2>1, <3>1, GoMoves
  <2>2. (\E b : Go(r, [req[r] EXCEPT !.at = "linksSave", !.robot = b])) \/ Finish(r)
    BY <1>6 DEF RobotFind
  <2>3. req'[r].at \in {"idle", "linksSave"}
    BY <2>1, <2>2, FinishMoves
  <2>4. robot' = robot /\ code' = code /\ number' = number /\ outlived' = outlived
    BY <1>6 DEF RobotFind, stores, robotVars
  <2> QED
    BY <1>a, <1>c, <2>3, <2>4, RunsFrame
<1>7. CASE LinksSave(r)
  BY <1>7, <1>a, <1>c, FinishMoves, RunsFrame DEF LinksSave, robotVars
<1>8. CASE Terminate(r)
  <2>1. req'[r].at \in {"unpublish", "robotDelete"}
    BY <1>8, AdvanceMoves DEF Terminate, Labels
  <2> QED
    BY <1>8, <1>a, <1>c, <2>1, RunsFrame DEF Terminate, stores, robotVars, Deleting
<1>9. CASE Unpublish(r)
  BY <1>9, <1>a, <1>c, AdvanceMoves, RunsFrame DEF Unpublish, Labels, Deleting
<1>10. CASE LinksDelete(r)
  BY <1>10, <1>a, <1>c, AdvanceMoves, RunsFrame DEF LinksDelete, robotVars, Labels, Deleting
<1>11. CASE RobotDelete(r)
  <2>1. /\ \A b \in Robots : robot'[b].state = "live" => robot'[b] = robot[b]
        /\ \A b \in Robots : robot[b].state # "unused" => robot'[b].state # "unused"
    BY <1>11, DeletedRow DEF RobotDelete
  <2> QED
    BY <1>11, <1>a, <1>c, <2>1, FinishMoves, RunsFrame DEF RobotDelete, robotVars
<1> QED
  BY <1>1, <1>2, <1>3, <1>4, <1>5, <1>6, <1>7, <1>8, <1>9, <1>10, <1>11 DEF RobotStep

-----------------------------------------------------------------------------
(* One request at a time: robots are linked to what they were made with *)

LEMMA LinksFrame ==
  ASSUME NEW r \in Requests, LinksInv(req[r]), asked' = asked,
         outlived \subseteq outlived',
         \A b \in Robots, k \in Keys : link'[b][k] # "none" => link[b][k] # "none",
         \A b \in Robots : robot[b].state # "unused" => robot'[b].state # "unused",
         req'[r].at \in Creating => req'[r].keys \subseteq asked[req'[r].own],
         req'[r].at \in Linking /\ req'[r].robot \notin outlived =>
           req'[r].keys \subseteq asked[req'[r].robot]
  PROVE  LinksInv(req[r])'
BY DEF LinksInv

\* A creation that goes on with what it was asked for.
LEMMA LinksOn ==
  ASSUME TypeInv, NEW r \in Requests, LinksInv(req[r]), asked' = asked,
         outlived \subseteq outlived',
         \A b \in Robots, k \in Keys : link'[b][k] # "none" => link[b][k] # "none",
         \A b \in Robots : robot[b].state # "unused" => robot'[b].state # "unused",
         req[r].at \in Creating, req'[r].at \notin Linking,
         req'[r].keys = req[r].keys, req'[r].own = req[r].own
  PROVE  LinksInv(req[r])'
BY DEF LinksInv

\* A deletion, or the end of a request.
LEMMA LinksOff ==
  ASSUME TypeInv, NEW r \in Requests, LinksInv(req[r]), asked' = asked,
         outlived \subseteq outlived',
         \A b \in Robots, k \in Keys : link'[b][k] # "none" => link[b][k] # "none",
         \A b \in Robots : robot[b].state # "unused" => robot'[b].state # "unused",
         req'[r].at \notin Creating \union Linking
  PROVE  LinksInv(req[r])'
BY DEF LinksInv

\* Links are added for the keys that the request holds.
LEMMA LinksAdded ==
  ASSUME TypeInv, NEW r \in Requests, LinksInv(req[r]), req[r].at \in Linking,
         NEW s,
         \/ link' = link
         \/ /\ Live(req[r].robot)
            /\ link' = [link EXCEPT ![req[r].robot] =
                          [k \in Keys |-> IF k \in req[r].keys THEN s ELSE @[k]]],
         asked' = asked, outlived' = outlived, robot' = robot, req'[r].at = "idle"
  PROVE  LinksInv(req[r])'
<1> DEFINE c == req[r].robot
<1>1. c \in Robots /\ (c \notin outlived => req[r].keys \subseteq asked[c])
  BY DEF TypeInv, Claim, LinksInv
<1>2. ASSUME NEW b \in Robots, NEW k \in Keys, link'[b][k] # "none"
      PROVE  (b \notin outlived => k \in asked[b]) /\ robot[b].state # "unused"
  <2>1. CASE link[b][k] # "none"
    BY <2>1 DEF LinksInv
  <2>2. CASE link[b][k] = "none"
    <3>1. b = c /\ k \in req[r].keys /\ Live(c)
      BY <1>1, <1>2, <2>2 DEF TypeInv, TypeOK
    <3> QED
      BY <1>1, <3>1 DEF Live
  <2> QED
    BY <2>1, <2>2
<1> QED
  BY <1>2 DEF LinksInv, Creating, Linking

LEMMA LinksConnections ==
  ASSUME TypeInv, NEW r \in Requests, LinksInv(req[r]), NEW listed,
         ConnectionArrival(r) \/ ConnectionStep(r, listed),
         asked' = asked, outlived' = outlived
  PROVE  LinksInv(req[r])'
<1>1. CASE LinkSave(r)
  <2>1. req'[r].at = "idle"
    BY <1>1, FinishMoves DEF LinkSave
  <2>2. robot' = robot
    BY ConnectionMoves
  <2>3. PICK s \in {"on", "off"} :
          \/ link' = link
          \/ /\ Live(req[r].robot)
             /\ link' = [link EXCEPT ![req[r].robot] =
                           [k \in Keys |-> IF k \in req[r].keys THEN s ELSE @[k]]]
    BY <1>1 DEF LinkSave, Linkable
  <2> QED
    BY <1>1, <2>1, <2>2, <2>3, LinksAdded DEF LinkSave, Linking
<1>2. CASE ~LinkSave(r)
  <2>1. link' = link /\ robot' = robot /\ req'[r].at \in Elsewhere
    BY <1>2, ConnectionMoves
  <2>2. CASE req'[r].at # "linkSave"
    BY <2>1, <2>2, LinksOff DEF Elsewhere, Creating, Linking
  <2>3. CASE req'[r].at = "linkSave"
    <3>2. PICK b \in Robots, k \in Keys :
            req'[r].robot = b /\ req'[r].keys = {k} /\ link[b][k] # "none"
      BY <2>3, ConnectionMoves DEF Toggled
    <3>3. b \notin outlived => k \in asked[b]
      BY <3>2 DEF LinksInv
    <3> QED
      BY <2>1, <2>3, <3>2, <3>3, LinksFrame DEF Creating
  <2> QED
    BY <2>2, <2>3
<1> QED
  BY <1>1, <1>2

LEMMA LinksArrival ==
  ASSUME TypeInv, NEW r \in Requests, LinksInv(req[r]), RobotArrival(r)
  PROVE  LinksInv(req[r])'
<1>1. ASSUME NEW k \in Kinds, CreateRobot(r, k) PROVE LinksInv(req[r])'
  <2> DEFINE l == CASE k = "personal" -> "newVersion"
                    [] k = "workspace" -> "codePut"
                    [] OTHER -> "robotSave"
  <2>1. PICK b \in FreshRobot, ks \in SUBSET Offered(k) :
          /\ Begin(r, NewRobot(l, k, b, ks))
          /\ asked' = [asked EXCEPT ![b] = ks]
    BY <1>1 DEF CreateRobot
  <2>2. Offered(k) \subseteq Keys
    BY DEF Offered, Own, Names, Conn, TypeInv, TypeOK
  <2>3. ks \in SUBSET Keys /\ b \in Robots /\ robot[b].state = "unused"
    BY <2>1, <2>2 DEF FreshRobot, NoRow
  <2>4. l \in Labels /\ l \in {"newVersion", "codePut", "robotSave"}
    BY DEF Labels
  <2> HIDE DEF l
  <2>5. req'[r].at = l /\ req'[r].own = b /\ req'[r].keys = ks
    BY <2>1, <2>3, <2>4, NewRobotMoves
  <2>6. asked'[b] = ks /\ \A c \in Robots \ {b} : asked'[c] = asked[c]
    BY <2>1, <2>3 DEF TypeInv, TypeOK
  <2>7. link' = link /\ robot' = robot /\ outlived' = outlived
    BY <1>1 DEF CreateRobot
  <2> QED
    BY <2>3, <2>4, <2>5, <2>6, <2>7 DEF LinksInv, Linking
<1>2. ASSUME NEW b \in Robots, DeleteRobot(r, b) PROVE LinksInv(req[r])'
  <2>1. req'[r].at \in {"linksDelete", "terminate"}
    BY <1>2, DeleteMoves
  <2> QED
    BY <1>2, <2>1, LinksOff DEF DeleteRobot, stores, robotVars, Creating, Linking
<1>3. CASE ProcessArrival(r)
  <2>1. outlived \subseteq outlived'
    BY <1>3, ProcessCalls DEF Numbered, Dropped
  <2> QED
    BY <1>3, <2>1, ProcessCalls DEF LinksInv
<1> QED
  BY <1>1, <1>2, <1>3 DEF RobotArrival

LEMMA LinksStep ==
  ASSUME TypeInv, NEW r \in Requests, RunsInv(req[r]), LinksInv(req[r]), RobotStep(r)
  PROVE  LinksInv(req[r])'
<1> USE DEF Creating, Linking, Labels
<1>a. req[r] \in Request /\ Claim(req[r])
  BY NumbersTyped
<1>b. \A c \in Robots : \A b \in Robots, k \in Keys :
        Unlinked(c)[b][k] # "none" => link[b][k] # "none"
  BY DEF Unlinked, TypeInv, TypeOK
<1>1. CASE NewVersion(r)
  BY <1>1, AdvanceMoves, FinishMoves, LinksOn, LinksOff DEF NewVersion
<1>2. CASE ProcessRead(r)
  <2> DEFINE q == [req[r] EXCEPT !.at = "publish", !.number = number["personal"]]
  <2>1. q.at = "publish" /\ q.own = req[r].own /\ q.keys = req[r].keys
    BY <1>a DEF Request
  <2> HIDE DEF q
  <2>2. req'[r] = q
    BY <1>2, GoMoves DEF ProcessRead, q
  <2>3. /\ robot' = robot /\ link' = link /\ asked' = asked /\ outlived' = outlived
        /\ req[r].at = "processRead"
    BY <1>2 DEF ProcessRead, stores, robotVars
  <2> QED
    BY <2>1, <2>2, <2>3, LinksOn
<1>3. CASE Publish(r)
  BY <1>3, AdvanceMoves, FinishMoves, LinksOn, LinksOff DEF Publish
<1>4. CASE CodePut(r)
  BY <1>4, AdvanceMoves, LinksOn DEF CodePut
<1>5. CASE RobotSave(r)
  <2>1. req[r].own \in Robots /\ req[r].robot = req[r].own /\ req[r].at = "robotSave"
    BY <1>5, <1>a DEF RobotSave, Claim
  <2>2. link' = link /\ asked' = asked /\ outlived' = outlived
    BY <1>5 DEF RobotSave, robotVars
  <2>3. \A b \in Robots : robot[b].state # "unused" => robot'[b].state # "unused"
    BY <1>5 DEF RobotSave, TypeInv, TypeOK
  <2>4. req[r].keys \subseteq asked[req[r].own]
    BY <2>1 DEF LinksInv
  <2>5. CASE Advance(r, "robotFind") \/ Advance(r, "linksSave")
    <3>1. /\ req'[r].at \in {"robotFind", "linksSave"}
          /\ req'[r].own = req[r].own /\ req'[r].robot = req[r].own
          /\ req'[r].keys = req[r].keys
      BY <2>1, <2>5, AdvanceMoves
    <3> QED
      BY <2>2, <2>3, <2>4, <3>1, LinksFrame
  <2>6. CASE Finish(r)
    BY <2>2, <2>3, <2>6, FinishMoves, LinksOff
  <2> QED
    BY <1>5, <2>5, <2>6 DEF RobotSave
<1>6. CASE RobotFind(r)
  <2>0. /\ robot' = robot /\ link' = link /\ asked' = asked /\ outlived' = outlived
        /\ req[r].at = "robotFind"
    BY <1>6 DEF RobotFind, stores, robotVars
  <2>1. ASSUME NEW b \in Found(req[r].number),
               Go(r, [req[r] EXCEPT !.at = "linksSave", !.robot = b])
        PROVE  LinksInv(req[r])'
    <3> DEFINE q == [req[r] EXCEPT !.at = "linksSave", !.robot = b]
    <3>1. b \notin outlived => b = req[r].own
      BY <1>a, <2>0 DEF Found, RunsInv
    <3>2. q.at = "linksSave" /\ q.keys = req[r].keys /\ q.robot = b
      BY <1>a DEF Request
    <3> HIDE DEF q
    <3>3. req'[r] = q
      BY <2>1, GoMoves DEF q
    <3>4. b \notin outlived => req[r].keys \subseteq asked[b]
      BY <2>0, <3>1 DEF LinksInv
    <3> QED
      BY <2>0, <3>2, <3>3, <3>4, LinksFrame
  <2>2. CASE Finish(r)
    BY <2>0, <2>2, FinishMoves, LinksOff
  <2> QED
    BY <1>6, <2>1, <2>2 DEF RobotFind
<1>7. CASE LinksSave(r)
  <2>1. /\ req'[r].at = "idle" /\ robot' = robot /\ asked' = asked /\ outlived' = outlived
        /\ req[r].at = "linksSave"
    BY <1>7, FinishMoves DEF LinksSave, robotVars
  <2>2. \/ link' = link
        \/ /\ Live(req[r].robot)
           /\ link' = [link EXCEPT ![req[r].robot] =
                         [k \in Keys |-> IF k \in req[r].keys THEN "on" ELSE @[k]]]
    BY <1>7 DEF LinksSave, Linkable
  <2> QED
    BY <2>1, <2>2, LinksAdded
<1>8. CASE Terminate(r)
  BY <1>8, AdvanceMoves, LinksOff DEF Terminate, stores, robotVars
<1>9. CASE Unpublish(r)
  BY <1>9, AdvanceMoves, LinksOff DEF Unpublish
<1>10. CASE LinksDelete(r)
  <2>1. req[r].robot \in Robots /\ link' = Unlinked(req[r].robot)
    BY <1>10, <1>a DEF LinksDelete, Claim, Deleting
  <2> QED
    BY <1>10, <1>b, <2>1, AdvanceMoves, LinksOff DEF LinksDelete, robotVars
<1>11. CASE RobotDelete(r)
  <2>1. req[r].robot \in Robots /\ link' = Unlinked(req[r].robot)
    BY <1>11, <1>a DEF RobotDelete, Claim, Deleting
  <2>2. \A b \in Robots : robot[b].state # "unused" => robot'[b].state # "unused"
    BY <1>11, DeletedRow DEF RobotDelete
  <2> QED
    BY <1>11, <1>b, <2>1, <2>2, FinishMoves, LinksOff DEF RobotDelete, robotVars
<1> QED
  BY <1>1, <1>2, <1>3, <1>4, <1>5, <1>6, <1>7, <1>8, <1>9, <1>10, <1>11 DEF RobotStep

-----------------------------------------------------------------------------
(* One request at a time: a published process has a robot *)

\* A request that keeps what it holds about rows that stay.
LEMMA PublishedFrame ==
  ASSUME TypeInv, NEW r \in Requests, PublishedInv(req[r]),
         robot' = robot, status' = status, faults' = faults,
         number'["personal"] = 0 => number["personal"] = 0,
         req'[r].at \notin Deleting,
         req'[r].at \in Creating \ {"robotFind"} => robot[req'[r].own].state = "unused",
         req[r].at \in {"codePut", "robotSave"} /\ req[r].kind = "personal" =>
           req'[r].at \in {"codePut", "robotSave"} /\ req'[r].kind = "personal"
  PROVE  PublishedInv(req[r])'
BY DEF PublishedInv, Personal, Live, Deleting

\* A deletion goes on.
LEMMA DeletionFrame ==
  ASSUME TypeInv, NEW r \in Requests, PublishedInv(req[r]), req[r].at \in Deleting,
         robot' = robot, status' = status, faults' = faults,
         number'["personal"] = 0 => number["personal"] = 0,
         req'[r].robot = req[r].robot, req'[r].kind = req[r].kind,
         req'[r].at \in {"unpublish", "robotDelete"},
         req'[r].at = "robotDelete" => req[r].kind # "personal"
  PROVE  PublishedInv(req[r])'
BY DEF PublishedInv, Personal, Live, Deleting, Creating

\* A failure ends what the invariant says of published processes.
LEMMA PublishedFailed ==
  ASSUME TypeInv, NEW r \in Requests, PublishedInv(req[r]), faults' = faults + 1,
         number' = number, status' = status, req'[r].at = "idle"
  PROVE  PublishedInv(req[r])'
<1>1. faults' # 0
  BY FaultAssumption DEF TypeInv, TypeOK
<1> QED
  BY <1>1 DEF PublishedInv, Deleting, Creating

LEMMA PublishedArrival ==
  ASSUME TypeInv, NEW r \in Requests, PublishedInv(req[r]), RobotArrival(r)
  PROVE  PublishedInv(req[r])'
<1>1. ASSUME NEW k \in Kinds, CreateRobot(r, k) PROVE PublishedInv(req[r])'
  <2> DEFINE l == CASE k = "personal" -> "newVersion"
                    [] k = "workspace" -> "codePut"
                    [] OTHER -> "robotSave"
  <2>1. PICK b \in FreshRobot, ks \in SUBSET Offered(k) : Begin(r, NewRobot(l, k, b, ks))
    BY <1>1 DEF CreateRobot
  <2>2. Offered(k) \subseteq Keys
    BY DEF Offered, Own, Names, Conn, TypeInv, TypeOK
  <2>3. ks \in SUBSET Keys /\ b \in Robots /\ robot[b].state = "unused"
    BY <2>1, <2>2 DEF FreshRobot, NoRow
  <2>4. l \in Labels /\ l \in {"newVersion", "codePut", "robotSave"}
    BY DEF Labels
  <2> HIDE DEF l
  <2>5. req'[r].at = l /\ req'[r].own = b
    BY <2>1, <2>3, <2>4, NewRobotMoves
  <2>6. /\ robot' = robot /\ status' = status /\ faults' = faults /\ number' = number
        /\ req[r].at = "idle"
    BY <1>1, <2>1 DEF CreateRobot, Begin, Free
  <2> QED
    BY <2>3, <2>4, <2>5, <2>6, PublishedFrame DEF Deleting
<1>2. ASSUME NEW b \in Robots, DeleteRobot(r, b) PROVE PublishedInv(req[r])'
  <2>1. /\ req'[r].at = IF robot[b].kind = "team" THEN "linksDelete" ELSE "terminate"
        /\ req'[r].kind = robot[b].kind /\ req'[r].robot = b
    BY <1>2, DeleteMoves
  <2>2. /\ Live(b) /\ robot' = robot /\ status' = status /\ faults' = faults
        /\ number' = number
    BY <1>2 DEF DeleteRobot, stores, robotVars
  <2>3. req[r].at = "idle"
    BY <1>2 DEF DeleteRobot, Begin, Free
  <2> QED
    BY <2>1, <2>2, <2>3 DEF PublishedInv, Personal, Live, Creating
<1>3. CASE ProcessArrival(r)
  <2>1. robot' = robot /\ faults' = faults /\ req' = req
    BY <1>3, ProcessCalls
  <2>2. CASE Numbered
    <3>1. number["personal"] \in Nat
      BY NumbersTyped
    <3>2. number'["personal"] = 0 => number["personal"] = 0
      BY <2>2, <3>1 DEF Numbered
    <3> QED
      BY <2>1, <2>2, <3>2 DEF Numbered, PublishedInv, Personal, Live
  <2>3. CASE Dropped /\ req[r].at = "idle"
    BY <2>1, <2>3 DEF Dropped, PublishedInv, Deleting, Creating
  <2> QED
    BY <1>3, <2>2, <2>3, ProcessCalls
<1> QED
  BY <1>1, <1>2, <1>3 DEF RobotArrival

LEMMA PublishedStep ==
  ASSUME TypeInv, NEW r \in Requests, RunsInv(req[r]), PublishedInv(req[r]), RobotStep(r)
  PROVE  PublishedInv(req[r])'
<1> USE DEF Creating, Deleting, Labels
<1>a. req[r] \in Request /\ Claim(req[r]) /\ number["personal"] \in Nat
  BY NumbersTyped
<1>1. CASE NewVersion(r)
  <2>1. /\ robot' = robot /\ status' = status /\ faults' = faults
        /\ req[r].at = "newVersion"
    BY <1>1 DEF NewVersion
  <2>2. CASE AddVersion /\ Advance(r, "processRead")
    <3>1. req'[r].at = "processRead" /\ req'[r].own = req[r].own
      BY <2>2, AdvanceMoves
    <3>2. number'["personal"] # 0
      BY <1>a, <2>2, AddVersionTyped
    <3> QED
      BY <2>1, <3>1, <3>2, PublishedFrame DEF PublishedInv
  <2>3. CASE Finish(r) /\ number' = number
    BY <2>1, <2>3, FinishMoves, PublishedFrame
  <2> QED
    BY <1>1, <2>2, <2>3 DEF NewVersion
<1>2. CASE ProcessRead(r)
  <2> DEFINE q == [req[r] EXCEPT !.at = "publish", !.number = number["personal"]]
  <2>1. q.at = "publish" /\ q.own = req[r].own
    BY <1>a DEF Request
  <2> HIDE DEF q
  <2>2. req'[r] = q
    BY <1>2, GoMoves DEF ProcessRead, q
  <2>3. /\ robot' = robot /\ status' = status /\ faults' = faults /\ number' = number
        /\ req[r].at = "processRead"
    BY <1>2 DEF ProcessRead, stores, robotVars
  <2> QED
    BY <2>1, <2>2, <2>3, PublishedFrame DEF PublishedInv
<1>3. CASE Publish(r)
  <2>1. /\ robot' = robot /\ number' = number /\ req[r].at = "publish"
        /\ req[r].kind = "personal" /\ req[r].number # 0 /\ number["personal"] # 0
    BY <1>3, <1>a, NumbersTyped DEF Publish, RunsInv
  <2>2. /\ req'[r].at = "codePut" /\ req'[r].own = req[r].own
        /\ req'[r].kind = "personal"
    BY <1>3, <2>1, AdvanceMoves DEF Publish
  <2> QED
    BY <2>1, <2>2 DEF PublishedInv
<1>4. CASE CodePut(r)
  <2>1. /\ req'[r].at = "robotSave" /\ req'[r].own = req[r].own
        /\ req'[r].kind = req[r].kind
    BY <1>4, AdvanceMoves DEF CodePut
  <2> QED
    BY <1>4, <2>1, PublishedFrame DEF CodePut, PublishedInv
<1>5. CASE RobotSave(r)
  <2> DEFINE c == req[r].own
             row == [state |-> "live", kind |-> req[r].kind, number |-> req[r].number]
  <2>1. /\ robot' = [robot EXCEPT ![c] = row] /\ req[r].at = "robotSave"
        /\ status' = status /\ faults' = faults /\ number' = number
    BY <1>5 DEF RobotSave, robotVars
  <2>2. c \in Robots /\ robot[c].state = "unused"
    BY <1>a, <2>1 DEF Claim, PublishedInv
  <2>3. robot'[c] = row /\ \A b \in Robots \ {c} : robot'[b] = robot[b]
    BY <2>1, <2>2 DEF TypeInv, TypeOK
  <2>4. req'[r].at \in {"idle", "robotFind", "linksSave"}
    <3>1. Finish(r) \/ Advance(r, "robotFind") \/ Advance(r, "linksSave")
      BY <1>5 DEF RobotSave
    <3> QED
      BY <3>1, FinishMoves, AdvanceMoves
  <2>5. Personal \subseteq Personal'
    BY <2>2, <2>3 DEF Personal, Live
  <2>6. faults = 0 /\ status = "Published" => Personal' # {}
    <3>1. CASE req[r].kind = "personal"
      <4>1. c \in Personal'
        BY <2>2, <2>3, <3>1 DEF Personal, Live
      <4> QED
        BY <4>1
    <3>2. CASE req[r].kind # "personal"
      BY <2>5, <3>2 DEF PublishedInv
    <3> QED
      BY <3>1, <3>2
  <2> QED
    BY <2>1, <2>4, <2>6 DEF PublishedInv
<1>6. CASE RobotFind(r)
  <2>1. ASSUME NEW b, Go(r, [req[r] EXCEPT !.at = "linksSave", !.robot = b])
        PROVE  req'[r].at \in {"idle", "linksSave"}
    <3>1. [req[r] EXCEPT !.at = "linksSave", !.robot = b].at = "linksSave"
      BY <1>a DEF Request
    <3> QED
      BY <2>1, <3>1, GoMoves
  <2>2. (\E b : Go(r, [req[r] EXCEPT !.at = "linksSave", !.robot = b])) \/ Finish(r)
    BY <1>6 DEF RobotFind
  <2>3. req'[r].at \in {"idle", "linksSave"}
    BY <2>1, <2>2, FinishMoves
  <2>4. /\ robot' = robot /\ status' = status /\ faults' = faults /\ number' = number
        /\ req[r].at = "robotFind"
    BY <1>6 DEF RobotFind, stores, robotVars
  <2> QED
    BY <2>3, <2>4, PublishedFrame
<1>7. CASE LinksSave(r)
  <2>1. req'[r].at = "idle"
    BY <1>7, FinishMoves DEF LinksSave
  <2> QED
    BY <1>7, <2>1, PublishedFrame DEF LinksSave, robotVars
<1>8. CASE Terminate(r)
  <2>1. /\ req'[r].at = IF req[r].kind = "personal" THEN "unpublish" ELSE "robotDelete"
        /\ req'[r].kind = req[r].kind /\ req'[r].robot = req[r].robot
    BY <1>8, AdvanceMoves DEF Terminate
  <2>2. /\ robot' = robot /\ status' = status /\ faults' = faults /\ number' = number
        /\ req[r].at = "terminate"
    BY <1>8 DEF Terminate, stores, robotVars
  <2> QED
    BY <2>1, <2>2, DeletionFrame
<1>9. CASE Unpublish(r)
  <2>1. /\ req'[r].at = "robotDelete"
        /\ req'[r].kind = req[r].kind /\ req'[r].robot = req[r].robot
    BY <1>9, AdvanceMoves DEF Unpublish
  <2>2. robot' = robot /\ number' = number /\ status' = "Draft" /\ req[r].at = "unpublish"
    BY <1>9 DEF Unpublish, Mark, PublishedInv
  <2> QED
    BY <2>1, <2>2 DEF PublishedInv, Live
<1>10. CASE LinksDelete(r)
  <2>1. /\ req'[r].at = "robotDelete"
        /\ req'[r].kind = req[r].kind /\ req'[r].robot = req[r].robot
    BY <1>10, AdvanceMoves DEF LinksDelete
  <2>2. /\ robot' = robot /\ status' = status /\ faults' = faults /\ number' = number
        /\ req[r].at = "linksDelete"
    BY <1>10 DEF LinksDelete, robotVars
  <2>3. req[r].kind # "personal"
    BY <2>2 DEF PublishedInv
  <2> QED
    BY <2>1, <2>2, <2>3, DeletionFrame
<1>11. CASE RobotDelete(r)
  <2> DEFINE c == req[r].robot
  <2>1. req'[r].at = "idle"
    BY <1>11, FinishMoves DEF RobotDelete
  <2>2. /\ robot' = [robot EXCEPT ![c].state = "deleted"] /\ req[r].at = "robotDelete"
        /\ status' = status /\ faults' = faults /\ number' = number
    BY <1>11 DEF RobotDelete, robotVars
  <2>3. \A b \in Robots \ {c} : robot'[b] = robot[b]
    BY <2>2, DeletedRow
  <2>4. faults = 0 /\ status = "Published" => Personal' # {}
    <3> SUFFICES ASSUME faults = 0, status = "Published" PROVE Personal' # {}
      OBVIOUS
    <3>1. robot[c].kind # "personal"
      BY <2>2 DEF PublishedInv
    <3>2. PICK b \in Personal : TRUE
      BY <2>2 DEF PublishedInv
    <3>3. b \in Personal'
      BY <2>3, <3>1, <3>2 DEF Personal, Live
    <3> QED
      BY <3>3
  <2> QED
    BY <2>1, <2>2, <2>4 DEF PublishedInv
<1> QED
  BY <1>1, <1>2, <1>3, <1>4, <1>5, <1>6, <1>7, <1>8, <1>9, <1>10, <1>11 DEF RobotStep

-----------------------------------------------------------------------------
(* One request at a time *)

LEMMA NextSerial ==
  ASSUME NEW one, Requests = {one}, TypeInv, TypeInv', SerialInv, [Next]_vars
  PROVE  SerialInv'
<1>a. one \in Requests /\ RunsInv(req[one]) /\ LinksInv(req[one]) /\ PublishedInv(req[one])
  BY DEF SerialInv
<1>b. SUFFICES RunsInv(req[one])' /\ LinksInv(req[one])' /\ PublishedInv(req[one])'
  BY DEF SerialInv
<1>n. number["personal"] \in Nat
  BY <1>a, NumbersTyped
<1>1. CASE RobotArrival(one)
  BY <1>a, <1>1, RunsArrival, LinksArrival, PublishedArrival
<1>2. CASE RobotStep(one)
  BY <1>a, <1>2, RunsStep, LinksStep, PublishedStep
<1>3. CASE (ConnectionArrival(one) \/ ConnectionStep(one, Listed)) /\ UNCHANGED robotVars
  <2>1. req'[one].at \in Elsewhere /\ robot' = robot /\ faults' = faults
    BY <1>a, <1>3, ConnectionMoves
  <2>2. /\ code' = code /\ number' = number /\ status' = status /\ asked' = asked
        /\ outlived' = outlived
    BY <1>3 DEF robotVars
  <2>3. RunsInv(req[one])'
    BY <1>a, <1>n, <2>1, <2>2, RunsFrame DEF Elsewhere, Creating
  <2>4. LinksInv(req[one])'
    BY <1>a, <1>3, <2>2, LinksConnections
  <2>5. req[one].at \in Elsewhere
    BY <1>3 DEF ConnectionArrival, CreateConnection, Reconnect, Refresh, RemoveConnection,
                ToggleActivation, Begin, Free, ConnectionStep, ConnInsert, AskGoogle, ConnSave,
                Revoke, ConnDelete, LinkSave, Elsewhere
  <2>6. PublishedInv(req[one])'
    BY <1>a, <2>1, <2>2, <2>5, PublishedFrame DEF Elsewhere, Creating, Deleting
  <2> QED
    BY <2>3, <2>4, <2>6
<1>4. CASE /\ req'[one].at = "idle" /\ faults' = faults + 1
           /\ UNCHANGED <<link, robot, robotVars>>
  <2>1. RunsInv(req[one])'
    BY <1>a, <1>n, <1>4, RunsFrame DEF robotVars, Creating
  <2>2. LinksInv(req[one])'
    BY <1>a, <1>4, LinksOff DEF robotVars, Creating, Linking
  <2>3. PublishedInv(req[one])'
    BY <1>a, <1>4, PublishedFailed DEF robotVars
  <2> QED
    BY <2>1, <2>2, <2>3
<1>5. CASE UNCHANGED <<link, robot, req, robotVars>> /\ (faults' = faults \/ faults' = faults + 1)
  <2>1. RunsInv(req[one])' /\ LinksInv(req[one])'
    BY <1>a, <1>5 DEF RunsInv, LinksInv, Personal, Live, robotVars
  <2>2. faults' = 0 => faults = 0
    BY <1>5, FaultAssumption DEF TypeInv, TypeOK
  <2>3. PublishedInv(req[one])'
    BY <1>a, <1>5, <2>2 DEF PublishedInv, Personal, Live, robotVars
  <2> QED
    BY <2>1, <2>3
<1>6. ASSUME NEW r \in Requests, Arrival(r) \/ Step(r) \/ Fail(r)
      PROVE  RunsInv(req[one])' /\ LinksInv(req[one])' /\ PublishedInv(req[one])'
  <2>1. r = one
    OBVIOUS
  <2>2. CASE Fail(r)
    BY <1>a, <1>4, <2>1, <2>2, FinishMoves DEF Fail, robotVars
  <2> QED
    BY <1>1, <1>2, <1>3, <1>6, <2>1, <2>2 DEF Arrival, Step
<1>7. CASE Crash
  BY <1>a, <1>4, <1>7, IdleTyped DEF Crash, robotVars
<1>8. (\E t \in Tokens : Withdraw(t) /\ UNCHANGED <<robotVars, nightVars>>)
        \/ Midnight \/ CheckStep \/ (\E n \in Own : Notify(n) \/ MarkAsRead(n))
        \/ UNCHANGED vars
      => UNCHANGED <<link, robot, req, robotVars>> /\ (faults' = faults \/ faults' = faults + 1)
  BY DEF Withdraw, Midnight, CheckStep, NextEntry, Load, NightAsk, NightSave, NightFail,
         Notify, MarkAsRead, vars, stores, robotVars
<1> QED
  BY <1>5, <1>6, <1>7, <1>8 DEF Next, DayNext

LEMMA SerialInvariant ==
  ASSUME NEW CONSTANT one, Requests = {one}
  PROVE  Spec => []SerialInv
<1>1. Init => SerialInv
  <2> SUFFICES ASSUME Init PROVE SerialInv
    OBVIOUS
  <2>1. \A r \in Requests : req[r].at = "idle"
    BY IdleTyped DEF Init
  <2>2. \A b \in Robots : robot[b].state = "unused" /\ \A k \in Keys : link[b][k] = "none"
    BY DEF Init, NoRow
  <2>3. status = "Draft" /\ outlived = {}
    BY DEF Init
  <2> QED
    BY <2>1, <2>2, <2>3 DEF SerialInv, RunsInv, LinksInv, PublishedInv, Personal, Live, Creating,
                            Deleting, Linking
<1>2. TypeInv /\ TypeInv' /\ SerialInv /\ [Next]_vars => SerialInv'
  BY NextSerial
<1> QED
  BY <1>1, <1>2, NightTyped, PTL DEF Spec

\* With requests served one by one, wherever they fail and the server dies, a
\* personal robot runs the code that was made for it.
THEOREM RobotsRunOwnCode ==
  ASSUME NEW CONSTANT one, Requests = {one}
  PROVE  Spec => []RunsOwnCode
<1>1. SerialInv => RunsOwnCode
  BY DEF SerialInv, RunsInv, RunsOwnCode
<1> QED
  BY <1>1, SerialInvariant, PTL

\* With requests served one by one, what getRobotConnection returns for the version
\* a robot runs are connections that this robot was made with.
THEOREM RobotsOwnCredentials ==
  ASSUME NEW CONSTANT one, Requests = {one}
  PROVE  Spec => []OwnCredentials
<1>1. SerialInv => OwnCredentials
  <2> SUFFICES ASSUME SerialInv,
                      NEW b \in Personal, Found(robot[b].number) \cap outlived = {},
                      NEW c \in Found(robot[b].number), NEW k \in Keys, link[c][k] # "none"
               PROVE  k \in asked[b]
    BY DEF OwnCredentials
  <2>1. b \in Found(robot[b].number) /\ c \in Personal /\ robot[c].number = robot[b].number
    BY DEF Found
  <2>2. b \notin outlived /\ c \notin outlived /\ c \in Robots
    BY <2>1 DEF Personal
  <2>3. RunsInv(req[one]) /\ LinksInv(req[one])
    BY DEF SerialInv
  <2>4. code["personal"][robot[b].number] = b /\ code["personal"][robot[c].number] = c
    BY <2>1, <2>2, <2>3 DEF RunsInv
  <2> QED
    BY <2>1, <2>2, <2>3, <2>4 DEF LinksInv
<1> QED
  BY <1>1, SerialInvariant, PTL

\* With requests served one by one and no failure, a process is not left Published
\* without a robot.
THEOREM PublishedAlwaysHasRobot ==
  ASSUME NEW CONSTANT one, Requests = {one}
  PROVE  Spec => []PublishedHasRobot
<1>1. SerialInv => PublishedHasRobot
  BY DEF SerialInv, PublishedInv, PublishedHasRobot, Quiet, Free
<1> QED
  BY <1>1, SerialInvariant, PTL
-----------------------------------------------------------------------------
(* A check that has begun comes to its end. *)

Stage == [idle |-> 0, next |-> 1, connSave |-> 2, askGoogle |-> 3, load |-> 4]

\* How many steps are left of a check, at most.
Left == 4 * Cardinality(night.todo) + Stage[night.at]

FiniteAssumption == IsFiniteSet(Robots) /\ IsFiniteSet(Keys) /\ IsFiniteSet(Own)

LEMMA EntryFinite ==
  ASSUME FiniteAssumption
  PROVE  IsFiniteSet(Entry)
<1> DEFINE P == (Robots \X Keys) \X Own
           f == [p \in P |-> [robot |-> p[1][1], key |-> p[1][2], name |-> p[2]]]
<1>1. IsFiniteSet(Robots \X Keys)
  BY FS_Product DEF FiniteAssumption
<1>2. IsFiniteSet(P)
  BY <1>1, FS_Product DEF FiniteAssumption
<1>3. f \in Surjection(P, Entry)
  <2>1. f \in [P -> Entry]
    BY DEF Entry
  <2>2. ASSUME NEW e \in Entry PROVE \E p \in P : f[p] = e
    <3>1. e.robot \in Robots /\ e.key \in Keys /\ e.name \in Own
          /\ e = [robot |-> e.robot, key |-> e.key, name |-> e.name]
      BY DEF Entry
    <3>2. <<<<e.robot, e.key>>, e.name>> \in P
      BY <3>1
    <3>3. f[<<<<e.robot, e.key>>, e.name>>] = e
      BY <3>1, <3>2
    <3> QED
      BY <3>2, <3>3
  <2> HIDE DEF f, P
  <2> QED
    BY <2>1, <2>2 DEF Surjection
<1> HIDE DEF f, P
<1> QED
  BY <1>2, <1>3, FS_Surjection

LEMMA LeftTyped ==
  ASSUME FiniteAssumption, TypeInv
  PROVE  /\ IsFiniteSet(night.todo)
         /\ Cardinality(night.todo) \in Nat
         /\ Stage[night.at] \in 0..4
         /\ night.at # "idle" => Stage[night.at] > 0
<1>1. night \in Night
  BY DEF TypeInv, TypeOK
<1>2. night.todo \in SUBSET Entry
  BY <1>1 DEF Night
<1>3. night.at \in {"idle", "next", "load", "askGoogle", "connSave"}
  BY <1>1 DEF Night
<1>4. IsFiniteSet(night.todo)
  BY <1>2, EntryFinite, FS_Subset
<1> QED
  BY <1>3, <1>4, FS_CardinalityType DEF Stage

\* A step of the check, other than the choice of the next link, ends the refresh or
\* takes it further.
LEMMA RefreshShortens ==
  ASSUME FiniteAssumption, TypeInv, Load \/ NightAsk \/ NightSave \/ NightFail
  PROVE  Left' < Left
<1>1. night \in Night
  BY DEF TypeInv, TypeOK
<1>2. /\ Stage["next"] = 1 /\ Stage["connSave"] = 2
      /\ Stage["askGoogle"] = 3 /\ Stage["load"] = 4
  BY DEF Stage
<1>3. Continue => night'.todo = night.todo /\ night'.at = "next"
  BY <1>1 DEF Continue, Night
<1> DEFINE Shorter == night'.todo = night.todo /\ Stage[night'.at] \in Nat
                      /\ Stage[night'.at] < Stage[night.at]
<1> HIDE DEF Shorter
<1>4. Shorter
  <2>1. CASE Load
    <3>1. night.at = "load"
      BY <2>1 DEF Load
    <3>2. CASE Report
      BY <1>2, <1>3, <3>1, <3>2 DEF Report, Shorter
    <3>3. CASE night' = [night EXCEPT !.at = "askGoogle", !.row = conn[night.name]]
      <4>1. night'.at = "askGoogle" /\ night'.todo = night.todo
        BY <1>1, <3>3 DEF Night
      <4> QED
        BY <1>2, <3>1, <4>1 DEF Shorter
    <3> QED
      BY <2>1, <3>2, <3>3 DEF Load
  <2>2. CASE NightAsk
    <3>1. night.at = "askGoogle"
      BY <2>2 DEF NightAsk
    <3>2. CASE Report
      BY <1>2, <1>3, <3>1, <3>2 DEF Report, Shorter
    <3>3. ASSUME NEW row, night' = [night EXCEPT !.at = "connSave", !.row = row]
          PROVE  Shorter
      <4>1. night'.at = "connSave" /\ night'.todo = night.todo
        BY <1>1, <3>3 DEF Night
      <4> QED
        BY <1>2, <3>1, <4>1 DEF Shorter
    <3> QED
      BY <2>2, <3>2, <3>3 DEF NightAsk
  <2>3. CASE NightSave
    BY <1>2, <1>3, <2>3 DEF NightSave, Report, Shorter
  <2>4. CASE NightFail
    BY <1>2, <1>3, <2>4 DEF NightFail, Report, Shorter
  <2> QED
    BY <2>1, <2>2, <2>3, <2>4
<1> QED
  BY <1>4, LeftTyped DEF Left, Shorter

LEMMA NextEntryShortens ==
  ASSUME FiniteAssumption, TypeInv, NextEntry
  PROVE  Left' < Left
<1>1. night \in Night /\ night.at = "next"
  BY DEF TypeInv, TypeOK, NextEntry
<1>2. /\ IsFiniteSet(night.todo) /\ Cardinality(night.todo) \in Nat
      /\ Stage["idle"] = 0 /\ Stage["next"] = 1 /\ Stage["load"] = 4
  BY LeftTyped DEF Stage
<1> DEFINE open == {e \in night.todo : e.key \notin night.checked}
<1>3. CASE night' = Asleep
  <2>1. night'.todo = {} /\ night'.at = "idle"
    BY <1>3 DEF Asleep
  <2> QED
    BY <1>1, <1>2, <2>1, FS_EmptySet DEF Left
<1>4. ASSUME NEW e \in open,
             night' = [night EXCEPT !.at = "load", !.todo = open \ {e},
                                    !.checked = @ \union {e.key}, !.name = e.name]
      PROVE  Left' < Left
  <2>1. night'.todo = open \ {e} /\ night'.at = "load"
    BY <1>1, <1>4 DEF Night
  <2>2. e \in night.todo /\ open \ {e} \in SUBSET (night.todo \ {e})
    OBVIOUS
  <2> HIDE DEF open
  <2>3. /\ IsFiniteSet(night.todo \ {e})
        /\ Cardinality(night.todo \ {e}) = Cardinality(night.todo) - 1
    BY <1>2, <2>2, FS_RemoveElement
  <2>4. /\ IsFiniteSet(open \ {e})
        /\ Cardinality(open \ {e}) <= Cardinality(night.todo) - 1
    BY <2>2, <2>3, FS_Subset
  <2>5. Cardinality(open \ {e}) \in Nat
    BY <2>4, FS_CardinalityType
  <2> QED
    BY <1>1, <1>2, <2>1, <2>4, <2>5 DEF Left
<1> QED
  BY <1>3, <1>4 DEF NextEntry

\* What clients, other reports and withdrawn permissions cannot change.
LEMMA OthersLeaveCheck ==
  ASSUME [Next]_vars
  PROVE  Midnight \/ CheckStep \/ Crash \/ UNCHANGED night
BY DEF Next, DayNext, Arrival, Step, Fail, Notify, MarkAsRead, nightVars, vars

LEMMA CrashShortens ==
  ASSUME FiniteAssumption, TypeInv, Crash, night.at # "idle"
  PROVE  Left' < Left
<1>1. night'.todo = {} /\ night'.at = "idle" /\ Stage["idle"] = 0
  BY DEF Crash, Asleep, Stage
<1> QED
  BY <1>1, LeftTyped, FS_EmptySet DEF Left

\* The check of a night has a bounded number of steps, set at midnight, and whatever
\* clients do meanwhile adds none: each step of it, and each change that anything
\* makes to it once it has begun, brings it nearer to its end.
CheckShortens ==
  [][/\ CheckStep => Left' < Left
     /\ night.at # "idle" /\ night' # night => Left' < Left]_vars

THEOREM CheckAlwaysShortens ==
  ASSUME FiniteAssumption
  PROVE  Spec => [](Left \in Nat) /\ CheckShortens
<1>1. TypeInv => Left \in Nat
  BY LeftTyped DEF Left
<1>2. ASSUME TypeInv, [Next]_vars
      PROVE  /\ CheckStep => Left' < Left
             /\ night.at # "idle" /\ night' # night => Left' < Left
  <2>1. CheckStep => Left' < Left
    BY <1>2, RefreshShortens, NextEntryShortens DEF CheckStep
  <2>2. ~ (Midnight /\ night.at # "idle")
    BY DEF Midnight
  <2>3. Crash /\ night.at # "idle" => Left' < Left
    BY <1>2, CrashShortens
  <2> QED
    BY <1>2, <2>1, <2>2, <2>3, OthersLeaveCheck
<1>3. TypeInv /\ [Next]_vars
        => [/\ CheckStep => Left' < Left
            /\ night.at # "idle" /\ night' # night => Left' < Left]_vars
  BY <1>2
<1> QED
  BY <1>1, <1>3, NightTyped, PTL DEF Spec, CheckShortens
=============================================================================
