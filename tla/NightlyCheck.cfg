CONSTANTS
  \* NightlyCheck
  OtherToken = OtherToken
  NoToken = NoToken
  NoName = NoName
  NoRobot = NoRobot
  MaxFaults = 1
  Others = {r1, r2}
  \* SharedProcesses
  Users = {u, v}
  NoUser = NoUser
  Contents = {c}
  NoContent = NoContent
  VersionIds = {1, 2, 3, 4, 5, 6}
  MaxVersion = 4
  Legacy = {}
  Requests = {r1}
  Calls <- TeamCalls
  Fails = {}
SPECIFICATION PartsSpec
INVARIANTS RobotsCodeStored TeamReadable Commentable
PROPERTIES NightCheckEnds BrokenIsReported
CHECK_DEADLOCK FALSE
