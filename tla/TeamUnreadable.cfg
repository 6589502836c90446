CONSTANTS
  Users = {u}
  NoUser = NoUser
  Contents = {c}
  NoContent = NoContent
  VersionIds = {1, 2, 3, 4}
  MaxVersion = 3
  Legacy = {}
  Requests = {r1}
  Calls = {"createTeamProcess", "updateTeamProcess", "noXml"}
  Fails = {}
SPECIFICATION SharedSpec
INVARIANT TeamReadable
CHECK_DEADLOCK FALSE
