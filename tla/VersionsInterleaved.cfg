CONSTANTS
  Users = {u1}
  NoUser = NoUser
  Contents = {c1}
  NoContent = NoContent
  VersionIds = {1, 2, 3, 4}
  MaxVersion = 3
  Legacy = {}
  Requests = {r1, r2}
  Calls <- KeepingCalls
  Fails = {"error", "crash"}
SPECIFICATION Spec
SYMMETRY Sym
INVARIANTS TypeOK VersionsComplete
PROPERTIES NumberNeverFalls IsVersionHistory
CHECK_DEADLOCK FALSE
