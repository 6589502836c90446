CONSTANTS
  Users = {u1, u2}
  NoUser = NoUser
  Contents = {c1, c2}
  NoContent = NoContent
  VersionIds = {1, 2, 3}
  MaxVersion = 2
  Legacy = {u1}
  Requests = {r1}
  Calls <- AllCalls
  Fails = {}
SPECIFICATION Spec
SYMMETRY ContentSym
INVARIANTS OneCurrent CurrentIsEdited
PROPERTIES HistoryFrozen
CHECK_DEADLOCK FALSE
