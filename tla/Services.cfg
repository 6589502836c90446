CONSTANTS
  \* NightlyCheck
  Google = {"g"}
  Moodle = {}
  Other = {}
  Shared = {}
  Keys = {1}
  Tokens = {}
  OtherToken = OtherToken
  NoToken = NoToken
  NoName = NoName
  Robots = {1, 2}
  NoRobot = NoRobot
  MaxVersion = 3
  Requests = {One}
  Calls <- PersonalCalls
  MaxFaults = 1
  \* SharedProcesses
  NoUser = NoUser
  NoContent = NoContent
  \* ActivityPackages
  Libraries = {a, b}
  Plain = {p}
  NoLibrary = NoLibrary
  Hand = Hand
  TemplateIds = {1, 2, 3}
  KeyedRoles = TRUE
  Jobs = {One}
  MaxFailures = 1
  \* DocumentTemplates
  TemplateKeys = {1, 2}
  NoKey = NoKey
  Tasks = {One}
  MaxBroken = 1
  \* RobotReports
  RobotUsers = {u, v}
  Programs = {q}
  Uuids = {1, 2}
  MaxTime = 1
  NoRun = NoRun
  NoNumber = NoNumber
  \* PythonParser
  MaxLines = 5
  \* Accounts
  Emails = {x, y}
  NoEmail = NoEmail
  UserIds = {1, 2}
  Formats = {".png", ".jpg"}
  Visits = {r1, r2}
  MaxLost = 1
SPECIFICATION ServicesSpec
SYMMETRY Alike
CHECK_DEADLOCK FALSE
INVARIANTS
  ServicesTypeOK RunsOwnCode OwnCredentials PublishedHasRobot
  WorkspaceDocsHaveRow TemplatesMatch KeywordsAsPython ClassesAsPython DetailsHaveRow
  RunsAddUp OneUserPerAddress PhotosStored
PROPERTIES OverlappingHandMadeStay
