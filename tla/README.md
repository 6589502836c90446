# Verification of the EduRPA backend

This directory is a TLA+ development kept beside the NestJS backend of EduRPA
(`src/`). It says, for the parts of the backend where several requests work on
the same rows, what the handlers do between two awaits, what must hold of the
tables whatever the interleaving, what does not hold and why, and it proves the
safety properties of each component, and two refinements, for every size of the
system.

## 1. The system

The backend is one Node.js process (a NestJS application) over a MySQL database
(TypeORM), a MongoDB database (Mongoose), object storage and a few external
services. Every service method is an `async` function: between two awaits of
one request any other request may run. Only `deleteWorkspace` and `deleteTeam`
open a transaction. There are no locks, no `SELECT ... FOR UPDATE` and no
version columns. That, and the fact that many operations are several saves in a
row, is what makes the system hard to test.

| Component | State | Operations | Hard behaviour | What makes it correct |
|---|---|---|---|---|
| Workspaces and members (`workspace.service.ts`) | `workspace`, `workspace_member`, `workspace_invitation` | create, delete, leave, change role, remove, invite, answer | count-then-act on the owners; `save` of a row loaded earlier; deletion against requests in flight | only invited users get in; a workspace keeps an owner; nothing outlives it |
| Teams, roles, team members (`workspace.service.ts`) | `team`, `role`, `team_member`, `team_invitation` | create and delete teams and roles, rename roles, invite, answer, change role, remove | four saves per team; roles looked up by name; status saved before the check | team members are workspace members; roles and members agree; nothing outlives a team |
| Processes and versions (`processes.service.ts`) | `process`, `process_version`, MongoDB `processes`, `comments` | create, save, version, restore, share, delete, comment | two databases without a transaction; version number read and written by several requests | one current version; the version number and the documents agree; no save is lost |
| Workspace and team processes | the same tables | the same behind other permissions | as above | as above |
| Comments (`processes.service.ts`) | `comments` | add, list | the current version is looked up in one await and named in the next | a comment has a version to belong to |
| Robots (`robot.service.ts`, team and workspace robots) | `robot`, `robot_connection`, `process.status`, S3 | publish, delete | publication is up to seven steps over three stores; a robot is found again by its version | a robot runs its own code with its own credentials, as long as its process is there; a Published process has a robot |
| Connections (`connection.service.ts`, `workspace-connections.service.ts`) | `connection`, `workspace_connection`, `robot_connection` | create, reconnect, refresh, remove, activate | check-then-save; refresh saves a row loaded before a remote call; removal revokes before it deletes | no robot depends unknowingly on a dead connection |
| Nightly check (`task-schedule.service.ts`), notifications | `notification` | refresh all, report, mark as read | a loop that must go on though its steps fail and its list grows old | it ends; what is broken is reported |
| Team permissions (`team-permission.service.ts`) | none of its own | validation of processes and robots | reads that must agree with what other services write | a robot runs only what its team may use |
| Activity packages (`activity-packages.service.ts`, `python-parser.service.ts`) | `activity_package`, `activity_template`, `argument`, `return_value` | upload, parse, generate, flags, templates by hand | row saved before its templates; `save` of a row loaded with its children | templates and library agree; nothing made by hand is lost; the parser finds what Python finds |
| Document templates (`document-template.service.ts`) | a row, a document, files | create, update, save, delete | three stores without a transaction | no document without the row that leads to it |
| Robot reports (`robot-report.service.ts`) | `robot_run_log`, `robot_run_overall`, written by robots' machines | three dashboards | sums over no rows; runs of robots that are shared | each run is counted once |
| Users and registration (`users.service.ts`, `auth.service.ts`) | `user`, photos in S3 | register, sign in with Google, update the profile, upload a photo | find-then-create; `save` of a row loaded earlier; the photo is stored first | an address leads to one user; a photo shown was stored |
| Logs, e-mail, storage, Google, admin dashboard, shell | single rows, or none | - | - | - |

Interaction: controllers call services; `robot` and the team and workspace
variants call `processes` (a robot is published from a new version) and
`connection`; `workspace` and `processes` call `notification`, whose failures
are logged; the nightly check calls `connection`. The services share the MySQL
tables and nothing else.

## 2. Plan

| # | Modules | What they model | Runs | Theorems |
|---|---|---|---|---|
| 1 | `MembershipTables`, `WorkspaceMembers`, `TeamMembers`, `Membership`, `OwnedGroup`, `MCMembership` | workspaces, teams, members, roles, invitations (done) | 4 pass, 3 violation | `MembershipProofs`: types; `MembershipSafety`: `OnlyInsiders`, `NoOrphans`, `RolesMatchTeams`; `MembershipRefines`: `OwnerNeverLost` under exclusion and the refinement of `OwnedGroup`; `TeamProofs`: `DefaultRolesStay`, and `OnePendingTeamInvite`, `AnsweredOnce`, `OutsidersHaveLeft`, `TeamOwnerKept` one request at a time (done) |
| 2 | `ProcessVersions`, `VersionHistory`, `MCVersions` | copies of a process, version rows, documents, sharing (done) | interleaved, serial | `ProcessVersionsProofs`: types; `VersionsComplete` and `NumberNeverFalls` when nothing is deleted; `OneCurrent`, `HistoryFrozen`, `CurrentIsEdited` one request at a time; the refinement of `VersionHistory` when nothing is deleted (done) |
| 3 | `SharedProcesses` | processes of teams and workspaces, comments (done) | in `services` (workspace) and `nightly_check` (team); `team_unreadable` | `SharedProcessesProofs`: types; `DocsHaveRow`; `TeamReadable` and `Commentable` (done) |
| 4 | `Connections`, `Robots`, `NightlyCheck`, `MCNightlyCheck` | connections, robots, the nightly check and its reports, composed (done) | `nightly_check` with liveness; in `services` (personal robots) | `NightlyCheckProofs`: types; the part of a check's end that needs no fairness; `CodeStored`; `RunsOwnCode`, `OwnCredentials`, `PublishedHasRobot` one request at a time (done) |
| 5 | `ActivityPackages`, `PythonParser`, `DocumentTemplates`, `RobotReports`, `Accounts`, `MCServices` | services that share no table with the others (done) | in `services` | `ServicesProofs`: packages, the parser, document templates, dashboards, users (done) |

Abstract specifications: `OwnedGroup` for membership, `VersionHistory` for the
versions of a process while none is deleted. What deletions promise of a history is
stated by `HistoryFrozen` and `OneCurrent` alone. Liveness under fairness and
`ENABLED` stay with TLC.

## 3. Membership: how state and actions correspond to the code

`MembershipTables` holds the tables as functions keyed the way the code looks
rows up (`member[user]`, `teamMember[team][user]`: both pairs carry a unique
index), the requests in flight (`req`) and the lookups (`Has` is
`checkWorkspaceMembership`, `Owners` the owner check, and so on).

`WorkspaceMembers` and `TeamMembers` are the handlers. A handler is its arrival
action (`LeaveWorkspace`), taken by a free request, and one action for each
stretch of code between two awaits (`LeaveCount`, `LeaveRemove`), named for what
the awaited query does and guarded by the request's control point. A failed
check throws: the request goes back to `idle` (`Check`). The first read-only
checks of a handler that follow one another are taken together with its
arrival; every later read is a step of its own, and so is every write.

`Membership` composes the two: any request may take any step (`Next`), any
request may fail at any await, with what it wrote so far left in place (`Fail`:
a failed query or a killed process).

Choices a reader should know:

* One workspace is followed: no handler touches two.
* TypeORM's `save` of a loaded entity is an update when the row with its key is
  still there and an insert otherwise, which is how a removed row comes back;
  `remove` and `delete` by key do nothing when the row is gone.
* A key drawn by `uuid()` is the least number no row and no request mentions.
* The role name "Member" stands for every name but "Owner", the one the code
  compares with. E-mail addresses are users.
* `Keyed` says whether the database has the foreign keys the entities declare.
  `migrations/1764775251687-InitWorkspace.ts` creates `workspace_member`, `team`,
  `role`, `team_member` and `team_invitation` without them, and adds them only
  if the table was there before it ran. A database that TypeORM once
  synchronised has them; one built by the migrations alone has not. The passing
  runs assume them; `unkeyed_orphans` shows what happens without.
* Left out: `updateWorkspace` and `updateTeam` (names; the package access rows
  of a team), the permissions and activity templates of a role, notifications
  (their failure is swallowed), and the keys from `process` and `robot` rows to
  a team or workspace (a deletion they refuse is a `Fail`).

`OwnedGroup` is the abstract specification: a group that, once it has an owner,
keeps one until it dissolves, and whose places are taken only by invitation.
`Membership!IsOwnedGroup` is the refinement mapping.

Definitions commented `Fault:` are seeded faults, one for each property: the
definition that follows, changed the way a plausible bug would. Nothing uses
them; replacing the original by the fault must break the property.

## 4. Processes and versions: how state and actions correspond to the code

`ProcessVersions` follows one process, of which several users may hold copies
(`process` has the key of process and user). `copy` is that table, `version` the
rows of `process_version`, `doc` the MongoDB documents with the key
`user.process.number`, `legacy` those with the key `user.process` from before
there were versions. `createProcessVersion` is what six other operations call: it
is modelled once, as the seven steps `VersionRead` to `VersionDrop`, and the
request remembers its `caller`, because callers treat its failure differently
(`Raise`): a creation undoes itself by deleting the copy, and a copy made by
sharing, whose promise nobody awaits, takes the Node.js process down (`GiveUp`).

Choices a reader should know:

* `process_version.processUserId`, the second half of the foreign key to a copy,
  is never written, so no deletion of a copy cascades to versions.
* The reads at the start of restoring and of deleting a version are one step with
  its arrival; both look for the document by its version id alone.
* Two concurrent insertions of one copy: the second is refused by MySQL and its
  request ends having changed nothing, so `SaveCopy` is one step.
* The content of a version (xml, variables, activities) is a model value.
* Left out: `updateProcess` (a name), timestamps, tags, notifications, and the
  nesting of processes (`parentId`). Comments, and the processes of teams and
  workspaces, are in `SharedProcesses`.

`VersionHistory` is the abstract specification: each user has one history, which
grows at its end and loses nothing; a version is shown only when the history is
complete up to it, and edited only once it was shown. `ProcessVersions!History` is the
refinement mapping: the history of a user is the contents of the user's documents by
number, and the version shown is the number of the copy, 0 for no copy. One step of
`createProcessVersion` is `Add` (the insertion of the document), a later one `Show`
(the number written to the copy), `saveProcess` is `Edit`, and a creation that undoes
itself is `Hide`; every other step stutters.

What holds depends on what may happen. The key of its document is the only lock a
version has: it makes the blind write of a number read long before harmless, as
long as no document is deleted. A version marked as current, one at most, is
promised only to requests served one by one. Section 9 says which hypothesis each
of these needs, and why.

## 5. Processes of teams and workspaces, and comments

`SharedProcesses` extends `ProcessVersions` with what `team-processes.service.ts`,
`workspace-processes.service.ts` and `addCommentToElement` do to the same tables.
`createProcessVersion` is the same seven steps with another `caller`;
`saveProcess` of a workspace is the one of `ProcessVersions`.

* A team looks its process up without its owner. `UpdateTeamProcess` therefore has
  a user who updates and one who has the copy: the row, the number and the mark
  belong to the copy, the document to whoever made the version.
* `updateProcess` saves the row it read, with the number (`RenameSave`), then the
  number plus one (`NumberSave`), clears the marks, inserts a version and inserts a
  document, and undoes nothing.
* `deleteProcess` of a team removes the row and the documents and leaves the
  versions; that of a workspace removes documents, versions and rows, in this
  order.
* `shareProcess` of a workspace goes through a list of members; whatever fails for
  one of them leaves that one out (`MemberFails`).
* `Cascade` is what the foreign keys do to comments with every step.

## 6. Connections, robots and the nightly check

`Connections` holds the accounts of one user and one workspace at other providers,
`Robots` extends it with the creation and deletion of robots, and `NightlyCheck`
extends both with `checkRobotConnection` and the notifications it makes. The three
are one state machine, since they share `connection`, `robot` and
`robot_connection`. A request is a record of locals with a control point, as in
section 3; the check is a process of its own (`night`).

* `token` is what Google makes of each refresh token: a connection *works* as long
  as its token is valid. `Answers` is what a refresh may bring back.
* `Write` is `save` and `remove` of a connection under the foreign key of
  `robot_connection`, which refuses to change or delete the key of a row that a
  robot uses.
* `createRobot` is seven steps: a new version, the number read back, the process
  marked Published, the code stored under the version, the row saved, the robot
  found again by its version, its links saved. Robots of teams and workspaces take
  a part of them (`kind`).
* `deleteProcess` removes the row of a process and the document of its current
  version, and no robot; a process made again under the same id (`CreateProcess`)
  numbers its versions from 1, where a document left over does not refuse it. A
  second robot of a number used before then stores its code in the place of the
  older robot's, and looking either up by version may return the other, with requests
  served one by one. No text of the repository promises otherwise. `outlived` are the
  robots this may happen to: those that lived when their process was deleted.
  `RunsOwnCode` excepts them, and `OwnCredentials` the versions they are of;
  `PublishedHasRobot` holds in spite of it.
* `ReplaceProcess` is the same for the process of a workspace or a team, of which no
  such property is stated.
* The list of the check is read at midnight and grows old (`todo`); an entry
  carries the name its connection had then. A report is not awaited (`pending`).
* `Withdraw` is the user who takes the permission back at Google. `Fail` and
  `NightFail` are a query or an external call that fails, `Crash` the end of the
  Node.js process, after which nothing is in flight.

## 7. Services that stand alone

* `ActivityPackages`: one package, its library and templates. `getPackage` does not
  load every column, and `save` writes back those it did: a row has a half that a
  stale `save` overwrites (`shown`) and a half that it leaves alone (`kept`).
  `Saves` is refused when a template of the package was not loaded with it, since
  that template would lose its package. `named` are the templates that a role may
  use, which the foreign key of `role_activity_template` does not let go; `barred`
  remembers that they stopped a generation, whose failure is only logged.
  `KeyedRoles` says whether the database has this key. As in section 3, one that
  TypeORM once synchronised has it, one built by the migrations alone has not
  (`1764775251687-InitWorkspace.ts:271`): there a generation deletes templates that
  roles name, and the roles go on naming them. The runs assume the key; the theorems
  are about both, and say what of them needs it.
* `PythonParser`: a file is a sequence of kinds of lines. `Keywords` and `Classes`
  are what `extractKeywords` and `extractClasses` find; `PythonKeywords` and
  `PythonClasses` are what Python makes of the same lines. A line may have nothing
  but three double quotes (`quote`), or text after them (`ahead`), before them
  (`behind`) or between two of them (`oneline`). The parser opens a docstring of
  several lines at the first two and closes it at a `quote` or `behind`, and drops
  the text beside the quotes: of a docstring that begins `"""Summary` it loses the
  summary. The properties say so (`BetweenQuotes`): what it finds is Python's
  docstring without the lines that have its quotes. Files with other quotes, of
  which the parser knows nothing, are left out.
* `DocumentTemplates`: the row, the document and the files of a template.
* `RobotReports`: the runs that the robots' machines write, and how the three
  dashboards count them. What they show of the robots' states is left out: those
  three queries name a column `created_at` that the repository's schema does not
  have (see section 11), so that the database refuses them. That a run has a key and
  both its counts is what the entity says; `log-monitor.sql` would let them be
  missing.
* `Accounts`: the rows of `user` by key (`email`, `photo`), the files in S3
  (`stored`) and the requests in flight (`visit`). `Register` is what
  `registerUser` and `findOrCreateGoogleUser` do when they find nobody, and
  `Create` the insertion that the unique column may refuse (`Duplicate`). TypeORM's
  `save` writes every column that differs from the row, so that a profile update
  puts back the photo it found.

Two modules put small instances side by side, so that one run checks several.
`MCServices` has the services of this section, the personal robots of a user (a
`NightlyCheck` by day: `DayNext`) and the processes of a workspace; `MCNightlyCheck`
has the check itself, the robots of a workspace, robots that are made and deleted by
requests that overlap, and the process of a team. The instances share no table, and
a behaviour is of one of them (`part`), so that their state spaces add up and do not
multiply.

## 8. Runs

| Run | Instance | Shows |
|---|---|---|
| `members_interleaved` | 3 users, 2 requests, 1 invitation, from an empty database | `TypeOK`; `OnlyInsiders`: nobody is in the workspace who was neither founder nor invited; `NoOrphans`: nothing refers to a deleted workspace |
| `members_exclusive` | 2 users, 2 requests, 2 invitations; handlers that take an owner away exclude one another | `OwnerNeverLost`, and the refinement of `OwnedGroup` |
| `teams_interleaved` | 2 users, 2 requests, 1 team, 3 roles; team and role creation and deletion, invitations, answers | `NoOrphans`, `RolesMatchTeams`, `DefaultRolesStay` |
| `teams_serial` | 3 users, 1 request at a time, every team operation, departures and removals | `OnePendingTeamInvite`, `OutsidersHaveLeft`, `TeamOwnerKept`, `AnsweredOnce` |
| `versions_interleaved` | 1 user, 1 content, 2 requests, 3 versions, errors and crashes at every await; nothing deletes | `TypeOK`; `NumberNeverFalls`: no request writes back an older number; `VersionsComplete`: each version a copy counts has row and document; `IsVersionHistory`: the refinement of `VersionHistory` |
| `versions_serial` | 2 users, one with a copy from before versions, 2 contents, 2 versions a copy, 1 request at a time, every operation | `OneCurrent`; `CurrentIsEdited`: the current version is the one its author edits; `HistoryFrozen`: a document behind the copy's number is not written any more |
| `nightly_check`, the check | 1 connection at Google and 1 elsewhere, made before, 1 robot, 2 keys, 2 tokens, 1 request, 1 failure or crash | liveness: `NightCheckEnds`: a check that has begun ends, whatever clients do; `BrokenIsReported`: a connection that a robot uses and whose permission is gone is reported, repaired or given up |
| `nightly_check`, robots | 2 robots of the workspace and 2 versions, 1 request at a time, a shared connection; 2 robots and 2 versions, 2 requests that interleave; 1 failure | `RobotsCodeStored`: a robot's code was stored before its row, also when creations overlap |
| `nightly_check`, team | 2 users, 6 versions up to number 4, 1 request at a time, no failures | `TeamReadable`: the process names a document that exists; `Commentable`: there is a version for the next comment |
| `services`, robots | 2 robots of the user, 3 versions of the process, which is edited, loses versions, is deleted and made again; 1 request at a time, 1 failure | `RunsOwnCode`: one by one, a personal robot runs the code made for it until its process is deleted; `OwnCredentials`: looking a robot up by its version finds its own connections, unless one of that version is left from a deleted process; `PublishedHasRobot` |
| `services`, processes | a workspace, 2 users, 2 versions, 1 request at a time, errors and crashes at every await | `WorkspaceDocsHaveRow`: documents never outlive the process |
| `services`, packages | 2 requests that interleave on 1 library and 2 templates; 1 request at a time on 2 libraries, a file without keywords and 3 templates; 1 failure | `OverlappingHandMadeStay`: a template made by hand or used by a role goes only when somebody deletes just that, however requests overlap; one at a time, `TemplatesMatch`: generated templates are those of the library shown |
| `services`, parser | every file of up to 5 lines of 12 kinds | `KeywordsAsPython`, `ClassesAsPython`: in files written the way it expects, the parser finds what Python finds, but for the text beside the quotes of a docstring |
| `services`, others | 2 document templates, 1 request, 1 failure; 2 users, every set of their robots, 2 runs, 2 instants | `DetailsHaveRow`; `RunsAddUp`: a dashboard that shows numbers counts each run once |
| `services`, users | 2 addresses, 2 users, 2 kinds of photo, 2 requests that interleave, 1 failure | `OneUserPerAddress`; `PhotosStored`: a photo that a row names has been stored, also when a stale row is saved |
| `services`, all | all of these | `ServicesTypeOK`: the type invariants of the parts |
| `owner_race` | 2 users, 2 requests, 1 invitation, no exclusion | a violation: two owners leave at once and none is left |
| `team_after_leaving` | one request at a time | a violation: who leaves the workspace stays in its teams |
| `team_unreadable` | 1 user, 1 request at a time, updates without a diagram | a violation: an update with the documented body leaves a process that cannot be opened |
| `unkeyed_orphans` | no foreign keys | a violation: an answer in flight across `deleteWorkspace` leaves a member of nothing |

Bounds are the sizes of the pools of keys (`RowIds` and the like, `VersionIds`,
`Keys`, `Tokens`, `Robots`, `TemplateIds`, `Uuids`) and `MaxVersion`,
`MaxFaults`, `MaxTime` and `MaxLines`; a creation without a free key, a version
beyond the bound or a failure too many does not happen. They are enough for the
cases the properties are about. In membership two requests race on every pair of
handlers, a third role exists besides a team's two, a user can be invited, join,
leave and be invited again (with two keys for invitations; the run with one has a
third user, who is never invited), and a deleted row can be saved again. In the
version runs a slow request can be two numbers behind (three versions), and one
user is enough when requests overlap: what couples the copies of two users, the
current mark and sharing, is the subject of the serial run. With one content an edit
changes nothing, so that an edit only ever reaches a version shown is left to
`VersionsRefineHistory`. In `nightly_check` a connection can lose its permission before,
during and after its refresh, be
removed while the list still names it and be put back by a save in flight (no
new connection is made in this instance), and the server can die with a report
unsaved; two robots whose creations overlap are enough for one to take the version,
the code or the row that the other is about to use. In `services` two robots can be of
two versions with an edit in between, or of the same one with a deletion of the
process in between; a creation can fail between any two of its stores and be tried
again; and five lines hold a keyword with its method and a docstring of three lines, or
a class with one. Users, requests and
contents are symmetric where a run is about safety only; the request of the parts
served one at a time (`One`) is a value of its own and no part of the symmetry.
`CHECK_DEADLOCK FALSE` is set because deleting the one workspace followed, or
using up the keys or versions, ends the story.

"One request at a time" is a restriction of the instance, and the property says so
where it needs it. Overlapping requests do break these properties, in the way the
hazards of `PROJECT.json` tell: the code has no lock against it, and no text of the
repository promises more.

Only `nightly_check` assumes fairness, and only of the check: of `Midnight` (the cron timer of
`task-schedule.service.ts:22` fires every night), of `CheckStep` (what the timer
started goes on as long as the server lives, and Google and the database answer or
fail) and of `Notify` (a report under way reaches the database, unless the server
dies). Clients, failures, crashes and withdrawals have none. The check of one night
is taken to be over by the next.

## 9. Proofs

The assumptions of every theorem are the `ASSUME`s of the modules it is about;
sets of users, requests and keys are arbitrary.

`MembershipProofs` proves `TypeCorrect` (`Spec => []TypeOK`), with or without
foreign keys. `TypeOK` is not inductive: that a saved row is well formed depends
on the request's locals, so `TypeInv` adds which locals are set at which control
point (`GoodAt`). One lemma for each kind of change to a request's record
(`FinishType`, `AdvanceType`, `LoadType`, ...) carries `req`; then one case per
action.

`MembershipSafety` proves `OnlyInsidersEver`, `NoOrphansEver` and
`RolesAlwaysMatch` for a database with its foreign keys (`Keyed /\ Spec => ...`;
without them they are false, see `unkeyed_orphans`). A request acts on what it
read before an await, so none of the three is inductive. `SafeInv` adds to them
what is left of each request's checks at each control point: an invitation read
before is gone or unchanged (`AnswerClaim`), a role found before is gone or still
in its team (`RoleClaim`), the user about to be admitted is an insider as long as
the workspace lives (`AdmitClaim`). `save` inserts a deleted role again under its
old key, so two requests that know the same role must agree on its team
(`Agree`). The proof has one lemma for each table a step writes (`MemberWrite`,
`TeamMemberWrite`, `RoleWrite`, `InviteWrite`, `TeamInviteWrite`,
`DeleteTeamsSafe`) and one for steps that write none (`QuietStep`).

`MembershipRefines` proves `OwnerNeverLostExclusively` and `ExclusiveRefines`
for the specification in which the handlers that can take an owner away do not
overlap (`ExclusiveSpec`; without the exclusion they are false, see
`owner_race`). `GroupInv` adds to `SafeInv` that the owner count of a request
still justifies its write (`DepartureClaim`, `RoleChangeClaim`), that a role
about to be taken up was offered (`OfferClaim`), and that whoever deletes or
invites did so in a group with an owner (`OwnerClaim`). Each handler step has
one of seven effects on the people of the workspace (`Effect`); three lemmas show
of the effects alone that they keep an owner, keep the claims of the other
requests, and are steps of `OwnedGroup`.

`TeamProofs` goes on from `MembershipSafety` with the teams.

* `DefaultRolesAlwaysStay` holds however requests interleave, with or without foreign
  keys. `updateRole` and `deleteRole` find out whether a role is a default one and
  write much later; meanwhile the role may be deleted, and a `save` of another request
  may insert it again. `KindInv` says that what a request found of its role's kind is
  still true, and that two requests that know the same role found the same kind: so
  whoever inserts it again inserts the kind it had.
* `OneTeamInvitePending`, `AnsweredOnlyOnce`, `OnlyLeaversStay` and `TeamOwnersKept`
  are about requests served one by one (`Requests = {one}`), wherever they fail, in a
  database with its foreign keys. `SerialInv` adds to `SafeInv` what the request has
  read of the team and acts upon later: that the team it founds has no invitations yet
  (`FoundClaim`), that the user it invites is neither inside nor asked
  (`WaitClaim`), that whoever it demotes or removes is not the only owner
  (`StaffClaim`), and how many teams are done when somebody is removed from the
  workspace (`OutClaim`). It does not follow from `SafeInv`, which only says what is
  left of such a check when others have passed.

`ProcessVersionsProofs` proves types for all operations (`VersionsTyped`), and:

* `VersionsAlwaysComplete`, `NumbersOnlyGrow` and `NumbersNeverFall` for any number of
  overlapping requests and failures, if no client calls `deleteProcess` or
  `deleteProcessVersion` (`KeepingAssumption`; with either one a document can go while
  a request still counts on its key). `KeptInv` is the reason: the key of a version
  being made is held by one request only, and the versions up to the number that a
  request has read are complete and out of reach of the requests that drop rows. A
  request that would write back an older number needs the document under its own
  number plus one to be its own, but had another passed it, that document would be
  the other's. `NumbersNeverFall` needs `Legacy = {}` as well: a failed creation drops
  a copy made before there were versions, the next one starts from zero, and an older
  request may still write its number in between.
* `VersionsRefineHistory`, that the versions implement `VersionHistory`, under the
  same two hypotheses (a deletion leaves a hole in a history, and a copy from before
  there were versions counts one that has no document). It needs to know why a request
  that is through with its document may still write its number: `TopInv` says that
  the history has no hole, and that once the document of a version is written, at most
  it lies beyond the number its request has read (`Top`), no other request has read a
  later one, and the copy shows that number or is gone. Two requests that both got
  this far would hold the same key. Every step is then one of the abstract
  specification or a stutter (`Refines`).
* `VersionsOneCurrent` and `VersionsHistoryFrozen` for requests served one by one,
  wherever they fail or the server dies. `SerialInv` says that from the clearing of
  the marks to the insertion of the row no version is current, and that the row saved
  again is the one that was; and that `saveProcess` writes under the number its copy
  still has.
* `VersionsCurrentIsEdited` for requests served one by one and none failing (a failed
  one leaves the mark on a version that its author does not edit). `EditInv` says how
  far the mark may be from the number at each control point.

`SharedProcessesProofs` goes on from it with teams and workspaces. `SharedTyped` needs
no hypothesis. `WorkspaceDocsAlwaysHaveRow` is about a workspace served one request at
a time, through failures and crashes: a document is written only next to a row, and
rows go after the documents. `TeamAlwaysReads` and `TeamAlwaysComments` are about a
team without failures, one request at a time, whose process was made when there were
versions: an update raises the number, clears the marks, inserts a row and a document,
and undoes nothing, so a failure in between does break both. `TeamInv` follows a
creation (`CreatingInv`) and an update (`UpdatingInv`) through these steps, and says
that no document lies beyond the number, since it would be taken for the next one.

`NightlyCheckProofs` proves `NightTyped` for the check, its clients, failures and
deaths of the server in every interleaving, and `CodeAlwaysStored` likewise: a request
about to save the row of a robot has stored its code under the number in the row, and
code is never removed (`CodeInv`). For requests served one by one, next to the nightly
check and through failures, it proves `RobotsRunOwnCode`, `RobotsOwnCredentials` and
`PublishedAlwaysHasRobot` (the last says itself that nothing failed yet), also when the
process loses versions, is deleted and is made again. `RunsInv` says that no robot of
the process that is there now is of a version beyond its number, and that the number a
creation reads back is newer than the version of each of them; of robots that outlived
a deletion (`outlived`) it says nothing. `LinksInv` says that any other robot has links
only to what it was made with, and that those a request is about to save for it are of
this kind. `PublishedInv` says which robot the mark of a process stands for, while one
is made or deleted, and that a process that is gone is not marked.

`CheckAlwaysShortens` is the part of `NightCheckEnds` that needs no fairness, for any
finite numbers of robots, keys and connections: `Left`, four times the links on the
list plus the stage of the refresh under way, is a natural number that every step of
the check lowers, and that nothing else changes once the check has begun, but for a
crash, which ends it. So no client can keep a check from ending by making connections,
repairing them or taking them away; what remains for TLC is that a next step of the
check is always possible, and fairness that it is taken.

`ServicesProofs` is about the services that stand alone.

* `PackagesTyped` and `HandMadeAlwaysStay` hold for any number of requests that
  overlap and fail. A request saves a template it read before an await, so
  `PackageInv` says what a request holds at its control point: one that saves a
  template has read just that one, and one that generates has a library. Both hold with
  the key of `role_activity_template` and without, where they promise less.
* `TemplatesAlwaysMatch` is about requests served one by one. The templates are those
  of the library shown except between the save of a package and the generation that
  belongs to it (`MatchInv`), as long as none failed and no role barred a generation.
* `ParserFindsKeywords` and `ParserFindsClasses` are about files of any length written
  the way the parser expects. `First` returns the least line of its kinds
  (`FirstFound`, by well-founded induction). A keyword's definition is the first `def`
  after its decorator (`DecoratedFirst`); whether a line is inside a docstring is a
  parity that changes at quotes only, so the docstring that the parser reads from its
  opening line ends where Python ends it (`DocstringFound`).
* `DetailsAlwaysHaveRow` is about requests served one by one, wherever they fail:
  whoever is about to insert a document must know that the row is still there, and
  whoever is about to remove the row that the document has gone (`WorkClaim`).
* `RunsAlwaysAddUp` splits the runs by how they ended, and the sets of a split are
  disjoint.
* `AccountsTyped`, `AccountsAlwaysUnique` and `PhotosAlwaysStored` hold for any number
  of requests that overlap and fail: a request about to save a photo knows that it is
  stored, whether it stored it or found it in the row (`SavedPhotos`).

"Served one by one" is the hypothesis `Requests = {one}` (`Jobs`, `Tasks`); the
requests themselves, their order, the users, keys and versions stay arbitrary, and so
do failures unless the theorem excludes them. Where a run states a property of an
instance under another name (`RobotsCodeStored`, `WorkspaceDocsHaveRow`,
`OverlappingHandMadeStay`), the theorem is about the property of the component
(`CodeStored`, `DocsHaveRow`, `HandMadeStay`).

The larger invariants were checked with TLC, on instances like those above, before
they were proved (`SafeInv`, `GroupInv`, `TeamInv`, `TopInv` and the `SerialInv` of
teams among them).

Model-checked only: the liveness of `nightly_check`, which is out of the prover's
reach but for `CheckAlwaysShortens`, and `ServicesTypeOK`, which puts together the type
invariants of all parts; each of these is proved of its component (`NightTyped`,
`SharedTyped`, `PackagesTyped`, `TemplatesTyped`, `ReportsTyped`, `ParserTyped`,
`AccountsTyped`), not of the instances side by side.

## 10. Not modelled

* Authentication, but for what makes users. Login, tokens and guards only read;
  one-time passwords have no creation any more (the calls are commented out), so
  what verifies them has nothing to find. The callbacks of providers are the
  `createConnection` of section 6.
* Logs, e-mail, storage, the Google wrappers, the admin dashboard, the gateways, the
  application shell: single rows, or no state.
* Team permissions: reads that let a call go on or not. The models let clients call
  what the user's role permits.
* Of modelled services: `updateWorkspace`, `updateTeam` (names, and the rows of a
  team's package access, which are deleted in one step and made in the next),
  `updateProcess` of a user and of a workspace (a name), `updateRobot` of a
  workspace (whatever fields the client names), `reparseLibrary` (always refused:
  `getPackage` does not load `libraryS3Key`), running, stopping and scheduling a
  robot (external calls), the states of robots on the dashboards (refused queries),
  the histograms of transactions and lists of details, and the parser's names,
  arguments and imports.
* Two calls of `getProcess` that migrate the same old document at once:
  `versions_interleaved` has no old documents, and `versions_serial`, which has
  one, serves one request at a time.

Some 11,000 lines of `src/migrations/constant/` are data (the activity packages that
a migration inserts), and most other lines outside the mapped ones are entities,
DTOs, module wiring and validation. That bounds the share of lines that a model can
stand for.

## 11. Disagreements in the code without a run

Noted while modelling. Each is a fact about one statement, which a run would only
restate.

* `robot-report.service.ts:39`, `:209` and `:396` order `robot_run_log` by
  `created_at`, and `:52`, `:220` and `:409` join by it; the entity,
  `log-monitor.sql:16`, the migrations and `dashboard-api-docs.md:47` call the column
  `created_date`.
* `getDashboardJobsHistory` ignores the date it is given for a constant one, and
  shows `NaN` to a user, or a workspace, without runs.
* `statusMap` is keyed by process and version: copies of one process that two users
  run share an entry.
* `validateRobotProcess` (`team-permission.service.ts:208`) looks for a document by
  the number where the key of the version's row is stored, and finds none.
* A team's robot cannot be linked to the workspace's connections it is offered: the
  foreign key of `robot_connection` is to `connection` alone (`Linkable`).
* A generation of templates is given up, and only logged, when a role uses one of
  the old ones (`barred`).
* A second creation of a team's process under the same id resets its number to 1
  (`CreateTeamProcess`).
* A robot that outlives its process loses its code to a robot of a process made again
  with the same id and number (`CodePut`), and their connections are mixed up
  (`Found`).
* Without the key of `role_activity_template`, a generation deletes templates that
  roles name.
* A docstring of several lines loses the text beside its quotes (`Docstring`).
* A one-line docstring is read on to the next line that ends in quotes, and code
  inside a docstring counts as code (`Docstring`, `LinesOf`).
