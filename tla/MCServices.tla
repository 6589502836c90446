------------------------------ MODULE MCServices ------------------------------
(***************************************************************************)
(* Small instances of the services that share no table with one another.   *)
(* Each behaviour is of one of them, so that their state spaces add up     *)
(* rather than multiply.                                                   *)
(***************************************************************************)
EXTENDS NightlyCheck, Accounts, ActivityPackages, DocumentTemplates, RobotReports,
        PythonParser, TLC

CONSTANTS NoUser, NoContent

VARIABLES part, \* the service that the behaviour is of
          \* SharedProcesses, for a workspace
          copy, version, doc, legacy, call, comments,
          \* ActivityPackages, for requests that overlap
          opkg, otemplate, onamed, obarred, ojob, ofailures

\* Robots of the user, by day: NightlyCheck.cfg is for the others.
PersonalCalls == {"createConnection", "removeConnection", "toggleRobotActivation",
                  "personal", "deleteRobot", "editProcess", "replaceProcess",
                  "deleteProcessVersion"}

WorkspaceCalls == {"createWorkspaceProcess", "repeatTeamProcess", "shareInWorkspace",
                   "deleteWorkspaceProcess", "addComment"}

Workspace == INSTANCE SharedProcesses
  WITH Users <- RobotUsers, Contents <- {"c"}, VersionIds <- 1..2, MaxVersion <- 2,
       Legacy <- {}, Calls <- WorkspaceCalls, Fails <- {"error", "crash"}, req <- call

Overlapping == INSTANCE ActivityPackages
  WITH Libraries <- {"a"}, Plain <- {}, TemplateIds <- {1, 2}, Jobs <- Visits,
       pkg <- opkg, template <- otemplate, named <- onamed, barred <- obarred,
       job <- ojob, failures <- ofailures

workspaceTables == <<copy, version, doc, legacy, call, comments>>
overlappingTables == <<opkg, otemplate, onamed, obarred, ojob, ofailures>>

Parts == {"robots", "workspace", "packages", "overlappingPackages", "documents",
          "reports", "parser", "accounts"}

ServicesInit ==
  /\ part \in Parts
  /\ Init
  /\ Workspace!SharedInit
  /\ PackageInit
  /\ Overlapping!PackageInit
  /\ TemplateInit
  /\ ReportInit
  /\ part # "reports" => fleet = {}
  /\ ParserInit
  /\ AccountInit

ServicesNext ==
  \/ /\ part = "robots" /\ DayNext
     /\ UNCHANGED <<part, workspaceTables, packageVars, overlappingTables, templateVars,
                    reportVars, text, accountVars>>
  \/ /\ part = "workspace" /\ Workspace!SharedNext
     /\ UNCHANGED <<part, vars, packageVars, overlappingTables, templateVars,
                    reportVars, text, accountVars>>
  \/ /\ part = "packages" /\ PackageNext
     /\ UNCHANGED <<part, vars, workspaceTables, overlappingTables, templateVars,
                    reportVars, text, accountVars>>
  \/ /\ part = "overlappingPackages" /\ Overlapping!PackageNext
     /\ UNCHANGED <<part, vars, workspaceTables, packageVars, templateVars, reportVars,
                    text, accountVars>>
  \/ /\ part = "documents" /\ TemplateNext
     /\ UNCHANGED <<part, vars, workspaceTables, packageVars, overlappingTables,
                    reportVars, text, accountVars>>
  \/ /\ part = "reports" /\ ReportNext
     /\ UNCHANGED <<part, vars, workspaceTables, packageVars, overlappingTables,
                    templateVars, text, accountVars>>
  \/ /\ part = "parser" /\ ParserNext
     /\ UNCHANGED <<part, vars, workspaceTables, packageVars, overlappingTables,
                    templateVars, reportVars, accountVars>>
  \/ /\ part = "accounts" /\ AccountNext
     /\ UNCHANGED <<part, vars, workspaceTables, packageVars, overlappingTables,
                    templateVars, reportVars, text>>

servicesVars == <<part, vars, workspaceTables, packageVars, overlappingTables,
                  templateVars, reportVars, text, accountVars>>

ServicesSpec == ServicesInit /\ [][ServicesNext]_servicesVars

Alike == Permutations(RobotUsers) \union Permutations(Visits)

-----------------------------------------------------------------------------

\* Every table and every request of every service holds values of its type.
ServicesTypeOK ==
  /\ part \in Parts
  /\ TypeOK
  /\ Workspace!SharedTypeOK
  /\ PackageTypeOK
  /\ Overlapping!PackageTypeOK
  /\ TemplateTypeOK
  /\ ReportTypeOK
  /\ ParserTypeOK
  /\ AccountTypeOK

\* Workspace processes: documents never outlive the row by which they would be
\* deleted, wherever requests fail and the server stops.
WorkspaceDocsHaveRow == Workspace!DocsHaveRow

\* Activity packages: no step of any of several requests harms a template made by
\* hand or one that a role names, in a database with the key of role_activity_template.
OverlappingHandMadeStay == Overlapping!HandMadeStay
=============================================================================
