--------------------------- MODULE ActivityPackages ---------------------------
(***************************************************************************)
(* ActivityPackagesService: the packages of activities, the library that   *)
(* each is uploaded with, and the templates generated from it or made by   *)
(* hand, which the roles of teams may use.                                 *)
(*                                                                         *)
(* getPackage does not load every column, and save writes back those it    *)
(* did load: a row has a half that a stale save overwrites and a half that *)
(* it leaves alone.  The model follows one package.                        *)
(*                                                                         *)
(* role_activity_template has its foreign key in a database that TypeORM   *)
(* synchronised once, but not in one built by the migrations alone, which  *)
(* create the table without it.                                            *)
(***************************************************************************)
EXTENDS Naturals, FiniteSets

CONSTANTS Libraries,   \* Python libraries with keywords
          Plain,       \* files without any: not Python, or none to be found
          NoLibrary,   \* "no library"
          Hand,        \* in place of a library: the template was made by hand
          TemplateIds, \* primary keys of activity_template ever drawn
          KeyedRoles,  \* has role_activity_template its foreign key?
          Jobs,        \* requests the server may be serving at one time
          MaxFailures  \* bound on the failures in a run

Files == Libraries \union Plain

ASSUME TemplateAssumption == TemplateIds \subseteq Nat
ASSUME FailureAssumption == MaxFailures \in Nat
ASSUME KeyedRolesAssumption == KeyedRoles \in BOOLEAN
ASSUME LibraryAssumption ==
  /\ Libraries \cap Plain = {}
  /\ {NoLibrary, Hand} \cap Files = {}
  /\ NoLibrary # Hand

VARIABLES pkg,      \* the row of the package
          template, \* activity_template: what each is made from
          named,    \* the templates in role_activity_template: that some role may use
          barred,   \* history: a role kept the last generation from happening
          job,      \* the requests in flight
          failures  \* how many there were

tables == <<pkg, template, named, barred, failures>>
packageVars == <<tables, job>>

-----------------------------------------------------------------------------

NoPackage == [there |-> FALSE, active |-> FALSE, shown |-> NoLibrary, kept |-> NoLibrary]

\* `shown` is the library in the columns that getPackage loads, `kept` the one in
\* those that it does not (libraryS3Key, libraryChecksum, parsedKeywords...).
Package == [there: BOOLEAN, active: BOOLEAN,
            shown: Files \union {NoLibrary}, kept: Files \union {NoLibrary}]

Templates == {t \in TemplateIds : template[t] # NoLibrary}
Generated == {t \in Templates : template[t] # Hand}

Points == {"idle", "store", "uploadSave", "generate", "flagSave", "templateSave"}

\* A request holds the package as it was loaded, with its templates, and the file
\* uploaded; or the one template it saves, and what that is made from.
Job == [at: Points, row: Package, seen: SUBSET TemplateIds,
        file: Files \union {NoLibrary, Hand}]

Rest == [at |-> "idle", row |-> NoPackage, seen |-> {}, file |-> NoLibrary]

Move(r, q) == job' = [job EXCEPT ![r] = q]
Start(r, q) == job[r].at = "idle" /\ Move(r, q)
To(r, l) == Move(r, [job[r] EXCEPT !.at = l])
End(r) == Move(r, Rest)

\* The least key that no row and no request has.
FreshTemplate ==
  LET free == {t \in TemplateIds \ named : /\ template[t] = NoLibrary
                                           /\ \A r \in Jobs : t \notin job[r].seen}
  IN  {t \in free : \A s \in free : t <= s}

\* What getPackage loads.
Loaded(l) == [Rest EXCEPT !.at = l, !.row = [pkg EXCEPT !.kept = NoLibrary],
                          !.seen = Templates]

\* save of a package: templates of the package that were not loaded with it would
\* lose their package, which the database refuses.
Saves(r, row) ==
  IF Templates \subseteq job[r].seen THEN pkg' = row ELSE UNCHANGED pkg

-----------------------------------------------------------------------------
(* The package *)

\* In a transaction.
CreatePackage(r) ==
  /\ ~pkg.there
  /\ job[r].at = "idle"
  /\ pkg' = [NoPackage EXCEPT !.there = TRUE, !.active = TRUE]
  /\ UNCHANGED <<template, named, barred, job, failures>>

\* uploadLibrary
UploadLibrary(r, f) ==
  /\ pkg.there
  /\ Start(r, [Loaded("store") EXCEPT !.file = f])
  /\ UNCHANGED tables

\* The file goes to S3 and is parsed.
Store(r) ==
  /\ job[r].at = "store"
  /\ To(r, "uploadSave")
  /\ UNCHANGED tables

\* A package that could not be saved ends the upload.
UploadSave(r) ==
  /\ job[r].at = "uploadSave"
  /\ LET f == job[r].file
     IN  Saves(r, [job[r].row EXCEPT !.shown = f, !.kept = f])
  /\ IF Templates \subseteq job[r].seen /\ job[r].file \in Libraries
     THEN To(r, "generate") ELSE End(r)
  /\ UNCHANGED <<template, named, barred, failures>>

\* Fault: the templates generated before are left.
GenerateMore(r) ==
  /\ job[r].at = "generate"
  /\ \E t \in FreshTemplate : template' = [template EXCEPT ![t] = job[r].file]
  /\ End(r)
  /\ UNCHANGED <<pkg, named, barred, failures>>

\* Fault: all templates of the package are deleted.
GenerateAll(r) ==
  /\ job[r].at = "generate"
  /\ \E n \in TemplateIds :
       /\ n \in FreshTemplate
       /\ template' = [t \in TemplateIds |-> IF t = n THEN job[r].file ELSE NoLibrary]
  /\ named' = {}
  /\ End(r)
  /\ UNCHANGED <<pkg, barred, failures>>

\* generateTemplatesFromKeywords, a transaction.  When a role may use a generated
\* template a database with the key refuses to delete it; the failure is only
\* logged.  Without the key the role is left with a template that is not there.
Generate(r) ==
  /\ job[r].at = "generate"
  /\ \/ /\ KeyedRoles => Generated \cap named = {}
        /\ \E n \in FreshTemplate :
             template' = [t \in TemplateIds |->
                            CASE t = n -> job[r].file
                              [] t \in Generated -> NoLibrary
                              [] OTHER -> template[t]]
        /\ barred' = FALSE
     \/ /\ KeyedRoles
        /\ Generated \cap named # {}
        /\ barred' = TRUE
        /\ UNCHANGED template
  /\ End(r)
  /\ UNCHANGED <<pkg, named, failures>>

\* toggleActive, setActive and uploadImage
SetFlag(r, active) ==
  /\ pkg.there
  /\ Start(r, LET q == Loaded("flagSave") IN [q EXCEPT !.row.active = active])
  /\ UNCHANGED tables

FlagSave(r) ==
  /\ job[r].at = "flagSave"
  /\ Saves(r, [job[r].row EXCEPT !.kept = pkg.kept])
  /\ End(r)
  /\ UNCHANGED <<template, named, barred, failures>>

-----------------------------------------------------------------------------
(* Templates made by hand, and the roles that may use a template *)

CreateTemplate(r) ==
  /\ pkg.there
  /\ job[r].at = "idle"
  /\ \E t \in FreshTemplate : template' = [template EXCEPT ![t] = Hand]
  /\ UNCHANGED <<pkg, named, barred, job, failures>>

\* Fault: roles go on naming it.
DeleteTemplateOnly(r, t) ==
  /\ t \in Templates
  /\ job[r].at = "idle"
  /\ template' = [template EXCEPT ![t] = NoLibrary]
  /\ UNCHANGED <<pkg, named, barred, job, failures>>

UpdateTemplate(r, t) ==
  /\ t \in Templates
  /\ Start(r, [Rest EXCEPT !.at = "templateSave", !.seen = {t}, !.file = template[t]])
  /\ UNCHANGED tables

\* save inserts the template again if it has gone.
TemplateSave(r) ==
  /\ job[r].at = "templateSave"
  /\ template' = [t \in TemplateIds |-> IF t \in job[r].seen THEN job[r].file
                                                            ELSE template[t]]
  /\ End(r)
  /\ UNCHANGED <<pkg, named, barred, failures>>

\* remove takes the template from the roles as well.
DeleteTemplate(r, t) ==
  /\ t \in Templates
  /\ job[r].at = "idle"
  /\ template' = [template EXCEPT ![t] = NoLibrary]
  /\ named' = named \ {t}
  /\ UNCHANGED <<pkg, barred, job, failures>>

\* A role of some team is given the template, or loses it.
NameTemplate(r, t) ==
  /\ job[r].at = "idle"
  /\ \/ t \in Templates /\ named' = named \union {t}
     \/ named' = named \ {t}
  /\ UNCHANGED <<pkg, template, barred, job, failures>>

-----------------------------------------------------------------------------

\* A query or S3 fails, or the transaction of a generation, or the server stops.
JobFails(r) ==
  /\ failures < MaxFailures
  /\ job[r].at # "idle"
  /\ End(r)
  /\ failures' = failures + 1
  /\ UNCHANGED <<pkg, template, named, barred>>

PackageInit ==
  /\ pkg = NoPackage
  /\ template = [t \in TemplateIds |-> NoLibrary]
  /\ named = {}
  /\ barred = FALSE
  /\ job = [r \in Jobs |-> Rest]
  /\ failures = 0

PackageArrival(r) ==
  \/ CreatePackage(r)
  \/ \E f \in Files : UploadLibrary(r, f)
  \/ \E active \in BOOLEAN : SetFlag(r, active)
  \/ CreateTemplate(r)
  \/ \E t \in TemplateIds :
       \/ DeleteTemplate(r, t) \/ UpdateTemplate(r, t) \/ NameTemplate(r, t)

PackageStep(r) ==
  \/ Store(r) \/ UploadSave(r) \/ Generate(r) \/ FlagSave(r) \/ TemplateSave(r)

PackageNext == \E r \in Jobs : PackageArrival(r) \/ PackageStep(r) \/ JobFails(r)

PackageSpec == PackageInit /\ [][PackageNext]_packageVars

-----------------------------------------------------------------------------

\* The tables and requests hold values of their types, and with the key a role
\* names only templates that exist.
PackageTypeOK ==
  /\ pkg \in Package
  /\ template \in [TemplateIds -> Files \union {NoLibrary, Hand}]
  /\ named \subseteq IF KeyedRoles THEN Templates ELSE TemplateIds
  /\ barred \in BOOLEAN
  /\ job \in [Jobs -> Job]
  /\ failures \in 0..MaxFailures

\* With requests served one by one and no failure, a package whose library was
\* parsed has the templates of this library and of no other, unless a role that
\* may use one of the old templates kept them from being replaced.
TemplatesMatch ==
  /\ failures = 0
  /\ \A r \in Jobs : job[r].at = "idle"
  /\ pkg.shown \in Libraries
  /\ ~barred
  => \A t \in Generated : template[t] = pkg.shown

\* However uploads and changes interleave and fail, a template made by hand, or
\* with the key one that a role may use, goes only when somebody deletes just that.
HandMadeStep ==
  \A t \in Templates :
    (template[t] = Hand \/ (KeyedRoles /\ t \in named)) /\ template'[t] # template[t]
      => \A s \in TemplateIds \ {t} : template'[s] = template[s]

\* No step of any request harms a template made by hand or, with the key, one that
\* a role names.
HandMadeStay == [][HandMadeStep]_packageVars
=============================================================================
