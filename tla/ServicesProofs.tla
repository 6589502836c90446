---------------------------- MODULE ServicesProofs ----------------------------
(***************************************************************************)
(* Proofs about the services that stand alone, for any number of users,    *)
(* files, templates, machines, requests and failures.                      *)
(***************************************************************************)
EXTENDS Accounts, ActivityPackages, DocumentTemplates, RobotReports, PythonParser,
        FiniteSetTheorems, WellFoundedInduction, TLAPS

-----------------------------------------------------------------------------
(* Accounts *)

AccountSpec == AccountInit /\ [][AccountNext]_accountVars

LEMMA AccountInitTyped ==
  ASSUME AccountInit
  PROVE  AccountTypeOK
BY LossAssumption DEF AccountInit, AccountTypeOK, Photos

LEMMA AccountStepTyped ==
  ASSUME AccountTypeOK, [AccountNext]_accountVars
  PROVE  AccountTypeOK'
<1> USE DEF AccountTypeOK, Turn
<1>1. ASSUME NEW r \in Visits, NEW e \in Emails, Register(r, e) PROVE AccountTypeOK'
  BY <1>1 DEF Register, Open, Inserting
<1>2. ASSUME NEW r \in Visits, NEW i \in UserIds, UpdateProfile(r, i) PROVE AccountTypeOK'
  BY <1>2 DEF UpdateProfile, Open, Saving
<1>3. ASSUME NEW r \in Visits, NEW i \in UserIds, NEW f \in Formats, UploadAvatar(r, i, f)
      PROVE  AccountTypeOK'
  BY <1>3 DEF UploadAvatar, Open, Uploading
<1>4. ASSUME NEW r \in Visits, Create(r) PROVE AccountTypeOK'
  <2>1. visit[r] \in Inserting
    BY <1>4 DEF Create, Idling, Uploading, Saving
  <2> QED
    BY <1>4, <2>1 DEF Create, Inserting, Photos
<1>5. ASSUME NEW r \in Visits, AvatarPut(r) PROVE AccountTypeOK'
  <2>1. visit[r] \in Uploading
    BY <1>5 DEF AvatarPut, Idling, Inserting, Saving
  <2>2. [visit[r] EXCEPT !.at = "save"] \in Saving
    BY <2>1 DEF Uploading, Saving, Photos
  <2> QED
    BY <1>5, <2>1, <2>2 DEF AvatarPut, Uploading
<1>6. ASSUME NEW r \in Visits, UserSave(r) PROVE AccountTypeOK'
  <2>1. visit[r] \in Saving
    BY <1>6 DEF UserSave, Idling, Inserting, Uploading
  <2> QED
    BY <1>6, <2>1 DEF UserSave, Saving
<1>7. ASSUME NEW r \in Visits, VisitFails(r) PROVE AccountTypeOK'
  BY <1>7 DEF VisitFails
<1>8. CASE UNCHANGED accountVars
  BY <1>8 DEF accountVars
<1> QED
  BY <1>1, <1>2, <1>3, <1>4, <1>5, <1>6, <1>7, <1>8 DEF AccountNext

\* The table and the requests hold values of their types.
THEOREM AccountsTyped == AccountSpec => []AccountTypeOK
<1>1. AccountInit => AccountTypeOK
  BY AccountInitTyped
<1>2. AccountTypeOK /\ [AccountNext]_accountVars => AccountTypeOK'
  BY AccountStepTyped
<1> QED
  BY <1>1, <1>2, PTL DEF AccountSpec

\* However registrations and sign-ins with Google interleave, an address leads to
\* one user: the unique column decides, whatever findOneByEmail said before.
THEOREM AccountsAlwaysUnique == AccountSpec => []OneUserPerAddress
<1>1. AccountInit => OneUserPerAddress
  BY DEF AccountInit, OneUserPerAddress
<1>2. AccountTypeOK /\ OneUserPerAddress /\ [AccountNext]_accountVars => OneUserPerAddress'
  <2> SUFFICES ASSUME AccountTypeOK, OneUserPerAddress, [AccountNext]_accountVars
               PROVE  OneUserPerAddress'
    OBVIOUS
  <2>1. ASSUME NEW r \in Visits, Create(r) PROVE OneUserPerAddress'
    BY <2>1 DEF Create, Duplicate, Known, OneUserPerAddress, AccountTypeOK
  <2>2. ASSUME UNCHANGED email PROVE OneUserPerAddress'
    BY <2>2 DEF OneUserPerAddress
  <2> QED
    BY <2>1, <2>2 DEF AccountNext, Register, UpdateProfile, UploadAvatar, AvatarPut,
                      UserSave, VisitFails, accountVars
<1> QED
  BY <1>1, <1>2, AccountsTyped, PTL DEF AccountSpec

\* What a request is about to save has been stored too: a profile update took it
\* from the row.
SavedPhotos ==
  \A r \in Visits :
    visit[r].at = "save" /\ visit[r].photo \in Formats =>
      <<visit[r].id, visit[r].photo>> \in stored

LEMMA StepStored ==
  ASSUME AccountTypeOK, PhotosStored, SavedPhotos, [AccountNext]_accountVars
  PROVE  PhotosStored' /\ SavedPhotos'
<1> USE DEF AccountTypeOK, PhotosStored, SavedPhotos, Turn
<1>1. ASSUME NEW r \in Visits, NEW e \in Emails, Register(r, e)
      PROVE  PhotosStored' /\ SavedPhotos'
  BY <1>1 DEF Register, Open
<1>2. ASSUME NEW r \in Visits, NEW i \in UserIds, UpdateProfile(r, i)
      PROVE  PhotosStored' /\ SavedPhotos'
  BY <1>2 DEF UpdateProfile, Open
<1>3. ASSUME NEW r \in Visits, NEW i \in UserIds, NEW f \in Formats, UploadAvatar(r, i, f)
      PROVE  PhotosStored' /\ SavedPhotos'
  BY <1>3 DEF UploadAvatar, Open
<1>4. ASSUME NEW r \in Visits, Create(r) PROVE PhotosStored' /\ SavedPhotos'
  <2>1. visit[r] \in Inserting
    BY <1>4 DEF Create, Idling, Uploading, Saving
  <2>2. visit[r].photo \notin Formats
    BY <2>1, FormatAssumption DEF Inserting
  <2> QED
    BY <1>4, <2>2 DEF Create, Idling
<1>5. ASSUME NEW r \in Visits, AvatarPut(r) PROVE PhotosStored' /\ SavedPhotos'
  <2>1. visit[r] \in Uploading
    BY <1>5 DEF AvatarPut, Idling, Inserting, Saving
  <2> QED
    BY <1>5, <2>1 DEF AvatarPut, Uploading
<1>6. ASSUME NEW r \in Visits, UserSave(r) PROVE PhotosStored' /\ SavedPhotos'
  <2>1. visit[r] \in Saving
    BY <1>6 DEF UserSave, Idling, Inserting, Uploading
  <2> QED
    BY <1>6, <2>1 DEF UserSave, Idling, Saving
<1>7. ASSUME NEW r \in Visits, VisitFails(r) PROVE PhotosStored' /\ SavedPhotos'
  BY <1>7 DEF VisitFails, Idling
<1>8. CASE UNCHANGED accountVars
  BY <1>8 DEF accountVars
<1> QED
  BY <1>1, <1>2, <1>3, <1>4, <1>5, <1>6, <1>7, <1>8 DEF AccountNext

\* However updates and uploads interleave and fail, a photo that a row names has
\* been stored.
THEOREM PhotosAlwaysStored == AccountSpec => []PhotosStored
<1>1. AccountInit => PhotosStored /\ SavedPhotos
  BY FormatAssumption DEF AccountInit, PhotosStored, SavedPhotos, Idling
<1>2. AccountTypeOK /\ PhotosStored /\ SavedPhotos /\ [AccountNext]_accountVars
        => PhotosStored' /\ SavedPhotos'
  BY StepStored
<1> QED
  BY <1>1, <1>2, AccountsTyped, PTL DEF AccountSpec

-----------------------------------------------------------------------------
(* Activity packages, however requests interleave and fail. *)

\* What a request holds at its control point: one that saves a template has read
\* just that one, and it was there; one that generates has a library.
HeldAt(q) ==
  /\ q.at = "templateSave" => \E t \in TemplateIds : q.seen = {t} /\ q.file # NoLibrary
  /\ q.at \in {"store", "uploadSave"} => q.file \in Files
  /\ q.at = "generate" => q.file \in Libraries

PackageInv ==
  /\ PackageTypeOK
  /\ \A r \in Jobs : HeldAt(job[r])

LEMMA FreshIsUnused ==
  \A t \in FreshTemplate : t \in TemplateIds /\ template[t] = NoLibrary
BY DEF FreshTemplate

\* How a request moves on: every other one is as before.
LEMMA MoveHolds ==
  ASSUME NEW r \in Jobs, NEW q \in Job, HeldAt(q), PackageInv, Move(r, q)
  PROVE  job' \in [Jobs -> Job] /\ \A s \in Jobs : HeldAt(job'[s])
BY DEF Move, PackageInv, PackageTypeOK

LEMMA EndHolds ==
  ASSUME NEW r \in Jobs, PackageInv, End(r)
  PROVE  job' \in [Jobs -> Job] /\ \A s \in Jobs : HeldAt(job'[s])
<1>1. Rest \in Job /\ HeldAt(Rest)
  BY DEF Rest, Job, HeldAt, NoPackage, Package, Points
<1> QED
  BY <1>1, MoveHolds DEF End

\* A step that touches no table but the package and the requests' records.
LEMMA TablesStay ==
  ASSUME PackageInv, UNCHANGED <<template, named, barred, failures>>,
         pkg' \in Package, job' \in [Jobs -> Job], \A r \in Jobs : HeldAt(job'[r])
  PROVE  PackageInv'
BY DEF PackageInv, PackageTypeOK, Templates

LEMMA PackageInitHolds == PackageInit => PackageInv
<1>1. Rest \in Job /\ HeldAt(Rest)
  BY DEF Rest, Job, HeldAt, NoPackage, Package, Points
<1>2. NoPackage \in Package
  BY DEF NoPackage, Package
<1> SUFFICES ASSUME PackageInit PROVE PackageInv
  OBVIOUS
<1>3. template \in [TemplateIds -> Files \union {NoLibrary, Hand}] /\ named = {}
  BY DEF PackageInit
<1>4. pkg \in Package /\ barred \in BOOLEAN
  BY <1>2, Zenon DEF PackageInit
<1>6. failures \in 0..MaxFailures
  BY FailureAssumption DEF PackageInit
<1>5. job \in [Jobs -> Job] /\ \A r \in Jobs : HeldAt(job[r])
  BY <1>1 DEF PackageInit
<1> QED
  BY <1>3, <1>4, <1>5, <1>6 DEF PackageInv, PackageTypeOK

LEMMA PackageStepHolds == PackageInv /\ [PackageNext]_packageVars => PackageInv'
<1> SUFFICES ASSUME PackageInv, [PackageNext]_packageVars PROVE PackageInv'
  OBVIOUS
<1> USE LibraryAssumption
<1>a. PackageTypeOK /\ \A r \in Jobs : HeldAt(job[r])
  BY DEF PackageInv
<1>1. ASSUME NEW r \in Jobs, CreatePackage(r) PROVE PackageInv'
  BY <1>1, <1>a, TablesStay DEF CreatePackage, PackageTypeOK, Package, NoPackage
<1>2. ASSUME NEW r \in Jobs, NEW f \in Files, UploadLibrary(r, f) PROVE PackageInv'
  <2>. DEFINE q == [Loaded("store") EXCEPT !.file = f]
  <2>1. q \in Job /\ HeldAt(q)
    BY <1>a DEF Loaded, Rest, Job, HeldAt, Points, Package, PackageTypeOK, Templates, NoPackage
  <2>2. job' \in [Jobs -> Job] /\ \A s \in Jobs : HeldAt(job'[s])
    BY <1>2, <2>1, MoveHolds DEF UploadLibrary, Start
  <2> QED
    BY <1>2, <1>a, <2>2, TablesStay DEF UploadLibrary, tables, PackageTypeOK
<1>3. ASSUME NEW r \in Jobs, NEW active \in BOOLEAN, SetFlag(r, active) PROVE PackageInv'
  <2>. DEFINE q == [Loaded("flagSave") EXCEPT !.row.active = active]
  <2>1. q \in Job /\ HeldAt(q)
    BY <1>a DEF Loaded, Rest, Job, HeldAt, Points, Package, PackageTypeOK, Templates, NoPackage
  <2>2. job' \in [Jobs -> Job] /\ \A s \in Jobs : HeldAt(job'[s])
    BY <1>3, <2>1, MoveHolds DEF SetFlag, Start
  <2> QED
    BY <1>3, <1>a, <2>2, TablesStay DEF SetFlag, tables, PackageTypeOK
<1>4. ASSUME NEW r \in Jobs, CreateTemplate(r) PROVE PackageInv'
  BY <1>4, <1>a, FreshIsUnused DEF CreateTemplate, PackageInv, PackageTypeOK, Templates
<1>5. ASSUME NEW r \in Jobs, NEW t \in TemplateIds, DeleteTemplate(r, t) PROVE PackageInv'
  BY <1>5, <1>a DEF DeleteTemplate, PackageInv, PackageTypeOK, Templates
<1>6. ASSUME NEW r \in Jobs, NEW t \in TemplateIds, UpdateTemplate(r, t) PROVE PackageInv'
  <2>. DEFINE q == [Rest EXCEPT !.at = "templateSave", !.seen = {t}, !.file = template[t]]
  <2>1. q \in Job /\ HeldAt(q)
    BY <1>6, <1>a DEF UpdateTemplate, Rest, Job, HeldAt, Points, Package, NoPackage,
                      PackageTypeOK, Templates
  <2>2. job' \in [Jobs -> Job] /\ \A s \in Jobs : HeldAt(job'[s])
    BY <1>6, <2>1, MoveHolds DEF UpdateTemplate, Start
  <2> QED
    BY <1>6, <1>a, <2>2, TablesStay DEF UpdateTemplate, tables, PackageTypeOK
<1>7. ASSUME NEW r \in Jobs, NEW t \in TemplateIds, NameTemplate(r, t) PROVE PackageInv'
  BY <1>7, <1>a DEF NameTemplate, PackageInv, PackageTypeOK, Templates
<1>8. ASSUME NEW r \in Jobs, Store(r) PROVE PackageInv'
  <2>. DEFINE q == [job[r] EXCEPT !.at = "uploadSave"]
  <2>1. q \in Job /\ HeldAt(q)
    BY <1>8, <1>a DEF Store, Job, HeldAt, Points, PackageTypeOK
  <2>2. job' \in [Jobs -> Job] /\ \A s \in Jobs : HeldAt(job'[s])
    BY <1>8, <2>1, MoveHolds DEF Store, To
  <2> QED
    BY <1>8, <1>a, <2>2, TablesStay DEF Store, tables, PackageTypeOK
<1>9. ASSUME NEW r \in Jobs, UploadSave(r) PROVE PackageInv'
  <2>. DEFINE q == [job[r] EXCEPT !.at = "generate"]
              saved == [job[r].row EXCEPT !.shown = job[r].file, !.kept = job[r].file]
  <2>1. saved \in Package
    BY <1>9, <1>a DEF UploadSave, Job, HeldAt, Package, PackageTypeOK
  <2>2. pkg' \in Package
    BY <1>9, <1>a, <2>1 DEF UploadSave, Saves, PackageTypeOK
  <2>3. job' \in [Jobs -> Job] /\ \A s \in Jobs : HeldAt(job'[s])
    <3>1. CASE End(r)
      BY <3>1, EndHolds
    <3>2. CASE To(r, "generate") /\ job[r].file \in Libraries
      <4>1. q \in Job /\ HeldAt(q)
        BY <1>9, <1>a, <3>2 DEF UploadSave, Job, HeldAt, Points, PackageTypeOK
      <4> QED
        BY <3>2, <4>1, MoveHolds DEF To
    <3> QED
      BY <1>9, <3>1, <3>2 DEF UploadSave
  <2> QED
    BY <1>9, <2>2, <2>3, TablesStay DEF UploadSave
<1>10. ASSUME NEW r \in Jobs, Generate(r) PROVE PackageInv'
  <2>1. job' \in [Jobs -> Job] /\ \A s \in Jobs : HeldAt(job'[s])
    BY <1>10, EndHolds DEF Generate
  <2>2. job[r].file \in Libraries
    BY <1>10, <1>a DEF Generate, HeldAt
  <2>3. /\ template' \in [TemplateIds -> Files \union {NoLibrary, Hand}]
        /\ named \subseteq IF KeyedRoles THEN Templates' ELSE TemplateIds
    BY <1>10, <1>a, <2>2, FreshIsUnused, KeyedRolesAssumption
    DEF Generate, PackageTypeOK, Templates, Generated, Files
  <2> QED
    BY <1>10, <1>a, <2>1, <2>3 DEF Generate, PackageInv, PackageTypeOK
<1>11. ASSUME NEW r \in Jobs, FlagSave(r) PROVE PackageInv'
  <2>1. pkg' \in Package
    BY <1>11, <1>a DEF FlagSave, Saves, PackageTypeOK, Package, Job
  <2>2. job' \in [Jobs -> Job] /\ \A s \in Jobs : HeldAt(job'[s])
    BY <1>11, EndHolds DEF FlagSave
  <2> QED
    BY <1>11, <2>1, <2>2, TablesStay DEF FlagSave
<1>12. ASSUME NEW r \in Jobs, TemplateSave(r) PROVE PackageInv'
  <2>1. job' \in [Jobs -> Job] /\ \A s \in Jobs : HeldAt(job'[s])
    BY <1>12, EndHolds DEF TemplateSave
  <2>2. job[r].file \in Files \union {NoLibrary, Hand} /\ job[r].file # NoLibrary
    BY <1>12, <1>a DEF TemplateSave, HeldAt, PackageTypeOK, Job
  <2>3. /\ template' \in [TemplateIds -> Files \union {NoLibrary, Hand}]
        /\ named \subseteq IF KeyedRoles THEN Templates' ELSE TemplateIds
    BY <1>12, <1>a, <2>2 DEF TemplateSave, PackageTypeOK, Templates
  <2> QED
    BY <1>12, <1>a, <2>1, <2>3 DEF TemplateSave, PackageInv, PackageTypeOK
<1>13. ASSUME NEW r \in Jobs, JobFails(r) PROVE PackageInv'
  <2>1. job' \in [Jobs -> Job] /\ \A s \in Jobs : HeldAt(job'[s])
    BY <1>13, EndHolds DEF JobFails
  <2> QED
    BY <1>13, <1>a, <2>1, FailureAssumption DEF JobFails, PackageInv, PackageTypeOK, Templates
<1>14. CASE UNCHANGED packageVars
  BY <1>14, <1>a DEF packageVars, tables, PackageInv, PackageTypeOK, Templates
<1> QED
  BY <1>1, <1>2, <1>3, <1>4, <1>5, <1>6, <1>7, <1>8, <1>9, <1>10, <1>11, <1>12, <1>13, <1>14
  DEF PackageNext, PackageArrival, PackageStep

LEMMA PackageAlwaysHolds == PackageSpec => []PackageInv
BY PackageInitHolds, PackageStepHolds, PTL DEF PackageSpec

\* Whatever is uploaded, changed and generated at once, and wherever it fails, the
\* tables of activity packages hold values of their types, and in a database with
\* the key a role names only templates that exist.
THEOREM PackagesTyped == PackageSpec => []PackageTypeOK
BY PackageAlwaysHolds, PTL DEF PackageInv

\* One step, from a state that can be reached, is harmless to templates made by
\* hand and to those that a role names.
LEMMA HandMadeHolds == PackageInv /\ [PackageNext]_packageVars => [HandMadeStep]_packageVars
<1> SUFFICES ASSUME PackageInv, PackageNext, NEW t \in Templates,
                    template[t] = Hand \/ (KeyedRoles /\ t \in named), template'[t] # template[t],
                    NEW s \in TemplateIds \ {t}
             PROVE  template'[s] = template[s]
  BY DEF HandMadeStep
<1>a. PackageTypeOK /\ \A r \in Jobs : HeldAt(job[r])
  BY DEF PackageInv
<1>b. t \in TemplateIds /\ template[t] # NoLibrary
  BY DEF Templates
<1> PICK r \in Jobs : PackageArrival(r) \/ PackageStep(r) \/ JobFails(r)
  BY DEF PackageNext
<1>1. CASE \E u \in TemplateIds : DeleteTemplate(r, u)
  BY <1>1, <1>a, <1>b DEF DeleteTemplate, PackageTypeOK
<1>2. CASE TemplateSave(r)
  BY <1>2, <1>a, <1>b DEF TemplateSave, HeldAt
<1>3. CASE CreateTemplate(r)
  BY <1>3, <1>a, <1>b, FreshIsUnused DEF CreateTemplate, PackageTypeOK
<1>4. CASE Generate(r)
  <2>1. ~(t \in FreshTemplate)
    BY <1>b, FreshIsUnused
  <2>2. (KeyedRoles => Generated \cap named = {}) => t \notin Generated
    BY DEF Generated
  <2> QED
    BY <1>4, <1>b, <2>1, <2>2 DEF Generate
<1> QED
  BY <1>1, <1>2, <1>3, <1>4
  DEF PackageArrival, PackageStep, CreatePackage, UploadLibrary, SetFlag, UpdateTemplate,
      NameTemplate, Store, UploadSave, FlagSave, JobFails, tables

\* However uploads and changes interleave and fail, a template made by hand, or in a
\* database with the key one that a role may use, goes only when somebody deletes
\* just that.
THEOREM HandMadeAlwaysStay == PackageSpec => HandMadeStay
BY PackageAlwaysHolds, HandMadeHolds, PTL DEF PackageSpec, HandMadeStay

-----------------------------------------------------------------------------
(* Activity packages, one request at a time and without a failure *)

\* The templates are of the library that the package shows, but between the save of
\* a package and the generation that belongs to it.
MatchInv(q) ==
  failures = 0 =>
    /\ q.at # "generate" /\ pkg.shown \in Libraries /\ ~barred =>
         \A t \in Generated : template[t] = pkg.shown
    /\ q.at = "generate" => q.file = pkg.shown
    /\ q.at = "flagSave" => q.row.shown = pkg.shown
    /\ q.at = "templateSave" => \A t \in q.seen : q.file = template[t]

\* A job that begins, goes on or ends before it has changed anything.
LEMMA MatchMove ==
  ASSUME PackageInv, NEW r \in Jobs, MatchInv(job[r]), NEW q, Move(r, q),
         UNCHANGED tables, job[r].at # "generate", q.at # "generate",
         q.at = "flagSave" => q.row.shown = pkg.shown,
         q.at = "templateSave" => \A t \in q.seen : q.file = template[t]
  PROVE  MatchInv(job[r])'
<1>1. job'[r] = q
  BY DEF Move, PackageInv, PackageTypeOK
<1> QED
  BY <1>1 DEF MatchInv, Generated, Templates, tables

LEMMA MatchStep ==
  ASSUME PackageInv, NEW r \in Jobs, MatchInv(job[r]),
         PackageArrival(r) \/ PackageStep(r) \/ JobFails(r)
  PROVE  MatchInv(job[r])'
<1> USE LibraryAssumption
<1>a. PackageTypeOK /\ HeldAt(job[r]) /\ job[r] \in Job /\ job[r].row \in Package
  BY DEF PackageInv, PackageTypeOK, Job
<1>e. End(r) => job'[r].at = "idle"
  BY <1>a DEF End, Move, Rest, PackageTypeOK
<1>1. CASE CreatePackage(r)
  BY <1>1 DEF CreatePackage, MatchInv, NoPackage, Files
<1>2. ASSUME NEW f \in Files, UploadLibrary(r, f) PROVE MatchInv(job[r])'
  <2> DEFINE q == [Loaded("store") EXCEPT !.file = f]
  <2>1. q.at = "store"
    BY DEF Loaded, Rest
  <2> QED
    BY <1>2, <2>1, MatchMove DEF UploadLibrary, Start
<1>3. ASSUME NEW active \in BOOLEAN, SetFlag(r, active) PROVE MatchInv(job[r])'
  <2> DEFINE q == [Loaded("flagSave") EXCEPT !.row.active = active]
  <2>1. q.at = "flagSave" /\ q.row.shown = pkg.shown
    BY <1>a DEF Loaded, Rest, Package, PackageTypeOK
  <2> QED
    BY <1>3, <2>1, MatchMove DEF SetFlag, Start
<1>4. CASE CreateTemplate(r)
  <2>1. PICK n \in FreshTemplate : template' = [template EXCEPT ![n] = Hand]
    BY <1>4 DEF CreateTemplate
  <2>2. n \in TemplateIds /\ template[n] = NoLibrary
    BY FreshIsUnused
  <2>3. Generated' = Generated /\ \A t \in Generated : template'[t] = template[t]
    BY <1>a, <2>1, <2>2 DEF Generated, Templates, PackageTypeOK
  <2> QED
    BY <1>4, <2>3 DEF CreateTemplate, MatchInv
<1>5. ASSUME NEW n \in TemplateIds, DeleteTemplate(r, n) PROVE MatchInv(job[r])'
  <2>1. Generated' \subseteq Generated /\ \A t \in Generated' : template'[t] = template[t]
    BY <1>5, <1>a DEF DeleteTemplate, Generated, Templates, PackageTypeOK
  <2> QED
    BY <1>5, <2>1 DEF DeleteTemplate, MatchInv
<1>6. ASSUME NEW n \in TemplateIds, UpdateTemplate(r, n) PROVE MatchInv(job[r])'
  <2> DEFINE q == [Rest EXCEPT !.at = "templateSave", !.seen = {n}, !.file = template[n]]
  <2>1. q.at = "templateSave" /\ q.seen = {n} /\ q.file = template[n]
    BY DEF Rest
  <2> QED
    BY <1>6, <2>1, MatchMove DEF UpdateTemplate, Start
<1>7. ASSUME NEW n \in TemplateIds, NameTemplate(r, n) PROVE MatchInv(job[r])'
  BY <1>7 DEF NameTemplate, MatchInv, Generated, Templates
<1>8. CASE Store(r)
  <2>1. [job[r] EXCEPT !.at = "uploadSave"].at = "uploadSave"
    BY <1>a DEF Job
  <2> QED
    BY <1>8, <2>1, MatchMove DEF Store, To
<1>9. CASE UploadSave(r)
  <2> DEFINE f == job[r].file
             saved == [job[r].row EXCEPT !.shown = f, !.kept = f]
             q == [job[r] EXCEPT !.at = "generate"]
  <2>1. UNCHANGED <<template, barred, failures>> /\ job[r].at = "uploadSave"
    BY <1>9 DEF UploadSave
  <2>2. CASE Templates \subseteq job[r].seen /\ f \in Libraries
    <3>1. pkg' = saved /\ To(r, "generate")
      BY <1>9, <2>2 DEF UploadSave, Saves
    <3>2. saved.shown = f /\ q.file = f /\ q.at = "generate"
      BY <1>a DEF Package, Job
    <3> HIDE DEF saved, q
    <3>3. job'[r] = q
      BY <1>a, <3>1 DEF To, Move, PackageTypeOK, q
    <3> QED
      BY <2>1, <3>1, <3>2, <3>3 DEF MatchInv
  <2>3. CASE ~(Templates \subseteq job[r].seen)
    BY <1>9, <1>e, <2>1, <2>3 DEF UploadSave, Saves, MatchInv, Generated, Templates
  <2>4. CASE Templates \subseteq job[r].seen /\ f \notin Libraries
    <3>1. pkg' = saved /\ End(r)
      BY <1>9, <2>4 DEF UploadSave, Saves
    <3>2. saved.shown = f
      BY <1>a DEF Package
    <3> QED
      BY <1>e, <2>4, <3>1, <3>2 DEF MatchInv
  <2> QED
    BY <2>2, <2>3, <2>4
<1>10. CASE Generate(r)
  <2>1. /\ UNCHANGED <<pkg, failures>> /\ End(r) /\ job[r].at = "generate"
        /\ job[r].file \in Libraries
    BY <1>10, <1>a DEF Generate, HeldAt
  <2>2. CASE barred'
    BY <1>e, <2>1, <2>2 DEF MatchInv
  <2>3. CASE \E n \in FreshTemplate :
               template' = [t \in TemplateIds |-> CASE t = n -> job[r].file
                                                    [] t \in Generated -> NoLibrary
                                                    [] OTHER -> template[t]]
    <3>1. PICK n \in FreshTemplate :
            template' = [t \in TemplateIds |-> CASE t = n -> job[r].file
                                                 [] t \in Generated -> NoLibrary
                                                 [] OTHER -> template[t]]
      BY <2>3
    <3>2. n \in TemplateIds /\ n \notin Generated
      BY FreshIsUnused DEF Generated, Templates
    <3>3. \A t \in Generated' : t = n
      BY <1>a, <3>1, <3>2 DEF Generated, Templates, PackageTypeOK
    <3>4. template'[n] = job[r].file
      BY <3>1, <3>2
    <3> QED
      BY <1>e, <2>1, <3>3, <3>4 DEF MatchInv
  <2> QED
    BY <1>10, <2>2, <2>3 DEF Generate
<1>11. CASE FlagSave(r)
  <2>1. /\ UNCHANGED <<template, barred, failures>> /\ End(r) /\ job[r].at = "flagSave"
        /\ (pkg' = pkg \/ pkg' = [job[r].row EXCEPT !.kept = pkg.kept])
    BY <1>11 DEF FlagSave, Saves
  <2>2. failures = 0 => pkg'.shown = pkg.shown
    BY <1>a, <2>1 DEF MatchInv, Package
  <2> QED
    BY <1>e, <2>1, <2>2 DEF MatchInv, Generated, Templates
<1>12. CASE TemplateSave(r)
  <2>1. failures = 0 => template' = template
    BY <1>12, <1>a DEF TemplateSave, MatchInv, PackageTypeOK
  <2> QED
    BY <1>12, <1>e, <2>1 DEF TemplateSave, MatchInv, Generated, Templates
<1>13. CASE JobFails(r)
  <2>1. failures' # 0
    BY <1>13, <1>a, FailureAssumption DEF JobFails, PackageTypeOK
  <2> QED
    BY <2>1 DEF MatchInv
<1> QED
  BY <1>1, <1>2, <1>3, <1>4, <1>5, <1>6, <1>7, <1>8, <1>9, <1>10, <1>11, <1>12, <1>13
  DEF PackageArrival, PackageStep

\* With requests served one by one and no failure, an idle package whose library was
\* parsed has the templates of this library and of no other, unless a role kept the
\* old ones.
THEOREM TemplatesAlwaysMatch ==
  ASSUME NEW CONSTANT one, Jobs = {one}
  PROVE  PackageSpec => []TemplatesMatch
<1> DEFINE Inv == MatchInv(job[one])
<1>1. PackageInit => Inv
  BY LibraryAssumption DEF PackageInit, MatchInv, Rest, NoPackage, Files
<1>2. PackageInv /\ Inv /\ [PackageNext]_packageVars => Inv'
  <2>1. ASSUME PackageInv, Inv, PackageNext PROVE Inv'
    BY <2>1, MatchStep DEF PackageNext
  <2>2. ASSUME Inv, UNCHANGED packageVars PROVE Inv'
    BY <2>2 DEF MatchInv, packageVars, tables, Generated, Templates
  <2> QED
    BY <2>1, <2>2
<1>3. Inv => TemplatesMatch
  BY DEF MatchInv, TemplatesMatch
<1> QED
  BY <1>1, <1>2, <1>3, PackageAlwaysHolds, PTL DEF PackageSpec

-----------------------------------------------------------------------------
(* Document templates *)

TemplateSpec == TemplateInit /\ [][TemplateNext]_templateVars

\* A request in flight knows its template.
DocumentTyped ==
  /\ TemplateTypeOK
  /\ \A r \in Tasks : work[r].at # "idle" => work[r].key \in TemplateKeys

LEMMA TemplateStepTyped ==
  ASSUME DocumentTyped, [TemplateNext]_templateVars
  PROVE  DocumentTyped'
<1> USE BrokenAssumption DEF DocumentTyped, TemplateTypeOK, TemplateWork, Spots, Put
<1>1. ASSUME NEW r \in Tasks, NEW k \in TemplateKeys, CreateDocumentTemplate(r, k)
      PROVE  DocumentTyped'
  BY <1>1 DEF CreateDocumentTemplate, Take
<1>2. ASSUME NEW r \in Tasks, NEW k \in TemplateKeys, UpdateDocumentTemplate(r, k)
      PROVE  DocumentTyped'
  BY <1>2 DEF UpdateDocumentTemplate, Take
<1>3. ASSUME NEW r \in Tasks, NEW k \in TemplateKeys, DeleteDocumentTemplate(r, k)
      PROVE  DocumentTyped'
  BY <1>3 DEF DeleteDocumentTemplate, Take
<1>4. ASSUME NEW r \in Tasks, DetailInsert(r) PROVE DocumentTyped'
  BY <1>4 DEF DetailInsert, NoWork
<1>5. ASSUME NEW r \in Tasks, RowSave(r) PROVE DocumentTyped'
  BY <1>5 DEF RowSave, NoWork
<1>6. ASSUME NEW r \in Tasks, DetailSave(r) PROVE DocumentTyped'
  BY <1>6 DEF DetailSave, NoWork
<1>7. ASSUME NEW r \in Tasks, FilesDelete(r) PROVE DocumentTyped'
  BY <1>7 DEF FilesDelete, On
<1>8. ASSUME NEW r \in Tasks, DetailDelete(r) PROVE DocumentTyped'
  BY <1>8 DEF DetailDelete, On
<1>9. ASSUME NEW r \in Tasks, TemplateRowRemove(r) PROVE DocumentTyped'
  BY <1>9 DEF TemplateRowRemove, NoWork
<1>10. ASSUME NEW r \in Tasks, WorkFails(r) PROVE DocumentTyped'
  BY <1>10 DEF WorkFails, NoWork
<1>11. ASSUME NEW k \in TemplateKeys, Upload(k) PROVE DocumentTyped'
  BY <1>11 DEF Upload
<1>12. CASE UNCHANGED templateVars
  BY <1>12 DEF templateVars
<1> QED
  BY <1>1, <1>2, <1>3, <1>4, <1>5, <1>6, <1>7, <1>8, <1>9, <1>10, <1>11, <1>12
  DEF TemplateNext

\* Rows, documents and files of templates keep their types for any requests that
\* overlap and fail.
THEOREM TemplatesTyped == TemplateSpec => []TemplateTypeOK
<1>1. TemplateInit => DocumentTyped
  BY BrokenAssumption DEF TemplateInit, DocumentTyped, TemplateTypeOK, TemplateWork, NoWork, Spots
<1>2. DocumentTyped /\ [TemplateNext]_templateVars => DocumentTyped'
  BY TemplateStepTyped
<1>3. DocumentTyped => TemplateTypeOK
  BY DEF DocumentTyped
<1> QED
  BY <1>1, <1>2, <1>3, PTL DEF TemplateSpec

\* What a request knows of the template it works on while no other interferes.
WorkClaim(w) ==
  /\ w.at # "idle" => w.key \in TemplateKeys /\ row[w.key] = "there"
  /\ w.at = "rowRemove" => w.key \notin detail

DocumentInv ==
  /\ row \in [TemplateKeys -> {"none", "there", "gone"}]
  /\ detail \subseteq TemplateKeys
  /\ work \in [Tasks -> TemplateWork]
  /\ DetailsHaveRow
  /\ \A r \in Tasks : WorkClaim(work[r])

LEMMA DocumentInitHolds == TemplateInit => DocumentInv
BY DEF TemplateInit, DocumentInv, DetailsHaveRow, WorkClaim, TemplateWork, NoWork, Spots

LEMMA DocumentStepHolds ==
  ASSUME NEW one, Tasks = {one}, DocumentInv, [TemplateNext]_templateVars
  PROVE  DocumentInv'
<1> USE DEF DocumentInv, DetailsHaveRow, WorkClaim, Put
<1>1. ASSUME NEW k \in TemplateKeys, CreateDocumentTemplate(one, k) PROVE DocumentInv'
  BY <1>1 DEF CreateDocumentTemplate, Take, TemplateWork, Spots
<1>2. ASSUME NEW k \in TemplateKeys, UpdateDocumentTemplate(one, k) PROVE DocumentInv'
  BY <1>2 DEF UpdateDocumentTemplate, Take, TemplateWork, Spots
<1>3. ASSUME NEW k \in TemplateKeys, DeleteDocumentTemplate(one, k) PROVE DocumentInv'
  BY <1>3 DEF DeleteDocumentTemplate, Take, TemplateWork, Spots
<1>4. CASE DetailInsert(one)
  BY <1>4 DEF DetailInsert, NoWork, TemplateWork, Spots
<1>5. CASE RowSave(one)
  BY <1>5 DEF RowSave, NoWork, TemplateWork, Spots
<1>6. CASE DetailSave(one)
  BY <1>6 DEF DetailSave, NoWork, TemplateWork, Spots
<1>7. CASE FilesDelete(one)
  BY <1>7 DEF FilesDelete, On, TemplateWork, Spots
<1>8. CASE DetailDelete(one)
  BY <1>8 DEF DetailDelete, On, TemplateWork, Spots
<1>9. CASE TemplateRowRemove(one)
  BY <1>9 DEF TemplateRowRemove, NoWork, TemplateWork, Spots
<1>10. CASE WorkFails(one)
  BY <1>10 DEF WorkFails, NoWork, TemplateWork, Spots
<1>11. ASSUME NEW k \in TemplateKeys, Upload(k) PROVE DocumentInv'
  BY <1>11 DEF Upload
<1>12. CASE UNCHANGED templateVars
  BY <1>12 DEF templateVars
<1> QED
  BY <1>1, <1>2, <1>3, <1>4, <1>5, <1>6, <1>7, <1>8, <1>9, <1>10, <1>11, <1>12
  DEF TemplateNext

\* With requests served one by one, wherever they fail, no document of a template
\* is left without the row by which its owner could find and delete it.
THEOREM DetailsAlwaysHaveRow ==
  ASSUME NEW CONSTANT one, Tasks = {one}
  PROVE  TemplateSpec => []DetailsHaveRow
<1>1. DocumentInv /\ [TemplateNext]_templateVars => DocumentInv'
  BY DocumentStepHolds
<1>2. DocumentInv => DetailsHaveRow
  BY DEF DocumentInv
<1> QED
  BY DocumentInitHolds, <1>1, <1>2, PTL DEF TemplateSpec

-----------------------------------------------------------------------------
(* Dashboards *)

ReportSpec == ReportInit /\ [][ReportNext]_reportVars

\* The runs of each kind are all the runs, each in one kind.
LEMMA KindsAddUp ==
  ASSUME NEW rs, IsFiniteSet(rs), NEW S, NEW F, NEW T, rs = S \union F \union T,
         S \cap F = {}, S \cap T = {}, F \cap T = {}
  PROVE  Cardinality(rs) = Cardinality(S) + Cardinality(F) + Cardinality(T)
<1>1. IsFiniteSet(S) /\ IsFiniteSet(F) /\ IsFiniteSet(T) /\ IsFiniteSet(S \union F)
  BY FS_Subset
<1>2. ASSUME NEW A, IsFiniteSet(A), NEW B, IsFiniteSet(B), A \cap B = {}
      PROVE  Cardinality(A \union B) = Cardinality(A) + Cardinality(B)
  <2>1. Cardinality(A \union B) = Cardinality(A) + Cardinality(B) - Cardinality(A \cap B)
    BY <1>2, FS_Union
  <2>2. Cardinality(A \cap B) = 0
    BY <1>2, FS_EmptySet
  <2>3. Cardinality(A) \in Nat /\ Cardinality(B) \in Nat
    BY <1>2, FS_CardinalityType
  <2> QED
    BY <2>1, <2>2, <2>3
<1>3. (S \union F) \cap T = {}
  OBVIOUS
<1> QED
  BY <1>1, <1>2, <1>3

\* A history that does not say NaN counts each of its runs once.
LEMMA HistoryAddsUp ==
  ASSUME ReportTypeOK, NEW blank,
         NEW rs \in SUBSET {u \in Uuids : run[u] # NoRun}
  PROVE  /\ rs = {} => History(rs, blank) = [successful |-> blank, faulted |-> blank,
                                             stopped |-> blank, total |-> 0]
         /\ rs # {} => LET h == History(rs, blank)
                       IN  h.total = h.successful + h.faulted + h.stopped
<1> DEFINE S == {u \in rs : run[u].passed > 0 /\ run[u].failed = 0}
           F == {u \in rs : run[u].failed > 0}
           T == {u \in rs : run[u].passed = 0 /\ run[u].failed = 0}
<1>1. \A u \in rs : run[u].passed \in 0..1 /\ run[u].failed \in 0..1
  BY DEF ReportTypeOK, Run
<1>2. rs = S \union F \union T /\ S \cap F = {} /\ S \cap T = {} /\ F \cap T = {}
  BY <1>1
<1>3. IsFiniteSet(rs)
  BY RunAssumption, FS_Subset
<1>4. Cardinality(rs) = Cardinality(S) + Cardinality(F) + Cardinality(T)
  BY <1>2, <1>3, KindsAddUp
<1>5. IsFiniteSet(S) /\ IsFiniteSet(F) /\ IsFiniteSet(T)
  BY <1>3, FS_Subset
<1>6. Cardinality(S) \in Nat /\ Cardinality(F) \in Nat /\ Cardinality(T) \in Nat
  BY <1>5, FS_CardinalityType
<1>7. Cardinality({}) = 0
  BY FS_EmptySet
<1>8. CASE rs = {}
  BY <1>7, <1>8 DEF History, Sum
<1>9. CASE rs # {}
  <2>1. History(rs, blank) = [successful |-> Cardinality(S), faulted |-> Cardinality(F),
                              stopped |-> Cardinality(T), total |-> Cardinality(rs)]
    BY <1>9 DEF History, Sum
  <2> QED
    BY <1>4, <1>6, <1>9, <2>1
<1> QED
  BY <1>8, <1>9

LEMMA ReportInitTyped ==
  ASSUME ReportInit
  PROVE  ReportTypeOK
BY TimeAssumption DEF ReportInit, ReportTypeOK

LEMMA ReportStepTyped ==
  ASSUME ReportTypeOK, [ReportNext]_reportVars
  PROVE  ReportTypeOK'
<1> USE TimeAssumption DEF ReportTypeOK
<1>1. ASSUME NEW u \in Uuids, NEW b \in fleet, NEW passed \in 0..1, NEW failed \in 0..1,
             ReportRun(u, b, passed, failed)
      PROVE  ReportTypeOK'
  <2>1. [program |-> b.program, user |-> b.user, passed |-> passed, failed |-> failed,
         at |-> clock] \in Run
    BY DEF Robot, Run
  <2> QED
    BY <1>1, <2>1 DEF ReportRun
<1>2. CASE Tick
  BY <1>2 DEF Tick
<1>3. CASE UNCHANGED reportVars
  BY <1>3 DEF reportVars
<1> QED
  BY <1>1, <1>2, <1>3 DEF ReportNext

LEMMA TypedRunsAddUp ==
  ASSUME ReportTypeOK
  PROVE  RunsAddUp
<1> DEFINE AddsUp(h) == h.total = h.successful + h.faulted + h.stopped
<1>1. ASSUME NEW w \in RobotUsers
      PROVE  UserHistory(w).stopped = NoNumber \/ AddsUp(UserHistory(w))
  <2>1. UserRuns(w) \in SUBSET {u \in Uuids : run[u] # NoRun}
    BY DEF UserRuns, Since
  <2> QED
    BY <2>1, HistoryAddsUp DEF UserHistory
<1>2. ASSUME NEW t \in 0..MaxTime
      PROVE  WorkspaceHistory(t).stopped = NoNumber \/ AddsUp(WorkspaceHistory(t))
  <2>1. WorkspaceRuns(t) \in SUBSET {u \in Uuids : run[u] # NoRun}
    BY DEF WorkspaceRuns, Since
  <2>2. CASE SharedRobots = {}
    <3>1. WorkspaceRuns(t) = {}
      BY <2>2 DEF WorkspaceRuns
    <3> QED
      BY <2>1, <2>2, <3>1, HistoryAddsUp DEF WorkspaceHistory
  <2>3. CASE SharedRobots # {}
    BY <2>1, <2>3, HistoryAddsUp DEF WorkspaceHistory
  <2> QED
    BY <2>2, <2>3
<1>3. ASSUME NEW t \in 0..MaxTime PROVE AddsUp(SystemHistory(t))
  <2>1. Since(t) \in SUBSET {u \in Uuids : run[u] # NoRun}
    BY DEF Since
  <2> QED
    BY <2>1, HistoryAddsUp DEF SystemHistory
<1> QED
  BY <1>1, <1>2, <1>3 DEF RunsAddUp

\* Whatever the machines report, and when, their tables keep their types.
THEOREM ReportsTyped == ReportSpec => []ReportTypeOK
<1>1. ReportInit => ReportTypeOK
  BY ReportInitTyped
<1>2. ReportTypeOK /\ [ReportNext]_reportVars => ReportTypeOK'
  BY ReportStepTyped
<1> QED
  BY <1>1, <1>2, PTL DEF ReportSpec

\* Whatever the machines report, a dashboard that shows numbers counts each run
\* once, whatever the date, and that of the administrator always shows them.
THEOREM RunsAlwaysAddUp == ReportSpec => []RunsAddUp
<1>1. ReportTypeOK => RunsAddUp
  BY TypedRunsAddUp
<1> QED
  BY <1>1, ReportsTyped, PTL

-----------------------------------------------------------------------------
(* The parser of libraries *)

Less == {p \in Nat \X Nat : p[1] < p[2]}

\* A set of numbers has a least one: the only induction needed below.
LEMMA LeastOf ==
  ASSUME NEW S, S \subseteq Nat, S # {}
  PROVE  \E i \in S : \A j \in S : i <= j
<1>1. IsWellFoundedOn(Less, Nat)
  BY NatLessThanWellFounded DEF OpToRel, Less
<1>2. PICK i \in S : \A j \in S : <<j, i>> \notin Less
  <2> HIDE DEF Less
  <2> QED
    BY <1>1, WFMin
<1>3. ASSUME NEW j \in S PROVE i <= j
  <2>1. i \in Nat /\ j \in Nat /\ <<j, i>> \notin Less
    BY <1>2
  <2>2. ~(j < i)
    BY <2>1, <<j, i>> \in Nat \X Nat, Zenon DEF Less
  <2> QED
    BY <2>1, <2>2
<1> QED
  BY <1>3

\* First finds the first line of one of the kinds, or the end of the file.
LEMMA FirstFound ==
  ASSUME NEW t \in Seq(LineKinds), NEW i \in Nat, NEW kinds
  PROVE  /\ First(t, i, kinds) \in 1..(Len(t) + 1)
         /\ First(t, i, kinds) <= Len(t) =>
              i <= First(t, i, kinds) /\ First(t, i, kinds) \in LinesOf(t, kinds)
         /\ \A m \in LinesOf(t, kinds) : i <= m => First(t, i, kinds) <= m
<1> DEFINE S == {Len(t) + 1} \union {m \in LinesOf(t, kinds) : m >= i}
           P(j) == \A m \in LinesOf(t, kinds) : m >= i => j <= m
<1>1. Len(t) \in Nat /\ LinesOf(t, kinds) \subseteq 1..Len(t)
  BY DEF LinesOf
<1>2. S \subseteq 1..(Len(t) + 1) /\ S # {} /\ S \subseteq Nat
  BY <1>1
<1>3. \E j \in S : P(j)
  <2> HIDE DEF S
  <2>1. PICK j \in S : \A k \in S : j <= k
    BY <1>2, LeastOf
  <2> QED
    BY <2>1 DEF S
<1>4. First(t, i, kinds) = CHOOSE j \in S : P(j)
  BY DEF First
<1>5. First(t, i, kinds) \in S /\ P(First(t, i, kinds))
  <2> HIDE DEF S, P
  <2> QED
    BY <1>3, <1>4
<1> QED
  BY <1>1, <1>2, <1>5

\* The lines before line i that turn.
Turns(t, i) == {m \in LinesOf(t, Turning) : m < i}

\* A line that turns begins or ends a string; no other does.
LEMMA StringStep ==
  ASSUME NEW t \in Seq(LineKinds), NEW i \in 1..Len(t), NEW j, j = i + 1
  PROVE  /\ t[i] \in Turning => (InString(t, j) <=> ~InString(t, i))
         /\ t[i] \notin Turning => (InString(t, j) <=> InString(t, i))
<1>1. IsFiniteSet(Turns(t, i)) /\ Cardinality(Turns(t, i)) \in Nat
  <2>1. Turns(t, i) \subseteq 1..Len(t) /\ Len(t) \in Nat
    BY DEF Turns, LinesOf
  <2>2. IsFiniteSet(1..Len(t))
    BY <2>1, FS_Interval
  <2> HIDE DEF Turns
  <2> QED
    BY <2>1, <2>2, FS_Subset, FS_CardinalityType
<1>2. CASE t[i] \in Turning
  <2>1. Turns(t, j) = Turns(t, i) \union {i} /\ i \notin Turns(t, i)
    BY <1>2 DEF Turns, LinesOf
  <2>2. Cardinality(Turns(t, j)) = Cardinality(Turns(t, i)) + 1
    BY <1>1, <2>1, FS_AddElement
  <2>3. (Cardinality(Turns(t, i)) + 1) % 2 = 1 <=> ~(Cardinality(Turns(t, i)) % 2 = 1)
    BY <1>1
  <2> QED
    BY <1>2, <2>2, <2>3 DEF InString, Turns
<1>3. CASE t[i] \notin Turning
  <2>1. Turns(t, j) = Turns(t, i)
    BY <1>3 DEF Turns, LinesOf
  <2> QED
    BY <1>3, <2>1 DEF InString, Turns
<1> QED
  BY <1>2, <1>3

\* With no turn in between two lines are both in a string or both outside.
LEMMA SameString ==
  ASSUME NEW t \in Seq(LineKinds), NEW i \in Nat, NEW j \in Nat, i <= j,
         \A m \in LinesOf(t, Turning) : ~(i <= m /\ m < j)
  PROVE  InString(t, i) <=> InString(t, j)
<1>1. Turns(t, i) = Turns(t, j)
  BY DEF Turns, LinesOf
<1> QED
  BY <1>1 DEF InString, Turns

\* Where docstrings are plain the parser finds the one below a method or class, but
\* for the lines that have quotes, and goes on behind it.
LEMMA DocstringFound ==
  ASSUME NEW t \in Seq(LineKinds), PlainDocstrings(t),
         NEW c \in LinesOf(t, IsDef \union {"class"})
  PROVE  /\ Docstring(t, c) = Inside(t, StringAfter(t, c))
         /\ Body(t, c) \in Nat /\ c < Body(t, c)
         /\ \A m \in LinesOf(t, IsDef \union {"class"}) : c < m => Body(t, c) <= m
<1>1. /\ Len(t) \in Nat /\ c \in 1..Len(t) /\ t[c] \in IsDef \union {"class"}
      /\ \A m \in 1..Len(t) : t[m] \in LineKinds
  BY DEF LinesOf
<1>2. ~InString(t, c) /\ ~InString(t, c + 1)
  <2>1. ~InString(t, c) /\ t[c] \notin Turning
    BY <1>1 DEF PlainDocstrings, IsDef, Turning
  <2> QED
    BY <1>1, <2>1, StringStep
<1>3. CASE ~HasDocstring(t, c)
  <2>1. StringAfter(t, c) = {}
    BY <1>1, <1>3 DEF StringAfter, HasDocstring
  <2> QED
    BY <1>1, <1>3, <2>1 DEF Docstring, Body, LinesOf, Inside
<1>4. CASE HasDocstring(t, c)
  <2> DEFINE k == First(t, c + 2, Closing)
             j == First(t, c + 2, Turning)
  <2>1. c + 1 \in 1..Len(t) /\ t[c + 1] \in {"quote", "ahead"}
    BY <1>1, <1>4 DEF HasDocstring, Opening, PlainDocstrings
  <2>2. InString(t, c + 2)
    <3>1. c + 2 = (c + 1) + 1 /\ t[c + 1] \in Turning
      BY <1>1, <2>1 DEF Turning
    <3> QED
      BY <1>2, <2>1, <3>1, StringStep
  <2>3. /\ k \in 1..(Len(t) + 1)
        /\ k <= Len(t) => c + 2 <= k /\ k \in LinesOf(t, Closing)
        /\ \A m \in LinesOf(t, Closing) : c + 2 <= m => k <= m
    BY <1>1, FirstFound
  <2>4. /\ j \in 1..(Len(t) + 1)
        /\ j <= Len(t) => c + 2 <= j /\ j \in LinesOf(t, Turning)
        /\ \A m \in LinesOf(t, Turning) : c + 2 <= m => j <= m
    BY <1>1, FirstFound
  <2> HIDE DEF k, j
  <2>5. \A n \in (c + 2)..j : InString(t, n)
    <3> SUFFICES ASSUME NEW n \in (c + 2)..j PROVE InString(t, n)
      OBVIOUS
    <3>1. \A m \in LinesOf(t, Turning) : ~(c + 2 <= m /\ m < n)
      BY <1>1, <2>4 DEF LinesOf
    <3> QED
      BY <1>1, <2>2, <2>4, <3>1, SameString
  <2>6. j <= Len(t) /\ j \in 1..Len(t)
    <3>1. CASE j = Len(t) + 1
      BY <1>1, <2>1, <2>5, <3>1 DEF PlainDocstrings
    <3> QED
      BY <1>1, <2>4, <3>1
  <2>7. t[j] \in Closing /\ t[j] \in Turning /\ InString(t, j)
    <3>1. InString(t, j) /\ t[j] \in Turning
      BY <1>1, <2>4, <2>5, <2>6 DEF LinesOf
    <3> QED
      BY <2>6, <3>1 DEF PlainDocstrings, Turning, Closing
  <2>8. k = j
    <3>1. k <= j
      BY <2>3, <2>4, <2>6, <2>7 DEF LinesOf
    <3>2. k \in 1..Len(t) /\ InString(t, k) /\ t[k] \in Closing
      BY <1>1, <2>3, <2>5, <2>6, <3>1 DEF LinesOf
    <3>3. t[k] \in Turning
      BY <3>2 DEF PlainDocstrings, Turning, Closing
    <3>4. k \in LinesOf(t, Turning)
      BY <3>2, <3>3 DEF LinesOf
    <3> QED
      BY <1>1, <2>3, <2>4, <2>6, <3>1, <3>2, <3>4
  <2>9. ~InString(t, k + 1)
    BY <2>6, <2>7, <2>8, StringStep
  <2>10. ASSUME NEW m \in (c + 2)..(k - 1)
         PROVE  m \in 1..Len(t) /\ t[m] = "words" /\ \A n \in (c + 2)..m : InString(t, n)
    <3>1. m \in 1..Len(t) /\ m \notin LinesOf(t, Closing) /\ InString(t, m)
      BY <1>1, <2>3, <2>5, <2>6, <2>8
    <3>2. t[m] = "words"
      BY <3>1 DEF LinesOf, Closing, PlainDocstrings
    <3> QED
      BY <1>1, <2>5, <2>6, <2>8, <3>1, <3>2
  <2>11. Docstring(t, c) = Inside(t, StringAfter(t, c))
    <3>1. ASSUME NEW m \in Inside(t, StringAfter(t, c)) PROVE m \in (c + 2)..(k - 1)
      <4>1. /\ m \in 1..Len(t) /\ c < m /\ t[m] \notin Opening \union Closing
            /\ \A n \in (c + 2)..m : InString(t, n)
        BY <3>1 DEF StringAfter, Inside
      <4>2. m # c + 1 /\ m # k
        BY <2>1, <2>7, <2>8, <4>1 DEF Opening
      <4>3. ~(k < m)
        BY <1>1, <2>3, <2>6, <2>8, <2>9, <4>1
      <4> QED
        BY <1>1, <2>3, <2>6, <2>8, <4>1, <4>2, <4>3
    <3>2. ASSUME NEW m \in (c + 2)..(k - 1) PROVE m \in Inside(t, StringAfter(t, c))
      <4>1. t[m] \notin Opening \union Closing /\ t[m] # "quote" /\ c < m
        BY <1>1, <2>6, <2>8, <2>10 DEF Opening, Closing
      <4> QED
        BY <1>4, <2>10, <4>1 DEF StringAfter, Inside, HasDocstring
    <3> QED
      BY <1>4, <3>1, <3>2 DEF Docstring, k
  <2>12. Body(t, c) = k + 1
    BY <1>4 DEF Body, k
  <2>13. ASSUME NEW m \in LinesOf(t, IsDef \union {"class"}), c < m PROVE k + 1 <= m
    <3>1. m \in 1..Len(t) /\ t[m] \in IsDef \union {"class"}
      BY <2>13 DEF LinesOf
    <3>2. m # c + 1 /\ m # k /\ m \notin (c + 2)..(k - 1)
      BY <2>1, <2>7, <2>8, <2>10, <3>1 DEF IsDef, Closing
    <3> QED
      BY <1>1, <2>3, <2>6, <2>8, <2>13, <3>1, <3>2
  <2>14. k + 1 \in Nat /\ c < k + 1
    BY <1>1, <2>3, <2>6, <2>8
  <2> QED
    BY <2>11, <2>12, <2>13, <2>14
<1> QED
  BY <1>3, <1>4

ParserSpec == ParserInit /\ [][ParserNext]_text

\* Whatever lines a file is written from, it is a sequence of lines within its bound.
THEOREM ParserTyped == ParserSpec => []ParserTypeOK
<1>1. ParserInit => ParserTypeOK
  BY LinesAssumption DEF ParserInit, ParserTypeOK
<1>2. ParserTypeOK /\ [ParserNext]_text => ParserTypeOK'
  BY LinesAssumption DEF ParserNext, WriteLine, ParserTypeOK
<1> QED
  BY <1>1, <1>2, PTL DEF ParserSpec

\* The method below a decorator is the first line after it of any kinds that the
\* method is of, unless comments are among them.
LEMMA DecoratedFirst ==
  ASSUME NEW t \in Seq(LineKinds), NEW d, NEW m, Decorates(t, d, m),
         NEW kinds, m \in LinesOf(t, kinds), "words" \notin kinds
  PROVE  m = First(t, d + 1, kinds)
<1>1. /\ d \in 1..Len(t) /\ m \in 1..Len(t) /\ d < m
      /\ \A i \in (d + 1)..(m - 1) : t[i] = "words"
      /\ Len(t) \in Nat
  BY DEF Decorates, CodeOf, LinesOf
<1> DEFINE f == First(t, d + 1, kinds)
<1>2. /\ f \in 1..(Len(t) + 1)
      /\ f <= Len(t) => d + 1 <= f /\ f \in LinesOf(t, kinds)
      /\ \A i \in LinesOf(t, kinds) : d + 1 <= i => f <= i
  BY <1>1, FirstFound
<1> HIDE DEF f
<1>3. d + 1 <= f /\ f <= m /\ f \in LinesOf(t, kinds)
  BY <1>1, <1>2
<1>4. t[f] # "words"
  BY <1>3 DEF LinesOf
<1>5. f = m
  BY <1>1, <1>2, <1>3, <1>4
<1> QED
  BY <1>5 DEF f

\* In every file in which docstrings are plain and each decorator stands before a
\* method with its parameters on one line, the parser finds just the decorated
\* methods, each with its own docstring but for the lines that have quotes: of any
\* length.
THEOREM ParserFindsKeywords == ParserSpec => []KeywordsAsPython
<1>1. ASSUME NEW t \in Seq(LineKinds), PlainDocstrings(t),
             \A d \in LinesOf(t, {"decorator"}) :
               \E m \in LinesOf(t, Matched) : Decorates(t, d, m)
      PROVE  Keywords(t) = BetweenQuotes(t, PythonKeywords(t))
  <2> DEFINE M(d) == First(t, d + 1, IsDef)
             Found(d, m) == [at |-> d, method |-> m, docstring |-> Docstring(t, m)]
             Its(d, m) == [at |-> d, method |-> m, docstring |-> StringAfter(t, m)]
  <2>1. ASSUME NEW d, NEW m, Decorates(t, d, m)
        PROVE  /\ d \in LinesOf(t, {"decorator"}) /\ d \in 1..Len(t) /\ m \in 1..Len(t)
               /\ m = M(d) /\ m \in LinesOf(t, Matched)
               /\ Docstring(t, m) = Inside(t, StringAfter(t, m))
    <3>1. d \in LinesOf(t, {"decorator"}) /\ m \in LinesOf(t, PythonDef)
      BY <2>1 DEF Decorates, CodeOf
    <3>2. PICK n \in LinesOf(t, Matched) : Decorates(t, d, n)
      BY <1>1, <3>1
    <3>3. n \in LinesOf(t, IsDef) /\ n \in LinesOf(t, PythonDef)
      BY DEF LinesOf, Matched, PythonDef
    <3>4. "words" \notin IsDef /\ "words" \notin PythonDef
      BY DEF IsDef, PythonDef
    <3>5. m = First(t, d + 1, PythonDef) /\ n = First(t, d + 1, PythonDef) /\ n = M(d)
      BY <2>1, <3>1, <3>2, <3>3, <3>4, DecoratedFirst
    <3>6. m \in LinesOf(t, IsDef \union {"class"})
      BY <3>3, <3>5 DEF LinesOf
    <3> QED
      BY <1>1, <3>1, <3>2, <3>5, <3>6, DocstringFound DEF LinesOf
  <2>2. ASSUME NEW d, NEW m, Decorates(t, d, m)
        PROVE  Found(d, m) = [Its(d, m) EXCEPT !.docstring = Inside(t, @)]
    BY <2>1, <2>2
  <2>3. ASSUME NEW x \in Keywords(t) PROVE x \in BetweenQuotes(t, PythonKeywords(t))
    <3>1. PICK d \in LinesOf(t, {"decorator"}) : x = Found(d, M(d))
      BY <2>3 DEF Keywords
    <3>2. PICK m \in LinesOf(t, Matched) : Decorates(t, d, m)
      BY <1>1
    <3>3. x = Found(d, m)
      BY <2>1, <3>1, <3>2
    <3>4. <<d, m>> \in {q \in (1..Len(t)) \X (1..Len(t)) : Decorates(t, q[1], q[2])}
      BY <2>1, <3>2
    <3>5. Its(d, m) \in PythonKeywords(t)
      BY <3>4 DEF PythonKeywords
    <3> QED
      BY <2>2, <3>2, <3>3, <3>5 DEF BetweenQuotes
  <2>4. ASSUME NEW x \in BetweenQuotes(t, PythonKeywords(t)) PROVE x \in Keywords(t)
    <3>1. PICK y \in PythonKeywords(t) :
            x = [y EXCEPT !.docstring = Inside(t, @)]
      BY <2>4 DEF BetweenQuotes
    <3>2. PICK p \in (1..Len(t)) \X (1..Len(t)) :
            Decorates(t, p[1], p[2]) /\ y = Its(p[1], p[2])
      BY <3>1 DEF PythonKeywords
    <3>3. x = Found(p[1], p[2])
      BY <2>2, <3>1, <3>2
    <3>4. /\ p[1] \in LinesOf(t, {"decorator"}) /\ M(p[1]) \in LinesOf(t, Matched)
          /\ x = Found(p[1], M(p[1]))
      BY <2>1, <3>2, <3>3
    <3> QED
      BY <3>4 DEF Keywords
  <2> QED
    BY <2>3, <2>4
<1>2. ParserTypeOK => KeywordsAsPython
  BY <1>1 DEF ParserTypeOK, KeywordsAsPython
<1> QED
  BY <1>2, ParserTyped, PTL

\* In every file in which docstrings are plain, methods are not asynchronous,
\* parameters are on one line and no class is inside another, the parser finds the
\* classes with their methods and docstrings, but for the lines that have quotes.
THEOREM ParserFindsClasses == ParserSpec => []ClassesAsPython
<1>1. ASSUME NEW t \in Seq(LineKinds), PlainDocstrings(t),
             LinesOf(t, {"wrapped", "async", "inner"}) = {}
      PROVE  Classes(t) = BetweenQuotes(t, PythonClasses(t))
  <2> DEFINE Mine(c) == {m \in LinesOf(t, Matched) :
                           Body(t, c) <= m /\ m < First(t, Body(t, c), {"class"})}
             Its(c) == {m \in CodeOf(t, PythonDef) :
                          c < m /\ \A d \in CodeOf(t, {"class"}) : ~(c < d /\ d < m)}
  <2>1. /\ Len(t) \in Nat
        /\ LinesOf(t, {"class", "inner"}) = LinesOf(t, {"class"})
        /\ CodeOf(t, {"class"}) = LinesOf(t, {"class"})
        /\ LinesOf(t, Matched) = CodeOf(t, PythonDef)
    BY <1>1 DEF LinesOf, CodeOf, Matched, IsDef, PythonDef, PlainDocstrings
  <2>2. ASSUME NEW c \in LinesOf(t, {"class"})
        PROVE  Docstring(t, c) = Inside(t, StringAfter(t, c)) /\ Mine(c) = Its(c)
    <3> DEFINE b == Body(t, c)
               f == First(t, b, {"class"})
    <3>1. /\ Docstring(t, c) = Inside(t, StringAfter(t, c))
          /\ b \in Nat /\ c < b
          /\ \A m \in LinesOf(t, IsDef \union {"class"}) : c < m => b <= m
      <4>1. c \in LinesOf(t, IsDef \union {"class"})
        BY DEF LinesOf
      <4> QED
        BY <1>1, <4>1, DocstringFound
    <3> HIDE DEF b
    <3>2. /\ f \in 1..(Len(t) + 1)
          /\ f <= Len(t) => b <= f /\ f \in LinesOf(t, {"class"})
          /\ \A m \in LinesOf(t, {"class"}) : b <= m => f <= m
      BY <3>1, FirstFound
    <3> HIDE DEF f
    <3>3. \A m \in LinesOf(t, Matched) : m \in 1..Len(t) /\ (c < m => b <= m)
      BY <3>1 DEF LinesOf, Matched
    <3>4. \A d \in LinesOf(t, {"class"}) : d \in 1..Len(t) /\ (c < d => b <= d)
      BY <3>1 DEF LinesOf
    <3>5. ASSUME NEW m \in LinesOf(t, Matched)
          PROVE  b <= m /\ m < f <=>
                   c < m /\ \A d \in LinesOf(t, {"class"}) : ~(c < d /\ d < m)
      <4>1. m # f \/ f = Len(t) + 1
        BY <3>2 DEF LinesOf, Matched, IsDef
      <4>2. ASSUME b <= m, m < f, NEW d \in LinesOf(t, {"class"}), c < d, d < m PROVE FALSE
        BY <2>1, <3>2, <3>3, <3>4, <4>2
      <4>3. ASSUME c < m, f < m PROVE \E d \in LinesOf(t, {"class"}) : c < d /\ d < m
        BY <2>1, <3>1, <3>2, <3>3, <3>4, <4>3
      <4> QED
        BY <2>1, <3>1, <3>2, <3>3, <3>4, <4>1, <4>2, <4>3
    <3>6. Mine(c) = {m \in LinesOf(t, Matched) : b <= m /\ m < f}
      BY DEF b, f
    <3>7. Its(c) = {m \in LinesOf(t, Matched) :
                      c < m /\ \A d \in LinesOf(t, {"class"}) : ~(c < d /\ d < m)}
      BY <2>1
    <3> HIDE DEF Mine, Its
    <3> QED
      BY <3>1, <3>5, <3>6, <3>7
  <2> DEFINE Row(c) == [class |-> c, docstring |-> Docstring(t, c), methods |-> Mine(c)]
             ItsRow(c) == [class |-> c, docstring |-> StringAfter(t, c), methods |-> Its(c)]
             Left(x) == [x EXCEPT !.docstring = Inside(t, @)]
  <2>3. ASSUME NEW c \in LinesOf(t, {"class"}) PROVE Row(c) = Left(ItsRow(c))
    <3>1. Docstring(t, c) = Inside(t, StringAfter(t, c)) /\ Mine(c) = Its(c)
      BY <2>2
    <3> HIDE DEF Mine, Its
    <3> QED
      BY <3>1
  <2>4. Classes(t) = {Row(c) : c \in LinesOf(t, {"class", "inner"})}
    BY Zenon DEF Classes
  <2>5. PythonClasses(t) = {ItsRow(c) : c \in CodeOf(t, {"class"})}
    BY Zenon DEF PythonClasses
  <2>6. BetweenQuotes(t, PythonClasses(t)) = {Left(x) : x \in PythonClasses(t)}
    BY DEF BetweenQuotes
  <2> HIDE DEF Row, ItsRow, Left
  <2> QED
    BY <2>1, <2>3, <2>4, <2>5, <2>6
<1>2. ParserTypeOK => ClassesAsPython
  BY <1>1 DEF ParserTypeOK, ClassesAsPython
<1> QED
  BY <1>2, ParserTyped, PTL
=============================================================================
