--------------------------- MODULE ProcessVersions ---------------------------
(***************************************************************************)
(* ProcessesService: the copies that users hold of one process, and their  *)
(* versions.                                                               *)
(*                                                                         *)
(* A copy is a row of the MySQL table process with a version number.  A    *)
(* version is a row of process_version, shared by all copies and marked as *)
(* current or not, and a MongoDB document that holds its content under the *)
(* key user.process.number.  Nothing makes the two databases change        *)
(* together, and the handlers interleave at every await.                   *)
(***************************************************************************)
EXTENDS Naturals

CONSTANTS Users,      \* accounts
          NoUser,     \* "no user", not an account
          Contents,   \* what the diagram of a process may be
          NoContent,  \* "no content", not one of them
          VersionIds, \* primary keys of process_version rows
          MaxVersion, \* bound on the version number of a copy
          Legacy,     \* users whose copy was made before there were versions
          Requests,   \* requests the server may be serving at one time
          Calls,      \* the operations clients call in a run
          Fails       \* what may go wrong in a run: "error", "crash"

ASSUME NoUserAssumption == NoUser \notin Users
ASSUME NoContentAssumption == NoContent \notin Contents
ASSUME IdAssumption == VersionIds \subseteq Nat \ {0}
ASSUME BoundAssumption == MaxVersion \in Nat \ {0}
ASSUME LegacyAssumption == Legacy \subseteq Users

VARIABLES copy,    \* process: the copy of each user
          version, \* process_version
          doc,     \* documents of versions, by user and number
          legacy,  \* documents from before there were versions, by user
          req      \* the requests in flight

stores == <<copy, version, doc, legacy>>
vars == <<copy, version, doc, legacy, req>>

Numbers == 0..MaxVersion

NoCopy == [number |-> MaxVersion + 1, shared |-> FALSE]
Copy == [number: Numbers, shared: BOOLEAN]

NoVersion == [by |-> NoUser, current |-> FALSE]
Version == [by: Users, current: BOOLEAN]

NoDoc == [id |-> 0, content |-> NoContent]
Doc == [id: VersionIds, content: Contents]

-----------------------------------------------------------------------------
(* Requests *)

\* Control points of createProcessVersion, the ones in its try block first.
Guarded == {"docInsert", "versionSave", "copyUpdate"}
Making == Guarded \union {"versionRead", "versionClear", "versionInsert",
                          "versionDrop"}

\* Those of the handlers of SharedProcesses.
SharedLabels == {"renameSave", "numberSave", "teamClear", "teamInsert",
                 "teamDocInsert", "rowRemove", "teamDocsDelete",
                 "docsDelete", "versionsDelete", "copiesDelete",
                 "copySave", "copyRead", "copyInsert", "commentFind", "commentSave"}

Labels == {"idle", "copyDrop", "legacyRead", "legacyDelete", "docSave",
           "docDelete", "shareRead", "shareSave", "currentRead",
           "versionDocDelete", "versionDelete"} \union Making \union SharedLabels

\* The locals of a request: the user whose copy it works on, the user it
\* shares to, the version number and the key it has read, the content it is to
\* save, and what called createProcessVersion.
Request == [at: Labels, user: Users \union {NoUser}, to: Users \union {NoUser},
            number: Numbers, id: VersionIds \union {0},
            content: Contents \union {NoContent},
            caller: {"client", "create", "share", "get", "rename"}]

Idle == [at |-> "idle", user |-> NoUser, to |-> NoUser, number |-> 0, id |-> 0,
         content |-> NoContent, caller |-> "client"]

Call(l, u) == [Idle EXCEPT !.at = l, !.user = u]

\* A call of createProcessVersion.
MakeVersion(u, c, caller) ==
  [Call("versionRead", u) EXCEPT !.content = c, !.caller = caller]

Free(r) == req[r].at = "idle"
Go(r, call) == req' = [req EXCEPT ![r] = call]
Begin(r, call) == Free(r) /\ Go(r, call)
Advance(r, l) == Go(r, [req[r] EXCEPT !.at = l])
Finish(r) == Go(r, Idle)

\* The server dies and with it every request it was serving.
Die == req' = [r \in Requests |-> Idle]

\* The end of a request that failed.  Nobody awaits the copy that sharing makes:
\* its exception is an unhandled rejection, which ends the Node.js process.
GiveUp(r) == IF req[r].caller = "share" THEN Die ELSE Finish(r)

\* An exception: createProcessVersion catches one of its try block, deletes the
\* version row and throws another; a creation catches that one, deletes the
\* copy and throws again.
Raise(r) ==
  LET q == req[r]
      undone == q.at \in Making \ Guarded /\ q.caller \in {"create", "share"}
  IN  \/ q.at \in Guarded /\ Advance(r, "versionDrop")
      \/ undone /\ Advance(r, "copyDrop")
      \/ q.at \notin Guarded /\ ~undone /\ GiveUp(r)

-----------------------------------------------------------------------------
(* Lookups *)

Has(u) == copy[u] # NoCopy
HasDoc(u, n) == doc[u][n] # NoDoc

\* The least key that no row, no document and no request mentions.
FreshVersion ==
  LET free == {i \in VersionIds : /\ version[i] = NoVersion
                                  /\ \A u \in Users, n \in Numbers : doc[u][n].id # i
                                  /\ \A q \in Requests : req[q].id # i}
  IN  {i \in free : \A j \in free : i <= j}

-----------------------------------------------------------------------------
(* createProcessVersion *)

VersionRead(r) ==
  /\ req[r].at = "versionRead"
  /\ LET u == req[r].user
     IN  IF Has(u)
         THEN /\ copy[u].number < MaxVersion
              /\ Go(r, [req[r] EXCEPT !.at = "versionClear",
                                      !.number = copy[u].number])
         ELSE Raise(r)
  /\ UNCHANGED stores

\* Fault: the versions are left as they are.
VersionClearNothing(r) ==
  /\ req[r].at = "versionClear"
  /\ Advance(r, "versionInsert")
  /\ UNCHANGED stores

\* The update names the process and not the user: it clears the mark of
\* everybody's versions.
VersionClear(r) ==
  /\ req[r].at = "versionClear"
  /\ version' = [i \in VersionIds |-> [version[i] EXCEPT !.current = FALSE]]
  /\ Advance(r, "versionInsert")
  /\ UNCHANGED <<copy, doc, legacy>>

VersionInsert(r) ==
  /\ req[r].at = "versionInsert"
  /\ \E i \in FreshVersion :
       /\ version' = [version EXCEPT ![i] = [by |-> req[r].user, current |-> TRUE]]
       /\ Go(r, [req[r] EXCEPT !.at = "docInsert", !.id = i])
  /\ UNCHANGED <<copy, doc, legacy>>

NewDoc(r) == [id |-> req[r].id, content |-> req[r].content]

\* Fault: the document is written whether or not its key is taken.
DocUpsert(r) ==
  /\ req[r].at = "docInsert"
  /\ doc' = [doc EXCEPT ![req[r].user][req[r].number + 1] = NewDoc(r)]
  /\ Advance(r, "versionSave")
  /\ UNCHANGED <<copy, version, legacy>>

\* Fault: the document gets the number that was read.
DocInsertOffByOne(r) ==
  /\ req[r].at = "docInsert"
  /\ LET u == req[r].user
         n == req[r].number
     IN  IF HasDoc(u, n)
         THEN Raise(r) /\ UNCHANGED doc
         ELSE /\ doc' = [doc EXCEPT ![u][n] = NewDoc(r)]
              /\ Advance(r, "versionSave")
  /\ UNCHANGED <<copy, version, legacy>>

\* MongoDB refuses a second document with the same key.
DocInsert(r) ==
  /\ req[r].at = "docInsert"
  /\ LET u == req[r].user
         n == req[r].number + 1
     IN  IF HasDoc(u, n)
         THEN Raise(r) /\ UNCHANGED doc
         ELSE /\ doc' = [doc EXCEPT ![u][n] = NewDoc(r)]
              /\ Advance(r, "versionSave")
  /\ UNCHANGED <<copy, version, legacy>>

\* save of the version row again: it inserts the row if it is gone, and marks
\* it as current if another request has cleared the mark.
VersionSave(r) ==
  /\ req[r].at = "versionSave"
  /\ version' = [version EXCEPT ![req[r].id] = [by |-> req[r].user, current |-> TRUE]]
  /\ Advance(r, "copyUpdate")
  /\ UNCHANGED <<copy, doc, legacy>>

\* The number read at the start, plus one, is written whatever it is by now.
CopyUpdate(r) ==
  /\ req[r].at = "copyUpdate"
  /\ LET u == req[r].user
     IN  copy' = IF Has(u) THEN [copy EXCEPT ![u].number = req[r].number + 1]
                           ELSE copy
  /\ IF req[r].caller = "get" THEN Advance(r, "legacyDelete") ELSE Finish(r)
  /\ UNCHANGED <<version, doc, legacy>>

VersionDrop(r) ==
  /\ req[r].at = "versionDrop"
  /\ version' = [version EXCEPT ![req[r].id] = NoVersion]
  /\ Raise(r)
  /\ UNCHANGED <<copy, doc, legacy>>

-----------------------------------------------------------------------------
(* createProcess and createProcessAllParams.  The client chooses the id of *)
(* the process: save updates a copy that is there, whose number stays.     *)

\* Fault: save puts a copy without versions in the place of the one there.
SaveCopyAnew(u, shared) == copy' = [copy EXCEPT ![u] = [number |-> 0, shared |-> shared]]

SaveCopy(u, shared) ==
  copy' = [copy EXCEPT ![u] =
             IF Has(u) THEN [copy[u] EXCEPT !.shared = @ \/ shared]
                       ELSE [number |-> 0, shared |-> shared]]

CreateProcess(r, u, c) ==
  /\ SaveCopy(u, FALSE)
  /\ Begin(r, MakeVersion(u, c, "create"))
  /\ UNCHANGED <<version, doc, legacy>>

\* The end of deleteProcess, and of a creation whose version failed, whether
\* or not the copy was there before.
CopyDrop(r) ==
  /\ req[r].at = "copyDrop"
  /\ copy' = [copy EXCEPT ![req[r].user] = NoCopy]
  /\ GiveUp(r)
  /\ UNCHANGED <<version, doc, legacy>>

\* deleteProcess deletes the document of the number it has read; those of
\* other versions, and every version row, stay.
DeleteProcess(r, u) ==
  /\ Has(u)
  /\ Begin(r, [Call("docDelete", u) EXCEPT !.number = copy[u].number])
  /\ UNCHANGED stores

DocDelete(r) ==
  /\ req[r].at \in {"docDelete", "versionDocDelete"}
  /\ doc' = [doc EXCEPT ![req[r].user][req[r].number] = NoDoc]
  /\ Advance(r, IF req[r].at = "docDelete" THEN "copyDrop" ELSE "versionDelete")
  /\ UNCHANGED <<copy, version, legacy>>

-----------------------------------------------------------------------------
(* getProcess turns a document from before there were versions into one.   *)

GetProcess(r, u) ==
  /\ Has(u)
  /\ Begin(r, Call("legacyRead", u))
  /\ UNCHANGED stores

LegacyRead(r) ==
  /\ req[r].at = "legacyRead"
  /\ LET c == legacy[req[r].user]
     IN  IF c # NoContent THEN Go(r, MakeVersion(req[r].user, c, "get")) ELSE Finish(r)
  /\ UNCHANGED stores

LegacyDelete(r) ==
  /\ req[r].at = "legacyDelete"
  /\ legacy' = [legacy EXCEPT ![req[r].user] = NoContent]
  /\ Finish(r)
  /\ UNCHANGED <<copy, version, doc>>

-----------------------------------------------------------------------------
(* saveProcess: an update of the document, which does nothing when there   *)
(* is none.                                                                *)

\* Fault: the first version is the one that is saved.
SaveProcessFirst(r, u, c) ==
  /\ Has(u)
  /\ Begin(r, [Call("docSave", u) EXCEPT !.number = 1, !.content = c])
  /\ UNCHANGED stores

SaveProcess(r, u, c) ==
  /\ Has(u)
  /\ Begin(r, [Call("docSave", u) EXCEPT !.number = copy[u].number, !.content = c])
  /\ UNCHANGED stores

DocSave(r) ==
  /\ req[r].at = "docSave"
  /\ LET u == req[r].user
         n == req[r].number
     IN  doc' = IF HasDoc(u, n) THEN [doc EXCEPT ![u][n].content = req[r].content]
                                ELSE doc
  /\ Finish(r)
  /\ UNCHANGED <<copy, version, legacy>>

-----------------------------------------------------------------------------
(* shareProcess.  The creation of the copy is not awaited: it goes on after *)
(* the answer.  Nothing refuses to share with oneself.                      *)

ShareProcess(r, u, w) ==
  /\ Has(u)
  /\ ~copy[u].shared
  /\ Begin(r, [Call("shareRead", u) EXCEPT !.to = w, !.number = copy[u].number])
  /\ UNCHANGED stores

ShareRead(r) ==
  /\ req[r].at = "shareRead"
  /\ LET d == doc[req[r].user][req[r].number]
     IN  IF d # NoDoc
         THEN Go(r, [req[r] EXCEPT !.at = "shareSave", !.content = d.content,
                                   !.caller = "share"])
         ELSE Finish(r)
  /\ UNCHANGED stores

ShareSave(r) ==
  /\ req[r].at = "shareSave"
  /\ SaveCopy(req[r].to, TRUE)
  /\ Go(r, MakeVersion(req[r].to, req[r].content, "share"))
  /\ UNCHANGED <<version, doc, legacy>>

-----------------------------------------------------------------------------
(* Versions made by a client, from the current one, or from an older one.  *)

NewVersion(r, u, c) ==
  /\ Begin(r, MakeVersion(u, c, "client"))
  /\ UNCHANGED stores

\* createProcessVersionFromCurrent, the first step of publishing a robot.
VersionFromCurrent(r, u) ==
  /\ Has(u)
  /\ Begin(r, [Call("currentRead", u) EXCEPT !.number = copy[u].number])
  /\ UNCHANGED stores

\* Fault: nobody looks whether the document was found.
CurrentReadUnchecked(r) ==
  /\ req[r].at = "currentRead"
  /\ LET u == req[r].user
     IN  Go(r, MakeVersion(u, doc[u][req[r].number].content, "client"))
  /\ UNCHANGED stores

CurrentRead(r) ==
  /\ req[r].at = "currentRead"
  /\ LET u == req[r].user
         d == doc[u][req[r].number]
     IN  IF d # NoDoc THEN Go(r, MakeVersion(u, d.content, "client")) ELSE Finish(r)
  /\ UNCHANGED stores

\* Anybody's version may be restored: the lookups name neither the user nor,
\* for the version, the process.
RestoreVersion(r, u, i) ==
  /\ \E w \in Users : Has(w)
  /\ version[i] # NoVersion
  /\ \E w \in Users, n \in Numbers :
       /\ doc[w][n].id = i
       /\ Begin(r, MakeVersion(u, doc[w][n].content, "client"))
  /\ UNCHANGED stores

\* deleteProcessVersion deletes anybody's version, the current one as well.
DeleteVersion(r, u, i) ==
  /\ Has(u)
  /\ version[i] # NoVersion
  /\ LET kept == {d \in Users \X Numbers : doc[d[1]][d[2]].id = i}
     IN  \/ /\ kept = {}
            /\ Begin(r, [Call("versionDelete", NoUser) EXCEPT !.id = i])
         \/ \E d \in kept :
              Begin(r, [Call("versionDocDelete", d[1]) EXCEPT !.number = d[2],
                                                             !.id = i])
  /\ UNCHANGED stores

VersionDelete(r) ==
  /\ req[r].at = "versionDelete"
  /\ version' = [version EXCEPT ![req[r].id] = NoVersion]
  /\ Finish(r)
  /\ UNCHANGED <<copy, doc, legacy>>

-----------------------------------------------------------------------------

\* A query of the request fails.
Fail(r) ==
  /\ "error" \in Fails
  /\ ~Free(r)
  /\ Raise(r)
  /\ UNCHANGED stores

Crash ==
  /\ "crash" \in Fails
  /\ Die
  /\ UNCHANGED stores

Init ==
  /\ copy = [u \in Users |-> IF u \in Legacy THEN [number |-> 1, shared |-> FALSE]
                                             ELSE NoCopy]
  /\ version = [i \in VersionIds |-> NoVersion]
  /\ doc = [u \in Users |-> [n \in Numbers |-> NoDoc]]
  /\ legacy \in [Users -> Contents \union {NoContent}]
  /\ \A u \in Users : legacy[u] # NoContent <=> u \in Legacy
  /\ req = [r \in Requests |-> Idle]

Arrival(r) ==
  \E u \in Users :
    \/ "deleteProcess" \in Calls /\ DeleteProcess(r, u)
    \/ "getProcess" \in Calls /\ GetProcess(r, u)
    \/ "createRobot" \in Calls /\ VersionFromCurrent(r, u)
    \/ \E c \in Contents :
         \/ "createProcess" \in Calls /\ CreateProcess(r, u, c)
         \/ "saveProcess" \in Calls /\ SaveProcess(r, u, c)
         \/ "createProcessVersion" \in Calls /\ NewVersion(r, u, c)
    \/ \E w \in Users : "shareProcess" \in Calls /\ ShareProcess(r, u, w)
    \/ \E i \in VersionIds :
         \/ "restoreProcessVersion" \in Calls /\ RestoreVersion(r, u, i)
         \/ "deleteProcessVersion" \in Calls /\ DeleteVersion(r, u, i)

Step(r) ==
  \/ VersionRead(r) \/ VersionClear(r) \/ VersionInsert(r) \/ DocInsert(r)
  \/ VersionSave(r) \/ CopyUpdate(r) \/ VersionDrop(r)
  \/ CopyDrop(r) \/ DocDelete(r)
  \/ LegacyRead(r) \/ LegacyDelete(r)
  \/ DocSave(r)
  \/ ShareRead(r) \/ ShareSave(r)
  \/ CurrentRead(r)
  \/ VersionDelete(r)

Next ==
  \/ \E r \in Requests : Arrival(r) \/ Step(r) \/ Fail(r)
  \/ Crash

Spec == Init /\ [][Next]_vars

-----------------------------------------------------------------------------

\* The stores hold values of their types.
TypeOK ==
  /\ copy \in [Users -> Copy \union {NoCopy}]
  /\ version \in [VersionIds -> Version \union {NoVersion}]
  /\ doc \in [Users -> [Numbers -> Doc \union {NoDoc}]]
  /\ legacy \in [Users -> Contents \union {NoContent}]
  /\ req \in [Requests -> Request]

\* As long as nothing is deleted, the number of a copy only grows: that a
\* request writes a number it has read long before does no harm, because the
\* key of its document kept every other request from passing it.
NumberNeverFalls ==
  [][\A u \in Users :
       Has(u) /\ copy'[u] # NoCopy => copy[u].number <= copy'[u].number]_vars

\* As long as nothing is deleted, each version that a copy counts has its
\* document and its row, wherever requests failed.
VersionsComplete ==
  \A u \in Users, n \in Numbers \ {0} :
    /\ Has(u) /\ n <= copy[u].number
    /\ u \in Legacy => n > 1
    => HasDoc(u, n) /\ version[doc[u][n].id] # NoVersion

\* What a client sees of the stores: the content of each version, and the number
\* of each copy.
History == INSTANCE VersionHistory WITH
  history <- [u \in Users |-> [n \in 1..MaxVersion |-> doc[u][n].content]],
  shown <- [u \in Users |-> IF Has(u) THEN copy[u].number ELSE 0]

\* As long as nothing is deleted, the versions of each user are a
\* VersionHistory: one after the other, shown once they are complete, and edited
\* only when they are shown, whatever fails between the two databases.
IsVersionHistory == History!Spec

Quiet == \A r \in Requests : Free(r)

\* With requests served one by one, at most one version is marked as current.
OneCurrent ==
  \A i, j \in VersionIds : version[i].current /\ version[j].current => i = j

\* With requests served one by one and no failure, the version marked as
\* current is the one its author is editing.
CurrentIsEdited ==
  \A i \in VersionIds :
    LET u == version[i].by
    IN  Quiet /\ version[i].current /\ Has(u) => doc[u][copy[u].number].id = i

\* With requests served one by one, a document behind the number of its copy
\* is not written any more, only deleted.
HistoryFrozen ==
  [][\A u \in Users, n \in Numbers :
       Has(u) /\ n < copy[u].number /\ HasDoc(u, n)
         => doc'[u][n] \in {doc[u][n], NoDoc}]_vars
=============================================================================
