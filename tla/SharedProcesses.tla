---------------------------- MODULE SharedProcesses ----------------------------
(***************************************************************************)
(* TeamProcessesService, WorkspaceProcessesService and the comments of     *)
(* ProcessesService: the process of a team or a workspace, in the tables   *)
(* of ProcessVersions, many of whose steps they share.                     *)
(*                                                                         *)
(* A team looks its process up without its owner, so that members other    *)
(* than the one who has the copy make versions of it.  Clients may call    *)
(* what the role of the user permits.                                      *)
(***************************************************************************)
EXTENDS ProcessVersions

VARIABLE comments \* the versions that were commented on

sharedVars == <<copy, version, doc, legacy, req, comments>>

\* What the body of an update may hold: a diagram or, as it is documented, none.
Bodies == Contents \union IF "noXml" \in Calls THEN {NoContent} ELSE {}

Holders == {u \in Users : Has(u)}

\* Comments go with the version, and with any copy of the process.
Cascade ==
  comments' = IF \E u \in Holders : copy'[u] = NoCopy THEN {}
              ELSE {i \in comments : version'[i] # NoVersion}

-----------------------------------------------------------------------------
(* Processes of a team *)

\* createProcess saves the row with the number 1, one that is there as well.
CreateTeamProcess(r, u, c) ==
  /\ copy' = [copy EXCEPT ![u] = [number |-> 1, shared |-> Has(u) /\ @.shared]]
  /\ Begin(r, MakeVersion(u, c, "client"))
  /\ UNCHANGED <<version, doc, legacy>>

\* updateProcess by u of the copy of w; `caller` tells whether the body has only
\* a name and a description.
UpdateTeamProcess(r, u, w, c, caller) ==
  /\ Has(w)
  /\ copy[w].number < MaxVersion
  /\ Begin(r, [Call("renameSave", u) EXCEPT !.to = w, !.number = copy[w].number,
                                            !.content = c, !.caller = caller])
  /\ UNCHANGED stores

\* save writes back the row that was read, and its number with it.
SaveRow(w, n) ==
  copy' = [copy EXCEPT ![w] = [number |-> n, shared |-> Has(w) /\ @.shared]]

RenameSave(r) ==
  /\ req[r].at = "renameSave"
  /\ SaveRow(req[r].to, req[r].number)
  /\ IF req[r].caller = "rename" THEN Finish(r) ELSE Advance(r, "numberSave")
  /\ UNCHANGED <<version, doc, legacy>>

NumberSave(r) ==
  /\ req[r].at = "numberSave"
  /\ SaveRow(req[r].to, req[r].number + 1)
  /\ Advance(r, "teamClear")
  /\ UNCHANGED <<version, doc, legacy>>

TeamClear(r) ==
  /\ req[r].at = "teamClear"
  /\ version' = [i \in VersionIds |-> [version[i] EXCEPT !.current = FALSE]]
  /\ Advance(r, "teamInsert")
  /\ UNCHANGED <<copy, doc, legacy>>

\* Fault: the new version is not marked.
TeamInsertUnmarked(r) ==
  /\ req[r].at = "teamInsert"
  /\ \E i \in FreshVersion :
       /\ version' = [version EXCEPT ![i] = [by |-> req[r].user, current |-> FALSE]]
       /\ Go(r, [req[r] EXCEPT !.at = "teamDocInsert", !.id = i])
  /\ UNCHANGED <<copy, doc, legacy>>

TeamInsert(r) ==
  /\ req[r].at = "teamInsert"
  /\ \E i \in FreshVersion :
       /\ version' = [version EXCEPT ![i] = [by |-> req[r].user, current |-> TRUE]]
       /\ Go(r, [req[r] EXCEPT !.at = "teamDocInsert", !.id = i])
  /\ UNCHANGED <<copy, doc, legacy>>

\* Fault: the document has the number before.
TeamDocInsertBehind(r) ==
  /\ req[r].at = "teamDocInsert"
  /\ LET u == req[r].user
         n == req[r].number
     IN  doc' = IF HasDoc(u, n) \/ req[r].content = NoContent THEN doc
                ELSE [doc EXCEPT ![u][n] = NewDoc(r)]
  /\ Finish(r)
  /\ UNCHANGED <<copy, version, legacy>>

\* The document is the updating user's.  One without a diagram is refused like
\* one whose key is taken; nothing is undone then.
TeamDocInsert(r) ==
  /\ req[r].at = "teamDocInsert"
  /\ LET u == req[r].user
         n == req[r].number + 1
     IN  doc' = IF HasDoc(u, n) \/ req[r].content = NoContent THEN doc
                ELSE [doc EXCEPT ![u][n] = NewDoc(r)]
  /\ Finish(r)
  /\ UNCHANGED <<copy, version, legacy>>

DeleteTeamProcess(r, w) ==
  /\ Has(w)
  /\ Begin(r, Call("rowRemove", w))
  /\ UNCHANGED stores

RowRemove(r) ==
  /\ req[r].at = "rowRemove"
  /\ copy' = [copy EXCEPT ![req[r].user] = NoCopy]
  /\ Advance(r, "teamDocsDelete")
  /\ UNCHANGED <<version, doc, legacy>>

\* The versions' rows stay in a team.
DocsDelete(r) ==
  /\ req[r].at \in {"docsDelete", "teamDocsDelete"}
  /\ doc' = [u \in Users |-> [n \in Numbers |-> NoDoc]]
  /\ IF req[r].at = "docsDelete" THEN Advance(r, "versionsDelete") ELSE Finish(r)
  /\ UNCHANGED <<copy, version, legacy>>

-----------------------------------------------------------------------------
(* Processes of a workspace.  saveProcess is that of ProcessVersions.      *)

\* A failed version does not undo the creation.
CreateWorkspaceProcess(r, u, c) ==
  /\ SaveCopy(u, FALSE)
  /\ Begin(r, MakeVersion(u, c, "client"))
  /\ UNCHANGED <<version, doc, legacy>>

\* Fault: the rows go before the documents.
DeleteWorkspaceProcessRowsFirst(r, u) ==
  /\ Has(u)
  /\ Begin(r, Call("rowRemove", u))
  /\ UNCHANGED stores

\* Everybody's documents, versions and copies are deleted, in this order, as
\* soon as the row that is found first is the caller's.
DeleteWorkspaceProcess(r, u) ==
  /\ Has(u)
  /\ Begin(r, Call("docsDelete", u))
  /\ UNCHANGED stores

VersionsDelete(r) ==
  /\ req[r].at = "versionsDelete"
  /\ version' = [i \in VersionIds |-> NoVersion]
  /\ Advance(r, "copiesDelete")
  /\ UNCHANGED <<copy, doc, legacy>>

CopiesDelete(r) ==
  /\ req[r].at = "copiesDelete"
  /\ copy' = [u \in Users |-> NoCopy]
  /\ Finish(r)
  /\ UNCHANGED <<version, doc, legacy>>

\* shareProcess with the members of a list, one after the other, oneself perhaps.
ShareInWorkspace(r, u, w) ==
  /\ Has(u)
  /\ ~copy[u].shared
  /\ Begin(r, [Call("copySave", u) EXCEPT !.to = w, !.number = copy[u].number])
  /\ UNCHANGED stores

\* On to the next member of the list, or the answer.
NextMember(r) ==
  \/ Finish(r)
  \/ \E w \in Users : Go(r, [req[r] EXCEPT !.at = "copySave", !.to = w])

CopySave(r) ==
  /\ req[r].at = "copySave"
  /\ copy' = [copy EXCEPT ![req[r].to] = [number |-> req[r].number, shared |-> TRUE]]
  /\ Advance(r, "copyRead")
  /\ UNCHANGED <<version, doc, legacy>>

CopyRead(r) ==
  /\ req[r].at = "copyRead"
  /\ LET d == doc[req[r].user][req[r].number]
     IN  IF d = NoDoc THEN NextMember(r)
         ELSE Go(r, [req[r] EXCEPT !.at = "copyInsert", !.id = d.id,
                                   !.content = d.content])
  /\ UNCHANGED stores

\* An exception counts as a member who could not be reached.
CopyInsert(r) ==
  /\ req[r].at = "copyInsert"
  /\ LET w == req[r].to
         n == req[r].number
     IN  doc' = IF HasDoc(w, n) THEN doc ELSE [doc EXCEPT ![w][n] = NewDoc(r)]
  /\ NextMember(r)
  /\ UNCHANGED <<copy, version, legacy>>

-----------------------------------------------------------------------------
(* Comments *)

AddComment(r) ==
  /\ Holders # {}
  /\ Begin(r, [Idle EXCEPT !.at = "commentFind"])
  /\ UNCHANGED stores

\* Without a current version the key of null is read, an exception.
CommentFind(r) ==
  /\ req[r].at = "commentFind"
  /\ \/ \E i \in VersionIds :
          /\ version[i].current
          /\ Go(r, [req[r] EXCEPT !.at = "commentSave", !.id = i])
     \/ (\A i \in VersionIds : ~version[i].current) /\ Finish(r)
  /\ UNCHANGED stores

CommentSave(r) ==
  /\ req[r].at = "commentSave"
  /\ LET i == req[r].id
     IN  comments' = IF version[i] # NoVersion /\ Holders # {}
                     THEN comments \union {i} ELSE comments
  /\ Finish(r)
  /\ UNCHANGED stores

-----------------------------------------------------------------------------

SharedInit == Init /\ comments = {}

SharedArrival(r) ==
  \/ Arrival(r)
  \/ \E u \in Users :
       \/ "deleteTeamProcess" \in Calls /\ DeleteTeamProcess(r, u)
       \/ "deleteWorkspaceProcess" \in Calls /\ DeleteWorkspaceProcess(r, u)
       \/ \E c \in Contents :
            \/ "createTeamProcess" \in Calls /\ Holders = {} /\ CreateTeamProcess(r, u, c)
            \/ "repeatTeamProcess" \in Calls /\ CreateTeamProcess(r, u, c)
            \/ "createWorkspaceProcess" \in Calls /\ CreateWorkspaceProcess(r, u, c)
       \/ \E w \in Users, c \in Bodies, caller \in {"rename", "client"} :
            "updateTeamProcess" \in Calls /\ UpdateTeamProcess(r, u, w, c, caller)
       \/ \E w \in Users : "shareInWorkspace" \in Calls /\ ShareInWorkspace(r, u, w)
  \/ "addComment" \in Calls /\ AddComment(r)

SharedStep(r) ==
  \/ Step(r)
  \/ RenameSave(r) \/ NumberSave(r) \/ TeamClear(r) \/ TeamInsert(r) \/ TeamDocInsert(r)
  \/ RowRemove(r) \/ DocsDelete(r) \/ VersionsDelete(r) \/ CopiesDelete(r)
  \/ CopySave(r) \/ CopyRead(r) \/ CopyInsert(r)
  \/ CommentFind(r)

\* A failure in the loop of shareProcess leaves out one member.
MemberFails(r) ==
  /\ "error" \in Fails
  /\ req[r].at \in {"copySave", "copyRead", "copyInsert"}
  /\ NextMember(r)
  /\ UNCHANGED stores

SharedFail(r) ==
  \/ req[r].at \notin {"copySave", "copyRead", "copyInsert"} /\ Fail(r)
  \/ MemberFails(r)

SharedNext ==
  \/ \E r \in Requests :
       \/ (SharedArrival(r) \/ SharedStep(r) \/ SharedFail(r)) /\ Cascade
       \/ CommentSave(r)
  \/ Crash /\ UNCHANGED comments

SharedSpec == SharedInit /\ [][SharedNext]_sharedVars

-----------------------------------------------------------------------------

\* The stores hold values of their types, and comments have their version.
SharedTypeOK == TypeOK /\ comments \subseteq {i \in VersionIds : version[i] # NoVersion}

\* With requests served one by one and no failure, getProcess of a team finds
\* the document of the process, whoever made the version.
TeamReadable ==
  Quiet => \A w \in Holders : \E u \in Users : HasDoc(u, copy[w].number)

\* With requests served one by one and no failure, there is a version for the
\* next comment on the process to belong to.
Commentable == Quiet /\ Holders # {} => \E i \in VersionIds : version[i].current

\* In a workspace documents never outlive the process, wherever requests fail
\* and the server stops: nothing would delete them, and their keys refuse a new
\* process of that id.
DocsHaveRow == (\E u \in Users, n \in Numbers : HasDoc(u, n)) => Holders # {}
=============================================================================
