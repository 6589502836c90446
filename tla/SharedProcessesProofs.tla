------------------------ MODULE SharedProcessesProofs ------------------------
(***************************************************************************)
(* Proofs about SharedProcesses: types for all its operations, wherever    *)
(* requests fail and interleave; what a workspace keeps of a process that  *)
(* is deleted; and what members of a team find, one request at a time.     *)
(***************************************************************************)
EXTENDS SharedProcesses, ProcessVersionsProofs

-----------------------------------------------------------------------------
(* Types *)

SharedTypeInv == TypeInv /\ SharedTypeOK

LEMMA TypedStores ==
  ASSUME TypeInv, NEW r \in Requests
  PROVE  /\ copy \in [Users -> Copy \union {NoCopy}]
         /\ version \in [VersionIds -> Version \union {NoVersion}]
         /\ doc \in [Users -> [Numbers -> Doc \union {NoDoc}]]
         /\ legacy \in [Users -> Contents \union {NoContent}]
         /\ req[r] \in Request /\ Needs(req[r])
BY DEF TypeInv, TypeOK

\* The row that save writes, new or again.
LEMMA SharedRow ==
  ASSUME NEW u, NEW n \in Numbers
  PROVE  [number |-> n, shared |-> Has(u) /\ copy[u].shared] \in Copy
BY DEF Copy

LEMMA NoDocs == [u \in Users |-> [n \in Numbers |-> NoDoc]] \in [Users -> [Numbers -> Doc \union {NoDoc}]]
OBVIOUS

LEMMA NewDocTyped ==
  ASSUME NEW r \in Requests, req[r].id \in VersionIds, req[r].content \in Contents
  PROVE  NewDoc(r) \in Doc /\ NewDoc(r) # NoDoc /\ NewDoc(r).id = req[r].id
BY NoDocKey DEF NewDoc, Doc, NoDoc

\* A version that is put into its row.
LEMMA InsertTyped ==
  ASSUME TypeInv, NEW i, NEW u \in Users, NEW c \in BOOLEAN,
         version' = [version EXCEPT ![i] = [by |-> u, current |-> c]]
  PROVE  version' \in [VersionIds -> Version \union {NoVersion}]
<1>1. [by |-> u, current |-> c] \in Version
  BY DEF Version
<1> QED
  BY <1>1 DEF TypeInv, TypeOK

LEMMA ClearTyped ==
  ASSUME TypeInv, version' = [i \in VersionIds |-> [version[i] EXCEPT !.current = FALSE]]
  PROVE  version' \in [VersionIds -> Version \union {NoVersion}]
<1>1. ASSUME NEW v \in Version \union {NoVersion}
      PROVE  [v EXCEPT !.current = FALSE] \in Version \union {NoVersion}
  BY <1>1, NothingToClear DEF Version
<1> QED
  BY <1>1 DEF TypeInv, TypeOK

LEMMA SharedArrivalTyped ==
  ASSUME TypeInv, NEW r \in Requests, SharedArrival(r)
  PROVE  TypeInv'
<1> USE DEF Needs, Making, Guarded, Knowing, Holding
<1>a. /\ copy \in [Users -> Copy \union {NoCopy}]
      /\ \A u \in Users : Has(u) => copy[u].number \in Numbers
  BY Lookups DEF TypeInv, TypeOK, Copy
<1>1. CASE Arrival(r)
  BY <1>1, ArrivalTyped
<1>2. ASSUME NEW u \in Users, NEW l \in {"rowRemove", "docsDelete"}, Begin(r, Call(l, u)),
             UNCHANGED stores
      PROVE  TypeInv'
  <2>1. Call(l, u) \in Request /\ Call(l, u).at = l /\ Call(l, u).user = u
    BY CallTyped DEF Labels, SharedLabels
  <2> QED
    BY <1>2, <2>1, BeginTyped
<1>3. ASSUME NEW u \in Users, NEW c \in Contents, CreateTeamProcess(r, u, c) PROVE TypeInv'
  <2>1. 1 \in Numbers
    BY BoundAssumption DEF Numbers
  <2>2. copy' \in [Users -> Copy \union {NoCopy}]
    BY <1>3, <1>a, <2>1, SharedRow DEF CreateTeamProcess
  <2> QED
    BY <1>3, <2>2, MakeVersionTyped, StepTyped, TypedStores DEF CreateTeamProcess, Begin, Go
<1>4. ASSUME NEW u \in Users, NEW c \in Contents, CreateWorkspaceProcess(r, u, c) PROVE TypeInv'
  BY <1>4, SaveCopyTyped, MakeVersionTyped, StepTyped, TypedStores
  DEF CreateWorkspaceProcess, Begin, Go
<1>5. ASSUME NEW u \in Users, NEW w \in Users, NEW c \in Bodies,
             NEW caller \in {"rename", "client"}, UpdateTeamProcess(r, u, w, c, caller)
      PROVE  TypeInv'
  <2> DEFINE p == Call("renameSave", u)
             q == [p EXCEPT !.to = w, !.number = copy[w].number, !.content = c,
                            !.caller = caller]
  <2>1. copy[w].number \in Numbers /\ copy[w].number < MaxVersion
    BY <1>5, <1>a DEF UpdateTeamProcess
  <2>2. p \in Request /\ p.at = "renameSave" /\ p.user = u
    BY CallTyped DEF Labels, SharedLabels
  <2>3. c \in Contents \union {NoContent}
    BY DEF Bodies
  <2>4. Begin(r, q)
    BY <1>5 DEF UpdateTeamProcess
  <2> HIDE DEF p
  <2>5. q \in Request /\ q.at = "renameSave" /\ q.user = u /\ q.to = w
        /\ q.number = copy[w].number
    BY <2>1, <2>2, <2>3 DEF Request
  <2> QED
    BY <1>5, <2>1, <2>4, <2>5, BeginTyped DEF UpdateTeamProcess
<1>6. ASSUME NEW u \in Users, NEW w \in Users, ShareInWorkspace(r, u, w) PROVE TypeInv'
  <2> DEFINE p == Call("copySave", u)
             q == [p EXCEPT !.to = w, !.number = copy[u].number]
  <2>1. copy[u].number \in Numbers
    BY <1>6, <1>a DEF ShareInWorkspace
  <2>2. p \in Request /\ p.at = "copySave" /\ p.user = u
    BY CallTyped DEF Labels, SharedLabels
  <2>3. Begin(r, q)
    BY <1>6 DEF ShareInWorkspace
  <2> HIDE DEF p
  <2>4. q \in Request /\ q.at = "copySave" /\ q.user = u /\ q.to = w
    BY <2>1, <2>2 DEF Request
  <2> QED
    BY <1>6, <2>3, <2>4, BeginTyped DEF ShareInWorkspace
<1>7. CASE AddComment(r)
  <2> DEFINE q == [Idle EXCEPT !.at = "commentFind"]
  <2>1. q \in Request /\ q.at = "commentFind"
    BY IdleTyped DEF Request, Labels, SharedLabels
  <2> QED
    BY <1>7, <2>1, BeginTyped DEF AddComment
<1> QED
  BY <1>1, <1>2, <1>3, <1>4, <1>5, <1>6, <1>7
  DEF SharedArrival, DeleteTeamProcess, DeleteWorkspaceProcess

\* The end of one member's turn in shareProcess.
LEMMA NextMemberTyped ==
  ASSUME TypeInv, NEW r \in Requests, NextMember(r),
         req[r].at \in {"copySave", "copyRead", "copyInsert"},
         doc' \in [Users -> [Numbers -> Doc \union {NoDoc}]],
         UNCHANGED <<copy, version, legacy>>
  PROVE  TypeInv'
<1>a. req[r] \in Request /\ req[r].user \in Users
  BY TypedStores DEF Needs
<1>1. CASE Finish(r)
  BY <1>1, FinishTyped, TypedStores
<1>2. ASSUME NEW w \in Users, Go(r, [req[r] EXCEPT !.at = "copySave", !.to = w])
      PROVE  TypeInv'
  <2> DEFINE q == [req[r] EXCEPT !.at = "copySave", !.to = w]
  <2>1. q \in Request /\ q.at = "copySave" /\ q.user = req[r].user /\ q.to = w
    BY <1>a DEF Request, Labels, SharedLabels
  <2>2. Needs(q)
    BY <1>a, <2>1 DEF Needs, Making, Guarded, Knowing, Holding
  <2> QED
    BY <1>2, <2>1, <2>2, StepTyped, TypedStores DEF Go
<1> QED
  BY <1>1, <1>2 DEF NextMember

LEMMA SharedStepTyped ==
  ASSUME TypeInv, NEW r \in Requests, SharedStep(r)
  PROVE  TypeInv'
<1> DEFINE q == req[r]
<1>a. q \in Request /\ Needs(q) /\ q.number \in Numbers /\ Numbers \subseteq Nat
  BY TypedStores, BoundAssumption DEF Request, Numbers
<1>b. /\ copy \in [Users -> Copy \union {NoCopy}]
      /\ version \in [VersionIds -> Version \union {NoVersion}]
      /\ doc \in [Users -> [Numbers -> Doc \union {NoDoc}]]
      /\ legacy \in [Users -> Contents \union {NoContent}]
  BY TypedStores
<1>c. ASSUME NEW l \in Labels
      PROVE  LET p == [q EXCEPT !.at = l]
             IN  p.at = l /\ p.user = q.user /\ p.to = q.to /\ p.number = q.number
                 /\ p.id = q.id /\ p.content = q.content
  BY <1>a, MoveTyped
<1> USE DEF Needs, Making, Guarded, Knowing, Holding, Labels, SharedLabels
<1>1. CASE Step(r)
  BY <1>1, MakingTyped, OtherStepTyped DEF Step
<1>2. CASE RenameSave(r)
  <2>1. copy' \in [Users -> Copy \union {NoCopy}]
    BY <1>2, <1>a, <1>b, SharedRow DEF RenameSave, SaveRow
  <2>2. CASE Finish(r)
    BY <1>2, <1>b, <2>1, <2>2, FinishTyped DEF RenameSave
  <2>3. CASE Advance(r, "numberSave")
    <3>1. Needs([q EXCEPT !.at = "numberSave"])
      BY <1>2, <1>a, <1>c DEF RenameSave
    <3> QED
      BY <1>2, <1>b, <2>1, <2>3, <3>1, AdvanceTyped DEF RenameSave
  <2> QED
    BY <1>2, <2>2, <2>3 DEF RenameSave
<1>3. CASE NumberSave(r)
  <2>1. q.number + 1 \in Numbers
    BY <1>3, <1>a, BoundAssumption DEF NumberSave, Numbers
  <2>2. copy' \in [Users -> Copy \union {NoCopy}]
    BY <1>3, <1>a, <1>b, <2>1, SharedRow DEF NumberSave, SaveRow
  <2>3. Needs([q EXCEPT !.at = "teamClear"])
    BY <1>3, <1>a, <1>c DEF NumberSave
  <2> QED
    BY <1>3, <1>b, <2>2, <2>3, AdvanceTyped DEF NumberSave
<1>4. CASE TeamClear(r)
  <2>1. version' \in [VersionIds -> Version \union {NoVersion}]
    BY <1>4, ClearTyped DEF TeamClear
  <2>2. Needs([q EXCEPT !.at = "teamInsert"])
    BY <1>4, <1>a, <1>c DEF TeamClear
  <2> QED
    BY <1>4, <1>b, <2>1, <2>2, AdvanceTyped DEF TeamClear
<1>5. CASE TeamInsert(r)
  <2>1. PICK i \in FreshVersion :
          /\ version' = [version EXCEPT ![i] = [by |-> q.user, current |-> TRUE]]
          /\ Go(r, [q EXCEPT !.at = "teamDocInsert", !.id = i])
    BY <1>5 DEF TeamInsert
  <2> DEFINE p == [q EXCEPT !.at = "teamDocInsert", !.id = i]
  <2>2. i \in VersionIds
    BY DEF FreshVersion
  <2>3. p \in Request /\ p.at = "teamDocInsert" /\ p.id = i /\ p.user = q.user
        /\ p.number = q.number
    BY <1>a, <2>2 DEF Request
  <2>4. Needs(p)
    BY <1>5, <1>a, <2>2, <2>3 DEF TeamInsert
  <2>5. version' \in [VersionIds -> Version \union {NoVersion}]
    BY <1>5, <1>a, <2>1, InsertTyped DEF TeamInsert
  <2> QED
    BY <1>5, <1>b, <2>1, <2>3, <2>4, <2>5, StepTyped DEF TeamInsert, Go
<1>6. CASE TeamDocInsert(r)
  <2>1. doc' \in [Users -> [Numbers -> Doc \union {NoDoc}]]
    <3>1. CASE q.content = NoContent
      BY <1>6, <1>b, <3>1 DEF TeamDocInsert
    <3>2. CASE q.content # NoContent
      <4>1. q.id \in VersionIds /\ q.content \in Contents
        BY <1>6, <1>a, <3>2 DEF TeamDocInsert, Request
      <4>2. NewDoc(r) \in Doc
        BY <4>1, NewDocTyped
      <4> QED
        BY <1>6, <1>b, <4>2 DEF TeamDocInsert
    <3> QED
      BY <3>1, <3>2
  <2> QED
    BY <1>6, <1>b, <2>1, FinishTyped DEF TeamDocInsert
<1>7. CASE RowRemove(r)
  <2>1. Needs([q EXCEPT !.at = "teamDocsDelete"])
    BY <1>7, <1>a, <1>c DEF RowRemove
  <2> QED
    BY <1>7, <1>b, <2>1, AdvanceTyped DEF RowRemove
<1>8. CASE DocsDelete(r)
  <2>1. doc' \in [Users -> [Numbers -> Doc \union {NoDoc}]]
    BY <1>8 DEF DocsDelete
  <2>2. CASE Finish(r)
    BY <1>8, <1>b, <2>1, <2>2, FinishTyped DEF DocsDelete
  <2>3. CASE q.at = "docsDelete" /\ Advance(r, "versionsDelete")
    <3>1. Needs([q EXCEPT !.at = "versionsDelete"])
      BY <2>3, <1>a, <1>c
    <3> QED
      BY <1>8, <1>b, <2>1, <2>3, <3>1, AdvanceTyped DEF DocsDelete
  <2> QED
    BY <1>8, <2>2, <2>3 DEF DocsDelete
<1>9. CASE VersionsDelete(r)
  <2>1. Needs([q EXCEPT !.at = "copiesDelete"])
    BY <1>9, <1>a, <1>c DEF VersionsDelete
  <2>2. version' \in [VersionIds -> Version \union {NoVersion}]
    BY <1>9 DEF VersionsDelete
  <2> QED
    BY <1>9, <1>b, <2>1, <2>2, AdvanceTyped DEF VersionsDelete
<1>10. CASE CopiesDelete(r)
  <2>1. copy' \in [Users -> Copy \union {NoCopy}]
    BY <1>10 DEF CopiesDelete
  <2> QED
    BY <1>10, <1>b, <2>1, FinishTyped DEF CopiesDelete
<1>11. CASE CopySave(r)
  <2>1. [number |-> q.number, shared |-> TRUE] \in Copy
    BY <1>a DEF Copy
  <2>2. copy' \in [Users -> Copy \union {NoCopy}]
    BY <1>11, <1>b, <2>1 DEF CopySave
  <2>3. Needs([q EXCEPT !.at = "copyRead"])
    BY <1>11, <1>a, <1>c DEF CopySave
  <2> QED
    BY <1>11, <1>b, <2>2, <2>3, AdvanceTyped DEF CopySave
<1>12. CASE CopyRead(r)
  <2> DEFINE d == doc[q.user][q.number]
             p == [q EXCEPT !.at = "copyInsert", !.id = d.id, !.content = d.content]
  <2>1. CASE d = NoDoc
    BY <1>12, <1>b, <2>1, NextMemberTyped DEF CopyRead, stores
  <2>2. CASE d # NoDoc
    <3>1. d \in Doc
      BY <1>12, <1>a, <1>b, <2>2 DEF CopyRead
    <3> HIDE DEF d
    <3>2. p \in Request /\ p.at = "copyInsert" /\ p.id = d.id /\ p.content = d.content
          /\ p.user = q.user /\ p.to = q.to
      BY <1>a, <3>1 DEF Request, Doc
    <3>3. Needs(p)
      BY <1>12, <1>a, <3>1, <3>2 DEF CopyRead, Doc
    <3>4. Go(r, p)
      BY <1>12, <2>2 DEF CopyRead, d
    <3> QED
      BY <1>12, <3>2, <3>3, <3>4, QuietTyped DEF CopyRead
  <2> QED
    BY <2>1, <2>2
<1>13. CASE CopyInsert(r)
  <2>1. NewDoc(r) \in Doc
    BY <1>13, <1>a, NewDocTyped DEF CopyInsert
  <2>2. doc' \in [Users -> [Numbers -> Doc \union {NoDoc}]]
    BY <1>13, <1>b, <2>1 DEF CopyInsert
  <2> QED
    BY <1>13, <2>2, NextMemberTyped DEF CopyInsert
<1>14. CASE CommentFind(r)
  <2>1. CASE Finish(r)
    BY <1>14, <1>b, <2>1, FinishTyped DEF CommentFind, stores
  <2>2. ASSUME NEW i \in VersionIds, Go(r, [q EXCEPT !.at = "commentSave", !.id = i])
        PROVE  TypeInv'
    <3> DEFINE p == [q EXCEPT !.at = "commentSave", !.id = i]
    <3>1. p \in Request /\ p.at = "commentSave" /\ p.id = i
      BY <1>a DEF Request
    <3>2. Needs(p)
      BY <3>1
    <3> QED
      BY <1>14, <2>2, <3>1, <3>2, QuietTyped DEF CommentFind
  <2> QED
    BY <1>14, <2>1, <2>2 DEF CommentFind
<1> QED
  BY <1>1, <1>2, <1>3, <1>4, <1>5, <1>6, <1>7, <1>8, <1>9, <1>10, <1>11, <1>12, <1>13, <1>14
  DEF SharedStep

LEMMA SharedFailTyped ==
  ASSUME TypeInv, NEW r \in Requests, SharedFail(r)
  PROVE  TypeInv'
<1>1. CASE Fail(r)
  BY <1>1, RaiseTyped, TypedStores DEF Fail, stores
<1>2. CASE MemberFails(r)
  BY <1>2, NextMemberTyped, TypedStores DEF MemberFails, stores
<1> QED
  BY <1>1, <1>2 DEF SharedFail

LEMMA SharedNextTyped ==
  ASSUME SharedTypeInv, [SharedNext]_sharedVars
  PROVE  SharedTypeInv'
<1>a. TypeInv /\ comments \subseteq {i \in VersionIds : version[i] # NoVersion}
  BY DEF SharedTypeInv, SharedTypeOK
<1>b. TypeInv => TypeOK
  BY DEF TypeInv
<1>1. ASSUME NEW r \in Requests, SharedArrival(r) \/ SharedStep(r) \/ SharedFail(r), Cascade
      PROVE  SharedTypeInv'
  <2>1. TypeInv'
    BY <1>a, <1>1, SharedArrivalTyped, SharedStepTyped, SharedFailTyped
  <2>2. comments' \subseteq {i \in VersionIds : version'[i] # NoVersion}
    BY <1>a, <1>1 DEF Cascade
  <2> QED
    BY <2>1, <2>2 DEF SharedTypeInv, SharedTypeOK, TypeInv
<1>2. ASSUME NEW r \in Requests, CommentSave(r) PROVE SharedTypeInv'
  <2>1. TypeInv'
    BY <1>a, <1>2, FinishTyped, TypedStores DEF CommentSave, stores
  <2>2. req[r].id \in VersionIds
    BY <1>a, <1>2, TypedStores DEF CommentSave, Needs
  <2>3. comments' \subseteq {i \in VersionIds : version'[i] # NoVersion}
    BY <1>a, <1>2, <2>2 DEF CommentSave, stores
  <2> QED
    BY <2>1, <2>3 DEF SharedTypeInv, SharedTypeOK, TypeInv
<1>3. CASE Crash /\ UNCHANGED comments
  <2>1. TypeInv'
    BY <1>a, <1>3, DieTyped DEF Crash, stores, TypeInv, TypeOK
  <2> QED
    BY <1>a, <1>3, <2>1 DEF Crash, stores, SharedTypeInv, SharedTypeOK, TypeInv
<1>4. CASE UNCHANGED sharedVars
  BY <1>a, <1>4 DEF sharedVars, SharedTypeInv, SharedTypeOK, TypeInv, TypeOK, Needs
<1> QED
  BY <1>1, <1>2, <1>3, <1>4 DEF SharedNext

\* Processes of teams and workspaces: however requests interleave, wherever they
\* fail and the server dies, the stores hold values of their types and no comment
\* outlives its version.
THEOREM SharedTyped == SharedSpec => []SharedTypeOK
<1>1. SharedInit => SharedTypeInv
  BY InitTyped DEF SharedInit, SharedTypeInv, SharedTypeOK, TypeInv
<1>2. SharedTypeInv /\ [SharedNext]_sharedVars => SharedTypeInv'
  BY SharedNextTyped
<1>3. SharedTypeInv => SharedTypeOK
  BY DEF SharedTypeInv
<1> QED
  BY <1>1, <1>2, <1>3, PTL DEF SharedSpec

-----------------------------------------------------------------------------
(* Where requests go *)

LEMMA AdvanceTo ==
  ASSUME TypeInv, NEW r \in Requests, NEW l \in Labels, Advance(r, l)
  PROVE  LET p == req'[r]
             q == req[r]
         IN  p.at = l /\ p.user = q.user /\ p.to = q.to /\ p.number = q.number
             /\ p.id = q.id /\ p.content = q.content /\ p.caller = q.caller
<1> DEFINE p == [req[r] EXCEPT !.at = l]
<1>1. req'[r] = p
  BY DEF Advance, Go, TypeInv, TypeOK
<1>2. p.at = l /\ p.user = req[r].user /\ p.to = req[r].to /\ p.number = req[r].number
      /\ p.id = req[r].id /\ p.content = req[r].content /\ p.caller = req[r].caller
  BY MoveTyped, TypedStores
<1> QED
  BY <1>1, <1>2

LEMMA GoTo ==
  ASSUME TypeInv, NEW r \in Requests, NEW q, Go(r, q)
  PROVE  req'[r] = q
BY DEF Go, TypeInv, TypeOK

LEMMA FinishTo ==
  ASSUME TypeInv, NEW r \in Requests, Finish(r)
  PROVE  req'[r].at = "idle" /\ req'[r].caller = "client"
BY GoTo DEF Finish, Idle

LEMMA DieTo ==
  ASSUME NEW r \in Requests, Die
  PROVE  req'[r].at = "idle" /\ req'[r].caller = "client"
BY DEF Die, Idle

LEMMA MakeVersionTo ==
  ASSUME TypeInv, NEW r \in Requests, NEW u, NEW c, NEW k, Begin(r, MakeVersion(u, c, k))
  PROVE  /\ req[r].at = "idle"
         /\ LET p == req'[r]
            IN  p.at = "versionRead" /\ p.user = u /\ p.content = c /\ p.caller = k
<1>1. req'[r] = MakeVersion(u, c, k)
  BY GoTo DEF Begin
<1> QED
  BY <1>1 DEF MakeVersion, Call, Idle, Begin, Free

\* A call of a client fails in its try block, or ends.
LEMMA RaiseTo ==
  ASSUME TypeInv, NEW r \in Requests, Raise(r), req[r].caller = "client"
  PROVE  /\ req'[r].caller = "client"
         /\ req'[r].at = IF req[r].at \in Guarded THEN "versionDrop" ELSE "idle"
<1>1. CASE req[r].at \in Guarded
  BY <1>1, AdvanceTo DEF Raise, Labels, Making
<1>2. CASE req[r].at \notin Guarded
  BY <1>2, FinishTo DEF Raise, GiveUp
<1> QED
  BY <1>1, <1>2

\* The number that a version brings never makes a copy look absent.
LEMMA CopyUpdateHas ==
  ASSUME TypeInv, NEW r \in Requests, CopyUpdate(r), NEW u \in Users
  PROVE  /\ copy'[u] # NoCopy <=> copy[u] # NoCopy
         /\ u = req[r].user /\ copy[u] # NoCopy => copy'[u].number = req[r].number + 1
         /\ u # req[r].user => copy'[u] = copy[u]
<1> DEFINE w == req[r].user
           n == req[r].number + 1
           row == [copy[w] EXCEPT !.number = n]
<1>1. w \in Users /\ req[r].number \in Nat /\ req[r].number < MaxVersion
  BY BoundAssumption, TypedStores DEF CopyUpdate, Needs, Knowing, Holding, Guarded, Making, Request,
                                    Numbers
<1>2. ASSUME copy[w] # NoCopy PROVE row.number = n /\ row # NoCopy
  <2>1. copy[w] \in Copy
    BY <1>1, <1>2 DEF TypeInv, TypeOK
  <2>2. row.number = n
    BY <2>1 DEF Copy
  <2>3. n # MaxVersion + 1
    BY <1>1, BoundAssumption
  <2> QED
    BY <2>2, <2>3 DEF NoCopy
<1>3. copy' = IF copy[w] # NoCopy THEN [copy EXCEPT ![w] = row] ELSE copy
  BY DEF CopyUpdate, Has
<1> HIDE DEF row
<1> QED
  BY <1>1, <1>2, <1>3, TypedStores

-----------------------------------------------------------------------------
(* One request at a time, processes of a workspace *)

DocFree == \A u \in Users, n \in Numbers : ~HasDoc(u, n)

\* What clients call about processes of a workspace.
WorkspaceOnly ==
  Calls \subseteq {"createWorkspaceProcess", "repeatTeamProcess", "shareInWorkspace",
                   "deleteWorkspaceProcess", "addComment"}

WorkspacePoints == {"idle", "docsDelete", "versionsDelete", "copiesDelete", "copySave",
                    "copyRead", "copyInsert", "commentFind", "commentSave"} \union Making

\* A document is written next to a row, and the rows go after the documents.
WorkspaceInv(q) ==
  /\ q.at \in WorkspacePoints /\ q.caller = "client"
  /\ Holders # {} \/ DocFree
  /\ q.at \in Making \union {"copyRead", "copyInsert"} => Holders # {}
  /\ q.at \in {"versionsDelete", "copiesDelete"} => DocFree

\* A step that deletes no copy.
LEMMA WorkspaceOn ==
  ASSUME TypeInv, NEW r \in Requests, WorkspaceInv(req[r]),
         Holders # {} => \E u \in Users : copy'[u] # NoCopy,
         doc' = doc \/ (\E u \in Users : copy'[u] # NoCopy),
         req'[r].at \in WorkspacePoints, req'[r].caller = "client",
         req'[r].at \in Making \union {"copyRead", "copyInsert"} =>
           \E u \in Users : copy'[u] # NoCopy,
         req'[r].at \notin {"versionsDelete", "copiesDelete"}
  PROVE  WorkspaceInv(req[r])'
BY DEF WorkspaceInv, Holders, Has, DocFree, HasDoc

LEMMA WorkspaceArrival ==
  ASSUME WorkspaceOnly, TypeInv, NEW r \in Requests, WorkspaceInv(req[r]), SharedArrival(r)
  PROVE  WorkspaceInv(req[r])'
<1> USE DEF WorkspacePoints, Making, Guarded
<1>1. ASSUME NEW u \in Users, NEW c \in Contents, CreateWorkspaceProcess(r, u, c)
      PROVE  WorkspaceInv(req[r])'
  <2>1. req'[r].at = "versionRead" /\ req'[r].caller = "client"
    BY <1>1, MakeVersionTo DEF CreateWorkspaceProcess
  <2>2. copy'[u] # NoCopy
    <3>1. ASSUME Has(u) PROVE copy[u] \in Copy
      BY <3>1, Lookups
    <3>2. copy'[u].number \in Numbers
      BY <1>1, <3>1, BoundAssumption, TypedStores DEF CreateWorkspaceProcess, SaveCopy, Copy, Numbers
    <3> QED
      BY <3>2, BoundAssumption DEF NoCopy, Numbers
  <2> QED
    BY <2>1, <2>2, WorkspaceOn
<1>2. ASSUME NEW u \in Users, NEW c \in Contents, CreateTeamProcess(r, u, c)
      PROVE  WorkspaceInv(req[r])'
  <2>1. req'[r].at = "versionRead" /\ req'[r].caller = "client"
    BY <1>2, MakeVersionTo DEF CreateTeamProcess
  <2>2. copy'[u].number = 1
    BY <1>2, TypedStores DEF CreateTeamProcess
  <2>3. copy'[u] # NoCopy
    BY <2>2, BoundAssumption DEF NoCopy
  <2> QED
    BY <2>1, <2>3, WorkspaceOn
<1>3. ASSUME NEW u \in Users, DeleteWorkspaceProcess(r, u) PROVE WorkspaceInv(req[r])'
  <2>1. req'[r] = Call("docsDelete", u)
    BY <1>3, GoTo DEF DeleteWorkspaceProcess, Begin
  <2>2. req'[r].at = "docsDelete" /\ req'[r].caller = "client"
    BY <2>1 DEF Call, Idle
  <2> QED
    BY <1>3, <2>2, WorkspaceOn DEF DeleteWorkspaceProcess, stores, Holders, Has
<1>4. ASSUME NEW u \in Users, NEW w \in Users, ShareInWorkspace(r, u, w)
      PROVE  WorkspaceInv(req[r])'
  <2>1. req'[r] = [Call("copySave", u) EXCEPT !.to = w, !.number = copy[u].number]
    BY <1>4, GoTo DEF ShareInWorkspace, Begin
  <2>2. req'[r].at = "copySave" /\ req'[r].caller = "client"
    BY <2>1 DEF Call, Idle
  <2> QED
    BY <1>4, <2>2, WorkspaceOn DEF ShareInWorkspace, stores, Holders, Has
<1>5. CASE AddComment(r)
  <2>1. req'[r] = [Idle EXCEPT !.at = "commentFind"]
    BY <1>5, GoTo DEF AddComment, Begin
  <2>2. req'[r].at = "commentFind" /\ req'[r].caller = "client"
    BY <2>1 DEF Idle
  <2> QED
    BY <1>5, <2>2, WorkspaceOn DEF AddComment, stores, Holders, Has
<1> QED
  BY <1>1, <1>2, <1>3, <1>4, <1>5 DEF SharedArrival, Arrival, WorkspaceOnly

\* The next member's turn, or the end.
LEMMA NextMemberTo ==
  ASSUME TypeInv, NEW r \in Requests, req[r].caller = "client", NextMember(r)
  PROVE  req'[r].at \in {"idle", "copySave"} /\ req'[r].caller = "client"
<1>1. ASSUME NEW w \in Users, Go(r, [req[r] EXCEPT !.at = "copySave", !.to = w])
      PROVE  req'[r].at = "copySave" /\ req'[r].caller = "client"
  <2> DEFINE p == [req[r] EXCEPT !.at = "copySave", !.to = w]
  <2>1. p.at = "copySave" /\ p.caller = "client"
    BY TypedStores DEF Request
  <2> QED
    BY <1>1, <2>1, GoTo
<1> QED
  BY <1>1, FinishTo DEF NextMember

LEMMA WorkspaceStep ==
  ASSUME TypeInv, NEW r \in Requests, WorkspaceInv(req[r]), SharedStep(r)
  PROVE  WorkspaceInv(req[r])'
<1> DEFINE q == req[r]
<1>a. q \in Request /\ Needs(q) /\ q.caller = "client" /\ q.number \in Numbers
  BY TypedStores DEF WorkspaceInv, Request
<1>b. Holders # {} => \E u \in Users : copy[u] # NoCopy
  BY DEF Holders, Has
<1> USE DEF WorkspacePoints, Making, Guarded, Labels, SharedLabels
<1>1. CASE VersionRead(r)
  <2>1. CASE Has(q.user)
    <3> DEFINE p == [q EXCEPT !.at = "versionClear", !.number = copy[q.user].number]
    <3>1. p.at = "versionClear" /\ p.caller = "client"
      BY <1>a DEF Request
    <3>2. req'[r] = p
      BY <1>1, <2>1, GoTo DEF VersionRead
    <3> HIDE DEF p
    <3> QED
      BY <1>1, <1>b, <3>1, <3>2, WorkspaceOn DEF VersionRead, WorkspaceInv, stores
  <2>2. CASE Raise(r)
    <3>1. req'[r].at = "idle" /\ req'[r].caller = "client"
      BY <1>1, <1>a, <2>2, RaiseTo DEF VersionRead
    <3> QED
      BY <1>1, <1>b, <3>1, WorkspaceOn DEF VersionRead, stores
  <2> QED
    BY <1>1, <2>1, <2>2 DEF VersionRead
<1>2. CASE VersionClear(r)
  BY <1>2, <1>a, <1>b, AdvanceTo, WorkspaceOn DEF VersionClear, WorkspaceInv
<1>3. CASE VersionInsert(r)
  <2>1. PICK i : Go(r, [q EXCEPT !.at = "docInsert", !.id = i])
    BY <1>3 DEF VersionInsert
  <2> DEFINE p == [q EXCEPT !.at = "docInsert", !.id = i]
  <2>2. p.at = "docInsert" /\ p.caller = "client"
    BY <1>a DEF Request
  <2>3. req'[r] = p
    BY <2>1, GoTo
  <2> HIDE DEF p
  <2> QED
    BY <1>3, <1>b, <2>2, <2>3, WorkspaceOn DEF VersionInsert, WorkspaceInv
<1>4. CASE DocInsert(r)
  <2>1. req'[r].at \in {"versionDrop", "versionSave"} /\ req'[r].caller = "client"
    <3>1. CASE Raise(r)
      BY <1>4, <1>a, <3>1, RaiseTo DEF DocInsert
    <3>2. CASE Advance(r, "versionSave")
      BY <1>a, <3>2, AdvanceTo
    <3> QED
      BY <1>4, <3>1, <3>2 DEF DocInsert
  <2>2. Holders # {} /\ copy' = copy
    BY <1>4 DEF DocInsert, WorkspaceInv
  <2> QED
    BY <1>b, <2>1, <2>2, WorkspaceOn
<1>5. CASE VersionSave(r)
  BY <1>5, <1>a, <1>b, AdvanceTo, WorkspaceOn DEF VersionSave, WorkspaceInv
<1>6. CASE CopyUpdate(r)
  <2>1. req'[r].at = "idle" /\ req'[r].caller = "client"
    BY <1>6, <1>a, FinishTo DEF CopyUpdate
  <2>2. \E u \in Users : copy'[u] # NoCopy
    BY <1>6, <1>b, CopyUpdateHas DEF CopyUpdate, WorkspaceInv
  <2> QED
    BY <2>1, <2>2, WorkspaceOn
<1>7. CASE VersionDrop(r)
  <2>1. req'[r].at = "idle" /\ req'[r].caller = "client"
    BY <1>7, <1>a, RaiseTo DEF VersionDrop
  <2> QED
    BY <1>7, <1>b, <2>1, WorkspaceOn DEF VersionDrop
<1>8. CASE DocsDelete(r)
  <2>1. q.at = "docsDelete"
    BY <1>8 DEF DocsDelete, WorkspaceInv
  <2>2. Advance(r, "versionsDelete")
    BY <1>8, <2>1 DEF DocsDelete
  <2>3. req'[r].at = "versionsDelete" /\ req'[r].caller = "client"
    BY <1>a, <2>2, AdvanceTo
  <2>4. DocFree' /\ copy' = copy
    BY <1>8 DEF DocsDelete, DocFree, HasDoc
  <2> QED
    BY <2>3, <2>4 DEF WorkspaceInv, Holders, Has
<1>9. CASE VersionsDelete(r)
  <2>1. req'[r].at = "copiesDelete" /\ req'[r].caller = "client"
    BY <1>9, <1>a, AdvanceTo DEF VersionsDelete
  <2> QED
    BY <1>9, <2>1 DEF VersionsDelete, WorkspaceInv, Holders, Has, DocFree, HasDoc
<1>10. CASE CopiesDelete(r)
  <2>1. req'[r].at = "idle" /\ req'[r].caller = "client"
    BY <1>10, FinishTo DEF CopiesDelete
  <2>2. DocFree'
    BY <1>10 DEF CopiesDelete, WorkspaceInv, DocFree, HasDoc
  <2> QED
    BY <2>1, <2>2 DEF WorkspaceInv
<1>11. CASE CopySave(r)
  <2>1. req'[r].at = "copyRead" /\ req'[r].caller = "client"
    BY <1>11, <1>a, AdvanceTo DEF CopySave
  <2>2. q.to \in Users
    BY <1>11, <1>a DEF CopySave, Needs
  <2>3. copy'[q.to].number = q.number
    BY <1>11, <2>2, TypedStores DEF CopySave
  <2>4. copy'[q.to] # NoCopy
    BY <1>a, <2>3, BoundAssumption DEF NoCopy, Numbers
  <2> QED
    BY <2>1, <2>2, <2>4, WorkspaceOn
<1>12. CASE CopyRead(r)
  <2>0. Holders # {} /\ copy' = copy /\ doc' = doc
    BY <1>12 DEF CopyRead, WorkspaceInv, stores
  <2>1. CASE NextMember(r)
    BY <1>a, <1>b, <2>0, <2>1, NextMemberTo, WorkspaceOn
  <2>2. ASSUME NEW i, NEW c, Go(r, [q EXCEPT !.at = "copyInsert", !.id = i, !.content = c])
        PROVE  WorkspaceInv(req[r])'
    <3> DEFINE p == [q EXCEPT !.at = "copyInsert", !.id = i, !.content = c]
    <3>1. p.at = "copyInsert" /\ p.caller = "client"
      BY <1>a DEF Request
    <3>2. req'[r] = p
      BY <2>2, GoTo
    <3> HIDE DEF p
    <3> QED
      BY <1>b, <2>0, <3>1, <3>2, WorkspaceOn
  <2> QED
    BY <1>12, <2>1, <2>2 DEF CopyRead
<1>13. CASE CopyInsert(r)
  <2>1. Holders # {} /\ copy' = copy /\ NextMember(r)
    BY <1>13 DEF CopyInsert, WorkspaceInv
  <2> QED
    BY <1>a, <1>b, <2>1, NextMemberTo, WorkspaceOn
<1>14. CASE CommentFind(r)
  <2>0. copy' = copy /\ doc' = doc
    BY <1>14 DEF CommentFind, stores
  <2>1. CASE Finish(r)
    BY <1>b, <2>0, <2>1, FinishTo, WorkspaceOn
  <2>2. ASSUME NEW i, Go(r, [q EXCEPT !.at = "commentSave", !.id = i])
        PROVE  WorkspaceInv(req[r])'
    <3> DEFINE p == [q EXCEPT !.at = "commentSave", !.id = i]
    <3>1. p.at = "commentSave" /\ p.caller = "client"
      BY <1>a DEF Request
    <3>2. req'[r] = p
      BY <2>2, GoTo
    <3> HIDE DEF p
    <3> QED
      BY <1>b, <2>0, <3>1, <3>2, WorkspaceOn
  <2> QED
    BY <1>14, <2>1, <2>2 DEF CommentFind
<1>15. q.at \in WorkspacePoints
  BY DEF WorkspaceInv
<1>16. ~(\/ CopyDrop(r) \/ DocDelete(r) \/ LegacyRead(r) \/ LegacyDelete(r) \/ DocSave(r)
         \/ ShareRead(r) \/ ShareSave(r) \/ CurrentRead(r) \/ VersionDelete(r)
         \/ RenameSave(r) \/ NumberSave(r) \/ TeamClear(r) \/ TeamInsert(r) \/ TeamDocInsert(r)
         \/ RowRemove(r))
  BY <1>15
  DEF CopyDrop, DocDelete, LegacyRead, LegacyDelete, DocSave, ShareRead, ShareSave, CurrentRead,
      VersionDelete, RenameSave, NumberSave, TeamClear, TeamInsert, TeamDocInsert, RowRemove
<1> QED
  BY <1>1, <1>2, <1>3, <1>4, <1>5, <1>6, <1>7, <1>8, <1>9, <1>10, <1>11, <1>12, <1>13, <1>14,
     <1>16
  DEF SharedStep, Step

LEMMA WorkspaceFail ==
  ASSUME TypeInv, NEW r \in Requests, WorkspaceInv(req[r]), SharedFail(r)
  PROVE  WorkspaceInv(req[r])'
<1> USE DEF WorkspacePoints, Making, Guarded
<1>b. /\ Holders # {} => \E u \in Users : copy[u] # NoCopy
      /\ req[r].caller = "client"
  BY DEF Holders, Has, WorkspaceInv
<1>1. CASE Fail(r)
  <2>1. /\ req'[r].caller = "client"
        /\ req'[r].at = IF req[r].at \in Guarded THEN "versionDrop" ELSE "idle"
    BY <1>1, <1>b, RaiseTo DEF Fail
  <2>2. copy' = copy /\ doc' = doc
    BY <1>1 DEF Fail, stores
  <2>3. req[r].at \in Guarded => Holders # {}
    BY DEF WorkspaceInv
  <2> QED
    BY <1>b, <2>1, <2>2, <2>3, WorkspaceOn
<1>2. CASE MemberFails(r)
  BY <1>2, <1>b, NextMemberTo, WorkspaceOn DEF MemberFails, stores
<1> QED
  BY <1>1, <1>2 DEF SharedFail

\* With requests served one by one, wherever they fail and whenever the server dies,
\* no document of a process of a workspace is left behind when its rows are gone.
THEOREM WorkspaceDocsAlwaysHaveRow ==
  ASSUME NEW CONSTANT one, Requests = {one}, WorkspaceOnly
  PROVE  SharedSpec => []DocsHaveRow
<1> DEFINE Inv == SharedTypeInv /\ WorkspaceInv(req[one])
<1>1. SharedInit => Inv
  <2>1. SharedInit => SharedTypeInv
    BY InitTyped DEF SharedInit, SharedTypeInv, SharedTypeOK, TypeInv
  <2>2. SharedInit => WorkspaceInv(req[one])
    BY DEF SharedInit, Init, WorkspaceInv, WorkspacePoints, DocFree, HasDoc, Idle, Making, Guarded
  <2> QED
    BY <2>1, <2>2
<1>2. Inv /\ [SharedNext]_sharedVars => Inv'
  <2> SUFFICES ASSUME Inv, [SharedNext]_sharedVars PROVE WorkspaceInv(req[one])'
    BY SharedNextTyped
  <2>a. TypeInv /\ one \in Requests
    BY DEF SharedTypeInv
  <2>b. Holders # {} => \E u \in Users : copy[u] # NoCopy
    BY DEF Holders, Has
  <2>1. CASE SharedArrival(one) \/ SharedStep(one) \/ SharedFail(one)
    BY <2>a, <2>1, WorkspaceArrival, WorkspaceStep, WorkspaceFail
  <2>2. CASE CommentSave(one)
    BY <2>a, <2>b, <2>2, FinishTo, WorkspaceOn DEF CommentSave, stores, WorkspacePoints, Making, Guarded
  <2>3. CASE Crash
    BY <2>a, <2>b, <2>3, DieTo, WorkspaceOn DEF Crash, stores, WorkspacePoints, Making, Guarded
  <2>4. CASE UNCHANGED sharedVars
    BY <2>4 DEF sharedVars, WorkspaceInv, Holders, Has, DocFree, HasDoc
  <2> QED
    BY <2>1, <2>2, <2>3, <2>4 DEF SharedNext
<1>3. Inv => DocsHaveRow
  BY DEF WorkspaceInv, DocsHaveRow, DocFree
<1> QED
  BY <1>1, <1>2, <1>3, PTL DEF SharedSpec

-----------------------------------------------------------------------------
(* One request at a time and no failure, the process of a team *)

\* What clients call about the process of a team.
TeamOnly ==
  Calls \subseteq {"createTeamProcess", "updateTeamProcess", "deleteTeamProcess",
                   "addComment"}

\* Between requests, and where one has not changed anything yet.
AtRest == {"idle", "renameSave", "numberSave", "rowRemove", "commentFind", "commentSave"}
Creating == Making \ {"versionDrop"}
Rising == {"teamClear", "teamInsert", "teamDocInsert"}

NoneBeyond(n) == \A u \in Users, m \in Numbers : HasDoc(u, m) => m <= n
Readable(n) == \E u \in Users : HasDoc(u, n)
Marked == \E i \in VersionIds : version[i].current

\* The process has a document for its number and none beyond, and a marked version.
Whole(w) == Readable(copy[w].number) /\ NoneBeyond(copy[w].number) /\ Marked

\* A creation finds no document; its first version has the number 2.
CreatingInv(q) ==
  /\ q.user \in Holders /\ copy[q.user].number = 1 /\ q.caller = "client"
  /\ q.at # "versionRead" => q.number = 1
  /\ IF q.at \in {"versionSave", "copyUpdate"} THEN HasDoc(q.user, 2) /\ NoneBeyond(2)
                                               ELSE DocFree
  /\ q.at = "copyUpdate" => Marked

\* The number rises first, and the key of the document for it is free.
UpdatingInv(q) ==
  /\ q.to \in Holders /\ q.content # NoContent
  /\ q.at \in AtRest => copy[q.to].number = q.number
  /\ q.at \in Rising => copy[q.to].number = q.number + 1 /\ NoneBeyond(q.number)
  /\ q.at = "teamDocInsert" => Marked

TeamInv(q) ==
  /\ q.at \in AtRest \union Creating \union Rising \union {"teamDocsDelete"}
  /\ \A u, w \in Holders : u = w
  /\ q.at \in AtRest => (\A w \in Holders : Whole(w)) /\ (Holders = {} => DocFree)
  /\ q.at \in Creating => CreatingInv(q)
  /\ q.at \in Rising \union {"renameSave", "numberSave"} => UpdatingInv(q)
  /\ q.at = "rowRemove" => q.user \in Holders
  /\ q.at = "teamDocsDelete" => Holders = {}

\* What a request that only looked, or is done, leaves behind.
LEMMA TeamRests ==
  ASSUME NEW r \in Requests, UNCHANGED <<copy, version, doc>>,
         \A u, w \in Holders : u = w,
         \A w \in Holders : Whole(w), Holders = {} => DocFree,
         req'[r].at \in {"idle", "commentFind", "commentSave"}
  PROVE  TeamInv(req[r])'
BY DEF TeamInv, AtRest, Creating, Making, Guarded, Rising, Whole, Readable, NoneBeyond, Marked,
       DocFree, HasDoc, Holders, Has

LEMMA TeamArrival ==
  ASSUME TeamOnly, TypeInv, NEW r \in Requests, TeamInv(req[r]), SharedArrival(r)
  PROVE  TeamInv(req[r])'
<1>a. Free(r) => /\ \A u, w \in Holders : u = w
                 /\ \A w \in Holders : Whole(w)
                 /\ Holders = {} => DocFree
  BY DEF Free, TeamInv, AtRest
<1>b. ASSUME NEW u \in Users, Has(u) PROVE copy[u].number \in Numbers
  BY <1>b, Lookups DEF Copy
<1>1. ASSUME NEW u \in Users, NEW c \in Contents, Holders = {}, CreateTeamProcess(r, u, c)
      PROVE  TeamInv(req[r])'
  <2>1. req'[r].at = "versionRead" /\ req'[r].user = u /\ req'[r].caller = "client"
    BY <1>1, MakeVersionTo DEF CreateTeamProcess
  <2>2. copy'[u].number = 1 /\ \A w \in Users \ {u} : copy'[w] = copy[w]
    BY <1>1, TypedStores DEF CreateTeamProcess
  <2>3. copy'[u] # NoCopy
    BY <2>2, BoundAssumption DEF NoCopy
  <2>4. Holders' = {u}
    BY <1>1, <2>2, <2>3 DEF Holders, Has
  <2>5. DocFree'
    BY <1>1, <1>a DEF CreateTeamProcess, Begin, DocFree, HasDoc
  <2> QED
    BY <2>1, <2>2, <2>4, <2>5 DEF TeamInv, AtRest, Creating, Making, Guarded, Rising, CreatingInv
<1>2. ASSUME NEW u \in Users, NEW w \in Users, NEW c \in Contents,
             NEW caller \in {"rename", "client"}, UpdateTeamProcess(r, u, w, c, caller)
      PROVE  TeamInv(req[r])'
  <2> DEFINE p == [Call("renameSave", u) EXCEPT !.to = w, !.number = copy[w].number,
                                                !.content = c, !.caller = caller]
  <2>1. req'[r] = p
    BY <1>2, GoTo DEF UpdateTeamProcess, Begin
  <2>2. p.at = "renameSave" /\ p.to = w /\ p.number = copy[w].number /\ p.content = c
    BY DEF Call, Idle
  <2> HIDE DEF p
  <2>3. w \in Holders /\ c # NoContent
    BY <1>2, NoContentAssumption DEF UpdateTeamProcess, Holders
  <2>4. UNCHANGED <<copy, version, doc>> /\ Free(r)
    BY <1>2 DEF UpdateTeamProcess, stores, Begin
  <2>5. /\ \A u1, w1 \in Holders : u1 = w1
        /\ \A w1 \in Holders : Whole(w1)
        /\ Holders = {} => DocFree
    BY <1>a, <2>4
  <2>6. req'[r].at = "renameSave" /\ UpdatingInv(req[r])'
    BY <2>1, <2>2, <2>3, <2>4 DEF UpdatingInv, AtRest, Rising, Holders, Has
  <2> QED
    BY <2>4, <2>5, <2>6
    DEF TeamInv, AtRest, Creating, Making, Guarded, Rising, Whole, Readable, NoneBeyond, Marked,
        DocFree, HasDoc, Holders, Has
<1>3. ASSUME NEW u \in Users, DeleteTeamProcess(r, u) PROVE TeamInv(req[r])'
  <2>1. req'[r] = Call("rowRemove", u)
    BY <1>3, GoTo DEF DeleteTeamProcess, Begin
  <2>2. req'[r].at = "rowRemove" /\ req'[r].user = u
    BY <2>1 DEF Call, Idle
  <2>3. UNCHANGED <<copy, version, doc>> /\ Free(r) /\ u \in Holders
    BY <1>3 DEF DeleteTeamProcess, stores, Begin, Holders
  <2> QED
    BY <1>a, <2>2, <2>3
    DEF TeamInv, AtRest, Creating, Making, Guarded, Rising, Whole, Readable, NoneBeyond, Marked,
        DocFree, HasDoc, Holders, Has
<1>4. CASE AddComment(r)
  <2>1. req'[r] = [Idle EXCEPT !.at = "commentFind"]
    BY <1>4, GoTo DEF AddComment, Begin
  <2>2. req'[r].at = "commentFind"
    BY <2>1 DEF Idle
  <2> QED
    BY <1>4, <1>a, <2>2, TeamRests DEF AddComment, stores, Begin
<1>5. Bodies \subseteq Contents
  BY DEF TeamOnly, Bodies
<1> QED
  BY <1>1, <1>2, <1>3, <1>4, <1>5 DEF SharedArrival, Arrival, TeamOnly

\* The version of a creation: its number is 2 whatever happens, as no document of
\* the process is there to refuse its key.
LEMMA TeamMaking ==
  ASSUME TypeInv, NEW r \in Requests, TeamInv(req[r]), req[r].at \in Creating, Step(r)
  PROVE  TeamInv(req[r])'
<1> DEFINE q == req[r]
           u == q.user
<1>a. /\ q \in Request /\ Needs(q) /\ u \in Users /\ q.number \in Nat /\ 2 \in Nat
      /\ Numbers \subseteq Nat
  BY TypedStores, BoundAssumption DEF Request, Numbers, Creating, Making, Guarded, Needs
<1>b. CreatingInv(q) /\ u \in Holders /\ \A w \in Holders : w = u
  BY DEF TeamInv, CreatingInv
<1>c. q.at \in Guarded \union {"versionInsert", "versionClear"} => q.number = 1 /\ 2 \in Numbers
  BY <1>a, <1>b, BoundAssumption DEF CreatingInv, Needs, Knowing, Holding, Guarded, Numbers
<1>d. \A l \in {"versionClear", "versionInsert", "docInsert", "versionSave", "copyUpdate"} :
        l \in Labels /\ l \in Creating /\ l \notin AtRest \union Rising /\ l # "teamDocsDelete"
  BY DEF Labels, Creating, Making, Guarded, AtRest, Rising
<1>e. ASSUME copy' = copy, req'[r].at \in Creating, CreatingInv(req[r])'
      PROVE  TeamInv(req[r])'
  BY <1>b, <1>e DEF TeamInv, Creating, Making, Guarded, AtRest, Rising, Holders, Has
<1>1. CASE VersionRead(r)
  <2> DEFINE p == [q EXCEPT !.at = "versionClear", !.number = copy[u].number]
  <2>1. req'[r] = p /\ UNCHANGED <<copy, doc>>
    BY <1>1, <1>b, GoTo DEF VersionRead, Holders, stores
  <2>2. p.at = "versionClear" /\ p.number = 1 /\ p.user = u /\ p.caller = q.caller
    BY <1>a, <1>b DEF Request, CreatingInv
  <2> HIDE DEF p
  <2>3. CreatingInv(req[r])'
    BY <1>1, <1>b, <2>1, <2>2 DEF VersionRead, CreatingInv, DocFree, HasDoc, Holders, Has
  <2> QED
    BY <1>d, <1>e, <2>1, <2>2, <2>3
<1>2. CASE VersionClear(r)
  <2>1. CreatingInv(req[r])' /\ req'[r].at = "versionInsert"
    BY <1>2, <1>b, <1>d, AdvanceTo DEF VersionClear, CreatingInv, DocFree, HasDoc, Holders, Has
  <2> QED
    BY <1>2, <1>d, <1>e, <2>1 DEF VersionClear
<1>3. CASE VersionInsert(r)
  <2>1. PICK i : Go(r, [q EXCEPT !.at = "docInsert", !.id = i])
    BY <1>3 DEF VersionInsert
  <2> DEFINE p == [q EXCEPT !.at = "docInsert", !.id = i]
  <2>2. p.at = "docInsert" /\ p.number = q.number /\ p.user = u /\ p.caller = q.caller
    BY <1>a DEF Request
  <2>3. req'[r] = p
    BY <2>1, GoTo
  <2> HIDE DEF p
  <2>4. CreatingInv(req[r])'
    BY <1>3, <1>b, <2>2, <2>3 DEF VersionInsert, CreatingInv, DocFree, HasDoc, Holders, Has
  <2> QED
    BY <1>3, <1>d, <1>e, <2>2, <2>3, <2>4 DEF VersionInsert
<1>4. CASE DocInsert(r)
  <2>1. DocFree /\ q.number + 1 = 2 /\ 2 \in Numbers
    BY <1>4, <1>b, <1>c DEF DocInsert, CreatingInv, Guarded
  <2>2. doc' = [doc EXCEPT ![u][2] = NewDoc(r)] /\ Advance(r, "versionSave") /\ copy' = copy
    BY <1>4, <1>a, <2>1 DEF DocInsert, DocFree
  <2>3. NewDoc(r) # NoDoc
    BY <1>4, <1>a, NewDocTyped DEF DocInsert, Needs, Holding, Making, Guarded
  <2>4. doc'[u][2] # NoDoc
    BY <1>a, <2>1, <2>2, <2>3, TypedStores
  <2>5. ASSUME NEW w \in Users, NEW n \in Numbers, ~(w = u /\ n = 2)
        PROVE  doc'[w][n] = NoDoc
    <3>1. doc[w][n] = NoDoc
      BY <2>1 DEF DocFree, HasDoc
    <3> QED
      BY <1>a, <2>1, <2>2, <2>5, <3>1, TypedStores
  <2>6. NoneBeyond(2)'
    BY <1>a, <2>5 DEF HasDoc, NoneBeyond
  <2>7. req'[r].at = "versionSave" /\ req'[r].number = 1 /\ req'[r].user = u
        /\ req'[r].caller = "client"
    BY <1>4, <1>b, <1>c, <1>d, <2>2, AdvanceTo DEF DocInsert, CreatingInv, Guarded
  <2>8. CreatingInv(req[r])'
    BY <1>b, <2>2, <2>4, <2>6, <2>7 DEF CreatingInv, Holders, Has, HasDoc, NoneBeyond
  <2> QED
    BY <1>d, <1>e, <2>2, <2>7, <2>8
<1>5. CASE VersionSave(r)
  <2>1. q.id \in VersionIds
    BY <1>5, <1>a DEF VersionSave, Needs, Holding, Guarded
  <2>2. Marked'
    BY <1>5, <2>1, TypedStores DEF VersionSave, Marked
  <2>3. CreatingInv(req[r])' /\ req'[r].at = "copyUpdate"
    BY <1>5, <1>b, <1>d, <2>2, AdvanceTo DEF VersionSave, CreatingInv, HasDoc, NoneBeyond, Holders, Has
  <2> QED
    BY <1>5, <1>d, <1>e, <2>3 DEF VersionSave
<1>6. CASE CopyUpdate(r)
  <2>1. HasDoc(u, 2) /\ NoneBeyond(2) /\ Marked /\ q.number + 1 = 2 /\ q.caller = "client"
    BY <1>6, <1>b, <1>c DEF CopyUpdate, CreatingInv, Guarded
  <2>2. copy'[u].number = 2 /\ Holders' = {u}
    BY <1>6, <1>a, <1>b, <2>1, CopyUpdateHas DEF Holders, Has
  <2>3. req'[r].at = "idle"
    BY <1>6, <2>1, FinishTo DEF CopyUpdate
  <2>4. Readable(2)' /\ NoneBeyond(2)' /\ Marked'
    BY <1>6, <1>a, <2>1 DEF CopyUpdate, Readable, NoneBeyond, Marked, HasDoc
  <2> QED
    BY <2>2, <2>3, <2>4
    DEF TeamInv, AtRest, Creating, Making, Guarded, Rising, Whole, Readable, NoneBeyond, Marked
<1> QED
  BY <1>1, <1>2, <1>3, <1>4, <1>5, <1>6
  DEF Step, Creating, Making, Guarded, VersionDrop, CopyDrop, DocDelete, LegacyRead, LegacyDelete,
      DocSave, ShareRead, ShareSave, CurrentRead, VersionDelete

\* A step of an update that leaves the holder's copy at a number.
LEMMA TeamRises ==
  ASSUME NEW r \in Requests, NEW w \in Holders, \A v \in Holders : v = w, Holders' = {w},
         req'[r].at \in Rising, req'[r].to = w, req'[r].content # NoContent,
         copy'[w].number = req'[r].number + 1, NoneBeyond(req[r].number)',
         req'[r].at = "teamDocInsert" => Marked'
  PROVE  TeamInv(req[r])'
BY DEF TeamInv, UpdatingInv, AtRest, Creating, Making, Guarded, Rising, NoneBeyond

LEMMA TeamUpdating ==
  ASSUME TypeInv, NEW r \in Requests, TeamInv(req[r]),
         req[r].at \in Rising \union {"renameSave", "numberSave"}, SharedStep(r)
  PROVE  TeamInv(req[r])'
<1> DEFINE q == req[r]
           w == q.to
           n == q.number + 1
<1>a. /\ q \in Request /\ Needs(q) /\ q.user \in Users /\ q.number \in Nat /\ w \in Holders
      /\ w \in Users /\ n \in Numbers /\ n \in Nat /\ Numbers \subseteq Nat
      /\ q.number \in Numbers /\ MaxVersion \in Nat
  BY TypedStores, BoundAssumption
  DEF Request, Numbers, Rising, Making, Guarded, Needs, Knowing, Holding, TeamInv, UpdatingInv,
      Holders
<1>b. UpdatingInv(q) /\ \A v \in Holders : v = w
  BY DEF TeamInv, UpdatingInv
<1>c. ASSUME NEW k \in Numbers, SaveRow(w, k) PROVE copy'[w].number = k /\ Holders' = {w}
  <2>1. copy'[w].number = k /\ \A v \in Users \ {w} : copy'[v] = copy[v]
    BY <1>a, <1>c, TypedStores DEF SaveRow
  <2>2. copy'[w] # NoCopy
    BY <1>a, <2>1 DEF NoCopy, Numbers
  <2> QED
    BY <1>a, <1>b, <2>1, <2>2 DEF Holders, Has
<1>d. UNCHANGED copy => Holders' = {w}
  BY <1>a, <1>b DEF Holders, Has
<1> USE DEF Labels, SharedLabels
<1>1. CASE RenameSave(r)
  <2>1. SaveRow(w, q.number) /\ Whole(w) /\ UNCHANGED <<version, doc>>
    BY <1>1, <1>a DEF RenameSave, TeamInv, AtRest
  <2>2. copy'[w].number = q.number /\ Holders' = {w}
    BY <1>a, <1>c, <2>1
  <2>3. copy'[w].number = copy[w].number
    BY <1>1, <1>b, <2>2 DEF RenameSave, UpdatingInv, AtRest
  <2>4. \A v \in Holders' : Whole(v)'
    BY <2>1, <2>2, <2>3 DEF Whole, Readable, NoneBeyond, Marked, HasDoc
  <2>5. CASE Finish(r)
    BY <2>2, <2>4, <2>5, FinishTo DEF TeamInv, AtRest, Creating, Making, Guarded, Rising
  <2>6. CASE Advance(r, "numberSave")
    <3>1. req'[r].at = "numberSave" /\ req'[r].to = w /\ req'[r].number = q.number
          /\ req'[r].content = q.content
      BY <2>6, AdvanceTo
    <3>2. UpdatingInv(req[r])'
      BY <1>b, <2>2, <3>1 DEF UpdatingInv, AtRest, Rising
    <3> QED
      BY <2>2, <2>4, <3>1, <3>2 DEF TeamInv, AtRest, Creating, Making, Guarded, Rising
  <2> QED
    BY <1>1, <2>5, <2>6 DEF RenameSave
<1>2. CASE NumberSave(r)
  <2>1. SaveRow(w, n) /\ Whole(w) /\ copy[w].number = q.number
    BY <1>2, <1>a, <1>b DEF NumberSave, TeamInv, UpdatingInv, AtRest
  <2>2. copy'[w].number = n /\ Holders' = {w}
    BY <1>a, <1>c, <2>1
  <2>3. req'[r].at = "teamClear" /\ req'[r].to = w /\ req'[r].number = q.number
        /\ req'[r].content = q.content
    BY <1>2, AdvanceTo DEF NumberSave
  <2>4. NoneBeyond(q.number)'
    BY <1>2, <2>1, <2>3 DEF NumberSave, Whole, NoneBeyond, HasDoc
  <2> QED
    BY <1>a, <1>b, <2>2, <2>3, <2>4, TeamRises DEF Rising, UpdatingInv
<1>3. CASE TeamClear(r)
  <2>1. copy[w].number = n /\ NoneBeyond(q.number) /\ q.content # NoContent
    BY <1>3, <1>b DEF TeamClear, UpdatingInv, Rising
  <2>2. req'[r].at = "teamInsert" /\ req'[r].to = w /\ req'[r].number = q.number
        /\ req'[r].content = q.content
    BY <1>3, AdvanceTo DEF TeamClear
  <2>3. NoneBeyond(q.number)'
    BY <1>3, <2>1, <2>2 DEF TeamClear, NoneBeyond, HasDoc
  <2>4. copy' = copy
    BY <1>3 DEF TeamClear
  <2> QED
    BY <1>a, <1>b, <1>d, <2>1, <2>2, <2>3, <2>4, TeamRises DEF Rising
<1>4. CASE TeamInsert(r)
  <2>1. copy[w].number = n /\ NoneBeyond(q.number) /\ q.content # NoContent
    BY <1>4, <1>b DEF TeamInsert, UpdatingInv, Rising
  <2>2. PICK i \in FreshVersion :
          /\ version' = [version EXCEPT ![i] = [by |-> q.user, current |-> TRUE]]
          /\ Go(r, [q EXCEPT !.at = "teamDocInsert", !.id = i])
    BY <1>4 DEF TeamInsert
  <2> DEFINE p == [q EXCEPT !.at = "teamDocInsert", !.id = i]
  <2>3. p.at = "teamDocInsert" /\ p.to = w /\ p.number = q.number /\ p.content = q.content
    BY <1>a DEF Request
  <2>4. req'[r] = p
    BY <2>2, GoTo
  <2> HIDE DEF p
  <2>5. NoneBeyond(req[r].number)'
    BY <1>4, <2>1, <2>3, <2>4 DEF TeamInsert, NoneBeyond, HasDoc
  <2>6. i \in VersionIds
    BY DEF FreshVersion
  <2>7. Marked'
    BY <2>2, <2>6, TypedStores DEF Marked
  <2>8. copy' = copy
    BY <1>4 DEF TeamInsert
  <2> QED
    BY <1>a, <1>b, <1>d, <2>1, <2>3, <2>4, <2>5, <2>7, <2>8, TeamRises DEF Rising
<1>5. CASE TeamDocInsert(r)
  <2> DEFINE u == q.user
  <2>1. /\ copy[w].number = n /\ NoneBeyond(q.number) /\ q.content # NoContent /\ Marked
        /\ ~HasDoc(u, n)
    BY <1>5, <1>a, <1>b DEF TeamDocInsert, UpdatingInv, Rising, NoneBeyond
  <2>2. doc' = [doc EXCEPT ![u][n] = NewDoc(r)] /\ UNCHANGED <<copy, version>>
    BY <1>5, <2>1 DEF TeamDocInsert
  <2>3. q.id \in VersionIds /\ q.content \in Contents
    BY <1>5, <1>a, <2>1 DEF TeamDocInsert, Needs, Holding, Guarded, Request
  <2>4. doc'[u][n] # NoDoc
    BY <1>a, <2>2, <2>3, NewDocTyped, TypedStores
  <2>5. ASSUME NEW v \in Users, NEW m \in Numbers, doc'[v][m] # NoDoc PROVE m <= n
    <3>1. CASE v = u /\ m = n
      BY <1>a, <3>1
    <3>2. CASE ~(v = u /\ m = n)
      <4>1. HasDoc(v, m)
        BY <1>a, <2>2, <2>5, <3>2, TypedStores DEF HasDoc
      <4> QED
        BY <1>a, <2>1, <4>1 DEF NoneBeyond
    <3> QED
      BY <3>1, <3>2
  <2>6. copy'[w].number = n /\ Holders' = {w}
    BY <1>d, <2>1, <2>2
  <2>7. \A v \in Holders' : Whole(v)'
    BY <1>a, <2>1, <2>2, <2>4, <2>5, <2>6 DEF Whole, Readable, NoneBeyond, HasDoc, Marked
  <2>8. req'[r].at = "idle"
    BY <1>5, FinishTo DEF TeamDocInsert
  <2> QED
    BY <2>6, <2>7, <2>8 DEF TeamInv, AtRest, Creating, Making, Guarded, Rising
<1> QED
  BY <1>1, <1>2, <1>3, <1>4, <1>5
  DEF SharedStep, Step, Rising, VersionRead, VersionClear, VersionInsert, DocInsert, VersionSave,
      CopyUpdate, VersionDrop, CopyDrop, DocDelete, LegacyRead, LegacyDelete, DocSave, ShareRead,
      ShareSave, CurrentRead, VersionDelete, RowRemove, DocsDelete, VersionsDelete, CopiesDelete,
      CopySave, CopyRead, CopyInsert, CommentFind

LEMMA TeamEnding ==
  ASSUME TypeInv, NEW r \in Requests, TeamInv(req[r]),
         req[r].at \in {"idle", "rowRemove", "teamDocsDelete", "commentFind", "commentSave"},
         SharedStep(r)
  PROVE  TeamInv(req[r])'
<1> USE DEF Labels, SharedLabels, AtRest, Creating, Making, Guarded, Rising
<1>1. CASE RowRemove(r)
  <2>1. /\ copy' = [copy EXCEPT ![req[r].user] = NoCopy] /\ req[r].user \in Holders
        /\ \A u, w \in Holders : u = w
    BY <1>1 DEF RowRemove, TeamInv
  <2>2. Holders' = {}
    BY <2>1, TypedStores DEF Holders, Has
  <2>3. req'[r].at = "teamDocsDelete"
    BY <1>1, AdvanceTo DEF RowRemove
  <2> QED
    BY <2>2, <2>3 DEF TeamInv
<1>2. CASE DocsDelete(r)
  <2>1. Finish(r) /\ Holders = {} /\ copy' = copy
    BY <1>2 DEF DocsDelete, TeamInv
  <2>2. DocFree'
    BY <1>2 DEF DocsDelete, DocFree, HasDoc
  <2>3. req'[r].at = "idle" /\ Holders' = {}
    BY <2>1, FinishTo DEF Holders, Has
  <2> QED
    BY <2>2, <2>3 DEF TeamInv
<1>3. CASE CommentFind(r)
  <2>0. /\ UNCHANGED <<copy, version, doc>>
        /\ \A u, w \in Holders : u = w
        /\ \A w \in Holders : Whole(w)
        /\ Holders = {} => DocFree
    BY <1>3 DEF CommentFind, stores, TeamInv
  <2>1. CASE Finish(r)
    BY <2>0, <2>1, FinishTo, TeamRests
  <2>2. ASSUME NEW i, Go(r, [req[r] EXCEPT !.at = "commentSave", !.id = i])
        PROVE  TeamInv(req[r])'
    <3> DEFINE p == [req[r] EXCEPT !.at = "commentSave", !.id = i]
    <3>1. p.at = "commentSave"
      BY TypedStores DEF Request
    <3>2. req'[r].at = "commentSave"
      BY <2>2, <3>1, GoTo
    <3> QED
      BY <2>0, <3>2, TeamRests
  <2> QED
    BY <1>3, <2>1, <2>2 DEF CommentFind
<1> QED
  BY <1>1, <1>2, <1>3
  DEF SharedStep, Step, VersionRead, VersionClear, VersionInsert, DocInsert, VersionSave,
      CopyUpdate, VersionDrop, CopyDrop, DocDelete, LegacyRead, LegacyDelete, DocSave, ShareRead,
      ShareSave, CurrentRead, VersionDelete, RenameSave, NumberSave, TeamClear, TeamInsert,
      TeamDocInsert, VersionsDelete, CopiesDelete, CopySave, CopyRead, CopyInsert

\* The invariant of a team, one request at a time and no failure.
THEOREM TeamInvariant ==
  ASSUME NEW CONSTANT one, Requests = {one}, TeamOnly, Fails = {}, Legacy = {}
  PROVE  SharedSpec => [](SharedTypeInv /\ TeamInv(req[one]))
<1> DEFINE Inv == SharedTypeInv /\ TeamInv(req[one])
<1>1. SharedInit => Inv
  <2>1. SharedInit => SharedTypeInv
    BY InitTyped DEF SharedInit, SharedTypeInv, SharedTypeOK, TypeInv
  <2>2. SharedInit => TeamInv(req[one])
    BY DEF SharedInit, Init, TeamInv, AtRest, Creating, Making, Guarded, Rising, Holders, Has,
           DocFree, HasDoc, Idle
  <2> QED
    BY <2>1, <2>2
<1>2. Inv /\ [SharedNext]_sharedVars => Inv'
  <2> SUFFICES ASSUME Inv, [SharedNext]_sharedVars PROVE TeamInv(req[one])'
    BY SharedNextTyped
  <2>a. TypeInv /\ one \in Requests
    BY DEF SharedTypeInv
  <2>1. CASE SharedArrival(one)
    BY <2>a, <2>1, TeamArrival
  <2>2. CASE SharedStep(one)
    <3>1. CASE req[one].at \in Creating
      <4>1. Step(one)
        BY <2>2, <3>1
        DEF SharedStep, Creating, Making, Guarded, RenameSave, NumberSave, TeamClear, TeamInsert,
            TeamDocInsert, RowRemove, DocsDelete, VersionsDelete, CopiesDelete, CopySave,
            CopyRead, CopyInsert, CommentFind
      <4> QED
        BY <2>a, <3>1, <4>1, TeamMaking
    <3>2. CASE req[one].at \in Rising \union {"renameSave", "numberSave"}
      BY <2>a, <2>2, <3>2, TeamUpdating
    <3>3. CASE req[one].at \notin Creating \union Rising \union {"renameSave", "numberSave"}
      BY <2>a, <2>2, <3>3, TeamEnding DEF TeamInv, AtRest
    <3> QED
      BY <3>1, <3>2, <3>3
  <2>3. CASE CommentSave(one)
    BY <2>a, <2>3, FinishTo, TeamRests DEF CommentSave, stores, TeamInv, AtRest
  <2>4. ~SharedFail(one) /\ ~Crash
    BY DEF SharedFail, Fail, MemberFails, Crash
  <2>5. CASE UNCHANGED sharedVars
    BY <2>5
    DEF sharedVars, TeamInv, CreatingInv, UpdatingInv, Whole, Readable, NoneBeyond, Marked,
        DocFree, HasDoc, Holders, Has
  <2> QED
    BY <2>1, <2>2, <2>3, <2>4, <2>5 DEF SharedNext
<1> QED
  BY <1>1, <1>2, PTL DEF SharedSpec

\* With requests served one by one and no failure, a team always finds the document of
\* its process, whichever members made, renamed and deleted it.
THEOREM TeamAlwaysReads ==
  ASSUME NEW CONSTANT one, Requests = {one}, TeamOnly, Fails = {}, Legacy = {}
  PROVE  SharedSpec => []TeamReadable
<1>1. TeamInv(req[one]) => TeamReadable
  BY DEF TeamInv, TeamReadable, Quiet, Free, AtRest, Whole, Readable
<1> QED
  BY <1>1, TeamInvariant, PTL

\* With requests served one by one and no failure, the process of a team always has a
\* current version for the next comment.
THEOREM TeamAlwaysComments ==
  ASSUME NEW CONSTANT one, Requests = {one}, TeamOnly, Fails = {}, Legacy = {}
  PROVE  SharedSpec => []Commentable
<1>1. TeamInv(req[one]) => Commentable
  BY DEF TeamInv, Commentable, Quiet, Free, AtRest, Whole, Marked
<1> QED
  BY <1>1, TeamInvariant, PTL
=============================================================================
