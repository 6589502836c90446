------------------------ MODULE ProcessVersionsProofs ------------------------
(***************************************************************************)
(* Proofs about ProcessVersions: types for all its operations, wherever    *)
(* requests fail and interleave; complete versions, growing numbers and    *)
(* the refinement of VersionHistory for the operations that delete         *)
(* nothing; and, for requests served one by one, which version is current  *)
(* and which documents are history.                                        *)
(***************************************************************************)
EXTENDS ProcessVersions, TLAPS

-----------------------------------------------------------------------------
(* Types. A stale number or an absent document would not have its type if  *)
(* requests could reach their control points without the locals they use.  *)

\* Control points that hold the key of the version being made.
Holding == Guarded \union {"versionDrop"}

\* Control points that have read the number of the copy.
Knowing == Holding \union {"versionClear", "versionInsert", "renameSave", "numberSave",
                            "teamClear", "teamInsert", "teamDocInsert"}

\* The control points of SharedProcesses need theirs as well, so that its proofs
\* can go on from here.
Needs(q) ==
  /\ q.at \notin {"idle", "versionDelete", "commentFind", "commentSave"} => q.user \in Users
  /\ q.at \in {"shareRead", "shareSave", "renameSave", "numberSave", "copySave", "copyRead",
               "copyInsert"} => q.to \in Users
  /\ q.at \in Making \union {"docSave", "shareSave", "copyInsert"} => q.content \in Contents
  /\ q.at \in Knowing => q.number < MaxVersion
  /\ q.at \in Holding \union {"versionDocDelete", "versionDelete", "teamDocInsert",
                              "copyInsert", "commentSave"} => q.id \in VersionIds

TypeInv == TypeOK /\ \A r \in Requests : Needs(req[r])

LEMMA IdleTyped == Idle \in Request /\ Needs(Idle)
BY BoundAssumption DEF Idle, Request, Needs, Labels, Numbers, Making, Guarded, Holding,
                       Knowing

LEMMA CallTyped ==
  ASSUME NEW l \in Labels, NEW u \in Users
  PROVE  /\ Call(l, u) \in Request
         /\ Call(l, u).at = l /\ Call(l, u).user = u
BY IdleTyped DEF Call, Idle, Request

LEMMA MakeVersionTyped ==
  ASSUME NEW u \in Users, NEW c \in Contents,
         NEW k \in {"client", "create", "share", "get"}
  PROVE  /\ MakeVersion(u, c, k) \in Request
         /\ Needs(MakeVersion(u, c, k))
<1> DEFINE q == MakeVersion(u, c, k)
<1>1. q \in Request
  BY IdleTyped DEF MakeVersion, Call, Idle, Request, Labels, Making
<1>2. q.at = "versionRead" /\ q.user = u /\ q.content = c
  BY DEF MakeVersion, Call, Idle
<1> QED
  BY <1>1, <1>2 DEF Needs, Knowing, Holding, Guarded

\* Moving on keeps every local.
LEMMA MoveTyped ==
  ASSUME NEW q \in Request, NEW l \in Labels
  PROVE  LET c == [q EXCEPT !.at = l]
         IN  /\ c \in Request /\ c.at = l /\ c.user = q.user /\ c.to = q.to
             /\ c.number = q.number /\ c.id = q.id /\ c.content = q.content
             /\ c.caller = q.caller
BY DEF Request

\* A step of one request, on tables that stay typed.
LEMMA StepTyped ==
  ASSUME TypeInv, NEW r \in Requests, NEW c \in Request, Needs(c),
         req' = [req EXCEPT ![r] = c],
         copy' \in [Users -> Copy \union {NoCopy}],
         version' \in [VersionIds -> Version \union {NoVersion}],
         doc' \in [Users -> [Numbers -> Doc \union {NoDoc}]],
         legacy' \in [Users -> Contents \union {NoContent}]
  PROVE  TypeInv'
<1>1. req' \in [Requests -> Request]
  BY DEF TypeInv, TypeOK
<1>2. ASSUME NEW x \in Requests PROVE Needs(req'[x])
  BY DEF TypeInv, TypeOK
<1> QED
  BY <1>1, <1>2 DEF TypeInv, TypeOK, Needs

LEMMA FinishTyped ==
  ASSUME TypeInv, NEW r \in Requests, Finish(r),
         copy' \in [Users -> Copy \union {NoCopy}],
         version' \in [VersionIds -> Version \union {NoVersion}],
         doc' \in [Users -> [Numbers -> Doc \union {NoDoc}]],
         legacy' \in [Users -> Contents \union {NoContent}]
  PROVE  TypeInv'
BY StepTyped, IdleTyped DEF Finish, Go

LEMMA AdvanceTyped ==
  ASSUME TypeInv, NEW r \in Requests, NEW l \in Labels, Advance(r, l),
         Needs([req[r] EXCEPT !.at = l]),
         copy' \in [Users -> Copy \union {NoCopy}],
         version' \in [VersionIds -> Version \union {NoVersion}],
         doc' \in [Users -> [Numbers -> Doc \union {NoDoc}]],
         legacy' \in [Users -> Contents \union {NoContent}]
  PROVE  TypeInv'
<1>1. [req[r] EXCEPT !.at = l] \in Request
  BY MoveTyped DEF TypeInv, TypeOK
<1> QED
  BY <1>1, StepTyped DEF Advance, Go

LEMMA DieTyped ==
  ASSUME TypeInv, Die,
         copy' \in [Users -> Copy \union {NoCopy}],
         version' \in [VersionIds -> Version \union {NoVersion}],
         UNCHANGED <<doc, legacy>>
  PROVE  TypeInv'
<1>1. \A r \in Requests : req'[r] = Idle
  BY DEF Die
<1> QED
  BY <1>1, IdleTyped DEF Die, TypeInv, TypeOK, Needs

LEMMA RaiseTyped ==
  ASSUME TypeInv, NEW r \in Requests, ~Free(r), Raise(r),
         copy' \in [Users -> Copy \union {NoCopy}],
         version' \in [VersionIds -> Version \union {NoVersion}],
         UNCHANGED <<doc, legacy>>
  PROVE  TypeInv'
<1>0. /\ req[r] \in Request /\ Needs(req[r])
      /\ doc' \in [Users -> [Numbers -> Doc \union {NoDoc}]]
      /\ legacy' \in [Users -> Contents \union {NoContent}]
  BY DEF TypeInv, TypeOK
<1>1. ASSUME req[r].at \in Guarded, Advance(r, "versionDrop") PROVE TypeInv'
  <2>1. "versionDrop" \in Labels
    BY DEF Labels, Making
  <2>2. Needs([req[r] EXCEPT !.at = "versionDrop"])
    BY <1>0, <1>1, <2>1, MoveTyped
    DEF Needs, Making, Guarded, Knowing, Holding
  <2> QED
    BY <1>0, <1>1, <2>1, <2>2, AdvanceTyped
<1>2. ASSUME req[r].at \in Making, Advance(r, "copyDrop") PROVE TypeInv'
  <2>1. "copyDrop" \in Labels
    BY DEF Labels
  <2>2. Needs([req[r] EXCEPT !.at = "copyDrop"])
    BY <1>0, <1>2, <2>1, MoveTyped
    DEF Needs, Making, Guarded, Knowing, Holding
  <2> QED
    BY <1>0, <1>2, <2>1, <2>2, AdvanceTyped
<1>3. CASE Finish(r)
  BY <1>0, <1>3, FinishTyped
<1>4. CASE Die
  BY <1>4, DieTyped
<1> QED
  BY <1>1, <1>2, <1>3, <1>4 DEF Raise, GiveUp

LEMMA GiveUpTyped ==
  ASSUME TypeInv, NEW r \in Requests, GiveUp(r),
         copy' \in [Users -> Copy \union {NoCopy}],
         UNCHANGED <<version, doc, legacy>>
  PROVE  TypeInv'
<1>1. /\ version' \in [VersionIds -> Version \union {NoVersion}]
      /\ doc' \in [Users -> [Numbers -> Doc \union {NoDoc}]]
      /\ legacy' \in [Users -> Contents \union {NoContent}]
  BY DEF TypeInv, TypeOK
<1> QED
  BY <1>1, FinishTyped, DieTyped DEF GiveUp

\* What the tables hold has its type.
LEMMA Lookups ==
  ASSUME TypeInv, NEW u \in Users
  PROVE  /\ Has(u) => copy[u] \in Copy
         /\ \A n \in Numbers : HasDoc(u, n) => doc[u][n] \in Doc
BY DEF TypeInv, TypeOK, Has, HasDoc

LEMMA NoDocKey == NoDoc.id \notin VersionIds
BY IdAssumption DEF NoDoc

LEMMA SaveCopyTyped ==
  ASSUME TypeInv, NEW u \in Users, NEW shared \in BOOLEAN, SaveCopy(u, shared)
  PROVE  copy' \in [Users -> Copy \union {NoCopy}]
<1>1. 0 \in Numbers
  BY BoundAssumption DEF Numbers
<1>2. ASSUME Has(u) PROVE [copy[u] EXCEPT !.shared = @ \/ shared] \in Copy
  <2>1. copy[u] \in Copy
    BY <1>2, Lookups
  <2>2. copy[u].shared \/ shared \in BOOLEAN
    OBVIOUS
  <2> QED
    BY <2>1, <2>2 DEF Copy
<1>3. [number |-> 0, shared |-> shared] \in Copy
  BY <1>1 DEF Copy
<1> QED
  BY <1>2, <1>3 DEF SaveCopy, TypeInv, TypeOK

\* A request that begins.
LEMMA BeginTyped ==
  ASSUME TypeInv, NEW r \in Requests, NEW c \in Request, Needs(c), Begin(r, c),
         UNCHANGED stores
  PROVE  TypeInv'
BY StepTyped DEF Begin, Go, stores, TypeInv, TypeOK

LEMMA ArrivalTyped ==
  ASSUME TypeInv, NEW r \in Requests, Arrival(r)
  PROVE  TypeInv'
<1>1. ASSUME NEW u \in Users, DeleteProcess(r, u) PROVE TypeInv'
  <2> DEFINE c == [Call("docDelete", u) EXCEPT !.number = copy[u].number]
  <2>1. copy[u].number \in Numbers
    BY <1>1, Lookups DEF DeleteProcess, Copy
  <2>2. c \in Request /\ c.at = "docDelete" /\ c.user = u
    BY <2>1, CallTyped DEF Labels, Request
  <2>3. Needs(c)
    BY <2>2 DEF Needs, Making, Guarded, Knowing, Holding
  <2> QED
    BY <1>1, <2>2, <2>3, BeginTyped DEF DeleteProcess
<1>2. ASSUME NEW u \in Users, GetProcess(r, u) PROVE TypeInv'
  <2>1. /\ Call("legacyRead", u) \in Request
        /\ Call("legacyRead", u).at = "legacyRead" /\ Call("legacyRead", u).user = u
    BY CallTyped DEF Labels
  <2>2. Needs(Call("legacyRead", u))
    BY <2>1 DEF Needs, Making, Guarded, Knowing, Holding
  <2> QED
    BY <1>2, <2>1, <2>2, BeginTyped DEF GetProcess
<1>3. ASSUME NEW u \in Users, VersionFromCurrent(r, u) PROVE TypeInv'
  <2> DEFINE c == [Call("currentRead", u) EXCEPT !.number = copy[u].number]
  <2>1. copy[u].number \in Numbers
    BY <1>3, Lookups DEF VersionFromCurrent, Copy
  <2>2. c \in Request /\ c.at = "currentRead" /\ c.user = u
    BY <2>1, CallTyped DEF Labels, Request
  <2>3. Needs(c)
    BY <2>2 DEF Needs, Making, Guarded, Knowing, Holding
  <2> QED
    BY <1>3, <2>2, <2>3, BeginTyped DEF VersionFromCurrent
<1>4. ASSUME NEW u \in Users, NEW c \in Contents, CreateProcess(r, u, c) PROVE TypeInv'
  BY <1>4, MakeVersionTyped, SaveCopyTyped, StepTyped
  DEF CreateProcess, Begin, Go, TypeInv, TypeOK
<1>5. ASSUME NEW u \in Users, NEW d \in Contents, SaveProcess(r, u, d) PROVE TypeInv'
  <2> DEFINE c == [Call("docSave", u) EXCEPT !.number = copy[u].number, !.content = d]
  <2>1. copy[u].number \in Numbers
    BY <1>5, Lookups DEF SaveProcess, Copy
  <2>2. c \in Request /\ c.at = "docSave" /\ c.user = u /\ c.content = d
  <3>1. Call("docSave", u) \in Request /\ Call("docSave", u).at = "docSave"
        /\ Call("docSave", u).user = u
    BY CallTyped DEF Labels
  <3> QED
    BY <2>1, <3>1 DEF Request
  <2>3. Needs(c)
    BY <2>2 DEF Needs, Making, Guarded, Knowing, Holding
  <2> QED
    BY <1>5, <2>2, <2>3, BeginTyped DEF SaveProcess
<1>6. ASSUME NEW u \in Users, NEW c \in Contents, NewVersion(r, u, c) PROVE TypeInv'
  BY <1>6, MakeVersionTyped, BeginTyped DEF NewVersion
<1>7. ASSUME NEW u \in Users, NEW w \in Users, ShareProcess(r, u, w) PROVE TypeInv'
  <2> DEFINE c == [Call("shareRead", u) EXCEPT !.to = w, !.number = copy[u].number]
  <2>1. copy[u].number \in Numbers
    BY <1>7, Lookups DEF ShareProcess, Copy
  <2>2. c \in Request /\ c.at = "shareRead" /\ c.user = u /\ c.to = w
  <3>1. Call("shareRead", u) \in Request /\ Call("shareRead", u).at = "shareRead"
        /\ Call("shareRead", u).user = u
    BY CallTyped DEF Labels
  <3> QED
    BY <2>1, <3>1 DEF Request
  <2>3. Needs(c)
    BY <2>2 DEF Needs, Making, Guarded, Knowing, Holding
  <2> QED
    BY <1>7, <2>2, <2>3, BeginTyped DEF ShareProcess
<1>8. ASSUME NEW u \in Users, NEW i \in VersionIds, RestoreVersion(r, u, i) PROVE TypeInv'
  <2>1. PICK w \in Users, n \in Numbers :
          doc[w][n].id = i /\ Begin(r, MakeVersion(u, doc[w][n].content, "client"))
    BY <1>8 DEF RestoreVersion
  <2>2. doc[w][n].content \in Contents
    BY <2>1, NoDocKey DEF TypeInv, TypeOK, Doc
  <2> QED
    BY <1>8, <2>1, <2>2, MakeVersionTyped, BeginTyped DEF RestoreVersion
<1>9. ASSUME NEW u \in Users, NEW i \in VersionIds, DeleteVersion(r, u, i) PROVE TypeInv'
  <2>1. ASSUME Begin(r, [Call("versionDelete", NoUser) EXCEPT !.id = i]) PROVE TypeInv'
    <3> DEFINE c == [Call("versionDelete", NoUser) EXCEPT !.id = i]
    <3>1. c \in Request /\ c.at = "versionDelete" /\ c.id = i
      BY IdleTyped DEF Labels, Request, Call, Idle
    <3>2. Needs(c)
      BY <3>1 DEF Needs, Making, Guarded, Knowing, Holding
    <3> QED
      BY <1>9, <2>1, <3>1, <3>2, BeginTyped DEF DeleteVersion
  <2>2. ASSUME NEW d \in Users \X Numbers,
               Begin(r, [Call("versionDocDelete", d[1]) EXCEPT !.number = d[2], !.id = i])
        PROVE  TypeInv'
    <3> DEFINE c == [Call("versionDocDelete", d[1]) EXCEPT !.number = d[2], !.id = i]
    <3>1. c \in Request /\ c.at = "versionDocDelete" /\ c.id = i /\ c.user = d[1]
    <4>1. Call("versionDocDelete", d[1]) \in Request /\ Call("versionDocDelete", d[1]).at = "versionDocDelete"
          /\ Call("versionDocDelete", d[1]).user = d[1]
      BY CallTyped DEF Labels
    <4> QED
      BY <4>1 DEF Request
    <3>2. Needs(c)
      BY <3>1 DEF Needs, Making, Guarded, Knowing, Holding
    <3> QED
      BY <1>9, <2>2, <3>1, <3>2, BeginTyped DEF DeleteVersion
  <2> QED
    BY <1>9, <2>1, <2>2 DEF DeleteVersion
<1> QED
  BY <1>1, <1>2, <1>3, <1>4, <1>5, <1>6, <1>7, <1>8, <1>9 DEF Arrival

\* A request that goes on without touching the tables.
LEMMA QuietTyped ==
  ASSUME TypeInv, NEW r \in Requests, NEW c \in Request, Needs(c), Go(r, c),
         UNCHANGED stores
  PROVE  TypeInv'
BY StepTyped DEF Go, stores, TypeInv, TypeOK

LEMMA NothingToClear ==
  ASSUME NEW v, v = NoVersion
  PROVE  [v EXCEPT !.current = FALSE] = v
<1> DEFINE w == [v EXCEPT !.current = FALSE]
<1>1. w.by = v.by /\ w.current = v.current
  BY DEF NoVersion
<1>2. v \in [by : {NoUser}, current : {FALSE}] /\ w \in [by : {NoUser}, current : {FALSE}]
  BY DEF NoVersion
<1> QED
  BY <1>1, <1>2

LEMMA MakingTyped ==
  ASSUME TypeInv, NEW r \in Requests,
         \/ VersionRead(r) \/ VersionClear(r) \/ VersionInsert(r) \/ DocInsert(r)
         \/ VersionSave(r) \/ CopyUpdate(r) \/ VersionDrop(r)
  PROVE  TypeInv'
<1>0. /\ req[r] \in Request /\ Needs(req[r]) /\ TypeOK
      /\ req[r].number \in Numbers /\ req[r].content \in Contents \union {NoContent}
  BY DEF TypeInv, TypeOK, Request
<1> DEFINE u == req[r].user
<1>1. CASE VersionRead(r)
  <2>1. CASE Has(u)
    <3> DEFINE c == [req[r] EXCEPT !.at = "versionClear", !.number = copy[u].number]
    <3>1. u \in Users /\ copy[u] \in Copy /\ copy[u].number < MaxVersion
          /\ req[r].content \in Contents
      BY <1>0, <1>1, <2>1, Lookups DEF VersionRead, Needs, Making
    <3>2. c \in Request /\ c.at = "versionClear" /\ c.user = u
          /\ c.content = req[r].content /\ c.number < MaxVersion
      BY <1>0, <3>1 DEF Request, Copy, Labels, Making
    <3>3. Needs(c)
      BY <3>1, <3>2 DEF Needs, Holding, Guarded, Making
    <3> QED
      BY <1>1, <2>1, <3>2, <3>3, QuietTyped DEF VersionRead
  <2>2. CASE ~Has(u)
    BY <1>0, <1>1, <2>2, RaiseTyped DEF VersionRead, Free, stores, TypeOK
  <2> QED
    BY <2>1, <2>2
<1>2. CASE VersionClear(r)
  <2>1. version' \in [VersionIds -> Version \union {NoVersion}]
    <3>1. ASSUME NEW i \in VersionIds
          PROVE  [version[i] EXCEPT !.current = FALSE] \in Version \union {NoVersion}
      <4>1. CASE version[i] \in Version
        BY <4>1 DEF Version
      <4>2. CASE version[i] = NoVersion
        BY <4>2, NothingToClear
      <4> QED
        BY <1>0, <4>1, <4>2 DEF TypeOK
    <3> QED
      BY <1>2, <3>1 DEF VersionClear
  <2>2. Needs([req[r] EXCEPT !.at = "versionInsert"]) /\ "versionInsert" \in Labels
    <3>1. "versionInsert" \in Labels
      BY DEF Labels, Making
    <3> QED
      BY <1>0, <1>2, <3>1, MoveTyped
      DEF VersionClear, Needs, Making, Guarded, Knowing, Holding
  <2> QED
    BY <1>0, <1>2, <2>1, <2>2, AdvanceTyped DEF VersionClear, TypeOK
<1>3. CASE VersionInsert(r)
  <2>1. PICK i \in FreshVersion :
          /\ version' = [version EXCEPT ![i] = [by |-> u, current |-> TRUE]]
          /\ Go(r, [req[r] EXCEPT !.at = "docInsert", !.id = i])
    BY <1>3 DEF VersionInsert
  <2> DEFINE c == [req[r] EXCEPT !.at = "docInsert", !.id = i]
  <2>2. i \in VersionIds
    BY DEF FreshVersion
  <2>3. u \in Users /\ req[r].number < MaxVersion /\ req[r].content \in Contents
    BY <1>0, <1>3 DEF VersionInsert, Needs, Making, Knowing
  <2>4. c \in Request /\ c.at = "docInsert" /\ c.user = u /\ c.id = i
        /\ c.content = req[r].content /\ c.number = req[r].number
    BY <1>0, <2>2 DEF Request, Labels, Making, Guarded
  <2>5. Needs(c)
    BY <2>2, <2>3, <2>4 DEF Needs
  <2>6. version' \in [VersionIds -> Version \union {NoVersion}]
    BY <1>0, <2>1, <2>3 DEF TypeOK, Version
  <2> QED
    BY <1>0, <1>3, <2>1, <2>4, <2>5, <2>6, StepTyped DEF VersionInsert, Go, TypeOK
<1>4. CASE DocInsert(r)
  <2>1. /\ u \in Users /\ req[r].number + 1 \in Numbers /\ NewDoc(r) \in Doc
        /\ req[r].id \in VersionIds /\ req[r].content \in Contents
        /\ req[r].number < MaxVersion
    BY <1>0, <1>4, BoundAssumption
    DEF DocInsert, Needs, Making, Knowing, Holding, Guarded, Numbers, NewDoc, Doc
  <2>2. CASE HasDoc(u, req[r].number + 1)
    BY <1>0, <1>4, <2>2, RaiseTyped DEF DocInsert, Free, TypeOK
  <2>3. CASE ~HasDoc(u, req[r].number + 1)
    <3>1. doc' \in [Users -> [Numbers -> Doc \union {NoDoc}]]
      BY <1>0, <1>4, <2>1, <2>3 DEF DocInsert, TypeOK
    <3>2. "versionSave" \in Labels
      BY DEF Labels, Making, Guarded
    <3>3. Needs([req[r] EXCEPT !.at = "versionSave"])
      BY <1>0, <2>1, <3>2, MoveTyped DEF Needs
    <3> QED
      BY <1>0, <1>4, <2>3, <3>1, <3>2, <3>3, AdvanceTyped DEF DocInsert, TypeOK
  <2> QED
    BY <2>2, <2>3
<1>5. CASE VersionSave(r)
  <2>1. /\ u \in Users /\ req[r].id \in VersionIds /\ req[r].content \in Contents
        /\ req[r].number < MaxVersion
    BY <1>0, <1>5 DEF VersionSave, Needs, Making, Knowing, Holding, Guarded
  <2>2. version' \in [VersionIds -> Version \union {NoVersion}]
    BY <1>0, <1>5, <2>1 DEF VersionSave, TypeOK, Version
  <2>3. "copyUpdate" \in Labels
    BY DEF Labels, Making, Guarded
  <2>4. Needs([req[r] EXCEPT !.at = "copyUpdate"])
    BY <1>0, <2>1, <2>3, MoveTyped DEF Needs
  <2> QED
    BY <1>0, <1>5, <2>2, <2>3, <2>4, AdvanceTyped DEF VersionSave, TypeOK
<1>6. CASE CopyUpdate(r)
  <2>1. u \in Users /\ req[r].number + 1 \in Numbers
    BY <1>0, <1>6, BoundAssumption
    DEF CopyUpdate, Needs, Making, Knowing, Holding, Guarded, Numbers
  <2>2. copy' \in [Users -> Copy \union {NoCopy}]
    BY <1>0, <1>6, <2>1 DEF CopyUpdate, TypeOK, Copy, Has
  <2>3. "legacyDelete" \in Labels
    BY DEF Labels
  <2>4. Needs([req[r] EXCEPT !.at = "legacyDelete"])
    BY <1>0, <2>1, <2>3, MoveTyped
    DEF Needs, Making, Knowing, Holding, Guarded
  <2> QED
    BY <1>0, <1>6, <2>2, <2>3, <2>4, AdvanceTyped, FinishTyped DEF CopyUpdate, TypeOK
<1>7. CASE VersionDrop(r)
  <2>1. req[r].id \in VersionIds
    BY <1>0, <1>7 DEF VersionDrop, Needs, Holding
  <2>2. version' \in [VersionIds -> Version \union {NoVersion}]
    BY <1>0, <1>7, <2>1 DEF VersionDrop, TypeOK
  <2> QED
    BY <1>0, <1>7, <2>2, RaiseTyped DEF VersionDrop, Free, TypeOK
<1> QED
  BY <1>1, <1>2, <1>3, <1>4, <1>5, <1>6, <1>7

LEMMA OtherStepTyped ==
  ASSUME TypeInv, NEW r \in Requests,
         \/ CopyDrop(r) \/ DocDelete(r) \/ LegacyRead(r) \/ LegacyDelete(r)
         \/ DocSave(r) \/ ShareRead(r) \/ ShareSave(r) \/ CurrentRead(r)
         \/ VersionDelete(r)
  PROVE  TypeInv'
<1>0. /\ req[r] \in Request /\ Needs(req[r]) /\ TypeOK
      /\ req[r].number \in Numbers /\ req[r].content \in Contents \union {NoContent}
  BY DEF TypeInv, TypeOK, Request
<1> DEFINE u == req[r].user
<1>1. CASE CopyDrop(r)
  BY <1>0, <1>1, GiveUpTyped DEF CopyDrop, TypeOK
<1>2. CASE DocDelete(r)
  <2>1. u \in Users
    BY <1>0, <1>2 DEF DocDelete, Needs
  <2>2. doc' \in [Users -> [Numbers -> Doc \union {NoDoc}]]
    BY <1>0, <1>2, <2>1 DEF DocDelete, TypeOK
  <2>3. ASSUME req[r].at = "docDelete" PROVE TypeInv'
    <3>1. "copyDrop" \in Labels
      BY DEF Labels
    <3>2. Needs([req[r] EXCEPT !.at = "copyDrop"])
      BY <1>0, <2>1, <3>1, MoveTyped
      DEF Needs, Making, Knowing, Holding, Guarded
    <3> QED
      BY <1>0, <1>2, <2>2, <2>3, <3>1, <3>2, AdvanceTyped DEF DocDelete, TypeOK
  <2>4. ASSUME req[r].at = "versionDocDelete" PROVE TypeInv'
    <3>1. "versionDelete" \in Labels /\ req[r].id \in VersionIds
      BY <1>0, <2>4 DEF Labels, Needs
    <3>2. Needs([req[r] EXCEPT !.at = "versionDelete"])
      BY <1>0, <2>1, <3>1, MoveTyped
      DEF Needs, Making, Knowing, Holding, Guarded
    <3> QED
      BY <1>0, <1>2, <2>2, <2>4, <3>1, <3>2, AdvanceTyped DEF DocDelete, TypeOK
  <2> QED
    BY <1>2, <2>3, <2>4 DEF DocDelete
<1>3. CASE LegacyRead(r)
  <2>1. u \in Users /\ legacy[u] \in Contents \union {NoContent}
    BY <1>0, <1>3 DEF LegacyRead, Needs, TypeOK
  <2>2. CASE legacy[u] # NoContent
    BY <1>3, <2>1, <2>2, MakeVersionTyped, QuietTyped DEF LegacyRead
  <2>3. CASE legacy[u] = NoContent
    BY <1>3, <2>3, IdleTyped, QuietTyped DEF LegacyRead, Finish
  <2> QED
    BY <2>2, <2>3
<1>4. CASE LegacyDelete(r)
  <2>1. u \in Users
    BY <1>0, <1>4 DEF LegacyDelete, Needs
  <2>2. legacy' \in [Users -> Contents \union {NoContent}]
    BY <1>0, <1>4, <2>1 DEF LegacyDelete, TypeOK
  <2> QED
    BY <1>0, <1>4, <2>2, FinishTyped DEF LegacyDelete, TypeOK
<1>5. CASE DocSave(r)
  <2>1. u \in Users /\ req[r].content \in Contents
    BY <1>0, <1>5 DEF DocSave, Needs
  <2>2. ASSUME HasDoc(u, req[r].number)
        PROVE  [doc[u][req[r].number] EXCEPT !.content = req[r].content] \in Doc
    BY <1>0, <2>1, <2>2, Lookups DEF Doc
  <2>3. doc' \in [Users -> [Numbers -> Doc \union {NoDoc}]]
    BY <1>0, <1>5, <2>1, <2>2 DEF DocSave, TypeOK
  <2> QED
    BY <1>0, <1>5, <2>3, FinishTyped DEF DocSave, TypeOK
<1>6. CASE ShareRead(r)
  <2> DEFINE d == doc[u][req[r].number]
             c == [req[r] EXCEPT !.at = "shareSave", !.content = d.content,
                                 !.caller = "share"]
  <2>1. u \in Users /\ req[r].to \in Users
    BY <1>0, <1>6 DEF ShareRead, Needs
  <2>2. CASE d # NoDoc
    <3>1. d.content \in Contents
      BY <1>0, <2>1, <2>2 DEF TypeOK, Doc
    <3>2. c \in Request /\ c.at = "shareSave" /\ c.user = u /\ c.to = req[r].to
          /\ c.content = d.content
      BY <1>0, <3>1 DEF Request, Labels
    <3>3. Needs(c)
      BY <2>1, <3>1, <3>2 DEF Needs, Making, Knowing, Holding, Guarded
    <3> QED
      BY <1>6, <2>2, <3>2, <3>3, QuietTyped DEF ShareRead
  <2>3. CASE d = NoDoc
    BY <1>6, <2>3, IdleTyped, QuietTyped DEF ShareRead, Finish
  <2> QED
    BY <2>2, <2>3
<1>7. CASE ShareSave(r)
  <2>1. req[r].to \in Users /\ req[r].content \in Contents
    BY <1>0, <1>7 DEF ShareSave, Needs
  <2>2. copy' \in [Users -> Copy \union {NoCopy}]
    BY <1>7, <2>1, SaveCopyTyped DEF ShareSave
  <2> QED
    BY <1>0, <1>7, <2>1, <2>2, MakeVersionTyped, StepTyped DEF ShareSave, Go, TypeOK
<1>8. CASE CurrentRead(r)
  <2> DEFINE d == doc[u][req[r].number]
  <2>1. u \in Users
    BY <1>0, <1>8 DEF CurrentRead, Needs
  <2>2. CASE d # NoDoc
    <3>1. d.content \in Contents
      BY <1>0, <2>1, <2>2 DEF TypeOK, Doc
    <3> QED
      BY <1>8, <2>1, <2>2, <3>1, MakeVersionTyped, QuietTyped DEF CurrentRead
  <2>3. CASE d = NoDoc
    BY <1>8, <2>3, IdleTyped, QuietTyped DEF CurrentRead, Finish
  <2> QED
    BY <2>2, <2>3
<1>9. CASE VersionDelete(r)
  <2>1. req[r].id \in VersionIds
    BY <1>0, <1>9 DEF VersionDelete, Needs
  <2>2. version' \in [VersionIds -> Version \union {NoVersion}]
    BY <1>0, <1>9, <2>1 DEF VersionDelete, TypeOK
  <2> QED
    BY <1>0, <1>9, <2>2, FinishTyped DEF VersionDelete, TypeOK
<1> QED
  BY <1>1, <1>2, <1>3, <1>4, <1>5, <1>6, <1>7, <1>8, <1>9

LEMMA InitTyped == Init => TypeInv
<1> SUFFICES ASSUME Init PROVE TypeInv
  OBVIOUS
<1>1. [number |-> 1, shared |-> FALSE] \in Copy
  BY BoundAssumption DEF Copy, Numbers
<1>2. TypeOK
  BY <1>1, IdleTyped DEF Init, TypeOK
<1>3. \A r \in Requests : req[r] = Idle
  BY DEF Init
<1> QED
  BY <1>2, <1>3, IdleTyped DEF TypeInv

LEMMA NextTyped == TypeInv /\ [Next]_vars => TypeInv'
<1> SUFFICES ASSUME TypeInv, [Next]_vars PROVE TypeInv'
  OBVIOUS
<1>1. ASSUME NEW r \in Requests, Arrival(r) PROVE TypeInv'
  BY <1>1, ArrivalTyped
<1>2. ASSUME NEW r \in Requests, Step(r) PROVE TypeInv'
  BY <1>2, MakingTyped, OtherStepTyped DEF Step
<1>3. ASSUME NEW r \in Requests, Fail(r) PROVE TypeInv'
  BY <1>3, RaiseTyped DEF Fail, stores, TypeInv, TypeOK
<1>4. CASE Crash
  BY <1>4, DieTyped DEF Crash, stores, TypeInv, TypeOK
<1>5. CASE UNCHANGED vars
  BY <1>5 DEF vars, TypeInv, TypeOK, Needs
<1> QED
  BY <1>1, <1>2, <1>3, <1>4, <1>5 DEF Next

\* Every request in flight has the locals its control point needs, so that no
\* handler writes a number beyond its copy's or a document without a content.
THEOREM VersionsTypeInvariant == Spec => []TypeInv
BY InitTyped, NextTyped, PTL DEF Spec

\* The tables keep their types for all operations, for any users, requests and
\* versions, however they interleave and wherever they fail or the server dies.
THEOREM VersionsTyped == Spec => []TypeOK
<1>1. TypeInv => TypeOK
  BY DEF TypeInv
<1> QED
  BY <1>1, VersionsTypeInvariant, PTL

-----------------------------------------------------------------------------
(* As long as nothing is deleted. *)

KeepingAssumption == {"deleteProcess", "deleteProcessVersion"} \intersect Calls = {}

\* A version that is there to stay: no request that could drop its row holds its
\* key any more.
Kept(u, k) ==
  /\ HasDoc(u, k)
  /\ version[doc[u][k].id] # NoVersion
  /\ \A r \in Requests : req[r].at \in Holding => req[r].id # doc[u][k].id

\* The first number that has a version: a copy from before there were versions
\* counts one that it does not have.
First(u) == IF u \in Legacy THEN 2 ELSE 1

Complete(u, n) == \A k \in Numbers : First(u) <= k /\ k <= n => Kept(u, k)

\* What a request in flight still knows of the number it read, however long ago:
\* the copy may have gone since, and been made again.
Knows(q) ==
  /\ q.at \notin {"docDelete", "versionDocDelete", "versionDelete"}
  /\ q.at \in Knowing => Complete(q.user, q.number)
  /\ q.at \in {"versionSave", "copyUpdate"} => doc[q.user][q.number + 1].id = q.id
  /\ q.at = "copyUpdate" => version[q.id] # NoVersion

CopiesComplete == \A u \in Users : Has(u) => Complete(u, copy[u].number)

KeysDistinct ==
  \A q, r \in Requests :
    req[q].at \in Holding /\ req[r].at \in Holding /\ req[q].id = req[r].id => q = r

KeptInv ==
  /\ TypeInv
  /\ CopiesComplete
  /\ KeysDistinct
  /\ \A r \in Requests : Knows(req[r])

\* What a step leaves of the versions that are there to stay.
Grows ==
  /\ \A u \in Users, k \in Numbers :
       HasDoc(u, k) => doc'[u][k].id = doc[u][k].id
  /\ \A i \in VersionIds :
       /\ version[i] # NoVersion
       /\ \A x \in Requests : req[x].at = "versionDrop" => req[x].id # i
       => version'[i] # NoVersion
  /\ \A x \in Requests :
       req'[x].at \in Holding =>
         \/ req[x].at \in Holding /\ req'[x].id = req[x].id
         \/ \A u \in Users, k \in Numbers : doc[u][k].id # req'[x].id

LEMMA KeyedDocs ==
  ASSUME TypeInv, NEW u \in Users, NEW k \in Numbers
  PROVE  HasDoc(u, k) <=> doc[u][k].id \in VersionIds
BY IdAssumption DEF TypeInv, TypeOK, HasDoc, Doc, NoDoc

LEMMA KeptStays ==
  ASSUME TypeInv, TypeInv', Grows, NEW u \in Users, NEW k \in Numbers, Kept(u, k)
  PROVE  Kept(u, k)'
<1>1. HasDoc(u, k) /\ doc[u][k].id \in VersionIds /\ doc'[u][k].id = doc[u][k].id
  BY KeyedDocs DEF Kept, Grows
<1>2. HasDoc(u, k)'
  BY <1>1, IdAssumption DEF HasDoc, NoDoc
<1>3. version'[doc'[u][k].id] # NoVersion
  BY <1>1 DEF Kept, Grows, Holding
<1>4. \A x \in Requests : req'[x].at \in Holding => req'[x].id # doc'[u][k].id
  BY <1>1 DEF Kept, Grows
<1> QED
  BY <1>2, <1>3, <1>4 DEF Kept

LEMMA CompleteStays ==
  ASSUME TypeInv, TypeInv', Grows, NEW u \in Users, NEW n, Complete(u, n)
  PROVE  Complete(u, n)'
BY KeptStays DEF Complete, First

LEMMA CopiesStay ==
  ASSUME KeptInv, TypeInv', Grows,
         \A u \in Users :
           copy'[u] # NoCopy => \/ Has(u) /\ copy'[u].number = copy[u].number
                                \/ Complete(u, copy[u].number)'
  PROVE  CopiesComplete'
<1>1. ASSUME NEW u \in Users, Has(u), copy'[u].number = copy[u].number
      PROVE  Complete(u, copy[u].number)'
  <2>1. PICK n : n = copy[u].number
    OBVIOUS
  <2>2. Complete(u, n)'
    BY <1>1, <2>1, CompleteStays DEF KeptInv, CopiesComplete
  <2> QED
    BY <1>1, <2>1, <2>2 DEF Complete, Kept, HasDoc
<1>2. ASSUME NEW u \in Users, copy'[u] # NoCopy
      PROVE  Complete(u, copy[u].number)'
  BY <1>1, <1>2
<1> QED
  BY <1>2 DEF CopiesComplete, Has

\* A step of one request, which goes on with the record c.
LEMMA KeptStep ==
  ASSUME KeptInv, TypeInv', Grows, NEW r \in Requests, NEW c,
         req' = [req EXCEPT ![r] = c],
         c.at \notin {"docDelete", "versionDocDelete", "versionDelete"},
         c.at \in Knowing =>
           /\ c.user \in Users
           /\ Complete(c.user, c.number),
         c.at \in Holding =>
           \/ req[r].at \in Holding /\ c.id = req[r].id
           \/ \A x \in Requests : req[x].id # c.id,
         c.at \in {"versionSave", "copyUpdate"} => doc'[c.user][c.number + 1].id = c.id,
         c.at = "copyUpdate" => version'[c.id] # NoVersion,
         \A u \in Users :
           copy'[u] # NoCopy => \/ Has(u) /\ copy'[u].number = copy[u].number
                                \/ Complete(u, copy[u].number)'
  PROVE  KeptInv'
<1>1. \A x \in Requests : req'[x] = IF x = r THEN c ELSE req[x]
  BY DEF KeptInv, TypeInv, TypeOK
<1>2. CopiesComplete'
  BY CopiesStay
<1>3. KeysDistinct'
  BY <1>1 DEF KeptInv, KeysDistinct
<1>4. ASSUME NEW x \in Requests, x # r PROVE Knows(req[x])'
  <2> DEFINE q == req[x]
  <2>1. req'[x] = q /\ Knows(q) /\ Needs(q) /\ q \in Request
    BY <1>1, <1>4 DEF KeptInv, TypeInv, TypeOK
  <2>2. q.at \in Knowing => Complete(q.user, q.number)'
    BY <2>1, CompleteStays
    DEF KeptInv, Knows, Needs, Knowing, Holding, Guarded
  <2>3. q.at \in {"versionSave", "copyUpdate"} => doc'[q.user][q.number + 1].id = q.id
    <3> SUFFICES ASSUME q.at \in {"versionSave", "copyUpdate"}
                 PROVE  doc'[q.user][q.number + 1].id = q.id
      OBVIOUS
    <3>1. q.user \in Users /\ q.number + 1 \in Numbers /\ q.id \in VersionIds
      BY <2>1, BoundAssumption DEF Needs, Request, Numbers, Knowing, Holding, Guarded
    <3>2. HasDoc(q.user, q.number + 1)
      BY <2>1, <3>1, KeyedDocs DEF Knows, KeptInv
    <3> QED
      BY <2>1, <3>1, <3>2 DEF Knows, Grows
  <2>4. q.at = "copyUpdate" => version'[q.id] # NoVersion
    <3> SUFFICES ASSUME q.at = "copyUpdate" PROVE version'[q.id] # NoVersion
      OBVIOUS
    <3>1. q.id \in VersionIds /\ q.at \in Holding /\ version[q.id] # NoVersion
      BY <2>1 DEF Needs, Knows, Holding, Guarded
    <3>2. \A y \in Requests : req[y].at = "versionDrop" => req[y].id # q.id
      BY <3>1 DEF KeptInv, KeysDistinct, Holding
    <3> QED
      BY <3>1, <3>2 DEF Grows
  <2> QED
    BY <2>1, <2>2, <2>3, <2>4 DEF Knows
<1>5. Knows(req[r])'
  <2>1. c.at \in Knowing => Complete(c.user, c.number)'
    BY CompleteStays DEF KeptInv
  <2> QED
    BY <1>1, <2>1 DEF Knows
<1> QED
  BY <1>2, <1>3, <1>4, <1>5 DEF KeptInv

LEMMA GrowsQuietly ==
  ASSUME TypeInv, NEW r \in Requests, NEW c,
         req' = [req EXCEPT ![r] = c],
         UNCHANGED <<version, doc>>,
         c.at \in Holding => req[r].at \in Holding /\ c.id = req[r].id
  PROVE  Grows
BY DEF Grows, TypeInv, TypeOK

\* A step that leaves the versions and their documents alone.
LEMMA KeptQuietly ==
  ASSUME KeptInv, TypeInv', NEW r \in Requests, NEW c,
         req' = [req EXCEPT ![r] = c],
         UNCHANGED <<version, doc>>,
         c.at \notin {"docDelete", "versionDocDelete", "versionDelete"},
         c.at \notin Holding,
         c.at \in Knowing => c.user \in Users /\ Complete(c.user, c.number),
         \A u \in Users :
           copy'[u] # NoCopy => \/ Has(u) /\ copy'[u].number = copy[u].number
                                \/ copy'[u].number = 0
  PROVE  KeptInv'
<1>1. Grows
  BY GrowsQuietly DEF KeptInv
<1>2. ASSUME NEW u \in Users, copy'[u].number = 0 PROVE Complete(u, copy[u].number)'
  BY <1>2, BoundAssumption DEF Complete, First, Numbers
<1>3. c.at \notin {"versionSave", "copyUpdate"}
  BY DEF Holding, Guarded
<1> QED
  BY <1>1, <1>2, <1>3, KeptStep

LEMMA KeptWhenDead ==
  ASSUME KeptInv, TypeInv', Die, UNCHANGED doc,
         \A i \in VersionIds :
           /\ version[i] # NoVersion
           /\ \A x \in Requests : req[x].at = "versionDrop" => req[x].id # i
           => version'[i] # NoVersion,
         \A u \in Users :
           copy'[u] # NoCopy => Has(u) /\ copy'[u].number = copy[u].number
  PROVE  KeptInv'
<1>1. \A x \in Requests : req'[x].at = "idle"
  BY DEF Die, Idle
<1>2. "idle" \notin Knowing \union Holding
  BY DEF Knowing, Holding, Guarded
<1>3. Grows
  BY <1>1, <1>2 DEF Grows
<1>4. CopiesComplete'
  BY <1>3, CopiesStay
<1> QED
  BY <1>1, <1>2, <1>4 DEF KeptInv, KeysDistinct, Knows

LEMMA KeptWhenRaised ==
  ASSUME KeptInv, TypeInv', NEW r \in Requests, Raise(r), UNCHANGED doc,
         \A i \in VersionIds :
           /\ version[i] # NoVersion
           /\ \A x \in Requests : req[x].at = "versionDrop" => req[x].id # i
           => version'[i] # NoVersion,
         \A u \in Users :
           copy'[u] # NoCopy => Has(u) /\ copy'[u].number = copy[u].number
  PROVE  KeptInv'
<1>1. req[r] \in Request /\ Knows(req[r]) /\ Needs(req[r])
  BY DEF KeptInv, TypeInv, TypeOK
<1>2. ASSUME NEW c, req' = [req EXCEPT ![r] = c], c.at \notin Holding \union Knowing,
             c.at \notin {"docDelete", "versionDocDelete", "versionDelete"}
      PROVE  KeptInv'
  <2>1. Grows
    BY <1>2 DEF Grows, KeptInv, TypeInv, TypeOK
  <2> QED
    BY <1>2, <2>1, KeptStep DEF Holding, Guarded
<1>3. ASSUME req[r].at \in Guarded, Advance(r, "versionDrop") PROVE KeptInv'
  <2> DEFINE c == [req[r] EXCEPT !.at = "versionDrop"]
  <2>1. /\ c.at = "versionDrop" /\ c.id = req[r].id
        /\ c.user = req[r].user /\ c.number = req[r].number
    BY <1>1, MoveTyped DEF Labels, Making
  <2>2. c.user \in Users /\ Complete(c.user, c.number) /\ req[r].at \in Holding
    BY <1>1, <1>3, <2>1 DEF Knows, Needs, Knowing, Holding, Guarded
  <2>3. Grows
    BY <1>3, <2>1, <2>2 DEF Grows, KeptInv, TypeInv, TypeOK, Advance, Go
  <2> QED
    BY <1>3, <2>1, <2>2, <2>3, KeptStep DEF Advance, Go
<1>4. ASSUME Advance(r, "copyDrop") PROVE KeptInv'
  <2> DEFINE c == [req[r] EXCEPT !.at = "copyDrop"]
  <2>1. c.at = "copyDrop"
    BY <1>1, MoveTyped DEF Labels
  <2> QED
    BY <1>2, <1>4, <2>1 DEF Advance, Go, Knowing, Holding, Guarded
<1>5. CASE Finish(r)
  BY <1>2, <1>5 DEF Finish, Go, Idle, Knowing, Holding, Guarded
<1>6. CASE Die
  BY <1>6, KeptWhenDead
<1> QED
  BY <1>3, <1>4, <1>5, <1>6 DEF Raise, GiveUp

LEMMA ArrivalKeeps ==
  ASSUME KeepingAssumption, KeptInv, NEW r \in Requests, Arrival(r)
  PROVE  KeptInv'
<1>0. TypeInv' /\ TypeInv
  BY ArrivalTyped DEF KeptInv
<1>1. ASSUME NEW c, Begin(r, c), UNCHANGED stores,
             c.at \in {"legacyRead", "currentRead", "docSave", "shareRead", "versionRead"}
      PROVE  KeptInv'
  BY <1>0, <1>1, KeptQuietly DEF Begin, Go, stores, Knowing, Holding, Guarded, Has
<1>2. ASSUME NEW u \in Users PROVE ~DeleteProcess(r, u) \/ "deleteProcess" \notin Calls
  BY DEF KeepingAssumption
<1>3. ASSUME NEW u \in Users, GetProcess(r, u) PROVE KeptInv'
  BY <1>1, <1>3 DEF GetProcess, Call, Idle
<1>4. ASSUME NEW u \in Users, VersionFromCurrent(r, u) PROVE KeptInv'
  BY <1>1, <1>4 DEF VersionFromCurrent, Call, Idle
<1>5. ASSUME NEW u \in Users, NEW c \in Contents, CreateProcess(r, u, c) PROVE KeptInv'
  <2>1. MakeVersion(u, c, "create").at = "versionRead"
    BY DEF MakeVersion, Call, Idle
  <2>2. ASSUME NEW w \in Users, copy'[w] # NoCopy
        PROVE  \/ Has(w) /\ copy'[w].number = copy[w].number
               \/ copy'[w].number = 0
    <3>1. Has(w) => copy[w] \in Copy
      BY <1>0, Lookups
    <3> QED
      BY <1>0, <1>5, <2>2, <3>1 DEF CreateProcess, SaveCopy, TypeInv, TypeOK, Copy, Has
  <2> QED
    BY <1>0, <1>5, <2>1, <2>2, KeptQuietly
    DEF CreateProcess, Begin, Go, Knowing, Holding, Guarded
<1>6. ASSUME NEW u \in Users, NEW c \in Contents, SaveProcess(r, u, c) PROVE KeptInv'
  BY <1>1, <1>6 DEF SaveProcess, Call, Idle
<1>7. ASSUME NEW u \in Users, NEW c \in Contents, NewVersion(r, u, c) PROVE KeptInv'
  BY <1>1, <1>7 DEF NewVersion, MakeVersion, Call, Idle
<1>8. ASSUME NEW u \in Users, NEW w \in Users, ShareProcess(r, u, w) PROVE KeptInv'
  BY <1>1, <1>8 DEF ShareProcess, Call, Idle
<1>9. ASSUME NEW u \in Users, NEW i \in VersionIds, RestoreVersion(r, u, i) PROVE KeptInv'
  BY <1>1, <1>9 DEF RestoreVersion, MakeVersion, Call, Idle
<1>10. "deleteProcessVersion" \notin Calls
  BY DEF KeepingAssumption
<1> QED
  BY <1>2, <1>3, <1>4, <1>5, <1>6, <1>7, <1>8, <1>9, <1>10 DEF Arrival

LEMMA MakingKeeps ==
  ASSUME KeptInv, NEW r \in Requests,
         \/ VersionRead(r) \/ VersionClear(r) \/ VersionInsert(r) \/ DocInsert(r)
         \/ VersionSave(r) \/ CopyUpdate(r) \/ VersionDrop(r)
  PROVE  KeptInv'
<1> DEFINE q == req[r]
           u == q.user
<1>0. /\ TypeInv' /\ TypeInv /\ TypeOK
      /\ q \in Request /\ Needs(q) /\ Knows(q)
  BY MakingTyped DEF KeptInv, TypeInv, TypeOK
<1>1. CASE VersionRead(r)
  <2>1. CASE Has(u)
    <3> DEFINE c == [q EXCEPT !.at = "versionClear", !.number = copy[u].number]
    <3>1. u \in Users /\ Complete(u, copy[u].number)
      BY <1>0, <1>1, <2>1 DEF VersionRead, Needs, Making, KeptInv, CopiesComplete
    <3>2. c.at = "versionClear" /\ c.user = u /\ c.number = copy[u].number
      BY <1>0 DEF Request
    <3> QED
      BY <1>0, <1>1, <2>1, <3>1, <3>2, KeptQuietly
      DEF VersionRead, Go, stores, Holding, Guarded, Has
  <2>2. CASE ~Has(u)
    BY <1>0, <1>1, <2>2, KeptWhenRaised DEF VersionRead, stores, Has
  <2> QED
    BY <2>1, <2>2
<1>2. CASE VersionClear(r)
  <2> DEFINE c == [q EXCEPT !.at = "versionInsert"]
  <2>1. c.at = "versionInsert" /\ c.user = u /\ c.number = q.number
    BY <1>0, MoveTyped DEF Labels, Making
  <2>2. c.user \in Users /\ Complete(c.user, c.number)
    BY <1>0, <1>2, <2>1 DEF VersionClear, Needs, Knows, Making, Knowing
  <2>3. ASSUME NEW i \in VersionIds, version[i] # NoVersion PROVE version'[i] # NoVersion
    <3>1. version[i] \in Version
      BY <1>0, <2>3 DEF TypeOK
    <3>2. version'[i].by = version[i].by
      BY <1>2, <3>1 DEF VersionClear, Version
    <3> QED
      BY <3>1, <3>2, NoUserAssumption DEF Version, NoVersion
  <2>4. Grows
    BY <1>0, <1>2, <2>1, <2>3
    DEF Grows, VersionClear, Advance, Go, TypeOK, Holding, Guarded
  <2> QED
    BY <1>0, <1>2, <2>1, <2>2, <2>4, KeptStep
    DEF VersionClear, Advance, Go, Holding, Guarded, Has
<1>3. CASE VersionInsert(r)
  <2>1. PICK i \in FreshVersion :
          /\ version' = [version EXCEPT ![i] = [by |-> u, current |-> TRUE]]
          /\ Go(r, [q EXCEPT !.at = "docInsert", !.id = i])
    BY <1>3 DEF VersionInsert
  <2>2. /\ i \in VersionIds
        /\ \A w \in Users, n \in Numbers : doc[w][n].id # i
        /\ \A x \in Requests : req[x].id # i
    BY DEF FreshVersion
  <2>3. PICK c : /\ req' = [req EXCEPT ![r] = c]
                 /\ c.at = "docInsert" /\ c.user = u /\ c.number = q.number /\ c.id = i
    <3> DEFINE d == [q EXCEPT !.at = "docInsert", !.id = i]
    <3>1. d.at = "docInsert" /\ d.user = u /\ d.number = q.number /\ d.id = i
      BY <1>0 DEF Request
    <3>2. req' = [req EXCEPT ![r] = d]
      BY <2>1 DEF Go
    <3> QED
      BY <3>1, <3>2
  <2>4. c.user \in Users /\ Complete(c.user, c.number) /\ q.at = "versionInsert"
    BY <1>0, <1>3, <2>3 DEF VersionInsert, Needs, Knows, Making, Knowing
  <2>5. version'[i] # NoVersion
    BY <1>0, <2>1, <2>2, <2>4, NoUserAssumption, <2>3 DEF TypeOK, NoVersion
  <2>6. Grows
    BY <1>0, <1>3, <2>1, <2>2, <2>3, <2>4, <2>5
    DEF Grows, VersionInsert, TypeOK, Holding, Guarded
  <2>7. UNCHANGED copy
    BY <1>3 DEF VersionInsert
  <2> QED
    BY <1>0, <2>2, <2>3, <2>4, <2>6, <2>7, KeptStep DEF Has
<1>4. CASE DocInsert(r)
  <2>0. u \in Users /\ q.number + 1 \in Numbers /\ q.at \in Holding /\ Complete(u, q.number)
    BY <1>0, <1>4, BoundAssumption
    DEF DocInsert, Needs, Knows, Making, Guarded, Holding, Knowing, Request, Numbers
  <2>1. CASE HasDoc(u, q.number + 1)
    BY <1>0, <1>4, <2>1, KeptWhenRaised DEF DocInsert, Has
  <2>2. CASE ~HasDoc(u, q.number + 1)
    <3> DEFINE c == [q EXCEPT !.at = "versionSave"]
    <3>1. c.at = "versionSave" /\ c.user = u /\ c.number = q.number /\ c.id = q.id
      BY <1>0, MoveTyped DEF Labels, Making, Guarded
    <3>2. doc' = [doc EXCEPT ![u][q.number + 1] = NewDoc(r)] /\ NewDoc(r).id = q.id
      BY <1>4, <2>2 DEF DocInsert, NewDoc
    <3>3. doc'[u][q.number + 1].id = q.id
      BY <1>0, <2>0, <3>2 DEF TypeOK
    <3>4. Grows
      BY <1>0, <1>4, <2>0, <2>2, <3>1, <3>2 DEF Grows, DocInsert, Advance, Go, TypeOK, HasDoc
    <3> QED
      BY <1>0, <1>4, <2>0, <2>2, <3>1, <3>3, <3>4, KeptStep
      DEF DocInsert, Advance, Go, Has
  <2> QED
    BY <2>1, <2>2
<1>5. CASE VersionSave(r)
  <2> DEFINE c == [q EXCEPT !.at = "copyUpdate"]
  <2>0. /\ u \in Users /\ q.id \in VersionIds /\ q.at \in Holding
        /\ Complete(u, q.number) /\ doc[u][q.number + 1].id = q.id
    BY <1>0, <1>5 DEF VersionSave, Needs, Knows, Making, Guarded, Holding, Knowing
  <2>1. c.at = "copyUpdate" /\ c.user = u /\ c.number = q.number /\ c.id = q.id
    BY <1>0, MoveTyped DEF Labels, Making, Guarded
  <2>2. version'[q.id] # NoVersion
    BY <1>0, <1>5, <2>0, NoUserAssumption DEF VersionSave, TypeOK, NoVersion
  <2>3. Grows
    BY <1>0, <1>5, <2>0, <2>1, <2>2 DEF Grows, VersionSave, Advance, Go, TypeOK
  <2> QED
    BY <1>0, <1>5, <2>0, <2>1, <2>2, <2>3, KeptStep DEF VersionSave, Advance, Go, Has
<1>6. CASE CopyUpdate(r)
  <2>0. /\ u \in Users /\ q.id \in VersionIds /\ q.at \in Holding
        /\ q.number + 1 \in Numbers /\ q.number \in Nat
        /\ Complete(u, q.number)
        /\ doc[u][q.number + 1].id = q.id /\ version[q.id] # NoVersion
    BY <1>0, <1>6, BoundAssumption
    DEF CopyUpdate, Needs, Knows, Making, Guarded, Holding, Knowing, Request, Numbers
  <2>1. PICK c : /\ req' = [req EXCEPT ![r] = c]
                 /\ c.at \in {"idle", "legacyDelete"}
    <3>1. [q EXCEPT !.at = "legacyDelete"].at = "legacyDelete"
      BY <1>0, MoveTyped DEF Labels
    <3> QED
      BY <1>6, <3>1 DEF CopyUpdate, Advance, Finish, Go, Idle
  <2>2. Grows
    BY <1>0, <1>6, <2>1, GrowsQuietly DEF CopyUpdate, Holding, Guarded
  <2>3. PICK p, m, i : p = u /\ m = q.number /\ i = q.id
    OBVIOUS
  <2>4. Kept(p, m + 1)'
    <3>1. HasDoc(p, m + 1)
      BY <1>0, <2>0, <2>3, KeyedDocs
    <3>2. \A x \in Requests : req'[x].at \in Holding => req'[x].id # i
      BY <1>0, <2>0, <2>1, <2>3 DEF KeptInv, KeysDistinct, TypeOK, Holding, Guarded
    <3> QED
      BY <1>6, <2>0, <2>3, <3>1, <3>2 DEF CopyUpdate, Kept, HasDoc
  <2>5. Complete(p, m)'
    BY <1>0, <2>0, <2>2, <2>3, CompleteStays
  <2>6. Complete(p, m + 1)'
    <3>1. ASSUME NEW k \in Numbers, First(p) <= k, k <= m + 1 PROVE Kept(p, k)'
      <4>1. k = m + 1 \/ k <= m
        BY <2>0, <2>3, <3>1, BoundAssumption DEF Numbers
      <4>2. ASSUME k <= m PROVE Kept(p, k)'
        BY <2>5, <3>1, <4>2 DEF Complete, First
      <4>3. ASSUME k = m + 1 PROVE Kept(p, k)'
        BY <2>4, <4>3 DEF Kept, HasDoc
      <4> QED
        BY <4>1, <4>2, <4>3
    <3> QED
      BY <3>1 DEF Complete, First
  <2>7. ASSUME NEW w \in Users, copy'[w] # NoCopy
        PROVE  \/ Has(w) /\ copy'[w].number = copy[w].number
               \/ Complete(w, copy[w].number)'
    <3>1. CASE w = p /\ Has(p)
      <4>1. copy[p] \in Copy
        BY <1>0, <2>0, <2>3, <3>1, Lookups
      <4>2. copy'[p].number = m + 1
        BY <1>0, <1>6, <2>0, <2>3, <3>1, <4>1 DEF CopyUpdate, TypeOK, Copy
      <4> QED
        BY <2>6, <3>1, <4>2 DEF Complete
    <3>2. CASE ~(w = p /\ Has(p))
      BY <1>0, <1>6, <2>3, <2>7, <3>2 DEF CopyUpdate, Has, TypeOK
    <3> QED
      BY <3>1, <3>2
  <2> QED
    BY <1>0, <2>1, <2>2, <2>7, KeptStep DEF Knowing, Holding, Guarded
<1>7. CASE VersionDrop(r)
  BY <1>0, <1>7, KeptWhenRaised DEF VersionDrop, TypeOK, Has
<1> QED
  BY <1>1, <1>2, <1>3, <1>4, <1>5, <1>6, <1>7

LEMMA OtherStepKeeps ==
  ASSUME KeptInv, NEW r \in Requests,
         \/ CopyDrop(r) \/ DocDelete(r) \/ LegacyRead(r) \/ LegacyDelete(r)
         \/ DocSave(r) \/ ShareRead(r) \/ ShareSave(r) \/ CurrentRead(r)
         \/ VersionDelete(r)
  PROVE  KeptInv'
<1> DEFINE q == req[r]
           u == q.user
<1>0. /\ TypeInv' /\ TypeInv /\ TypeOK
      /\ q \in Request /\ Needs(q) /\ Knows(q)
  BY OtherStepTyped DEF KeptInv, TypeInv, TypeOK
<1>1. ASSUME NEW c, Go(r, c), UNCHANGED <<copy, version, doc>>,
             c.at \in {"idle", "shareSave", "versionRead"}
      PROVE  KeptInv'
  BY <1>0, <1>1, KeptQuietly DEF Go, Knowing, Holding, Guarded, Has
<1>2. ASSUME NEW w, NEW c, NEW k, Go(r, MakeVersion(w, c, k)), UNCHANGED <<copy, version, doc>>
      PROVE  KeptInv'
  BY <1>1, <1>2 DEF MakeVersion, Call, Idle
<1>3. ASSUME Finish(r), UNCHANGED <<copy, version, doc>> PROVE KeptInv'
  BY <1>1, <1>3 DEF Finish, Idle
<1>4. CASE CopyDrop(r)
  <2>1. ASSUME NEW w \in Users, copy'[w] # NoCopy
        PROVE  Has(w) /\ copy'[w].number = copy[w].number
    BY <1>0, <1>4, <2>1 DEF CopyDrop, TypeOK, Has
  <2>2. CASE Die
    BY <1>0, <1>4, <2>1, <2>2, KeptWhenDead DEF CopyDrop
  <2>3. CASE Finish(r)
    BY <1>0, <1>4, <2>1, <2>3, KeptQuietly
    DEF CopyDrop, Finish, Go, Idle, Knowing, Holding, Guarded
  <2> QED
    BY <1>4, <2>2, <2>3 DEF CopyDrop, GiveUp
<1>5. ~DocDelete(r) /\ ~VersionDelete(r)
  BY <1>0 DEF Knows, DocDelete, VersionDelete
<1>6. CASE LegacyRead(r)
  BY <1>2, <1>3, <1>6 DEF LegacyRead, stores
<1>7. CASE LegacyDelete(r)
  BY <1>3, <1>7 DEF LegacyDelete
<1>8. CASE DocSave(r)
  <2>0. u \in Users /\ q.number \in Numbers
    BY <1>0, <1>8 DEF DocSave, Needs, Request
  <2>1. \A w \in Users, k \in Numbers : HasDoc(w, k) => doc'[w][k].id = doc[w][k].id
    <3>1. HasDoc(u, q.number) =>
            [doc[u][q.number] EXCEPT !.content = q.content].id = doc[u][q.number].id
      BY <1>0, <2>0, Lookups DEF Doc
    <3> QED
      BY <1>0, <1>8, <2>0, <3>1 DEF DocSave, TypeOK
  <2>2. Grows
    BY <1>0, <1>8, <2>1 DEF Grows, DocSave, Finish, Go, Idle, TypeOK, Holding, Guarded
  <2> QED
    BY <1>0, <1>8, <2>2, KeptStep
    DEF DocSave, Finish, Go, Idle, Knowing, Holding, Guarded, Has
<1>9. CASE ShareRead(r)
  <2> DEFINE c == [q EXCEPT !.at = "shareSave", !.content = doc[u][q.number].content,
                            !.caller = "share"]
  <2>1. c.at = "shareSave"
    BY <1>0 DEF Request
  <2> QED
    BY <1>1, <1>3, <1>9, <2>1 DEF ShareRead, stores
<1>10. CASE ShareSave(r)
  <2>1. q.to \in Users
    BY <1>0, <1>10 DEF ShareSave, Needs
  <2>2. MakeVersion(q.to, q.content, "share").at = "versionRead"
    BY DEF MakeVersion, Call, Idle
  <2>3. ASSUME NEW w \in Users, copy'[w] # NoCopy
        PROVE  \/ Has(w) /\ copy'[w].number = copy[w].number
               \/ copy'[w].number = 0
    <3>1. Has(w) => copy[w] \in Copy
      BY <1>0, Lookups
    <3> QED
      BY <1>0, <1>10, <2>1, <2>3, <3>1 DEF ShareSave, SaveCopy, TypeOK, Copy, Has
  <2> QED
    BY <1>0, <1>10, <2>2, <2>3, KeptQuietly DEF ShareSave, Go, Knowing, Holding, Guarded
<1>11. CASE CurrentRead(r)
  BY <1>2, <1>3, <1>11 DEF CurrentRead, stores
<1> QED
  BY <1>4, <1>5, <1>6, <1>7, <1>8, <1>9, <1>10, <1>11

LEMMA InitKept == Init => KeptInv
<1> SUFFICES ASSUME Init PROVE KeptInv
  OBVIOUS
<1>1. \A r \in Requests : req[r].at = "idle"
  BY DEF Init, Idle
<1>2. "idle" \notin Knowing \union Holding
  BY DEF Knowing, Holding, Guarded
<1>3. ASSUME NEW u \in Users, Has(u) PROVE Complete(u, copy[u].number)
  BY <1>3 DEF Init, Has, Complete, First, Numbers
<1> QED
  BY <1>1, <1>2, <1>3, InitTyped DEF KeptInv, CopiesComplete, KeysDistinct, Knows

LEMMA NextKeeps ==
  ASSUME KeepingAssumption, KeptInv, [Next]_vars
  PROVE  KeptInv'
<1>0. TypeInv'
  BY NextTyped DEF KeptInv
<1>1. ASSUME NEW r \in Requests, Arrival(r) PROVE KeptInv'
  BY <1>1, ArrivalKeeps
<1>2. ASSUME NEW r \in Requests, Step(r) PROVE KeptInv'
  BY <1>2, MakingKeeps, OtherStepKeeps DEF Step
<1>3. ASSUME NEW r \in Requests, Fail(r) PROVE KeptInv'
  BY <1>0, <1>3, KeptWhenRaised DEF Fail, stores, Has
<1>4. CASE Crash
  BY <1>0, <1>4, KeptWhenDead DEF Crash, stores, Has
<1>5. CASE UNCHANGED vars
  <2>1. ASSUME NEW u \in Users, Has(u)' PROVE Complete(u, copy[u].number)'
    BY <1>5, <2>1 DEF KeptInv, CopiesComplete, vars, Has, Complete, Kept, HasDoc
  <2>2. ASSUME NEW r \in Requests PROVE Knows(req[r])'
    BY <1>5 DEF KeptInv, vars, Knows, Complete, Kept, HasDoc
  <2> QED
    BY <1>0, <1>5, <2>1, <2>2 DEF KeptInv, CopiesComplete, KeysDistinct, vars
<1> QED
  BY <1>1, <1>2, <1>3, <1>4, <1>5 DEF Next

\* As long as nobody deletes a process or a version, every version that a copy
\* counts keeps its row and its document, and a request that is making one has
\* the only claim to its key: for any number of requests, and whatever fails.
THEOREM VersionsKept ==
  ASSUME KeepingAssumption
  PROVE  Spec => []KeptInv
<1>1. KeptInv /\ [Next]_vars => KeptInv'
  BY NextKeeps
<1> QED
  BY <1>1, InitKept, PTL DEF Spec

\* In particular a failed createProcessVersion never drops the row of a version
\* that some copy counts.
THEOREM VersionsAlwaysComplete ==
  ASSUME KeepingAssumption
  PROVE  Spec => []VersionsComplete
<1>1. ASSUME KeptInv PROVE VersionsComplete
  <2> SUFFICES ASSUME NEW u \in Users, NEW n \in Numbers \ {0}, Has(u),
                      n <= copy[u].number, u \in Legacy => n > 1
               PROVE  HasDoc(u, n) /\ version[doc[u][n].id] # NoVersion
    BY DEF VersionsComplete
  <2>1. First(u) <= n
    BY BoundAssumption DEF First, Numbers
  <2> QED
    BY <1>1, <2>1 DEF KeptInv, CopiesComplete, Complete, Kept
<1> QED
  BY <1>1, VersionsKept, PTL

Up(u) == Has(u) /\ copy'[u] # NoCopy => copy[u].number <= copy'[u].number

\* As long as nobody deletes anything, a request that writes the number it read
\* long before never lowers the number of a copy that was made with a version:
\* had another request passed it, its own document would not be there.
THEOREM NumbersOnlyGrow ==
  ASSUME KeepingAssumption
  PROVE  Spec => [][\A u \in Users \ Legacy : Up(u)]_vars
<1> USE DEF Up
<1>1. ASSUME KeptInv, [Next]_vars, NEW u \in Users \ Legacy PROVE Up(u)
  <2>0. TypeInv /\ TypeOK /\ (Has(u) => copy[u] \in Copy)
    BY <1>1, Lookups DEF KeptInv, TypeInv
  <2>1. ASSUME copy'[u] = copy[u] PROVE Up(u)
    BY <2>0, <2>1, BoundAssumption DEF Copy, Numbers
  <2>2. ASSUME NEW w \in Users, NEW s, SaveCopy(w, s) PROVE Up(u)
    BY <2>0, <2>2, BoundAssumption DEF SaveCopy, TypeOK, Copy, Numbers
  <2>3. ASSUME NEW r \in Requests, CopyUpdate(r), req[r].user = u, Has(u) PROVE Up(u)
    <3> DEFINE q == req[r]
    <3>1. /\ q.at \in Holding /\ q.number + 1 \in Numbers /\ q.number \in Numbers
          /\ doc[u][q.number + 1].id = q.id
      BY <1>1, <2>3, BoundAssumption
      DEF CopyUpdate, KeptInv, Knows, TypeInv, TypeOK, Needs, Request, Numbers, Knowing,
          Holding, Guarded
    <3>2. copy[u].number < q.number + 1
      <4>1. ~Kept(u, q.number + 1)
        BY <3>1 DEF Kept
      <4>2. Complete(u, copy[u].number) /\ copy[u].number \in Numbers
        BY <1>1, <2>0, <2>3 DEF KeptInv, CopiesComplete, Copy
      <4> QED
        BY <3>1, <4>1, <4>2, BoundAssumption DEF Complete, First, Numbers
    <3>3. copy'[u].number = q.number + 1
      BY <2>0, <2>3 DEF CopyUpdate, TypeOK, Copy
    <3> QED
      BY <2>0, <3>1, <3>2, <3>3, BoundAssumption DEF Numbers, Copy
  <2>4. ASSUME NEW r \in Requests, Arrival(r) PROVE Up(u)
    BY <2>1, <2>2, <2>4
    DEF Arrival, DeleteProcess, GetProcess, VersionFromCurrent, CreateProcess, SaveProcess,
        NewVersion, ShareProcess, RestoreVersion, DeleteVersion, stores
  <2>5. ASSUME NEW r \in Requests, Step(r) PROVE Up(u)
    <3>1. CASE CopyUpdate(r)
      <4>1. CASE req[r].user = u /\ Has(u)
        BY <2>3, <3>1, <4>1
      <4>2. CASE ~(req[r].user = u /\ Has(u))
        BY <2>0, <2>1, <3>1, <4>2 DEF CopyUpdate, Has, TypeOK
      <4> QED
        BY <4>1, <4>2
    <3>2. CASE CopyDrop(r)
      BY <2>0, <2>1, <3>2 DEF CopyDrop, TypeOK
    <3>3. CASE ShareSave(r)
      BY <2>0, <2>2, <3>3 DEF ShareSave, TypeInv, TypeOK, Needs
    <3>4. CASE ~(CopyUpdate(r) \/ CopyDrop(r) \/ ShareSave(r))
      BY <2>1, <2>5, <3>4
      DEF Step, VersionRead, VersionClear, VersionInsert, DocInsert, VersionSave, VersionDrop,
          DocDelete, LegacyRead, LegacyDelete, DocSave, ShareRead, CurrentRead,
          VersionDelete, stores
    <3> QED
      BY <3>1, <3>2, <3>3, <3>4
  <2> QED
    BY <1>1, <2>1, <2>4, <2>5 DEF Next, Fail, Crash, vars, stores
<1>2. KeptInv /\ [Next]_vars => [\A u \in Users \ Legacy : Up(u)]_vars
  BY <1>1
<1> QED
  BY <1>2, VersionsKept, PTL DEF Spec

\* So no number ever falls where every copy was made with a version.  (A copy
\* from before may: a creation that fails drops it, and the next one starts
\* from zero while an older request still writes its number.)
THEOREM NumbersNeverFall ==
  ASSUME KeepingAssumption, Legacy = {}
  PROVE  Spec => NumberNeverFalls
<1>1. [\A u \in Users \ Legacy : Up(u)]_vars
        => [\A u \in Users : Has(u) /\ copy'[u] # NoCopy
                              => copy[u].number <= copy'[u].number]_vars
  BY DEF Up
<1> QED
  BY <1>1, NumbersOnlyGrow, PTL DEF NumberNeverFalls

-----------------------------------------------------------------------------
(* As long as nothing is deleted, and every copy was made with a version,  *)
(* the versions are a VersionHistory.                                      *)

\* Control points with a number that its copy had when it was read, and those
\* where the document after it has been written.
Reading == Knowing \union {"docSave"}
Writing == {"versionSave", "copyUpdate"}

\* No number above n was read of the copies of u, and at most the document of
\* the next one is there.
Top(u, n) ==
  /\ \A k \in Numbers : HasDoc(u, k) => k <= n + 1
  /\ \A r \in Requests : req[r].at \in Reading /\ req[r].user = u => req[r].number <= n

Contiguous ==
  \A u \in Users, k, n \in Numbers : HasDoc(u, n) /\ 1 <= k /\ k <= n => HasDoc(u, k)

\* Once the document of a version is written, the request that wrote it is the
\* only one that can move the number of the copy.
Reads(q) ==
  /\ q.at \in Reading /\ q.number # 0 => HasDoc(q.user, q.number)
  /\ q.at \in Writing =>
       /\ Top(q.user, q.number)
       /\ Has(q.user) => copy[q.user].number \in {0, q.number}

TopInv ==
  /\ KeptInv
  /\ Contiguous
  /\ \A u \in Users : Has(u) /\ copy[u].number # 0 => Top(u, copy[u].number)
  /\ \A r \in Requests : Reads(req[r])

\* A step in which requests keep the numbers they have read, or read one, and no
\* document is written.
Carried ==
  \A x \in Requests :
    /\ req'[x].at \in Reading =>
         \/ /\ req[x].at \in Reading
            /\ req'[x].user = req[x].user /\ req'[x].number = req[x].number
         \/ Has(req'[x].user) /\ req'[x].number = copy[req'[x].user].number
    /\ req'[x].at \in Writing =>
         /\ req[x].at \in Writing
         /\ req'[x].user = req[x].user /\ req'[x].number = req[x].number

LEMMA ReadingTyped ==
  ASSUME TypeInv, NEW x \in Requests, req[x].at \in Reading
  PROVE  req[x].user \in Users /\ req[x].number \in Numbers
BY DEF TypeInv, TypeOK, Needs, Request, Reading, Knowing, Holding, Guarded

LEMMA NumbersCounted ==
  ASSUME Legacy = {}, KeptInv, NEW u \in Users, NEW n \in Numbers, Complete(u, n)
  PROVE  \A k \in Numbers : 1 <= k /\ k <= n => HasDoc(u, k)
BY DEF Complete, First, Kept

LEMMA ReadsHave ==
  ASSUME Legacy = {}, TopInv, NEW x \in Requests, req[x].at \in Reading,
         NEW k \in Numbers, 1 <= k, k <= req[x].number
  PROVE  HasDoc(req[x].user, k)
<1>1. req[x].user \in Users /\ req[x].number \in Numbers /\ req[x].number # 0
  BY ReadingTyped, BoundAssumption DEF TopInv, KeptInv, Numbers
<1> QED
  BY <1>1 DEF TopInv, Reads, Contiguous

LEMMA TopQuietly ==
  ASSUME Legacy = {}, TopInv, KeptInv', Carried,
         \A u \in Users, k \in Numbers : HasDoc(u, k)' <=> HasDoc(u, k),
         \A u \in Users :
           copy'[u] # NoCopy => \/ Has(u) /\ copy'[u].number = copy[u].number
                                \/ copy'[u].number = 0
  PROVE  TopInv'
<1>0. TypeInv /\ TypeInv' /\ KeptInv
  BY DEF TopInv, KeptInv
<1>1. Contiguous'
  BY DEF TopInv, Contiguous
<1>2. ASSUME NEW x \in Requests, req'[x].at \in Reading
      PROVE  req'[x].user \in Users /\ req'[x].number \in Numbers
  BY <1>0, <1>2 DEF TypeInv, TypeOK, Needs, Request, Reading, Knowing, Holding, Guarded
<1>3. ASSUME NEW u \in Users, Has(u), copy[u].number # 0
      PROVE  copy[u].number \in Numbers /\ HasDoc(u, copy[u].number)
  <2>1. copy[u].number \in Numbers
    BY <1>0, <1>3, Lookups DEF Copy
  <2>2. 1 <= copy[u].number
    BY <1>3, <2>1, BoundAssumption DEF Numbers
  <2> QED
    BY <1>0, <1>3, <2>1, <2>2, NumbersCounted, BoundAssumption
    DEF KeptInv, CopiesComplete, Numbers
\* Where the top was seen, nothing has gone beyond it.
<1>4. ASSUME NEW u \in Users, NEW n \in Numbers, Top(u, n),
             Has(u) => copy[u].number \in {0, n}
      PROVE  Top(u, n)'
  <2>1. \A k \in Numbers : HasDoc(u, k)' => k <= n + 1
    BY <1>4 DEF Top
  <2>2. ASSUME NEW x \in Requests, req'[x].at \in Reading, req'[x].user = u
        PROVE  req'[x].number <= n
    BY <1>4, <2>2, BoundAssumption DEF Carried, Top, Numbers
  <2> QED
    BY <2>1, <2>2 DEF Top, HasDoc
<1>5. ASSUME NEW u \in Users, Has(u)', copy'[u].number # 0 PROVE Top(u, copy[u].number)'
  <2>1. PICK n : n = copy[u].number
    OBVIOUS
  <2>2. Has(u) /\ n = copy'[u].number /\ n \in Numbers /\ Top(u, n)
    BY <1>3, <1>5, <2>1 DEF Has, TopInv
  <2>3. Top(u, n)'
    BY <1>4, <2>1, <2>2
  <2> QED
    BY <2>2, <2>3 DEF Top, HasDoc
<1>6. ASSUME NEW x \in Requests PROVE Reads(req[x])'
  <2> DEFINE q == req[x]
  <2>1. PICK u, n : u = req'[x].user /\ n = req'[x].number
    OBVIOUS
  <2>2. ASSUME req'[x].at \in Reading, n # 0 PROVE HasDoc(u, n)'
    <3>1. u \in Users /\ n \in Numbers
      BY <1>2, <2>1, <2>2
    <3>2. HasDoc(u, n)
      BY <1>3, <2>1, <2>2, <3>1 DEF Carried, TopInv, Reads
    <3> QED
      BY <3>1, <3>2
  <2>3. ASSUME req'[x].at \in Writing
        PROVE  Top(u, n)' /\ (Has(u)' => copy'[u].number \in {0, n})
    <3>1. u \in Users /\ n \in Numbers
      BY <1>2, <2>1, <2>3 DEF Writing, Reading, Knowing, Holding, Guarded
    <3>2. Top(u, n) /\ (Has(u) => copy[u].number \in {0, n})
      BY <2>1, <2>3 DEF Carried, TopInv, Reads
    <3> QED
      BY <1>4, <3>1, <3>2 DEF Has
  <2> QED
    BY <2>1, <2>2, <2>3 DEF Reads, Top, HasDoc, Has
<1> QED
  BY <1>1, <1>5, <1>6 DEF TopInv

\* What a step may do to the request that takes it.
LEMMA GoCarries ==
  ASSUME TypeInv, NEW r \in Requests, NEW c, Go(r, c), c.at \notin Writing,
         c.at \in Reading =>
           \/ req[r].at \in Reading /\ c.user = req[r].user /\ c.number = req[r].number
           \/ Has(c.user) /\ c.number = copy[c.user].number
  PROVE  Carried
BY DEF Carried, Go, TypeInv, TypeOK

LEMMA AdvanceCarries ==
  ASSUME TypeInv, NEW r \in Requests, NEW l \in Labels, Advance(r, l),
         l \in Reading => req[r].at \in Reading,
         l \in Writing => req[r].at \in Writing
  PROVE  Carried
<1>1. req[r] \in Request
  BY DEF TypeInv, TypeOK
<1> DEFINE c == [req[r] EXCEPT !.at = l]
<1>2. c.at = l /\ c.user = req[r].user /\ c.number = req[r].number
  BY <1>1, MoveTyped
<1>3. \A x \in Requests : req'[x] = IF x = r THEN c ELSE req[x]
  BY DEF Advance, Go, TypeInv, TypeOK
<1> HIDE DEF c
<1> QED
  BY <1>2, <1>3 DEF Carried

LEMMA RestingCarries ==
  /\ \A r \in Requests : TypeInv /\ Finish(r) => Carried
  /\ Die => Carried
<1>1. Idle.at = "idle" /\ "idle" \notin Reading /\ "idle" \notin Writing
  BY DEF Idle, Reading, Writing, Knowing, Holding, Guarded
<1>2. ASSUME NEW r \in Requests, TypeInv, Finish(r) PROVE Carried
  BY <1>1, <1>2, GoCarries DEF Finish
<1>3. ASSUME Die PROVE Carried
  BY <1>1, <1>3 DEF Die, Carried
<1> QED
  BY <1>2, <1>3

LEMMA RaiseCarries ==
  ASSUME TypeInv, NEW r \in Requests, Raise(r)
  PROVE  Carried
<1>1. ASSUME req[r].at \in Guarded, Advance(r, "versionDrop") PROVE Carried
  BY <1>1, AdvanceCarries DEF Labels, Making, Reading, Writing, Knowing, Holding, Guarded
<1>2. ASSUME Advance(r, "copyDrop") PROVE Carried
  BY <1>2, AdvanceCarries DEF Labels, Reading, Writing, Knowing, Holding, Guarded
<1> QED
  BY <1>1, <1>2, RestingCarries DEF Raise, GiveUp

-----------------------------------------------------------------------------
(* Steps of the history *)

Refines == [History!Next]_History!historyVars

\* A step that leaves the documents alone and may hide one copy.
LEMMA RefinesQuietly ==
  ASSUME TypeInv, TypeInv', UNCHANGED doc, NEW w \in Users,
         \A u \in Users \ {w} : copy'[u] = copy[u],
         copy'[w] # NoCopy => \/ Has(w) /\ copy'[w].number = copy[w].number
                              \/ copy'[w].number = 0
  PROVE  Refines
<1> DEFINE shown == [u \in Users |-> IF Has(u) THEN copy[u].number ELSE 0]
<1>1. ASSUME Has(w)', copy'[w].number # 0 PROVE UNCHANGED shown
  BY <1>1 DEF Has
<1>2. ASSUME ~(Has(w)' /\ copy'[w].number # 0) PROVE shown' = [shown EXCEPT ![w] = 0]
  BY <1>2 DEF Has
<1>3. CASE UNCHANGED shown
  BY <1>3 DEF Refines, History!historyVars
<1>4. CASE shown' = [shown EXCEPT ![w] = 0]
  <2>1. History!Hide(w)
    BY <1>4 DEF History!Hide
  <2> QED
    BY <2>1 DEF Refines, History!Next
<1> QED
  BY <1>1, <1>2, <1>3, <1>4

LEMMA RefinesStill ==
  ASSUME UNCHANGED <<copy, doc>>
  PROVE  Refines
BY DEF Refines, History!historyVars, Has

\* A step is sound when it keeps the invariant and is one of the history.
Sound == TopInv' /\ Refines

LEMMA SoundStill ==
  ASSUME Legacy = {}, TopInv, KeptInv', Carried, UNCHANGED <<copy, doc>>
  PROVE  Sound
BY TopQuietly, RefinesStill DEF Sound, HasDoc, Has

LEMMA SoundQuietly ==
  ASSUME Legacy = {}, TopInv, KeptInv', Carried, UNCHANGED doc, NEW w \in Users,
         \A u \in Users \ {w} : copy'[u] = copy[u],
         copy'[w] # NoCopy => \/ Has(w) /\ copy'[w].number = copy[w].number
                              \/ copy'[w].number = 0
  PROVE  Sound
<1>1. Refines
  BY RefinesQuietly DEF TopInv, KeptInv
<1>2. TopInv'
  BY TopQuietly DEF HasDoc, Has
<1> QED
  BY <1>1, <1>2 DEF Sound

LEMMA SoundSaveCopy ==
  ASSUME Legacy = {}, TopInv, KeptInv', Carried, UNCHANGED doc, NEW w \in Users, NEW s,
         SaveCopy(w, s)
  PROVE  Sound
<1>1. /\ copy \in [Users -> Copy \union {NoCopy}]
      /\ Has(w) => copy[w] \in Copy
  BY Lookups DEF TopInv, KeptInv, TypeInv, TypeOK
<1>2. \A u \in Users \ {w} : copy'[u] = copy[u]
  BY <1>1 DEF SaveCopy
<1>3. \/ Has(w) /\ copy'[w].number = copy[w].number
      \/ copy'[w].number = 0
  BY <1>1 DEF SaveCopy, Copy
<1> QED
  BY <1>2, <1>3, SoundQuietly

LEMMA SoundWhenRaised ==
  ASSUME Legacy = {}, TopInv, KeptInv', NEW r \in Requests, Raise(r),
         UNCHANGED <<copy, doc>>
  PROVE  Sound
BY RaiseCarries, SoundStill DEF TopInv, KeptInv

LEMMA ArrivalSound ==
  ASSUME Legacy = {}, KeepingAssumption, TopInv, NEW r \in Requests, Arrival(r)
  PROVE  Sound
<1>0. KeptInv' /\ TypeInv
  BY ArrivalKeeps DEF TopInv, KeptInv
<1>1. ASSUME NEW c, Begin(r, c), UNCHANGED stores,
             c.at \in {"legacyRead", "currentRead", "shareRead", "versionRead"}
      PROVE  Sound
  <2>1. Carried
    BY <1>0, <1>1, GoCarries DEF Begin, Reading, Writing, Knowing, Holding, Guarded
  <2> QED
    BY <1>0, <1>1, <2>1, SoundStill DEF stores
<1>2. ASSUME NEW u \in Users, NEW d \in Contents, SaveProcess(r, u, d) PROVE Sound
  <2> DEFINE c == [Call("docSave", u) EXCEPT !.number = copy[u].number, !.content = d]
  <2>1. /\ Call("docSave", u) \in Request /\ Call("docSave", u).at = "docSave"
        /\ Call("docSave", u).user = u
    BY CallTyped DEF Labels
  <2>2. c.at = "docSave" /\ c.user = u /\ c.number = copy[u].number
    BY <2>1 DEF Request
  <2>3. Go(r, c) /\ Has(u) /\ UNCHANGED stores
    BY <1>2 DEF SaveProcess, Begin
  <2> HIDE DEF c
  <2>4. Carried
    BY <1>0, <2>2, <2>3, GoCarries DEF Writing
  <2> QED
    BY <1>0, <2>3, <2>4, SoundStill DEF stores
<1>3. ASSUME NEW u \in Users, NEW d \in Contents, CreateProcess(r, u, d) PROVE Sound
  <2>1. MakeVersion(u, d, "create").at = "versionRead"
    BY DEF MakeVersion, Call, Idle
  <2>2. Carried
    BY <1>0, <1>3, <2>1, GoCarries
    DEF CreateProcess, Begin, Reading, Writing, Knowing, Holding, Guarded
  <2> QED
    BY <1>0, <1>3, <2>2, SoundSaveCopy DEF CreateProcess
<1>4. ASSUME NEW u \in Users, NEW d, NEW k, Begin(r, MakeVersion(u, d, k)), UNCHANGED stores
      PROVE  Sound
  BY <1>1, <1>4 DEF MakeVersion, Call, Idle
<1>5. ASSUME NEW u \in Users,
             \/ GetProcess(r, u) \/ VersionFromCurrent(r, u)
             \/ \E w \in Users : ShareProcess(r, u, w)
      PROVE  Sound
  BY <1>1, <1>5 DEF GetProcess, VersionFromCurrent, ShareProcess, Call, Idle
<1>6. "deleteProcess" \notin Calls /\ "deleteProcessVersion" \notin Calls
  BY DEF KeepingAssumption
<1> QED
  BY <1>2, <1>3, <1>4, <1>5, <1>6 DEF Arrival, NewVersion, RestoreVersion

\* What is shown of a document.
LEMMA Contained ==
  ASSUME TypeInv, NEW u \in Users, NEW n \in Numbers
  PROVE  doc[u][n].content # NoContent <=> HasDoc(u, n)
BY NoContentAssumption DEF TypeInv, TypeOK, HasDoc, Doc, NoDoc

LEMMA FullHistory ==
  ASSUME TypeInv, NEW u \in Users, NEW n \in Numbers,
         \A k \in Numbers : 1 <= k /\ k <= n => HasDoc(u, k)
  PROVE  History!Full(u, n)
<1>1. ASSUME NEW k \in 1..MaxVersion, k <= n PROVE doc[u][k].content # NoContent
  BY <1>1, Contained, BoundAssumption DEF Numbers
<1> QED
  BY <1>1 DEF History!Full, History!Exists, History!Versions

LEMMA HistoryWritten ==
  ASSUME TypeInv, NEW u \in Users, NEW n \in 1..MaxVersion, NEW d, NEW c,
         doc' = [doc EXCEPT ![u][n] = d], d.content = c, UNCHANGED copy
  PROVE  History!Write(u, n, c)
<1>1. \A w \in Users, k \in 1..MaxVersion :
        doc'[w][k].content = IF w = u /\ k = n THEN c ELSE doc[w][k].content
  BY BoundAssumption DEF TypeInv, TypeOK, Numbers
<1> DEFINE h == [w \in Users |-> [k \in 1..MaxVersion |-> doc[w][k].content]]
<1>2. ASSUME NEW w \in Users
      PROVE  [k \in 1..MaxVersion |-> doc'[w][k].content] = [h EXCEPT ![u][n] = c][w]
  <2>1. CASE w = u
    BY <1>1, <2>1
  <2>2. CASE w # u
    BY <1>1, <2>2
  <2> QED
    BY <2>1, <2>2
<1>3. h' = [h EXCEPT ![u][n] = c]
  BY <1>2
<1> QED
  BY <1>3 DEF History!Write, Has

\* The document of the next version goes to the end of the history: no other
\* request has come that far, and the copy shows what came before it.
LEMMA DocInsertSound ==
  ASSUME Legacy = {}, TopInv, KeptInv', NEW r \in Requests, DocInsert(r),
         ~HasDoc(req[r].user, req[r].number + 1)
  PROVE  Sound
<1> DEFINE q == req[r]
<1>0. /\ TypeInv /\ TypeInv' /\ KeptInv /\ TypeOK
      /\ q \in Request /\ Needs(q) /\ Knows(q) /\ Reads(q)
  BY DEF TopInv, KeptInv, TypeInv, TypeOK
<1>1. PICK u, m, n : u = q.user /\ m = q.number /\ n = q.number + 1
  OBVIOUS
<1>2. /\ q.at = "docInsert" /\ q.at \in Reading /\ u \in Users
      /\ m \in Numbers /\ n \in Numbers /\ n = m + 1 /\ n # 0
      /\ q.content \in Contents /\ Complete(u, m)
  BY <1>0, <1>1, BoundAssumption
  DEF DocInsert, Needs, Knows, Reading, Making, Guarded, Holding, Knowing, Request, Numbers
<1>3. \A k \in Numbers : 1 <= k /\ k <= m => HasDoc(u, k)
  BY <1>0, <1>2, NumbersCounted
<1>4. PICK d : d = NewDoc(r)
  OBVIOUS
<1>5. /\ doc' = [doc EXCEPT ![u][n] = d] /\ UNCHANGED copy
      /\ ~HasDoc(u, n) /\ d.content = q.content /\ d # NoDoc
  BY <1>1, <1>2, <1>4, NoContentAssumption DEF DocInsert, NewDoc, NoDoc
<1>6. \A w \in Users, k \in Numbers : HasDoc(w, k)' <=> HasDoc(w, k) \/ (w = u /\ k = n)
  BY <1>0, <1>2, <1>5 DEF HasDoc, TypeOK
<1>7. \A k \in Numbers : HasDoc(u, k) => k <= m
  BY <1>2, <1>5, BoundAssumption DEF TopInv, Contiguous, Numbers
\* All requests, r as well, keep what they have read.
<1>8. \A x \in Requests :
        /\ x # r => req'[x] = req[x]
        /\ req'[x].user = req[x].user /\ req'[x].number = req[x].number
        /\ req'[x].at \in Reading => req[x].at \in Reading
  <2>1. req' = [req EXCEPT ![r] = [q EXCEPT !.at = "versionSave"]]
    BY <1>1, <1>5 DEF DocInsert, Advance, Go
  <2> QED
    BY <1>0, <1>2, <2>1, MoveTyped DEF TypeOK, Labels, Making, Guarded
<1>9. \A x \in Requests : req[x].at \in Reading /\ req[x].user = u => req[x].number <= m
  <2> SUFFICES ASSUME NEW x \in Requests, req[x].at \in Reading, req[x].user = u
               PROVE  req[x].number <= m
    OBVIOUS
  <2>1. req[x].number \in Numbers
    BY <1>0, ReadingTyped
  <2> QED
    BY <1>2, <1>7, <2>1, BoundAssumption DEF TopInv, Reads, Numbers
<1>10. Top(u, m)'
  <2>1. \A k \in Numbers : HasDoc(u, k)' => k <= m + 1
    BY <1>2, <1>6, <1>7, BoundAssumption DEF Numbers
  <2> QED
    BY <1>8, <1>9, <2>1 DEF Top, HasDoc
<1>11. ASSUME NEW w \in Users, w # u, NEW k, Top(w, k) PROVE Top(w, k)'
  <2>1. \A j \in Numbers : HasDoc(w, j)' => j <= k + 1
    BY <1>6, <1>11 DEF Top
  <2> QED
    BY <1>8, <1>11, <2>1 DEF Top, HasDoc
<1>12. Has(u) => copy[u].number \in {0, m}
  <2> SUFFICES ASSUME Has(u), copy[u].number # 0 PROVE copy[u].number = m
    OBVIOUS
  <2>1. copy[u].number \in Numbers
    BY <1>0, <1>2, Lookups DEF Copy
  <2>2. HasDoc(u, copy[u].number)
    BY <1>0, <1>2, <2>1, NumbersCounted, BoundAssumption DEF KeptInv, CopiesComplete, Numbers
  <2>3. m <= copy[u].number
    BY <1>1, <1>2 DEF TopInv, Top
  <2> QED
    BY <1>2, <1>7, <2>1, <2>2, <2>3, BoundAssumption DEF Numbers
<1>13. ASSUME NEW x \in Requests, req[x].at \in Writing PROVE req[x].user # u
  <2> SUFFICES ASSUME req[x].user = u PROVE FALSE
    OBVIOUS
  <2>1. /\ req[x] \in Request /\ Needs(req[x]) /\ Knows(req[x])
        /\ req[x].at \in Reading /\ Top(u, req[x].number)
    BY <1>0, <1>13
    DEF TopInv, KeptInv, TypeInv, TypeOK, Reads, Reading, Writing, Knowing, Holding, Guarded
  <2>2. req[x].number + 1 \in Numbers /\ req[x].number \in Nat
    BY <1>13, <2>1, BoundAssumption
    DEF Needs, Request, Numbers, Writing, Knowing, Holding, Guarded
  <2>3. doc[u][req[x].number + 1].id = req[x].id /\ req[x].id \in VersionIds
    BY <1>13, <2>1 DEF Needs, Knows, Writing, Holding, Guarded
  <2>4. HasDoc(u, req[x].number + 1)
    BY <1>0, <1>2, <2>2, <2>3, KeyedDocs
  <2>5. m <= req[x].number
    BY <1>1, <1>2, <2>1 DEF Top
  <2> QED
    BY <1>2, <1>7, <2>2, <2>4, <2>5, BoundAssumption DEF Numbers
<1>14. Contiguous'
  BY <1>2, <1>3, <1>6, BoundAssumption DEF TopInv, Contiguous, Numbers
<1>15. ASSUME NEW w \in Users, Has(w)', copy'[w].number # 0 PROVE Top(w, copy[w].number)'
  <2>1. PICK k : k = copy[w].number
    OBVIOUS
  <2>2. Has(w) /\ Top(w, k) /\ k = copy'[w].number
    BY <1>5, <1>15, <2>1 DEF Has, TopInv
  <2>3. Top(w, k)'
    BY <1>10, <1>11, <1>12, <1>15, <2>1, <2>2
  <2> QED
    BY <2>2, <2>3 DEF Top, HasDoc
<1>16. ASSUME NEW x \in Requests PROVE Reads(req[x])'
  <2>1. PICK w, k : w = req[x].user /\ k = req[x].number
    OBVIOUS
  <2>2. w = req'[x].user /\ k = req'[x].number
    BY <1>8, <2>1
  <2>3. ASSUME req'[x].at \in Reading, k # 0 PROVE HasDoc(w, k)'
    BY <1>0, <1>6, <1>8, <2>1, <2>3, ReadingTyped DEF TopInv, Reads
  <2>4. ASSUME req'[x].at \in Writing
        PROVE  Top(w, k)' /\ (Has(w)' => copy'[w].number \in {0, k})
    <3>1. CASE x = r
      BY <1>1, <1>5, <1>10, <1>12, <2>1, <3>1 DEF Has
    <3>2. CASE x # r
      <4>1. req[x].at \in Writing /\ Reads(req[x]) /\ w \in Users
        BY <1>0, <1>8, <2>1, <2>4, <3>2, ReadingTyped
        DEF TopInv, Reading, Writing, Knowing, Holding, Guarded
      <4>2. w # u /\ Top(w, k) /\ (Has(w) => copy[w].number \in {0, k})
        BY <1>13, <2>1, <4>1 DEF Reads
      <4> QED
        BY <1>5, <1>11, <4>1, <4>2 DEF Has
    <3> QED
      BY <3>1, <3>2
  <2> QED
    BY <2>2, <2>3, <2>4 DEF Reads, Top, HasDoc, Has
<1>17. TopInv'
  BY <1>14, <1>15, <1>16 DEF TopInv
<1>18. PICK c : c = q.content
  OBVIOUS
<1>19. History!Add(u, n, c)
  <2>1. n \in 1..MaxVersion /\ m = n - 1
    BY <1>2, BoundAssumption DEF Numbers
  <2>2. ~History!Exists(u, n)
    BY <1>0, <1>2, <1>5, <2>1, Contained DEF History!Exists
  <2>3. History!Full(u, n - 1)
    BY <1>0, <1>2, <1>3, <2>1, FullHistory
  <2>4. History!Follows(u, n)
    BY <1>2, <1>12, <2>1 DEF History!Follows
  <2>5. History!Write(u, n, c)
    BY <1>0, <1>2, <1>5, <1>18, <2>1, HistoryWritten
  <2> QED
    BY <2>2, <2>3, <2>4, <2>5 DEF History!Add
<1>20. Refines
  <2>1. n \in History!Versions
    BY <1>2, BoundAssumption DEF History!Versions, Numbers
  <2> QED
    BY <1>2, <1>18, <1>19, <2>1 DEF Refines, History!Next
<1> QED
  BY <1>17, <1>20 DEF Sound

\* The copy goes to the version whose document is written, and no other request
\* is about to move it.
LEMMA CopyUpdateSound ==
  ASSUME Legacy = {}, TopInv, KeptInv', NEW r \in Requests, CopyUpdate(r)
  PROVE  Sound
<1> DEFINE q == req[r]
<1>0. /\ TypeInv /\ TypeInv' /\ KeptInv /\ TypeOK
      /\ q \in Request /\ Needs(q) /\ Knows(q) /\ Reads(q)
  BY DEF TopInv, KeptInv, TypeInv, TypeOK
<1>1. PICK u, m, n : u = q.user /\ m = q.number /\ n = q.number + 1
  OBVIOUS
<1>2. /\ q.at = "copyUpdate" /\ q.at \in Reading /\ q.at \in Writing /\ u \in Users
      /\ m \in Numbers /\ n \in Numbers /\ n = m + 1 /\ n # 0 /\ Complete(u, m)
      /\ doc[u][n].id = q.id /\ q.id \in VersionIds
  BY <1>0, <1>1, BoundAssumption
  DEF CopyUpdate, Needs, Knows, Reading, Writing, Making, Guarded, Holding, Knowing, Request,
      Numbers
<1>3. Top(u, m) /\ (Has(u) => copy[u].number \in {0, m})
  BY <1>0, <1>1, <1>2 DEF Reads
<1>4. UNCHANGED doc /\ (\A w \in Users, k \in Numbers : HasDoc(w, k)' <=> HasDoc(w, k))
  BY DEF CopyUpdate, HasDoc
<1>5. /\ \A w \in Users \ {u} : copy'[w] = copy[w]
      /\ Has(u)' <=> Has(u)
      /\ Has(u) => copy'[u].number = n
      /\ ~Has(u) => UNCHANGED copy
  <2>1. CASE Has(u)
    <3>1. copy[u] \in Copy /\ copy' = [copy EXCEPT ![u].number = n]
      BY <1>0, <1>1, <1>2, <2>1, Lookups DEF CopyUpdate
    <3>2. [copy[u] EXCEPT !.number = n].number = n /\ [copy[u] EXCEPT !.number = n] \in Copy
      BY <1>2, <3>1 DEF Copy
    <3>3. \A c \in Copy : c # NoCopy
      BY BoundAssumption DEF Copy, NoCopy, Numbers
    <3> QED
      BY <1>0, <1>2, <2>1, <3>1, <3>2, <3>3 DEF TypeOK, Has
  <2>2. CASE ~Has(u)
    BY <1>1, <2>2 DEF CopyUpdate, Has
  <2> QED
    BY <2>1, <2>2
<1>6. /\ \A x \in Requests : x # r => req'[x] = req[x]
      /\ req'[r].at \notin Reading /\ req'[r].at \notin Writing
  <2>1. PICK c : req' = [req EXCEPT ![r] = c] /\ c.at \in {"idle", "legacyDelete"}
    <3>1. [q EXCEPT !.at = "legacyDelete"].at = "legacyDelete"
      BY <1>0, MoveTyped DEF Labels
    <3> QED
      BY <3>1 DEF CopyUpdate, Advance, Finish, Go, Idle
  <2> QED
    BY <1>0, <2>1 DEF TypeOK, Reading, Writing, Knowing, Holding, Guarded
<1>7. ASSUME NEW w \in Users, NEW k, Top(w, k) PROVE Top(w, k)'
  <2>1. \A j \in Numbers : HasDoc(w, j)' => j <= k + 1
    BY <1>4, <1>7 DEF Top
  <2> QED
    BY <1>6, <1>7, <2>1 DEF Top, HasDoc
<1>8. Top(u, n)'
  <2>1. \A k \in Numbers : HasDoc(u, k)' => k <= n + 1
    BY <1>2, <1>3, <1>4, BoundAssumption DEF Top, Numbers
  <2>2. ASSUME NEW x \in Requests, req'[x].at \in Reading, req'[x].user = u
        PROVE  req'[x].number <= n
    <3>1. req'[x] = req[x] /\ req[x].number \in Numbers
      BY <1>0, <1>6, <2>2, ReadingTyped
    <3>2. req[x].number <= m
      BY <1>3, <2>2, <3>1 DEF Top
    <3> QED
      BY <1>2, <3>1, <3>2, BoundAssumption DEF Numbers
  <2> QED
    BY <2>1, <2>2 DEF Top, HasDoc
<1>9. ASSUME NEW x \in Requests, req[x].at \in Writing, req[x].user = u PROVE x = r
  <2>1. /\ req[x].at \in Reading /\ req[x].at \in Holding /\ q.at \in Holding
        /\ Top(u, req[x].number) /\ Knows(req[x])
    BY <1>0, <1>2, <1>9
    DEF TopInv, KeptInv, Reads, Reading, Writing, Knowing, Holding, Guarded
  <2>2. req[x].number \in Numbers
    BY <1>0, <2>1, ReadingTyped
  <2>3. req[x].number <= m /\ m <= req[x].number
    BY <1>1, <1>2, <1>3, <1>9, <2>1 DEF Top
  <2>4. req[x].number = m
    BY <1>2, <2>2, <2>3, BoundAssumption DEF Numbers
  <2>5. doc[u][n].id = req[x].id
    BY <1>1, <1>9, <2>1, <2>4 DEF Knows, Writing
  <2> QED
    BY <1>0, <1>2, <2>1, <2>5 DEF KeptInv, KeysDistinct
<1>10. Contiguous'
  BY <1>4 DEF TopInv, Contiguous
<1>11. ASSUME NEW w \in Users, Has(w)', copy'[w].number # 0 PROVE Top(w, copy[w].number)'
  <2>1. PICK k : k = copy'[w].number
    OBVIOUS
  <2>2. Top(w, k)'
    BY <1>5, <1>7, <1>8, <1>11, <2>1 DEF TopInv, Has
  <2> QED
    BY <2>1, <2>2 DEF Top, HasDoc
<1>12. ASSUME NEW x \in Requests PROVE Reads(req[x])'
  <2>1. CASE x = r
    BY <1>6, <2>1 DEF Reads
  <2>2. CASE x # r
    <3>1. PICK w, k : w = req[x].user /\ k = req[x].number
      OBVIOUS
    <3>2. req'[x] = req[x] /\ Reads(req[x])
      BY <1>6, <2>2 DEF TopInv
    <3>3. ASSUME req[x].at \in Reading, k # 0 PROVE HasDoc(w, k)'
      BY <1>0, <1>4, <3>1, <3>2, <3>3, ReadingTyped DEF Reads
    <3>4. ASSUME req[x].at \in Writing
          PROVE  Top(w, k)' /\ (Has(w)' => copy'[w].number \in {0, k})
      <4>1. w \in Users /\ w # u /\ Top(w, k) /\ (Has(w) => copy[w].number \in {0, k})
        BY <1>0, <1>9, <2>2, <3>1, <3>2, <3>4, ReadingTyped
        DEF Reads, Reading, Writing, Knowing, Holding, Guarded
      <4> QED
        BY <1>5, <1>7, <4>1 DEF Has
    <3> QED
      BY <3>1, <3>2, <3>3, <3>4 DEF Reads, Top, HasDoc, Has
  <2> QED
    BY <2>1, <2>2
<1>13. TopInv'
  BY <1>10, <1>11, <1>12 DEF TopInv
<1>14. CASE ~Has(u)
  BY <1>4, <1>5, <1>13, <1>14, RefinesStill DEF Sound
<1>15. CASE Has(u)
  <2>1. n \in 1..MaxVersion /\ m = n - 1
    BY <1>2, BoundAssumption DEF Numbers
  <2>2. HasDoc(u, n)
    BY <1>0, <1>2, KeyedDocs
  <2>3. History!Full(u, n)
    BY <1>0, <1>2, <2>2, FullHistory DEF TopInv, Contiguous
  <2>4. History!Follows(u, n)
    BY <1>2, <1>3, <1>15, <2>1 DEF History!Follows
  <2>5. [w \in Users |-> IF copy'[w] # NoCopy THEN copy'[w].number ELSE 0]
          = [[w \in Users |-> IF Has(w) THEN copy[w].number ELSE 0] EXCEPT ![u] = n]
    BY <1>2, <1>5, <1>15 DEF Has
  <2>6. History!Show(u, n)
    BY <1>4, <2>3, <2>4, <2>5 DEF History!Show, Has
  <2>7. Refines
    BY <1>2, <2>1, <2>6 DEF Refines, History!Next, History!Versions
  <2> QED
    BY <1>13, <2>7 DEF Sound
<1> QED
  BY <1>14, <1>15

\* A version that is saved was shown when its number was read, and no lower one
\* is shown now.
LEMMA DocSaveSound ==
  ASSUME Legacy = {}, TopInv, KeptInv', NEW r \in Requests, DocSave(r)
  PROVE  Sound
<1> DEFINE q == req[r]
<1>0. /\ TypeInv /\ TypeInv' /\ TypeOK /\ q \in Request /\ Needs(q)
  BY DEF TopInv, KeptInv, TypeInv, TypeOK
<1>1. PICK u, n, c : u = q.user /\ n = q.number /\ c = q.content
  OBVIOUS
<1>2. /\ q.at \in Reading /\ u \in Users /\ n \in Numbers
      /\ c \in Contents /\ UNCHANGED copy
  BY <1>0, <1>1 DEF DocSave, Needs, Request, Reading
<1>3. PICK d : d = [doc[u][n] EXCEPT !.content = c]
  OBVIOUS
<1>4. CASE ~HasDoc(u, n)
  BY <1>0, <1>1, <1>2, <1>4, RestingCarries, SoundStill DEF DocSave
<1>5. CASE HasDoc(u, n)
  <2>1. doc' = [doc EXCEPT ![u][n] = d]
    BY <1>0, <1>1, <1>2, <1>3, <1>5 DEF DocSave, TypeOK
  <2>2. d.content = c /\ d \in Doc /\ d # NoDoc
    <3>1. doc[u][n] \in Doc
      BY <1>0, <1>2, <1>5, Lookups
    <3> QED
      BY <1>2, <1>3, <3>1, NoContentAssumption DEF Doc, NoDoc
  <2>3. \A w \in Users, k \in Numbers : HasDoc(w, k)' <=> HasDoc(w, k)
    BY <1>0, <1>2, <1>5, <2>1, <2>2 DEF HasDoc, TypeOK
  <2>4. TopInv'
    BY <1>0, <1>2, <2>3, RestingCarries, TopQuietly DEF DocSave, Has
  <2>5. CASE n = 0
    <3>1. \A w \in Users, k \in 1..MaxVersion : doc'[w][k] = doc[w][k]
      BY <1>0, <1>2, <2>1, <2>5, BoundAssumption DEF TypeOK, Numbers
    <3>2. Refines
      BY <1>2, <3>1 DEF Refines, History!historyVars, Has
    <3> QED
      BY <2>4, <3>2 DEF Sound
  <2>6. CASE n # 0
    <3>1. n \in 1..MaxVersion
      BY <1>2, <2>6, BoundAssumption DEF Numbers
    <3>2. History!Exists(u, n)
      BY <1>0, <1>2, <1>5, <3>1, Contained DEF History!Exists
    <3>3. Has(u) /\ copy[u].number # 0 => n <= copy[u].number
      BY <1>1, <1>2 DEF TopInv, Top
    <3>4. History!Write(u, n, c)
      BY <1>0, <1>2, <2>1, <2>2, <3>1, HistoryWritten
    <3>5. History!Edit(u, n, c)
      BY <1>2, <3>2, <3>3, <3>4 DEF History!Edit
    <3>6. Refines
      BY <1>2, <3>1, <3>5 DEF Refines, History!Next, History!Versions
    <3> QED
      BY <2>4, <3>6 DEF Sound
  <2> QED
    BY <2>5, <2>6
<1> QED
  BY <1>4, <1>5

LEMMA StepSound ==
  ASSUME Legacy = {}, TopInv, NEW r \in Requests, Step(r)
  PROVE  Sound
<1> DEFINE q == req[r]
<1>0. /\ KeptInv' /\ KeptInv /\ TypeInv /\ TypeOK
      /\ q \in Request /\ Needs(q) /\ Knows(q)
  BY MakingKeeps, OtherStepKeeps DEF TopInv, KeptInv, TypeInv, TypeOK, Step
<1> USE <1>0
<1>1. ASSUME NEW c, Go(r, c), UNCHANGED <<copy, doc>>, c.at \in {"idle", "shareSave", "versionRead"}
      PROVE  Sound
  <2>1. Carried
    BY <1>1, GoCarries DEF Reading, Writing, Knowing, Holding, Guarded
  <2> QED
    BY <1>1, <2>1, SoundStill
<1>2. ASSUME NEW w, NEW d, NEW k, Go(r, MakeVersion(w, d, k)), UNCHANGED <<copy, doc>>
      PROVE  Sound
  BY <1>1, <1>2 DEF MakeVersion, Call, Idle
<1>3. ASSUME Finish(r), UNCHANGED <<copy, doc>> PROVE Sound
  BY <1>3, RestingCarries, SoundStill
<1>4. ASSUME NEW l \in {"versionInsert", "copyUpdate"}, Advance(r, l), UNCHANGED <<copy, doc>>,
             q.at = "versionClear" \/ q.at = "versionSave",
             l = "copyUpdate" => q.at = "versionSave"
      PROVE  Sound
  <2>1. Carried
    BY <1>4, AdvanceCarries
    DEF Labels, Making, Reading, Writing, Knowing, Holding, Guarded
  <2> QED
    BY <1>4, <2>1, SoundStill
<1>5. CASE VersionRead(r)
  <2>1. CASE Has(q.user)
    <3> DEFINE c == [q EXCEPT !.at = "versionClear", !.number = copy[q.user].number]
    <3>1. c.at = "versionClear" /\ c.user = q.user /\ c.number = copy[q.user].number
      BY DEF Request
    <3>2. Go(r, c) /\ UNCHANGED stores
      BY <1>5, <2>1 DEF VersionRead
    <3> HIDE DEF c
    <3>3. Carried
      BY <2>1, <3>1, <3>2, GoCarries DEF Writing
    <3> QED
      BY <3>2, <3>3, SoundStill DEF stores
  <2>2. CASE ~Has(q.user)
    BY <1>5, <2>2, SoundWhenRaised DEF VersionRead, stores
  <2> QED
    BY <2>1, <2>2
<1>6. CASE VersionInsert(r)
  <2>1. PICK i : Go(r, [q EXCEPT !.at = "docInsert", !.id = i])
    BY <1>6 DEF VersionInsert
  <2> DEFINE c == [q EXCEPT !.at = "docInsert", !.id = i]
  <2>2. c.at = "docInsert" /\ c.user = q.user /\ c.number = q.number
    BY DEF Request
  <2>3. Go(r, c) /\ q.at = "versionInsert" /\ UNCHANGED <<copy, doc>>
    BY <1>6, <2>1 DEF VersionInsert
  <2> HIDE DEF c
  <2>4. Carried
    BY <2>2, <2>3, GoCarries DEF Reading, Writing, Knowing
  <2> QED
    BY <2>3, <2>4, SoundStill
<1>7. CASE VersionClear(r) \/ VersionSave(r)
  BY <1>4, <1>7 DEF VersionClear, VersionSave
<1>8. CASE DocInsert(r)
  <2>1. CASE HasDoc(q.user, q.number + 1)
    BY <1>8, <2>1, SoundWhenRaised DEF DocInsert
  <2> QED
    BY <1>8, <2>1, DocInsertSound
<1>9. CASE VersionDrop(r)
  BY <1>9, SoundWhenRaised DEF VersionDrop
<1>10. CASE CopyDrop(r)
  <2>1. Carried
    BY <1>10, RestingCarries DEF CopyDrop, GiveUp
  <2>2. q.user \in Users
    BY <1>10 DEF CopyDrop, Needs
  <2>3. copy' = [copy EXCEPT ![q.user] = NoCopy] /\ UNCHANGED doc
    BY <1>10 DEF CopyDrop
  <2>4. copy'[q.user] = NoCopy /\ \A w \in Users \ {q.user} : copy'[w] = copy[w]
    BY <2>2, <2>3 DEF TypeOK
  <2> QED
    BY <2>1, <2>2, <2>3, <2>4, SoundQuietly
<1>11. CASE ShareRead(r)
  <2> DEFINE c == [q EXCEPT !.at = "shareSave", !.content = doc[q.user][q.number].content,
                            !.caller = "share"]
  <2>1. c.at = "shareSave"
    BY DEF Request
  <2> QED
    BY <1>1, <1>3, <1>11, <2>1 DEF ShareRead, stores
<1>12. CASE ShareSave(r)
  <2>1. PICK w : w = q.to
    OBVIOUS
  <2>2. w \in Users /\ SaveCopy(w, TRUE) /\ UNCHANGED doc
    BY <1>12, <2>1 DEF ShareSave, Needs
  <2>3. MakeVersion(w, q.content, "share").at = "versionRead"
    BY DEF MakeVersion, Call, Idle
  <2>4. Carried
    BY <1>12, <2>1, <2>3, GoCarries
    DEF ShareSave, Reading, Writing, Knowing, Holding, Guarded
  <2> QED
    BY <2>2, <2>4, SoundSaveCopy
<1>13. ~DocDelete(r) /\ ~VersionDelete(r)
  BY DEF Knows, DocDelete, VersionDelete
<1>14. CASE LegacyRead(r) \/ LegacyDelete(r) \/ CurrentRead(r)
  BY <1>2, <1>3, <1>14 DEF LegacyRead, LegacyDelete, CurrentRead, stores
<1> QED
  BY <1>5, <1>6, <1>7, <1>8, <1>9, <1>10, <1>11, <1>12, <1>13, <1>14, CopyUpdateSound,
     DocSaveSound
  DEF Step

LEMMA InitHistory ==
  ASSUME Legacy = {}, Init
  PROVE  TopInv /\ History!Init
<1>1. /\ \A u \in Users : ~Has(u)
      /\ \A u \in Users, n \in Numbers : ~HasDoc(u, n)
      /\ \A r \in Requests : req[r].at = "idle"
  BY DEF Init, Has, HasDoc, Idle
<1>2. TopInv
  BY <1>1, InitKept
  DEF TopInv, Contiguous, Reads, Reading, Writing, Knowing, Holding, Guarded
<1>3. \A u \in Users, n \in 1..MaxVersion : doc[u][n].content = NoContent
  BY BoundAssumption DEF Init, NoDoc, Numbers
<1>4. History!Init
  BY <1>1, <1>3 DEF History!Init, History!Versions
<1> QED
  BY <1>2, <1>4

LEMMA NextSound ==
  ASSUME Legacy = {}, KeepingAssumption, TopInv, [Next]_vars
  PROVE  Sound
<1>0. KeptInv'
  BY NextKeeps DEF TopInv
<1>1. ASSUME NEW r \in Requests, Arrival(r) PROVE Sound
  BY <1>1, ArrivalSound
<1>2. ASSUME NEW r \in Requests, Step(r) PROVE Sound
  BY <1>2, StepSound
<1>3. ASSUME NEW r \in Requests, Fail(r) PROVE Sound
  BY <1>0, <1>3, SoundWhenRaised DEF Fail, stores
<1>4. CASE Crash
  BY <1>0, <1>4, RestingCarries, SoundStill DEF Crash, stores
<1>5. CASE UNCHANGED vars
  <2>1. Carried
    BY <1>5 DEF Carried, vars
  <2> QED
    BY <1>0, <1>5, <2>1, SoundStill DEF vars
<1> QED
  BY <1>1, <1>2, <1>3, <1>4, <1>5 DEF Next

\* As long as nobody deletes anything, for any users and requests, wherever
\* requests fail or the server dies: among the requests that make a version after
\* the same one, only that whose document came first moves the copy, and no
\* other has read a number beyond.
THEOREM VersionsTop ==
  ASSUME Legacy = {}, KeepingAssumption
  PROVE  Spec => []TopInv
<1>1. TopInv /\ [Next]_vars => TopInv'
  BY NextSound DEF Sound
<1> QED
  BY <1>1, InitHistory, PTL DEF Spec

\* Every step of createProcessVersion, saveProcess, shareProcess, a creation that
\* fails and all others is one step of VersionHistory or leaves it alone.
THEOREM VersionsRefineHistory ==
  ASSUME Legacy = {}, KeepingAssumption
  PROVE  Spec => IsVersionHistory
<1>1. TopInv /\ [Next]_vars => [History!Next]_History!historyVars
  BY NextSound DEF Sound, Refines
<1>2. Init => History!Init
  BY InitHistory
<1> QED
  BY <1>1, <1>2, VersionsTop, PTL DEF Spec, IsVersionHistory, History!Spec

-----------------------------------------------------------------------------
(* With requests served one by one, whatever fails. *)

SerialAssumption == \E r : Requests = {r}

\* What the request being served knows: who may be current while it makes a
\* version, and which number the copy has that it saves.
Claim(q) ==
  /\ \A i \in VersionIds :
       version[i].current =>
         /\ q.at # "versionInsert"
         /\ q.at \in Holding => i = q.id /\ version[i].by = q.user
  /\ q.at = "docSave" /\ Has(q.user) => copy[q.user].number = q.number

SerialInv ==
  /\ TypeInv
  /\ OneCurrent
  /\ \A r \in Requests : Claim(req[r])

LEMMA SerialStep ==
  ASSUME SerialAssumption, TypeInv', OneCurrent', NEW r \in Requests, NEW c,
         req' = [req EXCEPT ![r] = c], SerialInv, Claim(c)'
  PROVE  SerialInv'
<1>1. \A x \in Requests : req'[x] = c
  BY DEF SerialAssumption, SerialInv, TypeInv, TypeOK
<1>2. \A x \in Requests : Claim(req[x])'
  BY <1>1 DEF Claim, Has
<1> QED
  BY <1>2 DEF SerialInv

\* A step that marks nothing as current.
LEMMA SerialQuietly ==
  ASSUME SerialAssumption, SerialInv, TypeInv', NEW r \in Requests, NEW c,
         req' = [req EXCEPT ![r] = c],
         \A i \in VersionIds :
           version'[i].current => version[i].current /\ version'[i].by = version[i].by,
         c.at # "versionInsert",
         c.at \in Holding => req[r].at \in Holding /\ c.id = req[r].id /\ c.user = req[r].user,
         c.at = "docSave" => copy'[c.user].number = c.number
  PROVE  SerialInv'
<1>1. OneCurrent'
  BY DEF SerialInv, OneCurrent
<1>2. Claim(c)'
  BY DEF SerialInv, Claim
<1> QED
  BY <1>1, <1>2, SerialStep

LEMMA IdleClaims == Idle.at \notin Holding \union {"versionInsert", "docSave"}
BY DEF Idle, Holding, Guarded

LEMMA DyingIsFinishing ==
  ASSUME SerialAssumption, SerialInv, NEW r \in Requests, Die
  PROVE  Finish(r)
<1>1. \A x \in Requests : x = r
  BY DEF SerialAssumption
<1>2. req \in [Requests -> Request]
  BY DEF SerialInv, TypeInv, TypeOK
<1>3. [x \in Requests |-> Idle] = [req EXCEPT ![r] = Idle]
  BY <1>1, <1>2
<1> QED
  BY <1>3 DEF Die, Finish, Go

LEMMA SerialWhenRaised ==
  ASSUME SerialAssumption, SerialInv, TypeInv', NEW r \in Requests, Raise(r),
         \A i \in VersionIds :
           version'[i].current => version[i].current /\ version'[i].by = version[i].by
  PROVE  SerialInv'
<1>1. req[r] \in Request
  BY DEF SerialInv, TypeInv, TypeOK
<1>2. ASSUME req[r].at \in Guarded, Advance(r, "versionDrop") PROVE SerialInv'
  <2> DEFINE c == [req[r] EXCEPT !.at = "versionDrop"]
  <2>1. c.at = "versionDrop" /\ c.id = req[r].id /\ c.user = req[r].user
    BY <1>1, MoveTyped DEF Labels, Making
  <2> QED
    BY <1>2, <2>1, SerialQuietly DEF Advance, Go, Holding
<1>3. ASSUME Advance(r, "copyDrop") PROVE SerialInv'
  <2> DEFINE c == [req[r] EXCEPT !.at = "copyDrop"]
  <2>1. c.at = "copyDrop"
    BY <1>1, MoveTyped DEF Labels
  <2> QED
    BY <1>3, <2>1, SerialQuietly DEF Advance, Go, Holding, Guarded
<1>4. CASE Finish(r)
  BY <1>4, IdleClaims, SerialQuietly DEF Finish, Go
<1> QED
  BY <1>2, <1>3, <1>4, DyingIsFinishing DEF Raise, GiveUp

LEMMA ArrivalSerial ==
  ASSUME SerialAssumption, SerialInv, NEW r \in Requests, Arrival(r)
  PROVE  SerialInv'
<1>0. TypeInv' /\ TypeInv /\ UNCHANGED version
  BY ArrivalTyped
  DEF SerialInv, Arrival, DeleteProcess, GetProcess, VersionFromCurrent, CreateProcess,
      SaveProcess, NewVersion, ShareProcess, RestoreVersion, DeleteVersion, stores
<1>1. ASSUME NEW c, Begin(r, c), c.at \notin Holding \union {"versionInsert"},
             c.at = "docSave" => copy'[c.user].number = c.number
      PROVE  SerialInv'
  BY <1>0, <1>1, SerialQuietly DEF Begin, Go
<1>2. ASSUME NEW u, NEW d, NEW k, Begin(r, MakeVersion(u, d, k)) PROVE SerialInv'
  BY <1>1, <1>2 DEF MakeVersion, Call, Idle, Holding, Guarded
<1>3. ASSUME NEW u \in Users, NEW d \in Contents, SaveProcess(r, u, d) PROVE SerialInv'
  <2> DEFINE c == [Call("docSave", u) EXCEPT !.number = copy[u].number, !.content = d]
  <2>1. /\ Call("docSave", u) \in Request /\ Call("docSave", u).at = "docSave"
        /\ Call("docSave", u).user = u
    BY CallTyped DEF Labels
  <2>2. c.at = "docSave" /\ c.user = u /\ c.number = copy[u].number
    BY <2>1 DEF Request
  <2> QED
    BY <1>1, <1>3, <2>2 DEF SaveProcess, stores, Holding, Guarded
<1>4. ASSUME NEW l \in {"docDelete", "legacyRead", "currentRead", "shareRead", "versionDelete",
                        "versionDocDelete"},
             NEW c, c.at = l, Begin(r, c)
      PROVE  SerialInv'
  BY <1>1, <1>4 DEF Holding, Guarded
<1>5. ASSUME NEW u \in Users,
             \/ DeleteProcess(r, u) \/ GetProcess(r, u) \/ VersionFromCurrent(r, u)
             \/ \E w \in Users : ShareProcess(r, u, w)
             \/ \E i \in VersionIds : DeleteVersion(r, u, i)
      PROVE  SerialInv'
  BY <1>4, <1>5
  DEF DeleteProcess, GetProcess, VersionFromCurrent, ShareProcess, DeleteVersion, Call, Idle
<1> QED
  BY <1>2, <1>3, <1>5 DEF Arrival, CreateProcess, NewVersion, RestoreVersion

LEMMA StepSerial ==
  ASSUME SerialAssumption, SerialInv, NEW r \in Requests, Step(r)
  PROVE  SerialInv'
<1> DEFINE q == req[r]
           u == q.user
<1>0. /\ TypeInv' /\ TypeInv /\ TypeOK
      /\ q \in Request /\ Needs(q) /\ Claim(q)
  BY MakingTyped, OtherStepTyped DEF SerialInv, TypeInv, TypeOK, Step
<1>1. ASSUME NEW c, Go(r, c), UNCHANGED version,
             c.at \notin Holding \union {"versionInsert", "docSave"}
      PROVE  SerialInv'
  BY <1>0, <1>1, SerialQuietly DEF Go
<1>2. ASSUME Finish(r), UNCHANGED version PROVE SerialInv'
  BY <1>1, <1>2 DEF Finish, Idle, Holding, Guarded
<1>3. ASSUME NEW w, NEW d, NEW k, Go(r, MakeVersion(w, d, k)), UNCHANGED version
      PROVE  SerialInv'
  BY <1>1, <1>3 DEF MakeVersion, Call, Idle, Holding, Guarded
<1>4. ASSUME NEW l \in {"copyDrop", "versionDelete", "legacyDelete"}, Advance(r, l),
             UNCHANGED version
      PROVE  SerialInv'
  <2>1. [q EXCEPT !.at = l].at = l
    BY <1>0, MoveTyped DEF Labels
  <2> QED
    BY <1>1, <1>4, <2>1 DEF Advance, Holding, Guarded
<1>5. CASE VersionRead(r)
  <2>1. [q EXCEPT !.at = "versionClear", !.number = copy[u].number].at = "versionClear"
    BY <1>0 DEF Request
  <2> QED
    BY <1>0, <1>1, <1>5, <2>1, SerialWhenRaised DEF VersionRead, stores, Holding, Guarded
<1>6. CASE VersionClear(r)
  <2>1. ASSUME NEW i \in VersionIds PROVE ~version'[i].current
    BY <1>0, <1>6 DEF VersionClear, TypeOK, Version, NoVersion
  <2>2. PICK c : c = [q EXCEPT !.at = "versionInsert"]
    OBVIOUS
  <2>3. c.at = "versionInsert"
    BY <1>0, <2>2, MoveTyped DEF Labels, Making
  <2>4. Claim(c)' /\ OneCurrent'
    BY <2>1, <2>3 DEF Claim, OneCurrent
  <2> QED
    BY <1>0, <1>6, <2>2, <2>4, SerialStep DEF VersionClear, Advance, Go
<1>7. CASE VersionInsert(r)
  <2>1. PICK i \in FreshVersion :
          /\ version' = [version EXCEPT ![i] = [by |-> u, current |-> TRUE]]
          /\ Go(r, [q EXCEPT !.at = "docInsert", !.id = i])
    BY <1>7 DEF VersionInsert
  <2>2. PICK c : c = [q EXCEPT !.at = "docInsert", !.id = i]
    OBVIOUS
  <2>3. c.at = "docInsert" /\ c.id = i /\ c.user = u
    BY <1>0, <2>2 DEF Request
  <2>4. ASSUME NEW j \in VersionIds, version'[j].current PROVE j = i /\ version'[j].by = u
    BY <1>0, <1>7, <2>1, <2>4 DEF Claim, VersionInsert, TypeOK
  <2>5. Claim(c)' /\ OneCurrent'
    BY <2>3, <2>4 DEF Claim, OneCurrent
  <2> QED
    BY <1>0, <2>1, <2>2, <2>5, SerialStep DEF Go
<1>8. CASE DocInsert(r)
  <2>1. [q EXCEPT !.at = "versionSave"].at = "versionSave"
        /\ [q EXCEPT !.at = "versionSave"].id = q.id
        /\ [q EXCEPT !.at = "versionSave"].user = u
    BY <1>0, MoveTyped DEF Labels, Making, Guarded
  <2>2. ASSUME Advance(r, "versionSave"), UNCHANGED version PROVE SerialInv'
    BY <1>0, <1>8, <2>1, <2>2, SerialQuietly DEF DocInsert, Advance, Go, Holding, Guarded
  <2> QED
    BY <1>0, <1>8, <2>2, SerialWhenRaised DEF DocInsert
<1>9. CASE VersionSave(r)
  <2>1. PICK c : c = [q EXCEPT !.at = "copyUpdate"]
    OBVIOUS
  <2>2. c.at = "copyUpdate" /\ c.id = q.id /\ c.user = u
    BY <1>0, <2>1, MoveTyped DEF Labels, Making, Guarded
  <2>3. ASSUME NEW j \in VersionIds, version'[j].current
        PROVE  j = q.id /\ version'[j].by = u
    BY <1>0, <1>9, <2>3 DEF Claim, VersionSave, TypeOK, Holding, Guarded
  <2>4. Claim(c)' /\ OneCurrent'
    BY <2>2, <2>3 DEF Claim, OneCurrent
  <2> QED
    BY <1>0, <1>9, <2>1, <2>4, SerialStep DEF VersionSave, Advance, Go
<1>10. CASE VersionDrop(r)
  <2>1. ASSUME NEW i \in VersionIds, version'[i].current
        PROVE  version[i].current /\ version'[i].by = version[i].by
    BY <1>0, <1>10, <2>1 DEF VersionDrop, TypeOK, NoVersion
  <2> QED
    BY <1>0, <1>10, <2>1, SerialWhenRaised DEF VersionDrop
<1>11. CASE CopyDrop(r)
  BY <1>2, <1>11, DyingIsFinishing DEF CopyDrop, GiveUp
<1>12. CASE ShareRead(r)
  <2>1. [q EXCEPT !.at = "shareSave", !.content = doc[u][q.number].content,
                  !.caller = "share"].at = "shareSave"
    BY <1>0 DEF Request
  <2> QED
    BY <1>1, <1>2, <1>12, <2>1 DEF ShareRead, stores, Holding, Guarded
<1>13. CASE VersionDelete(r)
  <2>1. ASSUME NEW i \in VersionIds, version'[i].current
        PROVE  version[i].current /\ version'[i].by = version[i].by
    BY <1>0, <1>13, <2>1 DEF VersionDelete, TypeOK, NoVersion
  <2> QED
    BY <1>0, <1>13, <2>1, IdleClaims, SerialQuietly DEF VersionDelete, Finish, Go
<1>14. CASE CopyUpdate(r) \/ DocDelete(r)
  BY <1>2, <1>4, <1>14 DEF CopyUpdate, DocDelete
<1>15. CASE LegacyRead(r) \/ LegacyDelete(r) \/ DocSave(r) \/ ShareSave(r) \/ CurrentRead(r)
  BY <1>2, <1>3, <1>15 DEF LegacyRead, LegacyDelete, DocSave, ShareSave, CurrentRead, stores
<1> QED
  BY <1>5, <1>6, <1>7, <1>8, <1>9, <1>10, <1>11, <1>12, <1>13, <1>14, <1>15 DEF Step

LEMMA InitSerial == Init => SerialInv
<1> SUFFICES ASSUME Init PROVE SerialInv
  OBVIOUS
<1>1. \A i \in VersionIds : ~version[i].current
  BY DEF Init, NoVersion
<1>2. \A r \in Requests : req[r] = Idle
  BY DEF Init
<1> QED
  BY <1>1, <1>2, InitTyped, IdleClaims DEF SerialInv, OneCurrent, Claim

LEMMA NextSerial ==
  ASSUME SerialAssumption, SerialInv, [Next]_vars
  PROVE  SerialInv'
<1>0. TypeInv'
  BY NextTyped DEF SerialInv
<1>1. ASSUME NEW r \in Requests, Arrival(r) PROVE SerialInv'
  BY <1>1, ArrivalSerial
<1>2. ASSUME NEW r \in Requests, Step(r) PROVE SerialInv'
  BY <1>2, StepSerial
<1>3. ASSUME NEW r \in Requests, Fail(r) PROVE SerialInv'
  BY <1>0, <1>3, SerialWhenRaised DEF Fail, stores
<1>4. CASE Crash
  <2>1. PICK r : r \in Requests
    BY DEF SerialAssumption
  <2> QED
    BY <1>0, <1>4, <2>1, DyingIsFinishing, IdleClaims, SerialQuietly
    DEF Crash, stores, Finish, Go
<1>5. CASE UNCHANGED vars
  BY <1>0, <1>5 DEF SerialInv, OneCurrent, Claim, Has, vars
<1> QED
  BY <1>1, <1>2, <1>3, <1>4, <1>5 DEF Next

THEOREM VersionsSerialInvariant ==
  ASSUME SerialAssumption
  PROVE  Spec => []SerialInv
<1>1. SerialInv /\ [Next]_vars => SerialInv'
  BY NextSerial
<1> QED
  BY <1>1, InitSerial, PTL DEF Spec

\* With requests served one by one, whatever they are and wherever they fail or
\* the server dies between two steps, at most one version is marked as current:
\* nothing can mark one between the clearing of the marks and the new row, and
\* the row that is saved again is the one that was marked.
THEOREM VersionsOneCurrent ==
  ASSUME SerialAssumption
  PROVE  Spec => []OneCurrent
<1>1. SerialInv => OneCurrent
  BY DEF SerialInv
<1> QED
  BY <1>1, VersionsSerialInvariant, PTL

\* With requests served one by one, also if they fail, the document of an older
\* version of a copy is never written again: saveProcess writes under the
\* number that the copy still has, a new version under a key that was free.
THEOREM VersionsHistoryFrozen ==
  ASSUME SerialAssumption
  PROVE  Spec => HistoryFrozen
<1> DEFINE Frozen(u, n) == Has(u) /\ n < copy[u].number /\ HasDoc(u, n)
                             => doc'[u][n] \in {doc[u][n], NoDoc}
<1>1. ASSUME SerialInv, [Next]_vars, NEW u \in Users, NEW n \in Numbers PROVE Frozen(u, n)
  <2>0. TypeOK
    BY <1>1 DEF SerialInv, TypeInv
  <2>1. CASE UNCHANGED doc
    BY <2>1
  <2>2. ASSUME NEW r \in Requests, DocInsert(r) PROVE Frozen(u, n)
    BY <2>0, <2>2 DEF DocInsert, TypeOK, HasDoc
  <2>3. ASSUME NEW r \in Requests, DocDelete(r) PROVE Frozen(u, n)
    BY <2>0, <2>3 DEF DocDelete, TypeOK
  <2>4. ASSUME NEW r \in Requests, DocSave(r), Has(u), n < copy[u].number
        PROVE  doc'[u][n] = doc[u][n]
    <3>1. req[r].user = u => n # req[r].number
      <4>1. req[r].at = "docSave" /\ Claim(req[r])
        BY <1>1, <2>4 DEF SerialInv, DocSave
      <4>2. req[r].user = u => copy[u].number = req[r].number
        BY <2>4, <4>1 DEF Claim
      <4> QED
        BY <2>4, <4>2, BoundAssumption DEF Numbers
    <3> QED
      BY <2>0, <2>4, <3>1 DEF DocSave, TypeOK
  <2>5. ASSUME NEW r \in Requests, Step(r), ~DocInsert(r), ~DocDelete(r), ~DocSave(r)
        PROVE  UNCHANGED doc
    BY <2>5
    DEF Step, VersionRead, VersionClear, VersionInsert, VersionSave, CopyUpdate,
        VersionDrop, CopyDrop, LegacyRead, LegacyDelete, ShareRead, ShareSave,
        CurrentRead, VersionDelete, stores
  <2>6. ASSUME NEW r \in Requests, Arrival(r) PROVE UNCHANGED doc
    BY <2>6
    DEF Arrival, DeleteProcess, GetProcess, VersionFromCurrent, CreateProcess, SaveProcess,
        NewVersion, ShareProcess, RestoreVersion, DeleteVersion, stores
  <2> QED
    BY <1>1, <2>1, <2>2, <2>3, <2>4, <2>5, <2>6 DEF Next, Fail, Crash, vars, stores
<1>2. SerialInv /\ [Next]_vars => [\A u \in Users, n \in Numbers : Frozen(u, n)]_vars
  BY <1>1
<1> QED
  BY <1>2, VersionsSerialInvariant, PTL DEF Spec, HistoryFrozen

-----------------------------------------------------------------------------
(* With requests served one by one and no failure. *)

Edited(i) ==
  LET u == version[i].by
  IN  version[i].current /\ Has(u) => doc[u][copy[u].number].id = i

AllEdited == \A i \in VersionIds : Edited(i)

\* Control points at which nothing is half done.
Settled == {"idle", "legacyRead", "legacyDelete", "docSave", "docDelete", "shareRead",
            "shareSave", "currentRead", "versionDocDelete"}

\* How far the version marked as current may be from the one being edited while
\* a request is half done.
EditClaim(q) ==
  /\ q.at \in Settled => AllEdited
  /\ q.at = "versionRead" => IF q.caller \in {"create", "share"} THEN Has(q.user)
                                                                 ELSE AllEdited
  /\ q.at \in {"versionSave", "copyUpdate"} => doc[q.user][q.number + 1].id = q.id
  /\ q.at = "copyDrop" => \A i \in VersionIds : version[i].by # q.user => Edited(i)
  /\ q.at = "versionDocDelete" => doc[q.user][q.number].id = q.id
  /\ q.at = "versionDelete" => \A i \in VersionIds \ {q.id} : Edited(i)

EditInv == SerialInv /\ \A r \in Requests : EditClaim(req[r])

LEMMA EditStep ==
  ASSUME SerialAssumption, SerialInv, SerialInv', NEW r \in Requests, NEW c,
         req' = [req EXCEPT ![r] = c], EditClaim(c)'
  PROVE  EditInv'
<1>1. \A x \in Requests : req'[x] = c
  BY DEF SerialAssumption, SerialInv, TypeInv, TypeOK
<1> QED
  BY <1>1 DEF EditInv, EditClaim, AllEdited, Edited, Has

\* A request that goes on from a settled point to another, or begins to make a
\* version for a client, and leaves the tables alone.
LEMMA EditQuietly ==
  ASSUME SerialAssumption, EditInv, SerialInv', NEW r \in Requests, NEW c,
         req' = [req EXCEPT ![r] = c], UNCHANGED <<copy, version, doc>>, AllEdited,
         c.at \in Settled \union {"versionRead", "versionDelete"},
         c.at = "versionRead" => c.caller \notin {"create", "share"},
         c.at = "versionDocDelete" => doc[c.user][c.number].id = c.id
  PROVE  EditInv'
<1>1. AllEdited'
  BY DEF AllEdited, Edited, Has
<1>2. EditClaim(c)'
  BY <1>1 DEF EditClaim, AllEdited, Settled
<1> QED
  BY <1>2, EditStep DEF EditInv

LEMMA ArrivalEdits ==
  ASSUME SerialAssumption, EditInv, NEW r \in Requests, Arrival(r)
  PROVE  EditInv'
<1>0. SerialInv /\ SerialInv' /\ TypeInv /\ AllEdited
  BY ArrivalSerial
  DEF EditInv, SerialInv, EditClaim, Settled, Arrival, DeleteProcess, GetProcess,
      VersionFromCurrent, CreateProcess, SaveProcess, NewVersion, ShareProcess,
      RestoreVersion, DeleteVersion, Begin, Free
<1>1. ASSUME NEW c, Begin(r, c), UNCHANGED stores,
             c.at \in {"docDelete", "legacyRead", "currentRead", "docSave", "shareRead",
                       "versionDelete"}
      PROVE  EditInv'
  BY <1>0, <1>1, EditQuietly DEF Begin, Go, stores, Settled
<1>2. ASSUME NEW u \in Users, NEW d \in Contents, Begin(r, MakeVersion(u, d, "client")),
             UNCHANGED stores
      PROVE  EditInv'
  <2>1. /\ MakeVersion(u, d, "client").at = "versionRead"
        /\ MakeVersion(u, d, "client").caller = "client"
    BY DEF MakeVersion, Call, Idle
  <2> QED
    BY <1>0, <1>2, <2>1, EditQuietly DEF Begin, Go, stores
<1>3. ASSUME NEW u \in Users,
             \/ DeleteProcess(r, u) \/ GetProcess(r, u) \/ VersionFromCurrent(r, u)
             \/ \E w \in Users : ShareProcess(r, u, w)
             \/ \E d \in Contents : SaveProcess(r, u, d)
      PROVE  EditInv'
  BY <1>1, <1>3
  DEF DeleteProcess, GetProcess, VersionFromCurrent, ShareProcess, SaveProcess, Call, Idle
<1>4. ASSUME NEW u \in Users, NEW d \in Contents, CreateProcess(r, u, d) PROVE EditInv'
  <2>1. PICK c : c = MakeVersion(u, d, "create")
    OBVIOUS
  <2>2. c.at = "versionRead" /\ c.caller = "create" /\ c.user = u
    BY <2>1 DEF MakeVersion, Call, Idle
  <2>3. copy'[u] # NoCopy
    <3>1. copy'[u].number \in Numbers
      BY <1>0, <1>4, Lookups, BoundAssumption
      DEF CreateProcess, SaveCopy, TypeInv, TypeOK, Copy, Numbers
    <3> QED
      BY <3>1, BoundAssumption DEF NoCopy, Numbers
  <2>4. EditClaim(c)'
    BY <2>2, <2>3 DEF EditClaim, Has, Settled
  <2> QED
    BY <1>0, <1>4, <2>1, <2>4, EditStep DEF CreateProcess, Begin, Go
<1>5. ASSUME NEW u \in Users, NEW i \in VersionIds, RestoreVersion(r, u, i) PROVE EditInv'
  <2>1. PICK w \in Users, n \in Numbers :
          doc[w][n].id = i /\ Begin(r, MakeVersion(u, doc[w][n].content, "client"))
    BY <1>5 DEF RestoreVersion
  <2>2. doc[w][n].content \in Contents
    BY <1>0, <2>1, NoDocKey DEF TypeInv, TypeOK, Doc
  <2> QED
    BY <1>2, <1>5, <2>1, <2>2 DEF RestoreVersion
<1>6. ASSUME NEW u \in Users, NEW i \in VersionIds, DeleteVersion(r, u, i) PROVE EditInv'
  <2>1. ASSUME NEW d \in Users \X Numbers, doc[d[1]][d[2]].id = i,
               Begin(r, [Call("versionDocDelete", d[1]) EXCEPT !.number = d[2], !.id = i])
        PROVE  EditInv'
    <3> DEFINE c == [Call("versionDocDelete", d[1]) EXCEPT !.number = d[2], !.id = i]
    <3>1. /\ Call("versionDocDelete", d[1]) \in Request
          /\ Call("versionDocDelete", d[1]).at = "versionDocDelete"
          /\ Call("versionDocDelete", d[1]).user = d[1]
      BY CallTyped DEF Labels
    <3>2. c.at = "versionDocDelete" /\ c.user = d[1] /\ c.number = d[2] /\ c.id = i
      BY <3>1 DEF Request
    <3> QED
      BY <1>0, <1>6, <2>1, <3>2, EditQuietly DEF DeleteVersion, Begin, Go, stores, Settled
  <2>2. [Call("versionDelete", NoUser) EXCEPT !.id = i].at = "versionDelete"
    BY DEF Call, Idle
  <2> QED
    BY <1>1, <1>6, <2>1, <2>2 DEF DeleteVersion
<1> QED
  BY <1>2, <1>3, <1>4, <1>5, <1>6 DEF Arrival, NewVersion

\* The end of a request at a moment when no mark is out of place.
LEMMA EditFinished ==
  ASSUME SerialAssumption, EditInv, SerialInv', NEW r \in Requests, Finish(r), AllEdited'
  PROVE  EditInv'
<1>1. EditClaim(Idle)'
  BY DEF EditClaim, Idle, AllEdited
<1> QED
  BY <1>1, EditStep DEF EditInv, Finish, Go

LEMMA MakingEdits ==
  ASSUME SerialAssumption, EditInv, NEW r \in Requests,
         \/ VersionRead(r) \/ VersionClear(r) \/ VersionInsert(r) \/ DocInsert(r)
         \/ VersionSave(r) \/ CopyUpdate(r) \/ VersionDrop(r)
  PROVE  EditInv'
<1> DEFINE q == req[r]
           u == q.user
<1>0. /\ SerialInv /\ SerialInv' /\ TypeInv /\ TypeOK /\ TypeInv' /\ EditClaim(q) /\ Claim(q)
      /\ q \in Request /\ Needs(q)
  BY StepSerial DEF EditInv, SerialInv, TypeInv, TypeOK, Step
<1>1. ASSUME NEW c, req' = [req EXCEPT ![r] = c],
             c.at \in {"versionClear", "versionInsert", "docInsert", "versionDrop"}
      PROVE  EditInv'
  <2>1. EditClaim(c)'
    BY <1>1 DEF EditClaim, Settled
  <2> QED
    BY <1>0, <1>1, <2>1, EditStep
<1>2. ASSUME NEW c, req' = [req EXCEPT ![r] = c], c.at \in {"versionSave", "copyUpdate"},
             doc'[c.user][c.number + 1].id = c.id
      PROVE  EditInv'
  <2>1. EditClaim(c)'
    BY <1>2 DEF EditClaim, Settled
  <2> QED
    BY <1>0, <1>2, <2>1, EditStep
<1>3. CASE VersionRead(r)
  <2>1. [q EXCEPT !.at = "versionClear", !.number = copy[u].number].at = "versionClear"
    BY <1>0 DEF Request
  <2>2. ASSUME ~Has(u), Raise(r), UNCHANGED stores PROVE EditInv'
    <3>1. q.caller \notin {"create", "share"} /\ AllEdited
      BY <1>0, <1>3, <2>2 DEF EditClaim, VersionRead
    <3>2. Finish(r)
      BY <1>3, <2>2, <3>1 DEF VersionRead, Raise, GiveUp, Guarded
    <3>3. AllEdited'
      BY <2>2, <3>1 DEF stores, AllEdited, Edited, Has
    <3> QED
      BY <1>0, <3>2, <3>3, EditFinished
  <2> QED
    BY <1>1, <1>3, <2>1, <2>2 DEF VersionRead, Go
<1>4. CASE VersionClear(r)
  <2>1. [q EXCEPT !.at = "versionInsert"].at = "versionInsert"
    BY <1>0, MoveTyped DEF Labels, Making
  <2> QED
    BY <1>1, <1>4, <2>1 DEF VersionClear, Advance, Go
<1>5. CASE VersionInsert(r)
  <2>1. ASSUME NEW i PROVE [q EXCEPT !.at = "docInsert", !.id = i].at = "docInsert"
    BY <1>0 DEF Request
  <2> QED
    BY <1>1, <1>5, <2>1 DEF VersionInsert, Go
<1>6. CASE DocInsert(r)
  <2>1. CASE HasDoc(u, q.number + 1)
    <3>1. [q EXCEPT !.at = "versionDrop"].at = "versionDrop"
      BY <1>0, MoveTyped DEF Labels, Making
    <3> QED
      BY <1>1, <1>6, <2>1, <3>1 DEF DocInsert, Raise, Guarded, Advance, Go
  <2>2. CASE ~HasDoc(u, q.number + 1)
    <3> DEFINE c == [q EXCEPT !.at = "versionSave"]
    <3>1. c.at = "versionSave" /\ c.user = u /\ c.number = q.number /\ c.id = q.id
      BY <1>0, MoveTyped DEF Labels, Making, Guarded
    <3>2. u \in Users /\ q.number + 1 \in Numbers
      BY <1>0, <1>6, BoundAssumption
      DEF DocInsert, Needs, Making, Guarded, Holding, Knowing, Request, Numbers
    <3>3. doc'[u][q.number + 1].id = q.id
      BY <1>0, <1>6, <2>2, <3>2 DEF DocInsert, NewDoc, TypeOK
    <3> QED
      BY <1>2, <1>6, <2>2, <3>1, <3>3 DEF DocInsert, Advance, Go
  <2> QED
    BY <2>1, <2>2
<1>7. CASE VersionSave(r)
  <2>1. [q EXCEPT !.at = "copyUpdate"].at = "copyUpdate"
        /\ [q EXCEPT !.at = "copyUpdate"].user = u
        /\ [q EXCEPT !.at = "copyUpdate"].number = q.number
        /\ [q EXCEPT !.at = "copyUpdate"].id = q.id
    BY <1>0, MoveTyped DEF Labels, Making, Guarded
  <2>2. doc[u][q.number + 1].id = q.id
    BY <1>0, <1>7 DEF EditClaim, VersionSave
  <2> QED
    BY <1>2, <1>7, <2>1, <2>2 DEF VersionSave, Advance, Go
<1>8. CASE CopyUpdate(r)
  <2>0. u \in Users /\ doc[u][q.number + 1].id = q.id /\ q.at \in Holding
    BY <1>0, <1>8 DEF CopyUpdate, EditClaim, Needs, Making, Guarded, Holding
  <2>1. ASSUME NEW i \in VersionIds, version[i].current, copy'[u] # NoCopy
        PROVE  version[i].by = u /\ doc[u][copy'[u].number].id = i
    <3>1. i = q.id /\ version[i].by = u
      BY <1>0, <2>0, <2>1 DEF Claim
    <3>2. Has(u) /\ copy[u] \in Copy
      BY <1>0, <1>8, <2>0, <2>1, Lookups DEF CopyUpdate, Has, TypeOK
    <3>3. copy'[u].number = q.number + 1
      BY <1>0, <1>8, <2>0, <3>2 DEF CopyUpdate, TypeOK, Copy
    <3> QED
      BY <2>0, <3>1, <3>3
  <2>2. \A i \in VersionIds : version[i].current => version[i].by = u
    BY <1>0, <2>0 DEF Claim
  <2>3. AllEdited'
    BY <1>8, <2>1, <2>2 DEF CopyUpdate, AllEdited, Edited, Has
  <2>4. ASSUME Advance(r, "legacyDelete") PROVE EditInv'
    <3>1. PICK c : c = [q EXCEPT !.at = "legacyDelete"]
      OBVIOUS
    <3>2. c.at = "legacyDelete"
      BY <1>0, <3>1, MoveTyped DEF Labels
    <3>3. EditClaim(c)'
      BY <2>3, <3>2 DEF EditClaim, AllEdited
    <3> QED
      BY <1>0, <2>4, <3>1, <3>3, EditStep DEF Advance, Go
  <2> QED
    BY <1>0, <1>8, <2>3, <2>4, EditFinished DEF CopyUpdate
<1>9. CASE VersionDrop(r)
  <2>1. ASSUME NEW i \in VersionIds PROVE ~version'[i].current
    BY <1>0, <1>9 DEF VersionDrop, Claim, Holding, TypeOK, NoVersion
  <2>2. AllEdited'
    BY <2>1 DEF AllEdited, Edited
  <2>3. ASSUME Advance(r, "copyDrop") PROVE EditInv'
    <3>1. PICK c : c = [q EXCEPT !.at = "copyDrop"]
      OBVIOUS
    <3>2. c.at = "copyDrop"
      BY <1>0, <3>1, MoveTyped DEF Labels
    <3>3. EditClaim(c)'
      BY <2>2, <3>2 DEF EditClaim, AllEdited, Settled
    <3> QED
      BY <1>0, <2>3, <3>1, <3>3, EditStep DEF Advance, Go
  <2>4. Finish(r) \/ Advance(r, "copyDrop")
    BY <1>0, <1>9, DyingIsFinishing DEF VersionDrop, Raise, GiveUp, Guarded
  <2> QED
    BY <1>0, <2>2, <2>3, <2>4, EditFinished
<1> QED
  BY <1>3, <1>4, <1>5, <1>6, <1>7, <1>8, <1>9

LEMMA OtherStepEdits ==
  ASSUME SerialAssumption, EditInv, NEW r \in Requests,
         \/ CopyDrop(r) \/ DocDelete(r) \/ LegacyRead(r) \/ LegacyDelete(r)
         \/ DocSave(r) \/ ShareRead(r) \/ ShareSave(r) \/ CurrentRead(r)
         \/ VersionDelete(r)
  PROVE  EditInv'
<1> DEFINE q == req[r]
           u == q.user
<1>0. /\ SerialInv /\ SerialInv' /\ TypeInv /\ TypeOK /\ TypeInv' /\ EditClaim(q)
      /\ q \in Request /\ Needs(q)
  BY StepSerial DEF EditInv, SerialInv, TypeInv, TypeOK, Step
<1>1. ASSUME Finish(r), AllEdited, UNCHANGED <<copy, version, doc>> PROVE EditInv'
  <2>1. AllEdited'
    BY <1>1 DEF AllEdited, Edited, Has
  <2> QED
    BY <1>0, <1>1, <2>1, EditFinished
<1>2. ASSUME NEW d, NEW k \in {"client", "get"}, Go(r, MakeVersion(u, d, k)), AllEdited,
             UNCHANGED <<copy, version, doc>>
      PROVE  EditInv'
  <2>1. /\ MakeVersion(u, d, k).at = "versionRead"
        /\ MakeVersion(u, d, k).caller = k
    BY DEF MakeVersion, Call, Idle
  <2> QED
    BY <1>0, <1>2, <2>1, EditQuietly DEF Go
<1>3. CASE CopyDrop(r)
  <2>1. Finish(r)
    BY <1>0, <1>3, DyingIsFinishing DEF CopyDrop, GiveUp
  <2>2. u \in Users /\ \A i \in VersionIds : version[i].by # u => Edited(i)
    BY <1>0, <1>3 DEF CopyDrop, EditClaim, Needs
  <2>3. ASSUME NEW i \in VersionIds PROVE Edited(i)'
    <3>1. CASE version[i].by = u
      BY <1>0, <1>3, <2>2, <3>1 DEF CopyDrop, Edited, Has, TypeOK
    <3>2. CASE version[i].by # u
      <4>1. CASE version[i].current
        <5>1. version[i].by \in Users
          BY <1>0, <4>1 DEF TypeOK, Version, NoVersion
        <5>2. copy'[version[i].by] = copy[version[i].by]
          BY <1>0, <1>3, <3>2, <5>1 DEF CopyDrop, TypeOK
        <5> QED
          BY <1>3, <2>2, <3>2, <5>2 DEF CopyDrop, Edited, Has
      <4>2. CASE ~version[i].current
        BY <1>3, <4>2 DEF CopyDrop, Edited
      <4> QED
        BY <4>1, <4>2
    <3> QED
      BY <3>1, <3>2
  <2>4. AllEdited'
    BY <2>3 DEF AllEdited
  <2> QED
    BY <1>0, <2>1, <2>4, EditFinished
<1>4. CASE DocDelete(r)
  <2>0. u \in Users /\ q.number \in Numbers
    BY <1>0, <1>4 DEF DocDelete, Needs, Request
  <2>1. \A w \in Users, n \in Numbers :
          ~(w = u /\ n = q.number) => doc'[w][n] = doc[w][n]
    BY <1>0, <1>4, <2>0 DEF DocDelete, TypeOK
  <2>2. ASSUME NEW i \in VersionIds, Edited(i), version[i].current, Has(version[i].by),
               \/ version[i].by # u
               \/ doc[u][q.number].id # i
        PROVE  doc'[version[i].by][copy[version[i].by].number].id = i
    <3>1. version[i].by \in Users
      BY <1>0, <2>2 DEF TypeOK, Version, NoVersion
    <3>2. copy[version[i].by] \in Copy
      BY <1>0, <2>2, <3>1, Lookups
    <3>3. doc[version[i].by][copy[version[i].by].number].id = i
      BY <2>2 DEF Edited
    <3> QED
      BY <2>1, <2>2, <3>1, <3>2, <3>3 DEF Copy
  <2>3. ASSUME NEW i \in VersionIds, Edited(i), version[i].by # u \/ doc[u][q.number].id # i
        PROVE  Edited(i)'
    BY <1>4, <2>2, <2>3 DEF DocDelete, Edited, Has
  <2>4. ASSUME q.at = "docDelete" PROVE EditInv'
    <3>1. AllEdited
      BY <1>0, <2>4 DEF EditClaim, Settled
    <3>2. PICK c : c = [q EXCEPT !.at = "copyDrop"]
      OBVIOUS
    <3>3. c.at = "copyDrop" /\ c.user = u
      BY <1>0, <3>2, MoveTyped DEF Labels
    <3>4. \A i \in VersionIds : version'[i].by # c.user => Edited(i)'
      BY <1>4, <2>3, <3>1, <3>3 DEF DocDelete, AllEdited
    <3>5. EditClaim(c)'
      BY <3>3, <3>4 DEF EditClaim, Settled
    <3> QED
      BY <1>0, <1>4, <2>4, <3>2, <3>5, EditStep DEF DocDelete, Advance, Go
  <2>5. ASSUME q.at = "versionDocDelete" PROVE EditInv'
    <3>1. AllEdited /\ doc[u][q.number].id = q.id
      BY <1>0, <2>5 DEF EditClaim, Settled
    <3>2. PICK c : c = [q EXCEPT !.at = "versionDelete"]
      OBVIOUS
    <3>3. c.at = "versionDelete" /\ c.id = q.id
      BY <1>0, <3>2, MoveTyped DEF Labels
    <3>4. \A i \in VersionIds \ {c.id} : Edited(i)'
      BY <2>3, <3>1, <3>3 DEF AllEdited
    <3>5. EditClaim(c)'
      BY <3>3, <3>4 DEF EditClaim, Settled
    <3> QED
      BY <1>0, <1>4, <2>5, <3>2, <3>5, EditStep DEF DocDelete, Advance, Go
  <2> QED
    BY <1>4, <2>4, <2>5 DEF DocDelete
<1>5. CASE LegacyRead(r)
  <2>1. AllEdited
    BY <1>0, <1>5 DEF LegacyRead, EditClaim, Settled
  <2> QED
    BY <1>1, <1>2, <1>5, <2>1 DEF LegacyRead, stores
<1>6. CASE LegacyDelete(r)
  <2>1. AllEdited
    BY <1>0, <1>6 DEF LegacyDelete, EditClaim, Settled
  <2> QED
    BY <1>1, <1>6, <2>1 DEF LegacyDelete
<1>7. CASE DocSave(r)
  <2>0. u \in Users /\ q.number \in Numbers /\ AllEdited
    BY <1>0, <1>7 DEF DocSave, Needs, Request, EditClaim, Settled
  <2>1. \A w \in Users, n \in Numbers : doc'[w][n].id = doc[w][n].id
    <3>1. HasDoc(u, q.number) =>
            [doc[u][q.number] EXCEPT !.content = q.content].id = doc[u][q.number].id
      BY <1>0, <2>0, Lookups DEF Doc
    <3> QED
      BY <1>0, <1>7, <2>0, <3>1 DEF DocSave, TypeOK
  <2>2. ASSUME NEW i \in VersionIds, version[i].current, Has(version[i].by)
        PROVE  doc'[version[i].by][copy[version[i].by].number].id = i
    <3>1. version[i].by \in Users
      BY <1>0, <2>2 DEF TypeOK, Version, NoVersion
    <3>2. copy[version[i].by].number \in Numbers
      BY <1>0, <2>2, <3>1, Lookups DEF Copy
    <3> QED
      BY <2>0, <2>1, <2>2, <3>1, <3>2 DEF AllEdited, Edited
  <2>3. AllEdited'
    BY <1>7, <2>2 DEF DocSave, AllEdited, Edited, Has
  <2> QED
    BY <1>0, <1>7, <2>3, EditFinished DEF DocSave
<1>8. CASE ShareRead(r)
  <2>1. AllEdited
    BY <1>0, <1>8 DEF ShareRead, EditClaim, Settled
  <2>2. [q EXCEPT !.at = "shareSave", !.content = doc[u][q.number].content,
                  !.caller = "share"].at = "shareSave"
    BY <1>0 DEF Request
  <2>3. ASSUME NEW c, Go(r, c), c.at = "shareSave" PROVE EditInv'
    BY <1>0, <1>8, <2>1, <2>3, EditQuietly DEF ShareRead, Go, stores, Settled
  <2> QED
    BY <1>1, <1>8, <2>1, <2>2, <2>3 DEF ShareRead, stores
<1>9. CASE ShareSave(r)
  <2>1. PICK c : c = MakeVersion(q.to, q.content, "share")
    OBVIOUS
  <2>2. c.at = "versionRead" /\ c.caller = "share" /\ c.user = q.to /\ q.to \in Users
    BY <1>0, <1>9, <2>1 DEF MakeVersion, Call, Idle, ShareSave, Needs
  <2>3. copy'[c.user] # NoCopy
    <3>1. copy'[q.to].number \in Numbers
      BY <1>0, <1>9, <2>2, Lookups, BoundAssumption
      DEF ShareSave, SaveCopy, TypeOK, Copy, Numbers
    <3> QED
      BY <2>2, <3>1, BoundAssumption DEF NoCopy, Numbers
  <2>4. EditClaim(c)'
    BY <2>2, <2>3 DEF EditClaim, Has, Settled
  <2> QED
    BY <1>0, <1>9, <2>1, <2>4, EditStep DEF ShareSave, Go
<1>10. CASE CurrentRead(r)
  <2>1. AllEdited
    BY <1>0, <1>10 DEF CurrentRead, EditClaim, Settled
  <2> QED
    BY <1>1, <1>2, <1>10, <2>1 DEF CurrentRead, stores
<1>11. CASE VersionDelete(r)
  <2>1. q.id \in VersionIds /\ \A i \in VersionIds \ {q.id} : Edited(i)
    BY <1>0, <1>11 DEF VersionDelete, EditClaim, Needs
  <2>2. ASSUME NEW i \in VersionIds PROVE Edited(i)'
    BY <1>0, <1>11, <2>1 DEF VersionDelete, Edited, Has, TypeOK, NoVersion
  <2>3. AllEdited'
    BY <2>2 DEF AllEdited
  <2> QED
    BY <1>0, <1>11, <2>3, EditFinished DEF VersionDelete
<1> QED
  BY <1>3, <1>4, <1>5, <1>6, <1>7, <1>8, <1>9, <1>10, <1>11

LEMMA InitEdits == Init => EditInv
<1> SUFFICES ASSUME Init PROVE EditInv
  OBVIOUS
<1>1. AllEdited
  BY DEF Init, AllEdited, Edited, NoVersion
<1>2. \A r \in Requests : req[r].at = "idle"
  BY DEF Init, Idle
<1> QED
  BY <1>1, <1>2, InitSerial DEF EditInv, EditClaim

LEMMA NextEdits ==
  ASSUME SerialAssumption, Fails = {}, EditInv, [Next]_vars
  PROVE  EditInv'
<1>1. ASSUME NEW r \in Requests, Arrival(r) PROVE EditInv'
  BY <1>1, ArrivalEdits
<1>2. ASSUME NEW r \in Requests, Step(r) PROVE EditInv'
  BY <1>2, MakingEdits, OtherStepEdits DEF Step
<1>3. ASSUME NEW r \in Requests PROVE ~Fail(r)
  BY DEF Fail
<1>4. ~Crash
  BY DEF Crash
<1>5. CASE UNCHANGED vars
  <2>1. SerialInv'
    BY <1>5, NextSerial DEF EditInv
  <2>2. ASSUME NEW r \in Requests PROVE EditClaim(req[r])'
    BY <1>5 DEF EditInv, EditClaim, AllEdited, Edited, Has, vars
  <2> QED
    BY <2>1, <2>2 DEF EditInv
<1> QED
  BY <1>1, <1>2, <1>3, <1>4, <1>5 DEF Next

\* With requests served one by one and none failing, whenever the server is idle
\* a version marked as current is the one under the number of its author's copy,
\* the one that saveProcess would write, or its author has no copy any more.
THEOREM VersionsCurrentIsEdited ==
  ASSUME SerialAssumption, Fails = {}
  PROVE  Spec => []CurrentIsEdited
<1>1. EditInv /\ [Next]_vars => EditInv'
  BY NextEdits
<1>2. EditInv => CurrentIsEdited
  <2> SUFFICES ASSUME EditInv, Quiet PROVE \A i \in VersionIds : Edited(i)
    BY DEF CurrentIsEdited, Edited
  <2>1. PICK r : r \in Requests
    BY DEF SerialAssumption
  <2> QED
    BY <2>1 DEF EditInv, EditClaim, AllEdited, Quiet, Free, Settled
<1> QED
  BY <1>1, <1>2, InitEdits, PTL DEF Spec
=============================================================================
