--------------------------- MODULE DocumentTemplates ---------------------------
(***************************************************************************)
(* DocumentTemplateService: a template is a row in MySQL, a document in    *)
(* MongoDB with the same key, and files in S3 under it.                    *)
(***************************************************************************)
CONSTANTS TemplateKeys, \* keys of templates ever drawn
          NoKey,        \* "no key"
          Tasks,        \* requests the server may be serving at one time
          MaxBroken     \* bound on the failures in a run

VARIABLES row,     \* document_template: "none", "there" or, of a key used, "gone"
          detail,  \* keys with a document
          files,   \* keys with files in S3
          work,    \* the requests in flight
          broken   \* how many failed

templateVars == <<row, detail, files, work, broken>>

LOCAL INSTANCE Naturals

ASSUME BrokenAssumption == MaxBroken \in Nat

Spots == {"idle", "detailInsert", "rowSave", "detailSave",
          "filesDelete", "detailDelete", "rowRemove"}
TemplateWork == [at: Spots, key: TemplateKeys \union {NoKey}]
NoWork == [at |-> "idle", key |-> NoKey]

Put(r, w) == work' = [work EXCEPT ![r] = w]
Take(r, l, k) == work[r].at = "idle" /\ Put(r, [at |-> l, key |-> k])
On(r, l) == Put(r, [work[r] EXCEPT !.at = l])

\* createDocumentTemplate: the row, and in the next await its document.
CreateDocumentTemplate(r, k) ==
  /\ row[k] = "none"
  /\ Take(r, "detailInsert", k)
  /\ row' = [row EXCEPT ![k] = "there"]
  /\ UNCHANGED <<detail, files, broken>>

DetailInsert(r) ==
  /\ work[r].at = "detailInsert"
  /\ detail' = detail \union {work[r].key}
  /\ Put(r, NoWork)
  /\ UNCHANGED <<row, files, broken>>

\* updateDocumentTemplate saves the row it found, which inserts it again if it
\* has gone; saveDocumentTemplate changes a document that is there.
UpdateDocumentTemplate(r, k) ==
  /\ row[k] = "there"
  /\ \/ Take(r, "rowSave", k)
     \/ Take(r, "detailSave", k)
  /\ UNCHANGED <<row, detail, files, broken>>

RowSave(r) ==
  /\ work[r].at = "rowSave"
  /\ row' = [row EXCEPT ![work[r].key] = "there"]
  /\ Put(r, NoWork)
  /\ UNCHANGED <<detail, files, broken>>

DetailSave(r) ==
  /\ work[r].at = "detailSave"
  /\ Put(r, NoWork)
  /\ UNCHANGED <<row, detail, files, broken>>

\* Clients put the files of a template into S3 themselves.
Upload(k) ==
  /\ row[k] = "there"
  /\ files' = files \union {k}
  /\ UNCHANGED <<row, detail, work, broken>>

\* Fault: the row goes first.
DeleteRowFirst(r, k) ==
  /\ row[k] = "there"
  /\ Take(r, "filesDelete", k)
  /\ row' = [row EXCEPT ![k] = "gone"]
  /\ UNCHANGED <<detail, files, broken>>

\* deleteDocumentTemplate: the files, the document, the row.
DeleteDocumentTemplate(r, k) ==
  /\ row[k] = "there"
  /\ Take(r, "filesDelete", k)
  /\ UNCHANGED <<row, detail, files, broken>>

FilesDelete(r) ==
  /\ work[r].at = "filesDelete"
  /\ files' = files \ {work[r].key}
  /\ On(r, "detailDelete")
  /\ UNCHANGED <<row, detail, broken>>

DetailDelete(r) ==
  /\ work[r].at = "detailDelete"
  /\ detail' = detail \ {work[r].key}
  /\ On(r, "rowRemove")
  /\ UNCHANGED <<row, files, broken>>

TemplateRowRemove(r) ==
  /\ work[r].at = "rowRemove"
  /\ row' = [row EXCEPT ![work[r].key] = "gone"]
  /\ Put(r, NoWork)
  /\ UNCHANGED <<detail, files, broken>>

WorkFails(r) ==
  /\ broken < MaxBroken
  /\ work[r].at # "idle"
  /\ Put(r, NoWork)
  /\ broken' = broken + 1
  /\ UNCHANGED <<row, detail, files>>

TemplateInit ==
  /\ row = [k \in TemplateKeys |-> "none"]
  /\ detail = {}
  /\ files = {}
  /\ work = [r \in Tasks |-> NoWork]
  /\ broken = 0

TemplateNext ==
  \/ \E r \in Tasks :
       \/ \E k \in TemplateKeys :
            \/ CreateDocumentTemplate(r, k)
            \/ UpdateDocumentTemplate(r, k)
            \/ DeleteDocumentTemplate(r, k)
       \/ DetailInsert(r) \/ RowSave(r) \/ DetailSave(r)
       \/ FilesDelete(r) \/ DetailDelete(r) \/ TemplateRowRemove(r)
       \/ WorkFails(r)
  \/ \E k \in TemplateKeys : Upload(k)

-----------------------------------------------------------------------------

\* The stores and requests hold values of their types.
TemplateTypeOK ==
  /\ row \in [TemplateKeys -> {"none", "there", "gone"}]
  /\ detail \subseteq TemplateKeys
  /\ files \subseteq TemplateKeys
  /\ work \in [Tasks -> TemplateWork]
  /\ broken \in 0..MaxBroken

\* With requests served one by one, whatever fails, no document is left without
\* the row by which its owner could find and delete it.
DetailsHaveRow == \A k \in detail : row[k] = "there"
=============================================================================
