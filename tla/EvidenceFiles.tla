----------------------------- MODULE EvidenceFiles ----------------------------
(***************************************************************************)
(* The files uploaded as evidence of one issue (issues/evidence_files.py): *)
(* a file is written to quarantine, recorded, scanned by a background task *)
(* of the request that uploaded it, and moved to the available directory   *)
(* if it is clean.  A resolution of the issue names such a file.           *)
(*                                                                         *)
(* Scans and deletions read the row of a file, work on, and then write     *)
(* every column of what they read; nothing says that the row is unchanged. *)
(* A repeated upload returns the recorded file and starts another scan.    *)
(***************************************************************************)
EXTENDS Naturals, FiniteSets

CONSTANTS
  Files,           \* the idempotency keys, each of which names one file
  EvidenceCallers, \* requests to the API at a time
  Scanners,        \* background tasks at a time
  MaxFilesPerIssue,
  MaxUploads,      \* bounds: objects written,
  MaxReopenings,   \*   times the issue is opened again,
  MaxEvidenceCrashes \* processes that die

ASSUME EvidenceAssumption ==
  /\ MaxFilesPerIssue \in Nat /\ MaxUploads \in Nat
  /\ MaxReopenings \in Nat /\ MaxEvidenceCrashes \in Nat

VARIABLES
  fileRow,      \* the issue_evidence_files rows
  stored,       \* the objects in the storage
  issueOpen,    \* whether the issue is neither resolved nor closed
  reopened,     \* how often it was opened again: its version
  resolvedWith, \* the files that resolutions name
  evidenceCall, \* what each request holds between two transactions
  scan,         \* what each background task holds
  evidenceCrashes

evidenceVars == <<fileRow, stored, issueOpen, reopened, resolvedWith, evidenceCall, scan,
                  evidenceCrashes>>

ObjectIds == 1..MaxUploads
NoFileRow == [status |-> "ABSENT"]
Verdicts  == {"AVAILABLE", "REJECTED", "SCAN_FAILED"}

FileRow == [status : {"PENDING_SCAN"} \cup Verdicts, object : ObjectIds,
            place : {"quarantine", "available"}, deleted : BOOLEAN]

Object == [place : {"none", "quarantine", "available", "removed"}, clean : BOOLEAN]

IdleRequest == [step |-> "idle"]
IdleScan    == [step |-> "idle"]

EvidenceInit ==
  /\ fileRow = [f \in Files |-> NoFileRow]
  /\ stored = [o \in ObjectIds |-> [place |-> "none", clean |-> FALSE]]
  /\ issueOpen = TRUE /\ reopened = 0 /\ resolvedWith = {}
  /\ evidenceCall = [c \in EvidenceCallers |-> IdleRequest]
  /\ scan = [s \in Scanners |-> IdleScan]
  /\ evidenceCrashes = 0

-----------------------------------------------------------------------------
Recorded(f) == fileRow[f] # NoFileRow
Present(f)  == Recorded(f) /\ ~ fileRow[f].deleted

Asks(c, what)  == /\ evidenceCall[c] = IdleRequest
                  /\ evidenceCall' = [evidenceCall EXCEPT ![c] = what]
Answered(c)    == evidenceCall' = [evidenceCall EXCEPT ![c] = IdleRequest]

\* The router adds a scan of the file to the background tasks of the request.
AddScan(f) ==
  \E s \in Scanners :
    /\ scan[s] = IdleScan
    /\ scan' = [scan EXCEPT ![s] = [step |-> "begin", file |-> f]]

Removes(o) == stored' = [stored EXCEPT ![o].place = "removed"]
NewFileRow(o) ==
  [status |-> "PENDING_SCAN", object |-> o, place |-> "quarantine", deleted |-> FALSE]

Uploads == Cardinality({o \in ObjectIds : stored[o].place # "none"})

\* upload, when the key has been used: the file is returned and scanned again.
UploadAgain(c, f) ==
  /\ issueOpen /\ Present(f)
  /\ evidenceCall[c] = IdleRequest
  /\ AddScan(f)
  /\ UNCHANGED <<fileRow, stored, issueOpen, reopened, resolvedWith, evidenceCall,
                 evidenceCrashes>>

\* upload: the files of the issue are counted and the object goes to quarantine.
UploadNew(c, f) ==
  /\ issueOpen /\ ~ Present(f)
  /\ Cardinality({g \in Files : Present(g)}) < MaxFilesPerIssue
  /\ Uploads < MaxUploads
  /\ \E clean \in BOOLEAN :
       stored' = [stored EXCEPT ![Uploads + 1] = [place |-> "quarantine", clean |-> clean]]
  /\ Asks(c, [step |-> "store", file |-> f, object |-> Uploads + 1, isNew |-> ~ Recorded(f)])
  /\ UNCHANGED <<fileRow, issueOpen, reopened, resolvedWith, scan, evidenceCrashes>>

\* add_uploaded_evidence returns the row of this key if there is one, be it deleted;
\* an insert that another one came before violates uq_issue_evidence_source.
UploadStored(c) ==
  /\ evidenceCall[c].step = "store"
  /\ LET f == evidenceCall[c].file
         o == evidenceCall[c].object
     IN  \/ /\ ~ Recorded(f)
            /\ fileRow' = [fileRow EXCEPT ![f] = NewFileRow(o)]
            /\ AddScan(f)
            /\ UNCHANGED stored
         \/ /\ Recorded(f)
            /\ Removes(o) /\ AddScan(f)
            /\ UNCHANGED fileRow
         \/ /\ Recorded(f) /\ evidenceCall[c].isNew
            /\ Removes(o)
            /\ UNCHANGED <<fileRow, scan>>
  /\ Answered(c)
  /\ UNCHANGED <<issueOpen, reopened, resolvedWith, evidenceCrashes>>

-----------------------------------------------------------------------------
(* Scans *)

Scanned(s, what) == scan' = [scan EXCEPT ![s] = what]
ScanEnds(s)      == Scanned(s, IdleScan)

\* Only a file that is not deleted and still PENDING_SCAN is scanned.
ScanBegins(s) ==
  /\ scan[s].step = "begin"
  /\ LET f == scan[s].file
     IN  IF Present(f) /\ fileRow[f].status = "PENDING_SCAN"
         THEN Scanned(s, [step |-> "open", file |-> f, row |-> fileRow[f]])
         ELSE ScanEnds(s)
  /\ UNCHANGED <<fileRow, stored, issueOpen, reopened, resolvedWith, evidenceCall,
                 evidenceCrashes>>

Concludes(s, row) == Scanned(s, [step |-> "write", file |-> scan[s].file, row |-> row])

At(row) == stored[row.object].place = row.place

\* The object is read by the scanner; one that is infected is removed at once.  The
\* scanner may be missing, or fail.
ScanReads(s) ==
  /\ scan[s].step = "open"
  /\ LET row == scan[s].row
     IN  \/ /\ At(row) /\ stored[row.object].clean
            /\ Scanned(s, [scan[s] EXCEPT !.step = "promote"])
            /\ UNCHANGED stored
         \/ /\ At(row) /\ ~ stored[row.object].clean
            /\ Concludes(s, [row EXCEPT !.status = "REJECTED"])
            /\ Removes(row.object)
         \/ /\ Concludes(s, [row EXCEPT !.status = "SCAN_FAILED"])
            /\ UNCHANGED stored
  /\ UNCHANGED <<fileRow, issueOpen, reopened, resolvedWith, evidenceCall, evidenceCrashes>>

\* promote moves the object; the move fails if another scan moved or removed it.
ScanPromotes(s) ==
  /\ scan[s].step = "promote"
  /\ LET row == scan[s].row
     IN  \/ /\ At(row)
            /\ stored' = [stored EXCEPT ![row.object].place = "available"]
            /\ Concludes(s, [row EXCEPT !.status = "AVAILABLE", !.place = "available"])
         \/ /\ ~ At(row)
            /\ Concludes(s, [row EXCEPT !.status = "SCAN_FAILED"])
            /\ UNCHANGED stored
  /\ UNCHANGED <<fileRow, issueOpen, reopened, resolvedWith, evidenceCall, evidenceCrashes>>

\* update_evidence_file writes every column.
ScanWrites(s) ==
  /\ scan[s].step = "write"
  /\ fileRow' = [fileRow EXCEPT ![scan[s].file] = scan[s].row]
  /\ ScanEnds(s)
  /\ UNCHANGED <<stored, issueOpen, reopened, resolvedWith, evidenceCall, evidenceCrashes>>

-----------------------------------------------------------------------------
(* Deletions, resolutions and downloads *)

DeleteRead(c, f) ==
  /\ issueOpen /\ Present(f) /\ f \notin resolvedWith
  /\ Asks(c, [step |-> "delete", file |-> f, row |-> fileRow[f]])
  /\ UNCHANGED <<fileRow, stored, issueOpen, reopened, resolvedWith, scan, evidenceCrashes>>

\* A deletion marks the row; the object stays.
DeleteWrite(c) ==
  /\ evidenceCall[c].step = "delete"
  /\ fileRow' = [fileRow EXCEPT ![evidenceCall[c].file] =
                   [evidenceCall[c].row EXCEPT !.deleted = TRUE]]
  /\ Answered(c)
  /\ UNCHANGED <<stored, issueOpen, reopened, resolvedWith, scan, evidenceCrashes>>

\* _require_issue_evidence
ResolveRead(c, f) ==
  /\ issueOpen /\ Present(f) /\ fileRow[f].status = "AVAILABLE"
  /\ Asks(c, [step |-> "resolve", file |-> f, version |-> reopened])
  /\ UNCHANGED <<fileRow, stored, issueOpen, reopened, resolvedWith, scan, evidenceCrashes>>

\* resolve writes the issue if its version is the one that was read.
ResolveWrite(c) ==
  /\ evidenceCall[c].step = "resolve"
  /\ IF issueOpen /\ evidenceCall[c].version = reopened
     THEN issueOpen' = FALSE /\ resolvedWith' = resolvedWith \cup {evidenceCall[c].file}
     ELSE UNCHANGED <<issueOpen, resolvedWith>>
  /\ Answered(c)
  /\ UNCHANGED <<fileRow, stored, reopened, scan, evidenceCrashes>>

\* A failed verification opens the issue again.
ReopenIssue ==
  /\ ~ issueOpen /\ reopened < MaxReopenings
  /\ issueOpen' = TRUE /\ reopened' = reopened + 1
  /\ UNCHANGED <<fileRow, stored, resolvedWith, evidenceCall, scan, evidenceCrashes>>

\* The download reads the row and then opens the object it names.
DownloadRead(c, f) ==
  /\ Present(f) /\ fileRow[f].status = "AVAILABLE"
  /\ Asks(c, [step |-> "download", row |-> fileRow[f]])
  /\ UNCHANGED <<fileRow, stored, issueOpen, reopened, resolvedWith, scan, evidenceCrashes>>

DownloadSends(c) ==
  /\ evidenceCall[c].step = "download"
  /\ Answered(c)
  /\ UNCHANGED <<fileRow, stored, issueOpen, reopened, resolvedWith, scan, evidenceCrashes>>

\* Background tasks and requests live in the process of the API.
EvidenceProcessDies ==
  /\ evidenceCrashes < MaxEvidenceCrashes
  /\ evidenceCrashes' = evidenceCrashes + 1
  /\ evidenceCall' = [c \in EvidenceCallers |-> IdleRequest]
  /\ scan' = [s \in Scanners |-> IdleScan]
  /\ UNCHANGED <<fileRow, stored, issueOpen, reopened, resolvedWith>>

EvidenceNext ==
  \/ \E c \in EvidenceCallers :
       \/ \E f \in Files : \/ UploadAgain(c, f) \/ UploadNew(c, f) \/ DeleteRead(c, f)
                           \/ ResolveRead(c, f) \/ DownloadRead(c, f)
       \/ UploadStored(c) \/ DeleteWrite(c) \/ ResolveWrite(c) \/ DownloadSends(c)
  \/ \E s \in Scanners :
       ScanBegins(s) \/ ScanReads(s) \/ ScanPromotes(s) \/ ScanWrites(s)
  \/ ReopenIssue \/ EvidenceProcessDies

EvidenceSpec == EvidenceInit /\ [][EvidenceNext]_evidenceVars

-----------------------------------------------------------------------------
(* Properties *)

\* Every variable has its type.
EvidenceTypeOK ==
  /\ fileRow \in [Files -> FileRow \cup {NoFileRow}]
  /\ stored \in [ObjectIds -> Object]
  /\ issueOpen \in BOOLEAN /\ reopened \in 0..MaxReopenings
  /\ resolvedWith \subseteq Files
  /\ DOMAIN evidenceCall = EvidenceCallers /\ DOMAIN scan = Scanners
  /\ evidenceCrashes \in 0..MaxEvidenceCrashes

\* What is sent to a reader has passed the scan: whichever scans of a file overtake
\* each other, a row that says AVAILABLE, and one that a download has read, name an
\* object that is there and clean (download_uploaded_evidence).
OnlyCleanFilesAreSent ==
  /\ \A f \in Files : fileRow[f].status = "AVAILABLE" =>
       At(fileRow[f]) /\ stored[fileRow[f].object].clean
  /\ \A c \in EvidenceCallers : evidenceCall[c].step = "download" =>
       At(evidenceCall[c].row) /\ stored[evidenceCall[c].row.object].clean

\* A resolution rests on a file that exists and was found clean: its object stays in
\* the storage, whatever scans and deletions write into the row afterwards
\* (_require_issue_evidence, delete).
ResolutionsKeepTheirEvidence ==
  \A f \in resolvedWith :
    /\ Recorded(f)
    /\ stored[fileRow[f].object].place = "available" /\ stored[fileRow[f].object].clean
=============================================================================
