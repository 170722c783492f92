----------------------------- MODULE Documents -----------------------------
(***************************************************************************)
(* The files of applications, from the upload to the retention period:     *)
(* document.service.ts over the documents table and the object store, and  *)
(* the job that deletes what the retention period no longer covers.        *)
(*                                                                         *)
(* An upload is no transaction: it reads, stores the bytes, inserts the    *)
(* row, has the bytes scanned and writes the verdict, each a step that     *)
(* other sessions may come between and after which the process may die.    *)
(* So is each deletion of the retention job.  Bytes are stored under a     *)
(* random key of their own; here a row and its key have one name.          *)
(***************************************************************************)
EXTENDS Naturals, FiniteSets

CONSTANTS
  Rows,        \* ids of documents rows, and of the keys of their bytes
  Files,       \* sha256 of the scrubbed bytes
  Citizens,    \* applicants' accounts
  Counters,    \* accounts of officers, who upload for a walk-in
  Matters,     \* applications
  None,        \* SQL null, or no row yet
  Uploads,     \* sessions that upload or review
  MaxLost      \* retention runs that die or fail

ASSUME DocumentsAssumption ==
  /\ None \notin Rows \cup Files \cup Citizens \cup Matters \cup Counters
  /\ Citizens \cap Counters = {}
  /\ IsFiniteSet(Rows) /\ MaxLost \in Nat

VARIABLES
  documents,   \* rows of documents
  store,       \* keys under which the object store holds bytes
  matters,     \* phase and closing transitions of each application
  answers,     \* replacements whose Idempotency-Key was recorded
  evidence,    \* rows with a document.deleted-on-retention audit entry
  upload,      \* the sessions
  sweep,       \* the retention run
  lostSweeps   \* retention runs that ended early

documentsVars == << documents, store, matters, answers, evidence, upload, sweep,
                    lostSweeps >>

Uploaders == Citizens \cup Counters
OrNone(set) == set \cup {None}

Verdicts == {"Under Review", "Accepted", "Returned"}

Document == [ by : Uploaders, file : Files, matter : OrNone(Matters),
              replaces : OrNone(Rows), status : {"Pending", "Approved", "Rejected"},
              review : OrNone(Verdicts), archived : BOOLEAN, deleted : BOOLEAN,
              old : BOOLEAN ]
Matter == [ phase : {"absent", "draft", "open", "closed"},
            closings : SUBSET {"recent", "long ago"} ]
Session == [ pc : {"idle", "checked", "stored", "inserted", "purged", "scanned",
                   "remembered", "reviewing"},
             by : OrNone(Uploaders), file : OrNone(Files), matter : OrNone(Matters),
             replaces : OrNone(Rows), row : OrNone(Rows), verdict : Verdicts ]
Sweep == [ at : {"idle", "closed", "abandoned"}, todo : SUBSET Rows,
           row : OrNone(Rows), gone : BOOLEAN ]

\* A row is never the null.
ASSUME NoNullDocument == None \notin Document

Idle == [ pc |-> "idle", by |-> None, file |-> None,
          matter |-> None, replaces |-> None, row |-> None, verdict |-> "Under Review" ]
NoSweep == [ at |-> "idle", todo |-> {}, row |-> None, gone |-> FALSE ]

-----------------------------------------------------------------------------
\* What the statements read.

Present == { r \in Rows : documents[r] # None }
Live == { r \in Present : ~documents[r].deleted }

\* scan_cleared is written with status and only with it.
cleared(r) == documents[r].status = "Approved"

copyOf(by, file) ==
  { r \in Live : /\ documents[r].by = by /\ documents[r].file = file
                 /\ ~documents[r].archived /\ documents[r].status # "Rejected" }

isReuseOf(by, file, reuse) ==
  reuse \in Live /\ documents[reuse].by = by /\ documents[reuse].file = file

ReplacementsOf(r) == { n \in Present : documents[n].replaces = r }
LiveReplacementsOf(r) == ReplacementsOf(r) \cap Live

\* Keys are random: never one that was used before, and no matter which.
FreshKeys == { k \in Rows \ (Present \cup store) : \A u \in Uploads : upload[u].row # k }

\* Unattached, the caller's, and there.
Attachable(by) == { r \in Live : documents[r].by = by /\ documents[r].matter = None }

-----------------------------------------------------------------------------
\* What is shown, and what opens.

\* documents of applicant-query.service.ts: the page of an application names what
\* replaced a document next to its verdict.
documentsOf(m) ==
  { [ id |-> r, review |-> documents[r].review, by |-> LiveReplacementsOf(r),
      cleared |-> cleared(r), quarantined |-> documents[r].status = "Rejected" ] :
      r \in { r \in Live : documents[r].matter = m } }

\* historyFor: one entry for each file of My Documents, or of what the citizen set
\* aside: an unattached copy when there is one, and every application it is on.
historyFor(by, archived) ==
  LET copies(file) == { r \in Live : /\ documents[r].by = by /\ documents[r].file = file
                                     /\ documents[r].archived = archived }
      free(file) == { r \in copies(file) : documents[r].matter = None }
      on(file) == { documents[r].matter : r \in copies(file) } \ {None}
  IN  { [ file |-> file, copies |-> copies(file), on |-> on(file),
          id |-> CHOOSE r \in (IF free(file) # {} THEN free(file) ELSE copies(file)) : TRUE ] :
          file \in { file \in Files : copies(file) # {} } }

\* contentUrl: a link is given out for a document that is there and cleared,
\* whatever its application is by now.
LinkGiven(r) == r \in Live /\ documents[r].status # "Rejected" /\ cleared(r)

\* redeem and readContent ask the same again, and for the bytes.  Nothing alters
\* bytes here: they match the fingerprint of the row they were stored for.
Opens(r) == LinkGiven(r) /\ r \in store

-----------------------------------------------------------------------------
DocumentsInit ==
  /\ documents = [ r \in Rows |-> None ] /\ store = {}
  /\ matters = [ m \in Matters |-> [ phase |-> "absent", closings |-> {} ] ]
  /\ answers = {} /\ evidence = {}
  /\ upload = [ u \in Uploads |-> Idle ]
  /\ sweep = NoSweep /\ lostSweeps = 0

Goto(u, pc) == upload' = [ upload EXCEPT ![u].pc = pc ]
Done(u) == upload' = [ upload EXCEPT ![u] = Idle ]
Write(r, column, value) == documents' = [ documents EXCEPT ![r][column] = value ]

\* upload, up to the storing of the bytes: a citizen who already has the file
\* is refused, unless it is declared as a reuse or replaces a document.
BeginUpload(u, by, file, m, reuse) ==
  /\ upload[u].pc = "idle"
  /\ m # None => matters[m].phase # "absent"
  /\ by \in Citizens /\ copyOf(by, file) # {} => isReuseOf(by, file, reuse)
  /\ upload' = [ upload EXCEPT ![u] =
       [ @ EXCEPT !.pc = "checked", !.by = by, !.file = file, !.matter = m ] ]
  /\ UNCHANGED << documents, store, matters, answers, evidence, sweep, lostSweeps >>

\* resubmit, up to its call of upload: the key is new, the document is there,
\* on that application, not replaced and not accepted.
BeginResubmit(u, by, file, r) ==
  /\ upload[u].pc = "idle"
  /\ r \in Live /\ documents[r].matter # None
  /\ ReplacementsOf(r) \cap answers = {}
  /\ LiveReplacementsOf(r) = {} /\ documents[r].review # "Accepted"
  /\ upload' = [ upload EXCEPT ![u] =
       [ @ EXCEPT !.pc = "checked", !.by = by, !.file = file,
                  !.matter = documents[r].matter, !.replaces = r ] ]
  /\ UNCHANGED << documents, store, matters, answers, evidence, sweep, lostSweeps >>

StoreBytes(u) ==
  /\ upload[u].pc = "checked"
  /\ FreshKeys # {}
  /\ LET k == CHOOSE k \in FreshKeys : TRUE IN
     /\ store' = store \cup {k}
     /\ upload' = [ upload EXCEPT ![u].pc = "stored", ![u].row = k ]
  /\ UNCHANGED << documents, matters, answers, evidence, sweep, lostSweeps >>

\* The unique index over supersedes_document_id, which deleted rows stay in.
UniqueSupersedes(r) == r = None \/ ReplacementsOf(r) = {}

\* The insert, or the index's refusal: an error, and bytes that no row names.
InsertRow(u) ==
  /\ upload[u].pc = "stored"
  /\ LET s == upload[u] IN
     IF UniqueSupersedes(s.replaces)
       THEN /\ documents' = [ documents EXCEPT ![s.row] =
                 [ by |-> s.by, file |-> s.file, matter |-> s.matter,
                   replaces |-> s.replaces, status |-> "Pending", review |-> None,
                   archived |-> FALSE, deleted |-> FALSE, old |-> FALSE ] ]
            /\ Goto(u, "inserted")
       ELSE Done(u) /\ UNCHANGED documents
  /\ UNCHANGED << store, matters, answers, evidence, sweep, lostSweeps >>

\* applyVerdict.  Clean clears the row; a scanner that cannot be reached leaves
\* it Pending; infected bytes go first, and the row is rejected after.
ScanClean(u) ==
  /\ upload[u].pc = "inserted"
  /\ Write(upload[u].row, "status", "Approved") /\ Goto(u, "scanned")
  /\ UNCHANGED << store, matters, answers, evidence, sweep, lostSweeps >>

ScanUnavailable(u) ==
  /\ upload[u].pc = "inserted"
  /\ Goto(u, "scanned")
  /\ UNCHANGED << documents, store, matters, answers, evidence, sweep, lostSweeps >>

ScanInfected(u) ==
  /\ upload[u].pc = "inserted"
  /\ store' = store \ {upload[u].row} /\ Goto(u, "purged")
  /\ UNCHANGED << documents, matters, answers, evidence, sweep, lostSweeps >>

\* The upload is answered as infected; a resubmission records no key.
Quarantine(u) ==
  /\ upload[u].pc = "purged"
  /\ Write(upload[u].row, "status", "Rejected") /\ Done(u)
  /\ UNCHANGED << store, matters, answers, evidence, sweep, lostSweeps >>

\* resubmit: the key is recorded once the document exists.
Remember(u) ==
  /\ upload[u].pc = "scanned" /\ upload[u].replaces # None
  /\ answers' = answers \cup {upload[u].row} /\ Goto(u, "remembered")
  /\ UNCHANGED << documents, store, matters, evidence, sweep, lostSweeps >>

\* The answer, and the best-effort notice to the Records Officers before it.
Answer(u) ==
  /\ upload[u].pc = (IF upload[u].replaces = None THEN "scanned" ELSE "remembered")
  /\ Done(u)
  /\ UNCHANGED << documents, store, matters, answers, evidence, sweep, lostSweeps >>

\* The process dies, or the store or the database fails.
UploadDies(u) ==
  /\ upload[u].pc # "idle" /\ Done(u)
  /\ UNCHANGED << documents, store, matters, answers, evidence, sweep, lostSweeps >>

-----------------------------------------------------------------------------
\* review: reads whether the document is there and cleared, then writes the
\* verdict by its id alone (and, in the same transaction, the citizen's notice).
BeginReview(u, r, verdict) ==
  /\ upload[u].pc = "idle"
  /\ r \in Live /\ documents[r].matter # None /\ cleared(r)
  /\ upload' = [ upload EXCEPT ![u] =
       [ @ EXCEPT !.pc = "reviewing", !.row = r, !.verdict = verdict ] ]
  /\ UNCHANGED << documents, store, matters, answers, evidence, sweep, lostSweeps >>

WriteReview(u) ==
  /\ upload[u].pc = "reviewing"
  /\ Write(upload[u].row, "review", upload[u].verdict) /\ Done(u)
  /\ UNCHANGED << store, matters, answers, evidence, sweep, lostSweeps >>

\* deleteMine and restoreMine: every copy of the file leaves, or comes back to,
\* My Documents.
SetArchived(by, file, archived) ==
  LET copies == { r \in Live : /\ documents[r].by = by /\ documents[r].file = file
                               /\ documents[r].archived # archived }
  IN
  /\ copies # {}
  /\ documents' = [ r \in Rows |-> IF r \in copies
                      THEN [ documents[r] EXCEPT !.archived = archived ] ELSE documents[r] ]
  /\ UNCHANGED << store, matters, answers, evidence, upload, sweep, lostSweeps >>

\* submit and updateDraft: a new application, or a draft, takes documents.
Attach(m, by, rows, phase) ==
  /\ matters[m].phase \in {"absent", "draft"}
  /\ matters[m].phase = "draft" => phase = "draft"
  /\ rows \subseteq Attachable(by)
  /\ matters' = [ matters EXCEPT ![m].phase = phase ]
  /\ documents' = [ r \in Rows |-> IF r \in rows
                      THEN [ documents[r] EXCEPT !.matter = m ] ELSE documents[r] ]
  /\ UNCHANGED << store, answers, evidence, upload, sweep, lostSweeps >>

\* The moves of the lifecycle, as far as retention tells them apart: a draft is
\* filed, an application closes, and the office reopens one that was closed.
Moves == { <<"draft", "open">>, <<"draft", "closed">>, <<"open", "closed">>,
           <<"closed", "open">> }
Move(m, phase) ==
  /\ <<matters[m].phase, phase>> \in Moves
  /\ matters' = [ matters EXCEPT ![m].phase = phase,
       ![m].closings = IF phase = "closed" THEN @ \cup {"recent"} ELSE @ ]
  /\ UNCHANGED << documents, store, answers, evidence, upload, sweep, lostSweeps >>

\* A whole retention period passes.
PeriodPasses ==
  /\ documents' = [ r \in Rows |-> IF r \in Present
                      THEN [ documents[r] EXCEPT !.old = TRUE ] ELSE None ]
  /\ matters' = [ m \in Matters |-> [ matters[m] EXCEPT
       !.closings = IF @ = {} THEN {} ELSE {"long ago"} ] ]
  /\ << documents', matters' >> # << documents, matters >>
  /\ UNCHANGED << store, answers, evidence, upload, sweep, lostSweeps >>

-----------------------------------------------------------------------------
\* Mutant: the clock of an application's documents is their upload.
EligibleByAge == { r \in Live : documents[r].matter # None /\ documents[r].old }

\* runRetention: the documents of applications that closed longer ago than the
\* period, and then the old ones that were never filed.
Eligible ==
  { r \in Live : LET m == documents[r].matter IN
      m # None /\ matters[m].phase = "closed" /\ "recent" \notin matters[m].closings }
Abandoned == { r \in Live : documents[r].matter = None /\ documents[r].old }

SweepClosed ==
  /\ sweep.at = "idle"
  /\ sweep' = [ NoSweep EXCEPT !.at = "closed", !.todo = Eligible ]
  /\ UNCHANGED << documents, store, matters, answers, evidence, upload, lostSweeps >>

SweepAbandoned ==
  /\ sweep.at = "closed" /\ sweep.todo = {} /\ sweep.row = None
  /\ sweep' = [ NoSweep EXCEPT !.at = "abandoned", !.todo = Abandoned ]
  /\ UNCHANGED << documents, store, matters, answers, evidence, upload, lostSweeps >>

\* One document of the loop: its bytes, its row, its audit entry.
DeleteBytes(r) ==
  /\ r \in sweep.todo /\ sweep.row = None
  /\ store' = store \ {r}
  /\ sweep' = [ sweep EXCEPT !.todo = @ \ {r}, !.row = r ]
  /\ UNCHANGED << documents, matters, answers, evidence, upload, lostSweeps >>

MarkDeleted ==
  /\ sweep.row # None /\ ~sweep.gone
  /\ Write(sweep.row, "deleted", TRUE)
  /\ sweep' = [ sweep EXCEPT !.gone = TRUE ]
  /\ UNCHANGED << store, matters, answers, evidence, upload, lostSweeps >>

DeletionAudited ==
  /\ sweep.gone
  /\ evidence' = evidence \cup {sweep.row}
  /\ sweep' = [ sweep EXCEPT !.row = None, !.gone = FALSE ]
  /\ UNCHANGED << documents, store, matters, answers, upload, lostSweeps >>

SweepEnds ==
  /\ sweep.at = "abandoned" /\ sweep.todo = {} /\ sweep.row = None
  /\ sweep' = NoSweep
  /\ UNCHANGED << documents, store, matters, answers, evidence, upload, lostSweeps >>

SweepDies ==
  /\ sweep.at # "idle" /\ lostSweeps < MaxLost
  /\ sweep' = NoSweep /\ lostSweeps' = lostSweeps + 1
  /\ UNCHANGED << documents, store, matters, answers, evidence, upload >>

-----------------------------------------------------------------------------
ResubmitStep(u) ==
  \/ \E by \in Uploaders, file \in Files, r \in Rows : BeginResubmit(u, by, file, r)
  \/ Remember(u)

UploadStep(u) ==
  \/ \E by \in Uploaders, file \in Files, m \in OrNone(Matters), reuse \in OrNone(Rows) :
       BeginUpload(u, by, file, m, reuse)
  \/ ResubmitStep(u) \/ StoreBytes(u) \/ InsertRow(u) \/ ScanClean(u)
  \/ ScanUnavailable(u) \/ ScanInfected(u) \/ Quarantine(u) \/ Answer(u) \/ UploadDies(u)

ReviewStep(u) ==
  \/ \E r \in Rows, verdict \in Verdicts : BeginReview(u, r, verdict)
  \/ WriteReview(u)

\* The citizen names an entry of the one list, or of the other.
LibraryStep ==
  \E by \in Citizens, archived \in BOOLEAN :
    \E entry \in historyFor(by, ~archived) : SetArchived(by, entry.file, archived)

MatterStep ==
  \E m \in Matters :
    \/ \E by \in Citizens, rows \in SUBSET Rows, phase \in {"draft", "open"} :
         Attach(m, by, rows, phase)
    \/ \E phase \in {"open", "closed"} : Move(m, phase)

RetentionStep ==
  \/ SweepClosed \/ SweepAbandoned \/ MarkDeleted \/ DeletionAudited
  \/ SweepEnds \/ SweepDies
  \/ \E r \in Rows : DeleteBytes(r)

DocumentsNext ==
  \/ \E u \in Uploads : UploadStep(u) \/ ReviewStep(u)
  \/ LibraryStep \/ MatterStep \/ PeriodPasses \/ RetentionStep

DocumentsSpec == DocumentsInit /\ [][DocumentsNext]_documentsVars

-----------------------------------------------------------------------------
\* Every variable has its type.
DocumentsTypeOK ==
  /\ documents \in [ Rows -> Document \cup {None} ] /\ store \subseteq Rows
  /\ matters \in [ Matters -> Matter ]
  /\ answers \subseteq Rows /\ evidence \subseteq Rows
  /\ upload \in [ Uploads -> Session ] /\ sweep \in Sweep
  /\ lostSweeps \in Nat

LongClosed(r) ==
  documents[r].matter # None /\ "long ago" \in matters[documents[r].matter].closings

\* A file outlives every race of uploads, filing, reopening and a retention run
\* that picked its list before: the bytes of a row the scanner cleared, or the
\* row, are gone only if its application had been closed for the retention
\* period, or the file is older than that and the run took it for one that was
\* never filed: the office never throws away the plans of an application for
\* their age.  What a page offers opens, but for a row the run is at or died at
\* after its bytes.  And "we deleted it as required" can be evidenced: a row marked
\* deleted has its audit entry, but for the row of a run in flight and one for
\* each run that died between the two (runRetention).
FilesAreKept ==
  /\ \A m \in OrNone(Matters) : \A entry \in documentsOf(m) :
       entry.cleared /\ ~Opens(entry.id) => entry.id = sweep.row \/ lostSweeps > 0
  /\ \A r \in Present : (r \notin store \/ documents[r].deleted) =>
       \/ documents[r].status # "Approved"
       \/ documents[r].old
       \/ LongClosed(r)
  /\ sweep.at = "closed" => \A r \in sweep.todo \cup ({sweep.row} \ {None}) : LongClosed(r)
  /\ Cardinality({ r \in Present : documents[r].deleted /\ r \notin evidence })
       <= lostSweeps + (IF sweep.gone THEN 1 ELSE 0)

=============================================================================
