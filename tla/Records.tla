------------------------------ MODULE Records -------------------------------
(***************************************************************************)
(* The records of the office: businesses, registered and corrected by      *)
(* their owners (businesses.controller.ts) and by officers                 *)
(* (staff-businesses.controller.ts, staff-business-registration.service.ts),*)
(* applications corrected and put away (records.service.ts), and the       *)
(* archive of both (archive.service.ts).                                   *)
(*                                                                         *)
(* Correcting an application holds its row lock.  Everything about a       *)
(* business is asked first and written later, in another statement: what   *)
(* was asked may have changed.  Filing, moves, Orders and permits belong   *)
(* to Filing, Lifecycle, FeeBook and FeeCase; here they are what changes   *)
(* under a request.                                                        *)
(***************************************************************************)
EXTENDS Naturals, Sequences

CONSTANTS
  Firms,        \* ids of businesses
  Cases,        \* ids of applications
  Facts,        \* a registration number and its date
  Visits,       \* requests about a business
  Missing,      \* no row, SQL null
  MaxCorrected  \* bound: corrections on the audit trail

ASSUME RecordsAssumption ==
  Missing \notin Facts \cup Firms /\ MaxCorrected \in Nat

VARIABLES
  firms,        \* businesses
  cases,        \* applications
  trail,        \* audit entries 'business.registration-corrected'
  visit,        \* the requests
  relied,       \* history: the facts a business had when it came to be filed under
  crossed       \* history: businesses two requests corrected or filed under at once

recordsVars == << firms, cases, trail, visit, relied, crossed >>

OrMissing(set) == set \cup {Missing}
Firm == [ facts : Facts, active : BOOLEAN, archived : BOOLEAN ]
Standings == {"Draft", "in progress", "terminal"}
Case == [ status : Standings, firm : OrMissing(Firms), order : BOOLEAN, permit : BOOLEAN,
          archived : BOOLEAN ]
Correction == [ firm : Firms, before : Facts, after : Facts ]
Correcting == [ kind : {"owner", "office"}, firm : Firms, before : Facts, facts : Facts,
                written : BOOLEAN ]
Closure == [ kind : {"deactivate", "archive"}, firm : Firms ]
Reliance == [ facts : Facts, since : Nat ]

\* A row is never the null.
ASSUME NoNullRecord == Missing \notin Firm \cup Case \cup Correcting \cup Closure \cup Reliance

Registered == { f \in Firms : firms[f] # Missing }
OnFile == { c \in Cases : cases[c] # Missing }
Visiting(v, kinds) == visit[v] # Missing /\ visit[v].kind \in kinds
Departs(v) == visit' = [ visit EXCEPT ![v] = Missing ]

-----------------------------------------------------------------------------
\* What the statements read.
CasesUnder(f) == { c \in OnFile : cases[c].firm = f }

filedUnder(f) == \E c \in CasesUnder(f) : cases[c].status # "Draft"

\* IN_PROGRESS_STATUSES, a draft among them; OFFICE_WORK leaves drafts out.
OpenUnder(f, how) ==
  { c \in CasesUnder(f) : cases[c].status \in
      (IF how = "deactivate" THEN {"Draft", "in progress"} ELSE {"in progress"}) }

\* Requests that have asked about the facts of a business and not written yet.
CorrectingFirm(f) ==
  { v \in Visits : Visiting(v, {"owner", "office"}) /\ visit[v].firm = f }

-----------------------------------------------------------------------------
RecordsInit ==
  /\ firms = [ f \in Firms |-> Missing ] /\ cases = [ c \in Cases |-> Missing ]
  /\ trail = << >> /\ visit = [ v \in Visits |-> Missing ]
  /\ relied = [ f \in Firms |-> Missing ] /\ crossed = {}

\* create: by the owner, or at the counter in one transaction with the owner's
\* account; both insert.
RegisterFirm(f, facts) ==
  /\ firms[f] = Missing
  /\ firms' = [ firms EXCEPT ![f] = [ facts |-> facts, active |-> TRUE, archived |-> FALSE ] ]
  /\ UNCHANGED << cases, trail, visit, relied, crossed >>

\* Mutant: nobody asks whether an application has been filed.
CorrectsAnyway(f, facts) == TRUE

\* An owner's change of the facts.
CorrectsOwn(f, facts) == facts # firms[f].facts => ~filedUnder(f)

\* update, up to its write.  An owner may change the facts until an application
\* under the business has reached the office; an officer at any time.
AskCorrection(v, kind, f, facts) ==
  /\ visit[v] = Missing /\ f \in Registered /\ Len(trail) < MaxCorrected
  /\ kind = "owner" => CorrectsOwn(f, facts)
  /\ visit' = [ visit EXCEPT ![v] = [ kind |-> kind, firm |-> f,
       before |-> firms[f].facts, facts |-> facts, written |-> FALSE ] ]
  /\ UNCHANGED << firms, cases, trail, relied, crossed >>

\* The update, by id.  Only an officer's change has an audit entry to come.
WriteCorrection(v) ==
  LET f == visit[v].firm IN
  /\ Visiting(v, {"owner", "office"}) /\ ~visit[v].written
  /\ firms' = [ firms EXCEPT ![f].facts = visit[v].facts ]
  /\ IF visit[v].kind = "owner" \/ visit[v].before = visit[v].facts THEN Departs(v)
     ELSE visit' = [ visit EXCEPT ![v].written = TRUE ]
  /\ crossed' = (IF CorrectingFirm(f) # {v} THEN crossed \cup {f} ELSE crossed)
  /\ UNCHANGED << cases, trail, relied >>

\* The audit entry, in a transaction of its own.
RecordCorrection(v) ==
  /\ Visiting(v, {"office"}) /\ visit[v].written
  /\ trail' = Append(trail, [ firm |-> visit[v].firm, before |-> visit[v].before,
                              after |-> visit[v].facts ])
  /\ Departs(v)
  /\ UNCHANGED << firms, cases, relied, crossed >>

\* A request dies.  Between an update and its audit entry nobody learns of it.
VisitEnds(v) ==
  /\ visit[v] # Missing /\ Departs(v)
  /\ crossed' = (IF Visiting(v, {"office"}) /\ visit[v].written
                 THEN crossed \cup {visit[v].firm} ELSE crossed)
  /\ UNCHANGED << firms, cases, trail, relied >>

-----------------------------------------------------------------------------
\* setStatus to Inactive: asked first, then written by id.
AskClosure(v, how, f) ==
  /\ visit[v] = Missing /\ f \in Registered /\ OpenUnder(f, how) = {}
  /\ visit' = [ visit EXCEPT ![v] = [ kind |-> how, firm |-> f ] ]
  /\ UNCHANGED << firms, cases, trail, relied, crossed >>

AskDeactivate(v, f) == AskClosure(v, "deactivate", f)

Deactivate(v) ==
  /\ Visiting(v, {"deactivate"}) /\ Departs(v)
  /\ firms' = [ firms EXCEPT ![visit[v].firm].active = FALSE ]
  /\ UNCHANGED << cases, trail, relied, crossed >>

\* archive, for a business.
AskArchive(v, f) == ~firms[f].archived /\ AskClosure(v, "archive", f)

ArchiveFirm(v) ==
  /\ Visiting(v, {"archive"}) /\ Departs(v)
  /\ firms' = [ firms EXCEPT ![visit[v].firm].archived = TRUE ]
  /\ UNCHANGED << cases, trail, relied, crossed >>

\* setStatus to Active.
Reactivate(f) ==
  /\ f \in Registered /\ ~firms[f].active
  /\ firms' = [ firms EXCEPT ![f].active = TRUE ]
  /\ UNCHANGED << cases, trail, visit, relied, crossed >>

\* restore of a business that is archived.
RestoreFirm(f) ==
  /\ f \in Registered /\ firms[f].archived
  /\ firms' = [ firms EXCEPT ![f].archived = FALSE ]
  /\ UNCHANGED << cases, trail, visit, relied, crossed >>

-----------------------------------------------------------------------------
\* While an application is filed under a business, the office relies on its facts.
Reliances ==
  /\ relied' = [ f \in Firms |->
       IF ~filedUnder(f)' THEN Missing
       ELSE IF relied[f] # Missing THEN relied[f]
       ELSE [ facts |-> firms[f].facts, since |-> Len(trail) + 1 ] ]
  /\ crossed' = crossed \cup { f \in Firms :
       relied[f] = Missing /\ filedUnder(f)' /\ CorrectingFirm(f) # {} }

\* submit and fileOnBehalf, whatever the standing of the business.
FileUnder(c, f, status) ==
  /\ cases[c] = Missing /\ f \in OrMissing(Registered) /\ status # "terminal"
  /\ cases' = [ cases EXCEPT ![c] = [ status |-> status, firm |-> f, order |-> FALSE,
                  permit |-> FALSE, archived |-> FALSE ] ]
  /\ Reliances /\ UNCHANGED << firms, trail, visit >>

\* A move of the lifecycle: a draft is filed or cancelled, an application ends,
\* and an ended one is taken up again, archived or not.
MoveOn(c, to) ==
  /\ c \in OnFile /\ to \notin {"Draft", cases[c].status}
  /\ cases' = [ cases EXCEPT ![c].status = to ]
  /\ Reliances /\ UNCHANGED << firms, trail, visit >>

\* An Order of Payment is issued; then a permit is generated.
GoOn(c) ==
  /\ c \in OnFile /\ cases[c].status = "in progress" /\ ~cases[c].permit
  /\ cases' = [ cases EXCEPT ![c].order = TRUE, ![c].permit = cases[c].order ]
  /\ UNCHANGED << firms, trail, visit, relied, crossed >>

-----------------------------------------------------------------------------
\* edit of what an Order freezes, with the row locked and every rule asked under
\* the lock.  An application pointed at another business is filed under it.
EditRecord(c, f) ==
  /\ c \in OnFile /\ f \in OrMissing(Registered) \ {cases[c].firm}
  /\ ~cases[c].permit /\ cases[c].status # "terminal" /\ ~cases[c].order
  /\ cases' = [ cases EXCEPT ![c].firm = f ]
  /\ Reliances /\ UNCHANGED << firms, trail, visit >>

\* archive: every application of the batch is over, or none is archived.
PutAway(batch) ==
  /\ batch # {} /\ batch \subseteq OnFile /\ \A c \in batch : cases[c].status = "terminal"
  /\ cases' = [ c \in Cases |-> IF c \in batch THEN [ cases[c] EXCEPT !.archived = TRUE ]
                                ELSE cases[c] ]
  /\ UNCHANGED << firms, trail, visit, relied, crossed >>

\* restore of an application, whatever its status is by now.
BringBack(c) ==
  /\ c \in OnFile /\ cases[c].archived
  /\ cases' = [ cases EXCEPT ![c].archived = FALSE ]
  /\ UNCHANGED << firms, trail, visit, relied, crossed >>

-----------------------------------------------------------------------------
FirmStep ==
  \/ \E f \in Firms :
       Reactivate(f) \/ RestoreFirm(f) \/ \E facts \in Facts : RegisterFirm(f, facts)
  \/ \E v \in Visits :
       \/ \E kind \in {"owner", "office"}, f \in Firms, facts \in Facts :
            AskCorrection(v, kind, f, facts)
       \/ WriteCorrection(v) \/ RecordCorrection(v) \/ VisitEnds(v)
       \/ Deactivate(v) \/ ArchiveFirm(v)
       \/ \E f \in Registered : AskDeactivate(v, f) \/ AskArchive(v, f)

CaseStep ==
  \/ \E c \in Cases, f \in OrMissing(Firms) :
       EditRecord(c, f) \/ \E status \in Standings : FileUnder(c, f, status)
  \/ \E c \in Cases : GoOn(c) \/ BringBack(c) \/ \E to \in Standings : MoveOn(c, to)
  \/ \E batch \in SUBSET Cases : PutAway(batch)

RecordsNext == FirmStep \/ CaseStep

RecordsSpec == RecordsInit /\ [][RecordsNext]_recordsVars

-----------------------------------------------------------------------------
\* Every variable has its type.
RecordsTypeOK ==
  /\ firms \in [ Firms -> OrMissing(Firm) ] /\ cases \in [ Cases -> OrMissing(Case) ]
  /\ trail \in Seq(Correction) /\ visit \in [ Visits -> OrMissing(Correcting \cup Closure) ]
  /\ relied \in [ Firms -> OrMissing(Reliance) ] /\ crossed \subseteq Firms

\* The corrections of a business on the audit trail since it was relied on, and
\* what they say of it up to an entry.
Corrections(f) == { n \in DOMAIN trail : n >= relied[f].since /\ trail[n].firm = f }

Says(f, n, facts) ==
  \/ facts = relied[f].facts /\ \A m \in Corrections(f) : m >= n
  \/ \E m \in Corrections(f) : /\ m < n /\ facts = trail[m].after
                           /\ \A k \in Corrections(f) : k <= m \/ k >= n

\* After an application has been filed under a business "the Municipality now
\* relies on its registration number and date" (businesses.controller.ts), and
\* the office's corrections are recorded with the before and the after: what the
\* business says today is what it said then, and every change between is on the
\* trail, each starting from where the one before ended.  Two requests at one
\* business, or an officer's that dies before its entry, undo that: nothing is
\* locked between asking and writing, or between writing and recording.
RegistrationIsAccountedFor ==
  \A f \in Firms :
    relied[f] # Missing /\ f \notin crossed /\ CorrectingFirm(f) = {} =>
      /\ Says(f, Len(trail) + 1, firms[f].facts)
      /\ \A n \in Corrections(f) : Says(f, n, trail[n].before)
=============================================================================
