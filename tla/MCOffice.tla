------------------------------ MODULE MCOffice ------------------------------
(***************************************************************************)
(* One instance of the components that share no rows: documents, the audit *)
(* chain, an account and its second factor, the filing of applications,    *)
(* their evaluation, staff accounts, fees, businesses and the archive, the *)
(* configured workflow, the staff queue, the pledge clock, what the office *)
(* is told, the content and notices of the Castilla portal, and a rollout. *)
(* A behaviour works at one desk, and what belongs to another component    *)
(* rests, so that the state space is the sum of theirs and not the         *)
(* product.  What a desk leaves out bounds the states, never what the code *)
(* does in one: its steps are the component's own.                         *)
(***************************************************************************)
EXTENDS Documents, AuditChain, CitizenAccount, Filing, Evaluation, StaffOffice, FeeBook,
        PublicContent, Notices, Records, Workflow, StaffQueue, PledgeClock, Worklist,
        SecondFactor, Deployment, TLC

CONSTANTS maria, luisa, ana, ben, p1, residential, plans, clearance, ines, zoe, paul, juan, v1,
          health, mayor, vera, first, typist, fiesta, case2

VARIABLE desk

officeVars == << documentsVars, chainVars, accountVars, filingDeskVars, evaluationVars,
                 staffVars, feeBookVars, cacheVars, contentOwnVars, noticeOwnVars,
                 recordsVars, workflowVars, queueVars, clockVars, worklistVars, factorVars,
                 deploymentVars, desk >>

\* Values of the constants.
MCPermitOf == [ p \in {p1} |-> [ applicant |-> maria, shop |-> Nobody, type |-> residential ] ]
\* Three builds: one before a migration, one with it, one with another in its place.
MCCarries == [ b \in {"old", "new", "recut"} |-> [ v \in {1, 2} |->
  IF v = 1 THEN "base" ELSE IF b = "new" THEN "column" ELSE IF b = "recut" THEN "index"
  ELSE NoFile ] ]
MCStageOf == [ c \in {plans, clearance} |-> IF c = plans THEN "Initial" ELSE "Zoning" ]
Evaluator(stage) ==
  [ teams |-> {stage}, stages |-> {stage}, lead |-> FALSE, works |-> TRUE, superAdmin |-> FALSE ]
Chief == [ Evaluator("Final Approval") EXCEPT !.superAdmin = TRUE, !.lead = TRUE ]
MCPositions == { Evaluator("Initial"), Evaluator("Zoning"), Chief }

HeadName == << "office", health, "head" >>
Phone == << "office", health, "contact.telephone" >>
Mayor == << "official", mayor, "name" >>
History == << "page", "history", "body" >>
MCFields == { HeadName, Phone, Mayor, History }
MCHeadOf == [ o \in {health} |-> mayor ]
MCIssuedBy == [ o \in {} |-> health ]
MCPages == { << "office", health >>, << "officials" >>, << "page", "history" >>,
             NoticeList, NoticePage(fiesta) }

-----------------------------------------------------------------------------
\* Documents.

\* Two sessions replace and review the documents of one filed application.
ReplacingDesk ==
  /\ \/ \E u \in Uploads : UploadStep(u) \/ ReviewStep(u)
     \/ \E m \in Matters, by \in Citizens : Attach(m, by, {}, "open")
  /\ \A u \in Uploads :
       /\ upload'[u].pc # "idle" => upload'[u].matter # None \/ upload'[u].pc = "reviewing"
       /\ upload'[u].pc = "reviewing" => upload'[u].verdict = "Accepted"
       /\ u # 1 => upload'[u].pc = "idle" \/ upload'[u].replaces # None

\* One session uploads, applications are filed, close and are reopened, periods
\* pass and the retention job runs.
RetentionDesk ==
  /\ UploadStep(1) \/ MatterStep \/ PeriodPasses \/ RetentionStep
  /\ upload'[1].row # 3 /\ upload'[1].replaces = None /\ upload'[1].pc # "purged"
  /\ \A m \in Matters : matters'[m].phase # "draft"
  /\ \A r \in store' : documents'[r] = None => upload'[1].row = r
  /\ upload'[1].row = 2 => sweep' = NoSweep /\ upload'[1].matter # None /\ lostSweeps' = 0

\* Drafts, and My Documents.
LibraryDesk ==
  /\ UploadStep(1) \/ LibraryStep \/ MatterStep
  /\ upload'[1].row # 3 /\ \A m \in Matters : matters'[m].phase # "closed"
  /\ upload'[1].pc # "purged" /\ upload'[1].replaces = None

-----------------------------------------------------------------------------
\* The account.

ContactsDesk ==
  /\ \E u \in Acts : ContactStep(u) \/ ErasureStep(u)

\* One client refreshes its token; the other may do anything but erase.
SessionsDesk ==
  /\ SessionStep(1) \/ StandingStep(1) \/ RefreshStep(2)
  /\ ticket' = "none" /\ act'[1].step \notin {"enabling", "forgetting", "archiving"}
  /\ account' = account \/ account'.disabled
  /\ Issued \subseteq Issued'
  /\ \A t \in Issued' \ Issued, other \in FreshTokens : t <= other

\* Tokens are purged while two clients exchange one.
PurgingDesk ==
  /\ \/ Issued = {} /\ ended = {} /\ SignInStep(1)
     \/ PurgeTokens \/ \E u \in Acts : RefreshStep(u)
  /\ \A t \in Issued' \ Issued, other \in FreshTokens : t <= other

\* A password is reset or changed while the account is erased.
PasswordDesk ==
  /\ \E u \in Acts : SessionStep(u) \/ ErasureStep(u)
  /\ act'[1].step \in {"nothing", "forgetting", "setting password", "ending"}
  /\ act'[2].step \in {"nothing", "erasing", "erased"}

PhotoDesk ==
  /\ \E u \in Acts : PhotoStep(u) \/ StandingStep(u) \/ ErasureStep(u)

ErasureDesk ==
  /\ \E u \in Acts : FilingStep(u) \/ ErasureStep(u) \/ ActDies(u)
  /\ \A a \in Applications : filings'[a] \in
       {"none", "Submitted", "Under Evaluation", "Revision Required", "Cancelled", "Rejected"}

-----------------------------------------------------------------------------
\* Filing.

\* Two filings of a citizen under one key or two, and a draft that is filed.
SelfDesk ==
  /\ \E c \in Clerks : SubmitStep(c) \/ \E a \in Filings : BeginFiling(c, a) \/ FileDraft(c)
  /\ \A c \in Clerks : Busy(c, {"self"})' => clerk'[c].form.shop = Nobody

\* Two officers file for one address, and its owner registers meanwhile.
WalkInDesk ==
  /\ \/ \E c \in Clerks : SubmitStep(c) \/ CounterStep(c) \/ RegisterStep(c)
     \/ ProofStep
  /\ \A c \in Clerks :
       /\ ~Busy(c, {"self"})'
       /\ Busy(c, {"counter"})' =>
            /\ clerk'[c].form.action = "New" /\ clerk'[c].form.permit = Nobody
            /\ ~clerk'[c].form.claim /\ ~clerk'[c].draft
  /\ \A a \in Addresses : codes'[a].guesses = 0 /\ (a # luisa => ~codes'[a].live)

\* A draft is edited in pieces and filed.
DraftsDesk ==
  /\ \E c \in Clerks : SubmitStep(c) \/ DraftStep(c)
  /\ \A c \in Clerks : c # 1 => clerk'[c] = Nobody
  /\ \A a \in Filings : applications'[a] # Nobody => a = 1
  /\ Busy(1, {"self"})' => clerk'[1].draft

-----------------------------------------------------------------------------
\* Evaluation.
Before == {"Submitted", "Received", "Document Verification"}
Serves(d, kinds) == work'[d].kind \in kinds \cup {"none"}
Verdicts1 == { << "Initial", "Passed" >>, << "Zoning", "Passed" >>,
               << "Zoning", "Revision Required" >> }

\* One request decides, the other reviews, replaces a copy that was returned or
\* adds one beside it.
EvaluatingDesk ==
  /\ UNCHANGED staff /\ EvaluationNext
  /\ stand' \in Before \cup {"Under Evaluation", "Revision Required"}
  /\ stand' \in {"Submitted", "Received"} => \A d \in Desks : work'[d] = AtRest
  /\ Serves(1, {"evaluate"}) /\ Serves(2, {"review", "upload"})
  /\ work'[1].kind = "evaluate" =>
       /\ << work'[1].stage, work'[1].result >> \in Verdicts1
       /\ (work'[1].stage = "Zoning") = (work'[1].who = zoe)
  /\ Passed("Zoning")' => work'[2] = AtRest
  /\ work'[2].kind = "upload" =>
       /\ stand' = "Document Verification" /\ work'[1] = AtRest /\ work'[2].code = plans
       /\ \E copy \in Current(plans) : copy.review = "Returned"
  /\ Len(papers[plans]) > 1 =>
       /\ stand' = "Document Verification"
       /\ work'[2].kind = "review" => work'[2].who = ines /\ work'[2].code = plans

\* The chief passes every stage, up to the assessment.
PassingDesk ==
  /\ UNCHANGED staff /\ EvaluationNext
  /\ stand' \in Before \cup {"Under Evaluation", "Assessed"}
  /\ Serves(1, {"evaluate"}) /\ Serves(2, {"review"})
  /\ \A d \in Desks : work'[d] # AtRest => work'[d].who = zoe /\ stand' = "Under Evaluation"
  /\ work'[1].kind = "evaluate" =>
       work'[1].result = "Passed" /\ work'[1].stage \in {"Initial", "Zoning", "Final Approval"}

\* Two requests take, give and hand back, and positions change.
AssigningDesk ==
  /\ UNCHANGED verdicts /\ EvaluationNext
  /\ stand' \in Before
  /\ \A d \in Desks :
       /\ Serves(d, {"evaluate", "assign"})
       /\ work'[d] # AtRest => stand' = "Document Verification"
       /\ work'[d].kind = "evaluate" =>
            work'[d].stage = "Initial" /\ work'[d].result = "Rejected"

-----------------------------------------------------------------------------
\* Staff accounts.

\* Super admins demote, disable, restore, archive and lower one another, one of
\* them for sight only.
FloorDesk ==
  \E k \in Tasks :
    \/ \E actor \in Founders, who \in Founders, roles \in { {}, {"super-admin"} },
          kind \in {"roles", "disable", "enable", "archive", "access"}, access \in ViewOnly :
         /\ kind = "roles" \/ roles = {}
         /\ kind = "access" => who = paul
         /\ StartChange(k, actor, kind, who, roles, access)
    \/ CheckChange(k) \/ CommitChange(k) \/ EndTask(k)

\* A newcomer asks, while officers decide and may hire the same person directly.
RequestsDesk ==
  \/ \E k \in Tasks, access \in Levels :
       \/ \E kind \in {"create", "access"} :
            /\ kind = "access" \/ access \in ViewOnly
            /\ StartChange(k, paul, kind, juan, {"other"}, access)
       \/ \E kind \in {"approve", "reject"}, r \in Requests :
            StartDeciding(k, paul, kind, r, {"other"}, access)
  \/ \E k \in Tasks : \/ CheckChange(k) \/ CommitChange(k) \/ EndTask(k)
                       \/ CheckAddress(k) \/ Approve(k) \/ Reject(k)
  \/ \E r \in Requests : Raise(r, juan)
  \/ AttemptsForgotten

-----------------------------------------------------------------------------
\* Fees.

\* Schedules are published for days to come, which come.
SchedulesDesk ==
  /\ \E t \in Tills : ScheduleStep(t) \/ TillDies(t)
  /\ \A t \in Tills : Doing(t, "publish")' => till'[t].entries = [ l \in Lines |-> 0 ]

MethodsDesk == \E t \in Tills : MethodStep(t) \/ TillDies(t)

\* An assessment is prepared, approved and issued, and another revises it.
SheetsDesk ==
  /\ \E t \in Tills : SheetStep(t) \/ (Doing(t, "mark") /\ TillDies(t))
  /\ Doing(1, "edit")' => till'[1].included
  /\ Doing(2, "edit")' => till'[2].amount = 1
  /\ till'[2].kind \in {"none", "edit", "submit", "approve", "issue", "mark", "supersede"}
  /\ 2 \in Opened' => ~Doing(1, "edit")' /\ ~Doing(2, "submit")'

-----------------------------------------------------------------------------
\* The portal.

\* One edit at a time, and one reader.
ReadingDesk ==
  /\ ContentStep
  /\ \A e \in Edits \ {typist} : edit'[e] = NoEdit
  /\ edit'[typist].at # "nothing" => edit'[typist].by # vera
  /\ edit'[typist].at = "replacing" => revisions[History] = << >> /\ edit'[typist].text # first
  /\ \A p \in Made' : proposals'[p].by = vera /\ proposals'[p].text = first
  /\ \A f \in Fields : Len(history'[f]) <= 1
  /\ \A p \in Pages : version'[p] <= 1
  /\ Cardinality({ p \in Pages : held'[p] # Unseen \/ reading'[p] # Unseen }) <= 1

\* Two confirm and revert one field.
ConfirmingDesk ==
  /\ UNCHANGED << boot, reading, held >> /\ ContentStep
  /\ \A p \in Made' : proposals'[p].field = Phone
  /\ \A f \in Fields : Len(history'[f]) <= 3
  /\ \A e \in Edits : edit'[e] # NoEdit => edit'[e].field = Phone

\* One request publishes, the other withdraws; readers fetch the list.
NoticesDesk ==
  /\ NoticeStep
  /\ \A s \in Slugs : Len(noticeEvents'[s]) <= 3 /\ reading'[NoticePage(s)] = Unseen
  /\ \A h \in Hands : hand'[h] # Free => (h = 1) = (hand'[h].doing # "withdrawn")
  /\ noticeEvents' # noticeEvents => boot = 1
  /\ version'[NoticeList] <= 2

-----------------------------------------------------------------------------
\* Records.

\* A business is corrected by its owner and by officers while it is filed under.
RegistrationsDesk ==
  /\ RecordsNext
  /\ cases'[case2] = Missing
  /\ \A f \in Registered' : firms'[f].active /\ ~firms'[f].archived
  /\ \A v \in Visits : visit'[v] # Missing => visit'[v].kind \in {"owner", "office"}
  /\ \A c \in OnFile' : ~cases'[c].order /\ cases'[c].status # "terminal"

\* Applications and their business are archived, restored and taken up again.
PuttingAwayDesk ==
  /\ RecordsNext
  /\ visit'[2] = Missing /\ \A c \in OnFile' : cases'[c].firm # Missing
  /\ visit'[1] # Missing => visit'[1].kind \in {"deactivate", "archive"}

-----------------------------------------------------------------------------
\* Configuration.

\* Three tables that may be put in force, and one that strands what is reviewed.
MCPlaces == {"Submitted", "Under Review", "Completed"}
Receiving == [ scope |-> "staff:receive", actors |-> {"staff"}, preconditions |-> {} ]
Approving == [ scope |-> "staff:approve", actors |-> {"staff"}, preconditions |-> {"paid"} ]
Reading == [ scope |-> "applications:read", actors |-> {"staff"}, preconditions |-> {} ]
MCFirstTable ==
  ( << "Submitted", "Under Review" >> :> Receiving @@ << "Under Review", "Completed" >> :> Approving )
\* A shortcut; one that strands; one for a read-only role; and the first one
\* receiving by a scope that no warning knows and approving before it is paid for;
\* and approving by more officers and the applicant.
MCTables ==
  { MCFirstTable,
    << "Submitted", "Completed" >> :> [ Approving EXCEPT !.scope = "staff:evaluate" ],
    << "Submitted", "Under Review" >> :> Receiving,
    MCFirstTable @@ << "Completed", "Submitted" >> :> Reading,
    ( << "Submitted", "Under Review" >> :> [ Receiving EXCEPT !.scope = "staff:evaluate" ]
      @@ << "Under Review", "Completed" >> :> [ Approving EXCEPT !.preconditions = {} ] ),
    [ MCFirstTable EXCEPT ![ << "Under Review", "Completed" >> ] =
        [ @ EXCEPT !.scope = "staff:evaluate", !.actors = {"applicant", "staff"} ] ] }

WorkflowDesk == FolderStep \/ \E o \in Officials : TableStep(o)

-----------------------------------------------------------------------------
\* The queue.
MCRoles ==
  { {role} : role \in StaffRoles } \cup
    { {"evaluator", "records-officer"}, {"receiving-officer", "records-officer"},
      {"evaluator", "super-admin"}, {"evaluator", "cashier"} }
MCFirstSeat == [ roles |-> {"records-officer"}, stages |-> {}, forms |-> {residential},
                 level |-> "view-edit", lead |-> FALSE, active |-> TRUE ]
MCSeats ==
  { s \in [ roles : MCRoles, stages : { {}, {"Initial"}, {"Zoning", "Final Approval"} },
            forms : { {}, {residential} }, level : {"none", "view", "view-edit"},
            lead : BOOLEAN, active : BOOLEAN ] :
      /\ s.level = "none" => s.forms = {}
      /\ s.level # "view-edit" => ~s.lead
      /\ ~s.active => s.level = "view-edit" /\ s.roles = {"evaluator"} }

\* An officer pages through what others move and correct.
PagingDesk ==
  /\ \/ WalkStep \/ TimePasses \/ \E form \in Forms : RetireForm(form)
     \/ \E d \in Dossiers :
          \/ FileDossier(d, residential, FALSE, FALSE)
          \/ \E archived \in BOOLEAN : StampDossier(d, archived)
          \/ \E began \in 0..moment : MoveDossier(d, "Received", "Initial", NoDossier, began)
  /\ IF walk = NoDossier THEN \A d \in Kept : dossiers'[d] = dossiers[d]
     ELSE Cardinality(disturbed') <= 1 \/ UNCHANGED << dossiers, moment >>
  /\ walk' # NoDossier => walk'.reader = ines /\ walk'.had = Dossiers
  /\ retired' # {} => walk' # NoDossier
  /\ retired' # retired => disturbed \in {{}, Dossiers} /\ moment = MaxMoment

\* One application at every step, and one officer in every position.
WaitingDesk ==
  \/ dossiers[1] = NoDossier /\ seat[ines] = FirstSeat /\ \E s \in Seats : GiveSeat(ines, s)
  \/ \E own \in BOOLEAN, draft \in BOOLEAN : FileDossier(1, residential, own, draft)
  \/ /\ dossiers[1] # NoDossier /\ dossiers[1].place = "Submitted"
     /\ \E place \in StatusNames, next \in {"Initial", "Zoning", "none"},
           taker \in Members \cup {NoDossier} :
          /\ next = "Initial" \/ place = "Under Evaluation"
          /\ MoveDossier(1, place, next, taker, 0)

-----------------------------------------------------------------------------
\* The pledge.

\* Years are proclaimed and completed and entries published before an application
\* is filed, which then moves; it is read at once, or when it is late.
PledgeDesk ==
  LET quiet == loading = [ years |-> NoDate, days |-> NoDate ]
      late == date = LastDate
      unmoved == subject.trail = << >> /\ date = 0 IN
  /\ \/ (DayPasses \/ FilingHop) /\ quiet /\ (subject.trail # << >> => calendar = NoDate)
     \/ /\ YearStep
        /\ \/ subject.place \in {"none", "Draft"} \/ unmoved
           \/ subject.trail = << >> /\ ~quiet
     \/ ReadStep /\ subject.filed # NoDate /\ (late \/ unmoved)
  /\ PlainCourse' /\ Len(charter') <= 2 /\ (Len(charter') = 2 => holidays' = {})
  /\ subject.place \in {"none", "Draft"} => date' <= 1
  /\ subject.place = "none" =>
       date' = 0 /\ (charter' # << >> => UNCHANGED << holidays, proclaimed >>)
  /\ subject.place = "Draft" => holidays' = holidays /\ proclaimed' = proclaimed
  /\ charter' # charter =>
       subject.place \in {"none", "Draft"} /\ (charter = << >> => charter'[1].days = 1)

-----------------------------------------------------------------------------
\* What the office is told.
MCHatsOf == [ s \in {ines, zoe} |->
                IF s = ines THEN {"receiving-officer", "cashier"}
                ELSE {"records-officer", "building-official"} ]

ArrivalsDesk == ArrivalStep

OverdueDesk == OverdueStep

-----------------------------------------------------------------------------
\* The second factor: one request is a re-issue, the other anything.
AuthenticatorDesk ==
  /\ FactorNext
  /\ ask'[2].kind \in {"none", "reissue"}

-----------------------------------------------------------------------------
DocumentsDesks == {"replacing", "retention", "library"}
AccountDesks == {"contacts", "sessions", "purging", "password", "photo", "erasure"}
FilingDesks == {"self", "walkin", "drafts"}
EvaluationDesks == {"evaluating", "passing", "assigning"}
StaffDesks == {"floor", "requests"}
FeeDesks == {"schedules", "methods", "sheets"}
PortalDesks == {"reading", "confirming", "notices"}
RecordsDesks == {"registrations", "archive"}
ConfigurationDesks == {"workflow", "checklist"}
QueueDesks == {"paging", "waiting"}
WorklistDesks == {"arrivals", "overdue"}

AllDesks == DocumentsDesks \cup AccountDesks \cup FilingDesks \cup EvaluationDesks
            \cup StaffDesks \cup FeeDesks \cup PortalDesks \cup RecordsDesks
            \cup ConfigurationDesks \cup QueueDesks \cup WorklistDesks
            \cup {"trail", "pledge", "authenticator", "rollout"}

OfficeInit ==
  /\ desk \in AllDesks
  /\ stored = [ f \in Fields |-> IF f = HeadName THEN Blank ELSE first ]
  /\ state = [ f \in Fields |-> IF f = Phone THEN "withheld"
                               ELSE IF f = Mayor /\ desk = "reading" THEN "confirmed"
                               ELSE "pending" ]
  /\ citizens \in [ Addresses ->
       { Nobody } \cup { [ name |-> name, verified |-> FALSE ] : name \in Names } ]
  /\ citizens[maria] # Nobody /\ citizens[maria].name = ana
  /\ desk # "walkin" => citizens[luisa] = Nobody
  /\ owner = [ s \in Shops |-> maria ]
  /\ staff = [ o \in Officers |->
       IF o = ines THEN Evaluator("Initial")
       ELSE IF desk = "evaluating" THEN Evaluator("Zoning") ELSE Chief ]
  /\ schedules = [ v \in Versions |-> IF v = v1
       THEN [ from |-> 0, to |-> Unset, published |-> 1,
              entries |-> [ l \in Lines |-> IF desk = "sheets" THEN 1 ELSE 0 ] ] ELSE Unset ]
  /\ open \in (SUBSET Methods) \ {{}} /\ (desk # "methods" => open = Methods)
  /\ demanded \in BOOLEAN /\ inside \in BOOLEAN
  /\ desk # "authenticator" => demanded /\ ~inside
  /\ paper \in [ Papers -> { [ place |-> place, order |-> 0, due |-> {}, payments |-> {},
                               archived |-> FALSE ] : place \in FirstStatuses } ]
  /\ \A p \in Papers :
       paper[p].place = IF desk = "overdue" THEN "Assessed" ELSE "Document Verification"
  /\ AccountInit /\ (desk # "contacts" => account.mobile = Nil)
  /\ InitCache /\ InitContent /\ InitNotices
  /\ DocumentsInit /\ ChainInit /\ FilingDeskInit /\ EvaluationInit /\ StaffInit
  /\ FeeBookInit /\ RecordsInit /\ WorkflowInit /\ StaffQueueInit
  /\ ClockInit /\ WorklistInit /\ FactorInit /\ DeploymentInit

\* What every component but one leaves alone.
Others(component) ==
  /\ IF component = "documents" THEN TRUE ELSE UNCHANGED documentsVars
  /\ IF component = "chain" THEN TRUE ELSE UNCHANGED chainVars
  /\ IF component = "account" THEN TRUE ELSE UNCHANGED accountVars
  /\ IF component = "filing" THEN TRUE ELSE UNCHANGED filingDeskVars
  /\ IF component = "evaluation" THEN TRUE ELSE UNCHANGED evaluationVars
  /\ IF component = "staff" THEN TRUE ELSE UNCHANGED staffVars
  /\ IF component = "fees" THEN TRUE ELSE UNCHANGED feeBookVars
  /\ IF component \in {"content", "notices"} THEN TRUE ELSE UNCHANGED cacheVars
  /\ IF component = "content" THEN TRUE ELSE UNCHANGED contentOwnVars
  /\ IF component = "notices" THEN TRUE ELSE UNCHANGED noticeOwnVars
  /\ IF component = "records" THEN TRUE ELSE UNCHANGED recordsVars
  /\ IF component = "workflow" THEN TRUE ELSE UNCHANGED workflowVars
  /\ IF component = "queue" THEN TRUE ELSE UNCHANGED queueVars
  /\ IF component = "clock" THEN TRUE ELSE UNCHANGED clockVars
  /\ IF component = "worklist" THEN TRUE ELSE UNCHANGED worklistVars
  /\ IF component = "factor" THEN TRUE ELSE UNCHANGED factorVars
  /\ IF component = "deployment" THEN TRUE ELSE UNCHANGED deploymentVars

OfficeNext ==
  /\ UNCHANGED desk
  /\ \/ /\ \/ desk = "replacing" /\ ReplacingDesk
           \/ desk = "retention" /\ RetentionDesk
           \/ desk = "library" /\ LibraryDesk
        /\ Others("documents")
     \/ desk = "trail" /\ ChainNext /\ Others("chain")
     \/ /\ \/ desk = "contacts" /\ ContactsDesk
           \/ desk = "sessions" /\ SessionsDesk
           \/ desk = "purging" /\ PurgingDesk
           \/ desk = "password" /\ PasswordDesk
           \/ desk = "photo" /\ PhotoDesk
           \/ desk = "erasure" /\ ErasureDesk
        /\ Others("account")
     \/ /\ \/ desk = "self" /\ SelfDesk
           \/ desk = "walkin" /\ WalkInDesk
           \/ desk = "drafts" /\ DraftsDesk
        /\ Others("filing")
     \/ /\ \/ desk = "evaluating" /\ EvaluatingDesk
           \/ desk = "passing" /\ PassingDesk
           \/ desk = "assigning" /\ AssigningDesk
        /\ Others("evaluation")
     \/ /\ \/ desk = "floor" /\ FloorDesk
           \/ desk = "requests" /\ RequestsDesk
        /\ Others("staff")
     \/ /\ \/ desk = "schedules" /\ SchedulesDesk
           \/ desk = "methods" /\ MethodsDesk
           \/ desk = "sheets" /\ SheetsDesk
        /\ Others("fees")
     \/ /\ \/ desk = "reading" /\ ReadingDesk
           \/ desk = "confirming" /\ ConfirmingDesk
        /\ Others("content")
     \/ desk = "notices" /\ NoticesDesk /\ Others("notices")
     \/ /\ \/ desk = "registrations" /\ RegistrationsDesk
           \/ desk = "archive" /\ PuttingAwayDesk
        /\ Others("records")
     \/ /\ \/ desk = "workflow" /\ WorkflowDesk
           \/ desk = "checklist" /\ ListStep
        /\ Others("workflow")
     \/ /\ \/ desk = "paging" /\ PagingDesk
           \/ desk = "waiting" /\ WaitingDesk
        /\ Others("queue")
     \/ desk = "pledge" /\ PledgeDesk /\ Others("clock")
     \/ /\ \/ desk = "arrivals" /\ ArrivalsDesk
           \/ desk = "overdue" /\ OverdueDesk
        /\ Others("worklist")
     \/ desk = "authenticator" /\ AuthenticatorDesk /\ Others("factor")
     \/ desk = "rollout" /\ DeploymentNext /\ Others("deployment")

OfficeSpec == OfficeInit /\ [][OfficeNext]_officeVars
=============================================================================
