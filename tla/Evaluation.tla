----------------------------- MODULE Evaluation -----------------------------
(***************************************************************************)
(* The technical evaluation of one application: who may work on it now     *)
(* (step-guard.ts), the assignment within the team whose step it is        *)
(* (team.service.ts), the review of its documents and the verdicts of its  *)
(* stages (evaluation.service.ts), each a request that reads, may be       *)
(* overtaken, and writes.                                                  *)
(***************************************************************************)
EXTENDS Naturals, Sequences

CONSTANTS
  Codes,       \* required documents of the checklist
  StageOf,     \* stage each is checked at
  Officers,    \* staff accounts
  Applicant,   \* account the application belongs to, an officer's perhaps
  Positions,   \* positions the office gives
  NoOne,       \* no account
  Desks,       \* requests in flight
  MaxCopies    \* bound: copies of one document

EVALUATION_STAGES == << "Initial", "Zoning", "Fire Safety", "OBO", "Final Approval" >>
Stages == { EVALUATION_STAGES[i] : i \in 1..Len(EVALUATION_STAGES) }

\* The team of a stage goes by its stage's name; a position is a post in it.
Teams == Stages \cup {"receiving", "assessment", "cashier", "releasing", "records"}
Post == [ teams : SUBSET Teams, stages : SUBSET Stages, lead : BOOLEAN,
          works : BOOLEAN, superAdmin : BOOLEAN ]

ASSUME EvaluationAssumption ==
  /\ StageOf \in [ Codes -> Stages \ {"Final Approval"} ]
  /\ Positions \subseteq Post /\ NoOne \notin Officers /\ MaxCopies \in Nat \ {0}

Table == INSTANCE LifecycleRules

VARIABLES
  stand,       \* lifecycle_status
  papers,      \* copies of each document, in the order they came
  verdicts,    \* evaluations of the application
  assigned,    \* application_assignments, by team
  staff,       \* position of each officer
  work         \* the requests

evaluationVars == << stand, papers, verdicts, assigned, staff, work >>

\* turn is whose turn it was when a copy was accepted: a stage, nobody's, or the
\* records office's.
Turns == Stages \cup {"nobody", "office"}
NoTeam == "none"
OrNoTeam == Teams \cup {NoTeam}
\* A copy may supersede one that came before; 0 is SQL null.
Copy == [ review : {"unread", "Accepted", "Returned"}, turn : Turns, supersedes : Nat ]
Results == {"Passed", "Revision Required", "Rejected"}
Evaluating == [ kind : {"evaluate"}, pc : {"asked", "working", "returning"},
                who : Officers, team : OrNoTeam, stage : Stages, result : Results ]
Reviewing == [ kind : {"review"}, pc : {"asked", "working", "cleared"}, who : Officers,
               team : OrNoTeam, code : Codes, copy : Nat,
               review : {"Accepted", "Returned"}, turn : Turns ]
Uploading == [ kind : {"upload"}, pc : {"working"}, code : Codes, supersedes : Nat ]
Assigning == [ kind : {"assign"}, pc : {"working"}, team : Teams, to : Officers \cup {NoOne} ]
AtRest == [ kind |-> "none", pc |-> "none" ]

\* "not exists (select 1 from documents n where n.supersedes_document_id = d.id)"
Superseded(c, i) == \E j \in DOMAIN papers[c] : papers[c][j].supersedes = i
Current(c) == { papers[c][i] : i \in { j \in DOMAIN papers[c] : ~Superseded(c, j) } }
NewCopy(supersedes) == [ review |-> "unread", turn |-> "nobody", supersedes |-> supersedes ]
Finish(d) == work' = [ work EXCEPT ![d] = AtRest ]
At(d, kind, pc) == work[d].kind = kind /\ work[d].pc = pc

-----------------------------------------------------------------------------
\* stagesForChecklist: the first and the last always, another only when a
\* document is checked there.
Applies(s) == s \in {"Initial", "Final Approval"} \/ \E c \in Codes : StageOf[c] = s
Passed(s) == verdicts[s] = "Passed"
NextStages ==
  { EVALUATION_STAGES[i] : i \in { i \in 1..Len(EVALUATION_STAGES) :
      /\ Applies(EVALUATION_STAGES[i]) /\ ~Passed(EVALUATION_STAGES[i])
      /\ \A j \in 1..(i-1) : Applies(EVALUATION_STAGES[j]) => Passed(EVALUATION_STAGES[j]) } }
Complete == NextStages = {}

\* stepFor and teamForStep: the team whose step it is; none when the applicant
\* must act, or nobody.
StepTeams ==
  CASE stand \in {"Submitted", "Received"} -> {"receiving"}
    [] stand = "Document Verification" -> {"Initial"}
    [] stand = "Under Evaluation" -> IF Complete THEN {"assessment"} ELSE NextStages
    [] stand \in {"Payment Submitted", "Payment Under Verification", "Payment Verified"}
         -> {"cashier"}
    [] stand \in {"For Approval", "Approved"} -> {"Final Approval"}
    [] stand \in {"Permit Generated", "Ready for Release", "Released"} -> {"releasing"}
    [] OTHER -> {}

CanWork(o) == staff[o].works \/ staff[o].superAdmin
KeepsRecords(o) == "records" \in staff[o].teams
neverWorks(o, keeps) == ~staff[o].superAdmin /\ ~keeps
                        /\ (~CanWork(o) \/ staff[o].teams \subseteq {"records"})
InTeam(o) == CanWork(o) /\ staff[o].teams \cap StepTeams # {}

\* StepGuard.check, as far as it reads.
MayWork(o, kind) ==
  \/ staff[o].superAdmin
  \/ /\ ~neverWorks(o, KeepsRecords(o))
     /\ IF InTeam(o) THEN staff[o].lead \/ \A t \in StepTeams : assigned[t] \in {NoOne, o}
        ELSE KeepsRecords(o) \/ (StepTeams = {} /\ kind = "act")

\* The team in which it is free for this officer to take.
TeamToTake(o) ==
  IF ~staff[o].superAdmin /\ InTeam(o) /\ \A t \in StepTeams : assigned[t] = NoOne
  THEN CHOOSE t \in StepTeams : TRUE ELSE NoTeam

-----------------------------------------------------------------------------
EvaluationInit ==
  /\ stand = "Submitted"
  /\ papers = [ c \in Codes |-> << NewCopy(0) >> ]
  /\ verdicts = [ s \in Stages |-> "none" ]
  /\ assigned = [ t \in Teams |-> NoOne ]
  /\ staff \in [ Officers -> Positions ]
  /\ work = [ d \in Desks |-> AtRest ]

Ask(d, request) ==
  /\ work' = [ work EXCEPT ![d] = request ]
  /\ UNCHANGED << stand, papers, verdicts, assigned, staff >>

AskEvaluate(d, o) ==
  /\ work[d] = AtRest /\ MayWork(o, "act")
  /\ \E s \in Stages, result \in Results :
     Ask(d, [ kind |-> "evaluate", pc |-> "asked", who |-> o, team |-> TeamToTake(o),
              stage |-> s, result |-> result ])

\* Of any copy, a superseded one too.
AskReview(d, o) ==
  /\ work[d] = AtRest /\ MayWork(o, "edit")
  /\ \E c \in Codes, review \in {"Accepted", "Returned"} : \E i \in DOMAIN papers[c] :
     Ask(d, [ kind |-> "review", pc |-> "asked", who |-> o, team |-> TeamToTake(o),
              code |-> c, copy |-> i, review |-> review, turn |-> "nobody" ])

\* take: the first insert wins, and the other goes on all the same.
Take(d) ==
  /\ work[d].pc = "asked"
  /\ LET t == work[d].team IN
     assigned' = IF t # NoTeam /\ assigned[t] = NoOne
                 THEN [ assigned EXCEPT ![t] = work[d].who ] ELSE assigned
  /\ work' = [ work EXCEPT ![d].pc = "working" ]
  /\ UNCHANGED << stand, papers, verdicts, staff >>

-----------------------------------------------------------------------------
\* Mutant: a copy that nobody has read counts.
NoneReturned(s) ==
  \A c \in Codes : StageOf[c] = s => \E copy \in Current(c) : copy.review # "Returned"

\* documentsNotAccepted is empty: of the copies that nothing supersedes, one at
\* least is accepted.
AllAccepted(s) ==
  \A c \in Codes : StageOf[c] = s => \E copy \in Current(c) : copy.review = "Accepted"

IsNext(s) == s \in NextStages

\* record, under the lock of the application's row.  What the application's
\* status is it does not ask.
RecordVerdict(d) ==
  /\ At(d, "evaluate", "working")
  /\ LET w == work[d] IN
     /\ w.who # Applicant
     /\ staff[w.who].superAdmin \/ w.stage \in staff[w.who].stages
     /\ IsNext(w.stage)
     /\ w.result = "Passed" => AllAccepted(w.stage)
     /\ verdicts' = [ verdicts EXCEPT ![w.stage] = w.result ]
     /\ work' = [ work EXCEPT ![d] = IF w.result = "Revision Required"
                                     THEN [ w EXCEPT !.pc = "returning" ] ELSE AtRest ]
  /\ UNCHANGED << stand, papers, assigned, staff >>

\* A stage returned sends the application back, if the lifecycle lets it.
SendBack(d) ==
  /\ At(d, "evaluate", "returning")
  /\ stand' = (IF Table!RuleFor(stand, "Revision Required") # {}
               THEN "Revision Required" ELSE stand)
  /\ Finish(d)
  /\ UNCHANGED << papers, verdicts, assigned, staff >>

\* acceptRefusal: the stages whose turn it is, when it is a stage's.
WhoseTurn ==
  CASE stand = "Under Evaluation" -> NextStages
    [] stand = "Document Verification" -> {"Initial"}
    [] OTHER -> {}

ItsTurn(c) == WhoseTurn \subseteq {StageOf[c]}

AskAccept(d) ==
  /\ At(d, "review", "working") /\ work[d].review = "Accepted"
  /\ LET c == work[d].code
         free == staff[work[d].who].superAdmin \/ KeepsRecords(work[d].who)
     IN /\ free \/ ItsTurn(c)
        /\ work' = [ work EXCEPT ![d].pc = "cleared", ![d].turn =
             IF free THEN "office" ELSE IF WhoseTurn = {} THEN "nobody"
             ELSE CHOOSE s \in WhoseTurn : TRUE ]
  /\ UNCHANGED << stand, papers, verdicts, assigned, staff >>

\* DocumentService.review writes the verdict of the copy it was asked about.
WriteVerdict(d) ==
  /\ At(d, "review", IF work[d].kind = "review" /\ work[d].review = "Accepted"
                     THEN "cleared" ELSE "working")
  /\ LET w == work[d] IN
     papers' = [ papers EXCEPT ![w.code][w.copy] =
       [ review |-> w.review, turn |-> w.turn, supersedes |-> @.supersedes ] ]
  /\ Finish(d) /\ UNCHANGED << stand, verdicts, assigned, staff >>

\* Refused, or the request dies; what it took or recorded stays.
GiveUp(d) ==
  /\ work[d] # AtRest /\ Finish(d)
  /\ UNCHANGED << stand, papers, verdicts, assigned, staff >>

-----------------------------------------------------------------------------
AskUpload(d, c, supersedes) ==
  /\ work[d] = AtRest
  /\ Ask(d, [ kind |-> "upload", pc |-> "working", code |-> c, supersedes |-> supersedes ])

\* resubmit: the copy is the latest of its line and not accepted, or was when read.
AskReplace(d, c, i) ==
  /\ ~Superseded(c, i) /\ papers[c][i].review # "Accepted" /\ AskUpload(d, c, i)

\* The upload route: another copy of a document, beside those there are.
AskAdd(d, c) == AskUpload(d, c, 0)

\* The insert.  documents_supersedes_unique refuses a second replacement.
Store(d) ==
  /\ At(d, "upload", "working") /\ Len(papers[work[d].code]) < MaxCopies
  /\ work[d].supersedes # 0 => ~Superseded(work[d].code, work[d].supersedes)
  /\ papers' = [ papers EXCEPT ![work[d].code] = Append(@, NewCopy(work[d].supersedes)) ]
  /\ Finish(d) /\ UNCHANGED << stand, verdicts, assigned, staff >>

\* assign: a lead gives it to any working member, or to nobody; a member takes
\* a free one or hands back their own.
AskAssign(d, o, t, to) ==
  /\ work[d] = AtRest /\ ~neverWorks(o, FALSE)
  /\ \/ staff[o].superAdmin \/ (staff[o].lead /\ InTeam(o))
     \/ InTeam(o) /\ to = o /\ assigned[t] = NoOne
     \/ InTeam(o) /\ to = NoOne /\ assigned[t] = o
  /\ to # NoOne => CanWork(to) /\ t \in staff[to].teams
  /\ Ask(d, [ kind |-> "assign", pc |-> "working", team |-> t, to |-> to ])

Assign(d) ==
  /\ At(d, "assign", "working")
  /\ assigned' = [ assigned EXCEPT ![work[d].team] = work[d].to ]
  /\ Finish(d) /\ UNCHANGED << stand, papers, verdicts, staff >>

\* The office changes an officer's position meanwhile.
Appoint(o, position) ==
  /\ staff[o] # position /\ staff' = [ staff EXCEPT ![o] = position ]
  /\ UNCHANGED << stand, papers, verdicts, assigned, work >>

\* A move of the lifecycle, which asks of the evaluation only that it is complete.
Advance(to) ==
  /\ \E r \in Table!RuleFor(stand, to) : "evaluations-complete" \in r.preconditions => Complete
  /\ stand' = to
  /\ UNCHANGED << papers, verdicts, assigned, staff, work >>

-----------------------------------------------------------------------------
EvaluateStep(d) ==
  \/ \E o \in Officers : AskEvaluate(d, o)
  \/ Take(d) \/ RecordVerdict(d) \/ SendBack(d) \/ GiveUp(d)

ReviewStepOf(d) ==
  \/ \E o \in Officers : AskReview(d, o)
  \/ AskAccept(d) \/ WriteVerdict(d)

CopyStep(d) ==
  \/ \E c \in Codes : AskAdd(d, c) \/ \E i \in DOMAIN papers[c] : AskReplace(d, c, i)
  \/ Store(d)

AssignStep(d) ==
  \/ \E t \in StepTeams, o \in Officers, to \in Officers \cup {NoOne} : AskAssign(d, o, t, to)
  \/ Assign(d)

EvaluationNext ==
  \/ \E d \in Desks : EvaluateStep(d) \/ ReviewStepOf(d) \/ CopyStep(d) \/ AssignStep(d)
  \/ \E o \in Officers, position \in Positions : Appoint(o, position)
  \/ \E to \in Table!LifecycleStatuses : Advance(to)

EvaluationSpec == EvaluationInit /\ [][EvaluationNext]_evaluationVars

-----------------------------------------------------------------------------
\* Every variable has its type.
EvaluationTypeOK ==
  /\ stand \in Table!LifecycleStatuses
  /\ papers \in [ Codes -> Seq(Copy) ] /\ \A c \in Codes : papers[c] # <<>>
  /\ verdicts \in [ Stages -> Results \cup {"none"} ]
  /\ assigned \in [ Teams -> Officers \cup {NoOne} ]
  /\ staff \in [ Officers -> Positions ]
  /\ work \in [ Desks -> Evaluating \cup Reviewing \cup Uploading \cup Assigning \cup {AtRest} ]

\* "A document is accepted at the stage that checks it" (acceptRefusal), and a
\* stage passes on what is there now: when it passes, each document it checks has
\* a copy that nothing has superseded and that was accepted in the stage's own
\* turn, by the records office or a super admin, or in a turn that was no stage's -
\* never in the turn of another stage, however the request overlaps with
\* replacements, added copies, moves and other verdicts.  One copy is enough: the
\* copies uploaded beside it may be unread or returned.
CheckedByItsStage ==
  [][ \A s \in Stages : ~Passed(s) /\ Passed(s)' =>
        \A c \in Codes : StageOf[c] = s =>
          \E copy \in Current(c) :
            copy.review = "Accepted" /\ copy.turn \in {s, "nobody", "office"}
    ]_evaluationVars
=============================================================================
