----------------------------- MODULE StaffQueue -----------------------------
(***************************************************************************)
(* What an officer sees of the work: the queue, in pages                   *)
(* (staff-queue.service.ts), and whom each application waits on            *)
(* (responsibility.ts), beside what the server lets that officer do        *)
(* (account.ts, teams.ts, step-guard.ts, visibility.ts, form-access.ts).   *)
(*                                                                         *)
(* A page is one statement; between two pages the applications move, which *)
(* changes the column they are ordered by.  That column counts             *)
(* microseconds, and a cursor milliseconds.                                *)
(***************************************************************************)
EXTENDS Naturals, Sequences, FiniteSets, Authority

CONSTANTS
  Dossiers,    \* ids of applications, in their order
  Forms,       \* permit types
  Members,     \* staff accounts
  Seats,       \* positions they are given
  FirstSeat,   \* the one each begins with
  NoDossier,   \* no row, SQL null
  PageSize,
  PerMilli,    \* moments of updated_at to a millisecond
  MaxMoment    \* bound: moments that pass

StageNames == << "Initial", "Zoning", "Fire Safety", "OBO", "Final Approval" >>
SeatStages == { StageNames[i] : i \in 1..5 }
Offices == { "receiving", "assessment", "cashier", "releasing", "records", "audit",
             "administration" } \cup SeatStages

\* An account, its staff_access and its roles; archived or disabled is not active.
Seat == [ roles : SUBSET StaffRoles, stages : SUBSET SeatStages, forms : SUBSET Forms,
          level : {"none", "view", "view-edit"}, lead : BOOLEAN, active : BOOLEAN ]

ASSUME StaffQueueAssumption ==
  /\ Dossiers \subseteq Nat /\ PageSize \in Nat \ {0} /\ PerMilli \in Nat \ {0}
  /\ MaxMoment \in Nat /\ Seats \subseteq Seat /\ FirstSeat \in Seats /\ NoDossier \notin Nat
  /\ \A s \in Seats : s.level = "none" => s.forms = {}

VARIABLES
  dossiers,    \* applications
  retired,     \* permit types set aside
  seat,        \* each account's position
  moment,      \* the time
  walk,        \* an officer's way through the pages
  disturbed,   \* history: applications that changed since it began
  shadowed     \* history: applications that share a page end's millisecond

queueVars == << dossiers, retired, seat, moment, walk, disturbed, shadowed >>

\* next is the first stage not passed, or "none"; taker, who has it in the team
\* whose step it is; own, that the applicant created it.
Dossier == [ place : StatusNames, next : SeatStages \cup {"none"}, form : Forms, own : BOOLEAN,
             archived : BOOLEAN, at : Nat, taker : Members \cup {NoDossier} ]
Cursor == [ at : Nat, id : Dossiers ]
ASSUME NoNullCursor == NoDossier \notin Cursor
Walk == [ reader : Members, shown : Seq(Dossiers), cursor : Cursor \cup {NoDossier},
          had : SUBSET Dossiers, over : BOOLEAN ]

Kept == { d \in Dossiers : dossiers[d] # NoDossier }

-----------------------------------------------------------------------------
\* scopesFor: what a token of the account carries.
ScopesOf(s) ==
  LET granted == UNION { RoleScopes(role) : role \in s.roles }
  IN  IF s.level = "view" THEN granted \cap {"audit:read"} ELSE granted

\* stepFor: the scope and the stage the step asks for; no scope when the
\* applicant must act or the application is closed.
StepScope(place, next) ==
  CASE place \in {"Submitted", "Received"} -> "staff:receive"
    [] place = "Document Verification" -> "staff:evaluate"
    [] place = "Under Evaluation" -> IF next = "none" THEN "staff:assess" ELSE "staff:evaluate"
    [] place \in {"Payment Submitted", "Payment Under Verification", "Payment Verified"}
         -> "staff:verify-payment"
    [] place \in {"For Approval", "Approved"} -> "staff:approve"
    [] place \in {"Permit Generated", "Ready for Release", "Released"} -> "staff:release"
    [] OTHER -> "none"

StepStage(place, next) ==
  IF place = "Document Verification" THEN "Initial"
  ELSE IF place = "Under Evaluation" THEN next ELSE "none"

\* teamForStep, a stage's team by the stage's name; the Building Official's is
\* that of the final approval.
TeamForStep(scope, stage) ==
  IF stage # "none" THEN stage
  ELSE CASE scope = "staff:receive" -> "receiving"
         [] scope = "staff:assess" -> "assessment"
         [] scope = "staff:verify-payment" -> "cashier"
         [] scope = "staff:approve" -> "Final Approval"
         [] scope = "staff:release" -> "releasing"
         [] OTHER -> "none"

RoleTeam(role) ==
  CASE role = "receiving-officer" -> {"receiving"}
    [] role = "records-officer" -> {"records"}
    [] role = "assessor" -> {"assessment"}
    [] role = "cashier" -> {"cashier"}
    [] role = "building-official" -> {"Final Approval"}
    [] role = "releasing-officer" -> {"releasing"}
    [] role = "auditor" -> {"audit"}
    [] role = "administrator" -> {"administration"}
    [] OTHER -> {}

teamsOf(s) ==
  (UNION { RoleTeam(role) : role \in s.roles })
    \cup (IF "evaluator" \in s.roles THEN s.stages ELSE {})

-----------------------------------------------------------------------------
\* Mutant: the roster forgets to ask for the stage.
WhateverStage(m, d) ==
  LET s == seat[m]
      scope == StepScope(dossiers[d].place, dossiers[d].next)
  IN  /\ s.active /\ s.level = "view-edit" /\ scope # "none"
      /\ \E role \in s.roles \ {"super-admin"} : scope \in RoleScopes(role)
      /\ dossiers[d].form \in s.forms

\* rosterOf and responsibilityFor: the officers an application is said to wait on.
Named(m, d) ==
  LET s == seat[m]
      scope == StepScope(dossiers[d].place, dossiers[d].next)
      stage == StepStage(dossiers[d].place, dossiers[d].next)
  IN  /\ s.active /\ s.level = "view-edit" /\ scope # "none"
      /\ \E role \in s.roles \ {"super-admin"} : scope \in RoleScopes(role)
      /\ dossiers[d].form \in s.forms
      /\ stage # "none" => stage \in s.stages

\* What an act of the step asks of an officer who is no super admin: the route,
\* its scope; StepGuard.check, the team and who has it; the service, the stage
\* and the permit type.
MayTakeStep(m, d) ==
  LET s == seat[m]
      scope == StepScope(dossiers[d].place, dossiers[d].next)
      stage == StepStage(dossiers[d].place, dossiers[d].next)
      team == TeamForStep(scope, stage)
      keeps == "applications:write" \in ScopesOf(s)
  IN  /\ s.active /\ scope \in ScopesOf(s)
      /\ dossiers[d].form \in s.forms
      /\ stage # "none" => stage \in s.stages
      /\ IF team \in teamsOf(s) /\ s.level = "view-edit"
         THEN s.lead \/ dossiers[d].taker \in {NoDossier, m}
         ELSE keeps

-----------------------------------------------------------------------------
\* formsFor: the permit types of the officer's rows, as they are assigned now.
FormsOf(s) == IF s.level = "none" THEN {} ELSE s.forms \ retired

InQueue(m) ==
  { d \in Kept : /\ dossiers[d].place = "Draft" => ~dossiers[d].own
                 /\ ~dossiers[d].archived /\ dossiers[d].form \in FormsOf(seat[m]) }

\* metrics: what the figures on the officer's dashboard count, by status, and the
\* statuses of its backlog.
byStatus(m, status) ==
  { d \in Kept : /\ dossiers[d].place = status
                 /\ status = "Draft" => ~dossiers[d].own
                 /\ ~dossiers[d].archived /\ dossiers[d].form \in FormsOf(seat[m]) }

WAITING_ON_STAFF ==
  { "Submitted", "Received", "Document Verification", "Under Evaluation", "Assessed",
    "Payment Submitted", "Payment Under Verification", "Payment Verified", "For Approval",
    "Approved", "Permit Generated", "Ready for Release" }

\* queue of evaluation.service.ts: the evaluators' worklist of one stage, whatever
\* the permit type; an application at another step is on it once it has a verdict.
evaluationQueue(m, stage) ==
  { d \in Kept : /\ ~dossiers[d].archived /\ dossiers[d].next = stage
                 /\ dossiers[d].place \in VisibleTo(ScopesOf(seat[m]))
                 /\ \/ dossiers[d].place \in { "Document Verification", "Under Evaluation",
                                               "Revision Required" }
                    \/ stage # "Initial" }

\* order by updated_at desc, id desc.
Precedes(d, e) ==
  \/ dossiers[d].at > dossiers[e].at
  \/ dossiers[d].at = dossiers[e].at /\ d > e

\* The applications of a set as the statement returns them.
InOrder(S) ==
  CHOOSE rows \in [ 1..Cardinality(S) -> S ] :
    \A i, j \in 1..Cardinality(S) : i < j => Precedes(rows[i], rows[j])

Millis(t) == (t \div PerMilli) * PerMilli

\* (updated_at, id) < cursor.
BeyondCursor(d, w) ==
  LET c == w.cursor IN
  c = NoDossier \/ dossiers[d].at < c.at \/ (dossiers[d].at = c.at /\ d < c.id)

\* Mutant: pages by offset.
RestByOffset(w) ==
  LET all == InOrder(InQueue(w.reader)) IN SubSeq(all, Len(w.shown) + 1, Len(all))

\* The rows from a page on, in order.
Rest(w) == InOrder({ d \in InQueue(w.reader) : BeyondCursor(d, w) })

-----------------------------------------------------------------------------
StaffQueueInit ==
  /\ dossiers = [ d \in Dossiers |-> NoDossier ] /\ retired = {} /\ moment = 0
  /\ seat = [ m \in Members |-> FirstSeat ]
  /\ walk = NoDossier /\ disturbed = {} /\ shadowed = {}

\* The first page is asked for.
OpenQueue(m) ==
  /\ walk' = [ reader |-> m, shown |-> << >>, cursor |-> NoDossier, had |-> InQueue(m),
               over |-> FALSE ]
  /\ disturbed' = {} /\ shadowed' = {}
  /\ UNCHANGED << dossiers, retired, seat, moment >>

\* page: one row more than its size tells whether there is another.
NextPage ==
  /\ walk # NoDossier /\ ~walk.over
  /\ LET rest == Rest(walk)
         more == Len(rest) > PageSize
         page == SubSeq(rest, 1, IF more THEN PageSize ELSE Len(rest))
         last == page[Len(page)]
     IN /\ walk' = [ walk EXCEPT !.shown = @ \o page, !.over = ~more,
                       !.cursor = IF more THEN [ at |-> Millis(dossiers[last].at), id |-> last ]
                                  ELSE @ ]
        /\ shadowed' = (IF more THEN shadowed \cup
                          { d \in InQueue(walk.reader) : /\ Precedes(last, d)
                              /\ Millis(dossiers[d].at) = Millis(dossiers[last].at) }
                        ELSE shadowed)
  /\ UNCHANGED << dossiers, retired, seat, moment, disturbed >>

\* The applications change under the reader.
Becoming(d, row) ==
  /\ dossiers' = [ dossiers EXCEPT ![d] = row ] /\ disturbed' = disturbed \cup {d}
  /\ UNCHANGED << retired, seat, moment, walk, shadowed >>

FileDossier(d, form, own, draft) ==
  /\ dossiers[d] = NoDossier
  /\ Becoming(d, [ place |-> IF draft THEN "Draft" ELSE "Submitted", next |-> "Initial",
                   form |-> form, own |-> own, archived |-> FALSE, at |-> moment,
                   taker |-> NoDossier ])

\* A move stamps the time its transaction began, in microseconds; the new step's
\* team has given it to nobody, or to a member some time before.
MoveDossier(d, place, next, taker, began) ==
  /\ d \in Kept /\ dossiers[d].place # place /\ began <= moment
  /\ Becoming(d, [ dossiers[d] EXCEPT !.place = place, !.next = next, !.taker = taker,
                                      !.at = began ])

\* A correction, archiving and restoring stamp the clock, in milliseconds.
StampDossier(d, archived) ==
  /\ d \in Kept
  /\ Becoming(d, [ dossiers[d] EXCEPT !.archived = archived, !.at = Millis(moment) ])

\* An officer is given another position, or a permit type is retired or restored.
GiveSeat(m, s) ==
  /\ seat[m] # s /\ seat' = [ seat EXCEPT ![m] = s ]
  /\ disturbed' = Dossiers
  /\ UNCHANGED << dossiers, retired, moment, walk, shadowed >>

RetireForm(form) ==
  /\ retired' = (IF form \in retired THEN retired \ {form} ELSE retired \cup {form})
  /\ disturbed' = disturbed \cup { d \in Kept : dossiers[d].form = form }
  /\ UNCHANGED << dossiers, seat, moment, walk, shadowed >>

TimePasses ==
  /\ moment < MaxMoment /\ moment' = moment + 1
  /\ UNCHANGED << dossiers, retired, seat, walk, disturbed, shadowed >>

-----------------------------------------------------------------------------
WalkStep == NextPage \/ \E m \in Members : OpenQueue(m)

DossierStep ==
  \E d \in Dossiers :
    \/ \E form \in Forms, own \in BOOLEAN, draft \in BOOLEAN : FileDossier(d, form, own, draft)
    \/ \E place \in StatusNames, next \in SeatStages \cup {"none"},
          taker \in Members \cup {NoDossier}, began \in 0..moment :
         MoveDossier(d, place, next, taker, began)
    \/ \E archived \in BOOLEAN : StampDossier(d, archived)

SeatStep ==
  \/ \E m \in Members, s \in Seats : GiveSeat(m, s)
  \/ \E form \in Forms : RetireForm(form)

QueueNext == WalkStep \/ DossierStep \/ SeatStep \/ TimePasses

QueueSpec == StaffQueueInit /\ [][QueueNext]_queueVars

-----------------------------------------------------------------------------
\* Every variable has its type.
StaffQueueTypeOK ==
  /\ dossiers \in [ Dossiers -> Dossier \cup {NoDossier} ] /\ retired \subseteq Forms
  /\ seat \in [ Members -> Seats ] /\ moment \in 0..MaxMoment
  /\ walk \in Walk \cup {NoDossier}
  /\ disturbed \subseteq Dossiers /\ shadowed \subseteq Dossiers

\* "Shows no row twice, and no untouched row not at all, while the queue moves"
\* (staff-queue.spec.ts): an application that is in the queue when an officer
\* begins to page through it, and stays as it is, is on exactly one page by the
\* end - unless it shares the millisecond of a page's last row.  The cursor cuts
\* the microseconds off, and what lies between is on no page.  The dashboard counts
\* what the pages hold and never the first page's size (metrics).
QueueMissesNothing ==
  /\ walk # NoDossier /\ walk.over =>
       \A d \in walk.had \ (disturbed \cup shadowed) :
         \E n \in DOMAIN walk.shown :
           walk.shown[n] = d /\ \A k \in DOMAIN walk.shown \ {n} : walk.shown[k] # d
  /\ \A m \in Members : UNION { byStatus(m, status) : status \in StatusNames } = InQueue(m)

\* "A stored assignment would be a second answer to 'whose is this', free to
\* disagree with who the server actually lets act" (responsibility.ts): the
\* derived answer does not.  Whoever may take its step, with a token of today, is
\* among the officers an application is said to wait on, and of those the lead and
\* the member who has it, or all while nobody has it, may take it; and what they
\* work from shows it to them: the dashboard's backlog, which forgets a permit that
\* was released, and the worklist of the stage that is being evaluated.
WaitsOnWhoMayAct ==
  \A m \in Members, d \in Kept :
    LET s == seat[m]
        free == dossiers[d].taker \in {NoDossier, m} \/ s.lead
    IN  /\ "super-admin" \notin s.roles =>
             /\ MayTakeStep(m, d) => Named(m, d)
             /\ Named(m, d) /\ free => MayTakeStep(m, d)
        /\ Named(m, d) =>
             /\ dossiers[d].place \in VisibleTo(ScopesOf(s))
             /\ dossiers[d].place \in WAITING_ON_STAFF \cup {"Released"}
             /\ dossiers[d].place = "Under Evaluation" /\ dossiers[d].next # "none"
                  /\ ~dossiers[d].archived => d \in evaluationQueue(m, dossiers[d].next)
=============================================================================
