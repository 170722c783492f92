------------------------------ MODULE FeeBook -------------------------------
(***************************************************************************)
(* What an Order of Payment is made from: the published fee schedules and  *)
(* the ways to pay (fee-config.service.ts), and the assessment one officer *)
(* prepares, line by line, and another approves                            *)
(* (assessment-workflow.service.ts), up to the Order issued from it.       *)
(*                                                                         *)
(* Each act reads, decides, and then writes by id; but for the unique      *)
(* indexes and the trigger, nothing is asked again by the write.  FeeCase  *)
(* takes it up where an assessment is approved.                            *)
(***************************************************************************)
EXTENDS Naturals, FiniteSets

CONSTANTS
  Versions,   \* versions of the fee schedule
  Lines,      \* lines of an assessment
  Amounts,    \* what a line may cost
  MaxDay,     \* bound: days that pass
  Methods,    \* ways to pay
  Drafts,     \* ids of assessments
  Assessors,  \* officers who hold staff:assess
  SuperOnes,  \* the super admins among them
  Unset,      \* SQL null, or no row
  Tills,      \* requests in flight
  MaxOrders   \* bound: Orders of Payment

ASSUME FeeBookAssumption ==
  /\ Amounts \subseteq Nat /\ 0 \in Amounts /\ MaxDay \in Nat /\ MaxOrders \in Nat
  /\ SuperOnes \subseteq Assessors /\ IsFiniteSet(Methods)
  /\ Unset \notin Versions \cup Nat \cup Drafts \cup Assessors

VARIABLES
  today,       \* the date
  schedules,   \* fee_schedules with their entries
  open,        \* payment_methods that are active
  sheets,      \* assessments and assessment_lines of one application
  order,       \* its Order of Payment in force
  till,        \* the requests
  lateEdit,    \* a line was written after its assessment had left Draft
  lateClosing  \* two methods were turned off at once

feeBookVars == << today, schedules, open, sheets, order, till, lateEdit, lateClosing >>

OrUnset(set) == set \cup {Unset}
Line == [ computed : Amounts, amount : Amounts, included : BOOLEAN ]
SheetLines == [ Lines -> Line ]
Schedule == [ from : Nat, to : OrUnset(Nat), published : Nat, entries : [ Lines -> Amounts ] ]
\* signed is what the approver was shown; the audit entry keeps its total.
Sheet == [ status : {"Draft", "Submitted", "Approved", "Issued"}, version : Versions,
           lines : SheetLines, creator : Assessors, submitter : OrUnset(Assessors),
           approver : OrUnset(Assessors), signed : OrUnset(SheetLines) ]
Bill == [ number : Nat, sheet : Drafts, lines : SheetLines, version : Versions ]

Publishing == [ kind : {"publish"}, version : Versions, from : Nat,
                entries : [ Lines -> Amounts ], replaced : OrUnset(Versions) ]
Closing == [ kind : {"close"}, method : Methods ]
Drafting == [ kind : {"draft", "insert"}, who : Assessors, version : Versions ]
Editing == [ kind : {"edit"}, sheet : Drafts, seen : {"Draft", "Submitted", "Approved", "Issued"},
             line : Lines, amount : Amounts, included : BOOLEAN ]
Signing == [ kind : {"submit", "approve"}, sheet : Drafts, who : Assessors, shown : SheetLines ]
Billing == [ kind : {"issue", "supersede", "mark"}, sheet : Drafts, shown : SheetLines,
             version : Versions, replaces : Nat ]
TillFree == [ kind |-> "none" ]

\* A row is never the null.
ASSUME NoNullInBook == Unset \notin Schedule \cup Sheet \cup SheetLines \cup Bill

Published == { v \in Versions : schedules[v] # Unset }
Opened == { d \in Drafts : sheets[d] # Unset }
Asks(t, request) == till[t] = TillFree /\ till' = [ till EXCEPT ![t] = request ]
Doing(t, kind) == till[t].kind = kind
Leaves(t) == till' = [ till EXCEPT ![t] = TillFree ]

FeeBookInit ==
  /\ today = 0 /\ open \in (SUBSET Methods) \ {{}}
  /\ \E v \in Versions, entries \in [ Lines -> Amounts ] : schedules =
       [ w \in Versions |-> IF w = v
           THEN [ from |-> 0, to |-> Unset, published |-> 1, entries |-> entries ] ELSE Unset ]
  /\ sheets = [ d \in Drafts |-> Unset ] /\ order = Unset
  /\ till = [ t \in Tills |-> TillFree ] /\ lateEdit = FALSE /\ lateClosing = FALSE

-----------------------------------------------------------------------------
\* Schedules.

Covers(v, day) ==
  schedules[v].from <= day /\ (schedules[v].to # Unset => day < schedules[v].to)

\* scheduleInForce: the one that began last; of two that began on one day, the
\* comparison does not say which.
inForce(day) ==
  { v \in Published : Covers(v, day) /\ \A w \in Published :
      Covers(w, day) => schedules[w].from <= schedules[v].from }

\* publish, as far as it reads: the schedule it replaces is the last that began
\* before and is still open on the day.
Replaceable(from) ==
  { v \in Published : schedules[v].from < from /\ (schedules[v].to # Unset => schedules[v].to > from) }

BeginPublish(t, v, from, entries) ==
  /\ v \notin Published /\ today <= from /\ from <= MaxDay
  /\ \E replaced \in OrUnset(Versions) :
       /\ IF Replaceable(from) = {} THEN replaced = Unset
          ELSE replaced \in Replaceable(from) /\ \A w \in Replaceable(from) :
                 schedules[w].from <= schedules[replaced].from
       /\ Asks(t, [ kind |-> "publish", version |-> v, from |-> from, entries |-> entries,
                    replaced |-> replaced ])
  /\ UNCHANGED << today, schedules, open, sheets, order, lateEdit, lateClosing >>

\* Mutant: the schedule that is replaced is closed at once.
ClosedToday(from) == today

\* "Closed on the new one's effective date, not today".
ClosedOn(from) == from

\* The update by version, the insert under the primary key.
PublishSchedule(t) ==
  LET p == till[t] IN
  /\ Doing(t, "publish") /\ p.version \notin Published
  /\ schedules' = [ v \in Versions |->
       IF v = p.version THEN [ from |-> p.from, to |-> Unset,
                               published |-> Cardinality(Published) + 1, entries |-> p.entries ]
       ELSE IF v = p.replaced THEN [ schedules[v] EXCEPT !.to = ClosedOn(p.from) ]
       ELSE schedules[v] ]
  /\ Leaves(t) /\ UNCHANGED << today, open, sheets, order, lateEdit, lateClosing >>

FeeDayPasses ==
  /\ today < MaxDay /\ today' = today + 1
  /\ UNCHANGED << schedules, open, sheets, order, till, lateEdit, lateClosing >>

-----------------------------------------------------------------------------
\* setMethod: the method's own row is locked, and the others are counted.

OpenMethod(m) ==
  /\ \A t \in Tills : Doing(t, "close") => till[t].method # m
  /\ open' = open \cup {m}
  /\ UNCHANGED << today, schedules, sheets, order, till, lateEdit, lateClosing >>

NotTheLast(m) == open \ {m} # {}

BeginClosing(t, m) ==
  /\ \A o \in Tills : Doing(o, "close") => till[o].method # m
  /\ NotTheLast(m) /\ Asks(t, [ kind |-> "close", method |-> m ])
  /\ UNCHANGED << today, schedules, open, sheets, order, lateEdit, lateClosing >>

CloseMethod(t) ==
  /\ Doing(t, "close")
  /\ open' = open \ {till[t].method} /\ Leaves(t)
  /\ lateClosing' = (lateClosing \/ \E o \in Tills \ {t} : Doing(o, "close"))
  /\ UNCHANGED << today, schedules, sheets, order, lateEdit >>

-----------------------------------------------------------------------------
\* The assessment.

\* draft reads the schedule before its transaction, then whether an assessment
\* is open and an Order in force.
BeginDraft(t, officer) ==
  /\ \E v \in inForce(today) : Asks(t, [ kind |-> "draft", who |-> officer, version |-> v ])
  /\ UNCHANGED << today, schedules, open, sheets, order, lateEdit, lateClosing >>

NoneOpenYet == \A d \in Opened : sheets[d].status = "Issued"

CheckDraft(t, revision) ==
  /\ Doing(t, "draft") /\ NoneOpenYet /\ (order # Unset <=> revision)
  /\ till' = [ till EXCEPT ![t].kind = "insert" ]
  /\ UNCHANGED << today, schedules, open, sheets, order, lateEdit, lateClosing >>

\* one_open_assessment_per_application.
InsertDraft(t, d) ==
  LET w == till[t] IN
  /\ Doing(t, "insert") /\ NoneOpenYet /\ d \notin Opened
  /\ sheets' = [ sheets EXCEPT ![d] =
       [ status |-> "Draft", version |-> w.version, creator |-> w.who, submitter |-> Unset,
         approver |-> Unset, signed |-> Unset, lines |-> [ l \in Lines |->
           LET a == schedules[w.version].entries[l] IN
           [ computed |-> a, amount |-> a, included |-> TRUE ] ] ] ]
  /\ Leaves(t) /\ UNCHANGED << today, schedules, open, order, lateEdit, lateClosing >>

\* Mutant: a line is edited whatever the status.
EditableAlways(d) == TRUE

Editable(d) == sheets[d].status = "Draft"

\* setLine: load, then the line by its key.  (Its basis is not modelled.)
BeginEdit(t, d, l, amount, included) ==
  /\ d \in Opened /\ Editable(d)
  /\ Asks(t, [ kind |-> "edit", sheet |-> d, seen |-> sheets[d].status, line |-> l,
               amount |-> amount, included |-> included ])
  /\ UNCHANGED << today, schedules, open, sheets, order, lateEdit, lateClosing >>

SetLine(t) ==
  LET w == till[t] IN
  /\ Doing(t, "edit")
  /\ sheets' = [ sheets EXCEPT ![w.sheet].lines[w.line] =
       [ @ EXCEPT !.amount = w.amount, !.included = w.included ] ]
  /\ lateEdit' = (lateEdit \/ (w.seen = "Draft" /\ sheets[w.sheet].status # "Draft"))
  /\ Leaves(t) /\ UNCHANGED << today, schedules, open, order, lateClosing >>

Charges(lines) == \E l \in Lines : lines[l].included /\ lines[l].amount > 0

BeginSubmitting(t, d, officer) ==
  /\ d \in Opened /\ sheets[d].status = "Draft" /\ Charges(sheets[d].lines)
  /\ Asks(t, [ kind |-> "submit", sheet |-> d, who |-> officer, shown |-> sheets[d].lines ])
  /\ UNCHANGED << today, schedules, open, sheets, order, lateEdit, lateClosing >>

BeginApproving(t, d, officer) ==
  /\ d \in Opened /\ sheets[d].status = "Submitted"
  /\ officer \in {sheets[d].creator, sheets[d].submitter} => officer \in SuperOnes
  /\ Asks(t, [ kind |-> "approve", sheet |-> d, who |-> officer, shown |-> sheets[d].lines ])
  /\ UNCHANGED << today, schedules, open, sheets, order, lateEdit, lateClosing >>

\* approver_is_not_the_assessor_unless_super_admin, of every write of the row.
LawfulApprover(sheet) ==
  sheet.approver \in {sheet.creator, sheet.submitter} => sheet.approver \in OrUnset(SuperOnes)

SaveSheet(d, sheet) ==
  /\ LawfulApprover(sheet)
  /\ sheets' = [ sheets EXCEPT ![d] = sheet ]

Submit(t) ==
  LET w == till[t] IN
  /\ Doing(t, "submit")
  /\ SaveSheet(w.sheet, [ sheets[w.sheet] EXCEPT !.status = "Submitted", !.submitter = w.who ])
  /\ Leaves(t) /\ UNCHANGED << today, schedules, open, order, lateEdit, lateClosing >>

ApproveSheet(t) ==
  LET w == till[t] IN
  /\ Doing(t, "approve")
  /\ SaveSheet(w.sheet, [ sheets[w.sheet] EXCEPT !.status = "Approved", !.approver = w.who,
                                                 !.signed = w.shown ])
  /\ Leaves(t) /\ UNCHANGED << today, schedules, open, order, lateEdit, lateClosing >>

-----------------------------------------------------------------------------
\* The Order.

\* issue reads the approved assessment and, for the version the Order cites, the
\* schedule in force by then.
BeginIssue(t, d) ==
  /\ d \in Opened /\ sheets[d].status = "Approved" /\ order = Unset /\ Charges(sheets[d].lines)
  /\ \E v \in inForce(today) : Asks(t, [ kind |-> "issue", sheet |-> d,
       shown |-> sheets[d].lines, version |-> v, replaces |-> 0 ])
  /\ UNCHANGED << today, schedules, open, sheets, order, lateEdit, lateClosing >>

BillOf(w, number) ==
  [ number |-> number, sheet |-> w.sheet, lines |-> w.shown, version |-> w.version ]

\* orders_of_payment_in_force_idx; the assessment is marked in a statement of its own.
InsertOrder(t) ==
  /\ Doing(t, "issue") /\ order = Unset /\ order' = BillOf(till[t], 1)
  /\ till' = [ till EXCEPT ![t].kind = "mark" ]
  /\ UNCHANGED << today, schedules, open, sheets, lateEdit, lateClosing >>

MarkSheetIssued(t) ==
  /\ Doing(t, "mark")
  /\ SaveSheet(till[t].sheet, [ sheets[till[t].sheet] EXCEPT !.status = "Issued" ])
  /\ Leaves(t) /\ UNCHANGED << today, schedules, open, order, lateEdit, lateClosing >>

\* supersede cites the version of the revision, and replaces in one transaction.
BeginSupersede(t, d) ==
  /\ d \in Opened /\ sheets[d].status = "Approved" /\ order # Unset /\ Charges(sheets[d].lines)
  /\ order.number < MaxOrders
  /\ Asks(t, [ kind |-> "supersede", sheet |-> d, shown |-> sheets[d].lines,
               version |-> sheets[d].version, replaces |-> order.number ])
  /\ UNCHANGED << today, schedules, open, sheets, order, lateEdit, lateClosing >>

Supersede(t) ==
  LET w == till[t] IN
  /\ Doing(t, "supersede") /\ order.number = w.replaces
  /\ order' = BillOf(w, order.number + 1)
  /\ SaveSheet(w.sheet, [ sheets[w.sheet] EXCEPT !.status = "Issued" ])
  /\ Leaves(t) /\ UNCHANGED << today, schedules, open, lateEdit, lateClosing >>

\* A write is refused, or the request dies.
TillDies(t) ==
  /\ till[t] # TillFree /\ Leaves(t)
  /\ UNCHANGED << today, schedules, open, sheets, order, lateEdit, lateClosing >>

-----------------------------------------------------------------------------
ScheduleStep(t) ==
  \/ \E v \in Versions, from \in 0..MaxDay, entries \in [ Lines -> Amounts ] :
       BeginPublish(t, v, from, entries)
  \/ PublishSchedule(t) \/ FeeDayPasses

MethodStep(t) == \/ \E m \in Methods : OpenMethod(m) \/ BeginClosing(t, m)
                 \/ CloseMethod(t)

SheetStep(t) ==
  \/ \E officer \in Assessors : BeginDraft(t, officer)
  \/ \E revision \in BOOLEAN : CheckDraft(t, revision)
  \/ SetLine(t) \/ Submit(t) \/ ApproveSheet(t)
  \/ InsertOrder(t) \/ MarkSheetIssued(t) \/ Supersede(t)
  \/ \E d \in Drafts :
       \/ InsertDraft(t, d) \/ BeginIssue(t, d) \/ BeginSupersede(t, d)
       \/ \E officer \in Assessors : BeginSubmitting(t, d, officer) \/ BeginApproving(t, d, officer)
       \/ \E l \in Lines, amount \in Amounts, included \in BOOLEAN :
            BeginEdit(t, d, l, amount, included)

FeeBookNext ==
  \E t \in Tills : ScheduleStep(t) \/ MethodStep(t) \/ SheetStep(t) \/ TillDies(t)

FeeBookSpec == FeeBookInit /\ [][FeeBookNext]_feeBookVars

-----------------------------------------------------------------------------
\* Every variable has its type.
FeeBookTypeOK ==
  /\ today \in Nat /\ schedules \in [ Versions -> OrUnset(Schedule) ] /\ open \subseteq Methods
  /\ sheets \in [ Drafts -> OrUnset(Sheet) ] /\ order \in OrUnset(Bill)
  /\ till \in [ Tills -> Publishing \cup Closing \cup Drafting \cup Editing \cup Signing
                         \cup Billing \cup {TillFree} ]
  /\ lateEdit \in BOOLEAN /\ lateClosing \in BOOLEAN

\* The office can always charge and the applicant always pay.  There is no day
\* without a schedule, however publications for near and far dates cross:
\* "closing it early would leave a gap in which no fee could be assessed at all"
\* (publish); and some method of payment is on, as long as no two were turned
\* off at once, each request counting the other's (setMethod).
NoDayWithoutFees ==
  /\ \A day \in today..MaxDay : inForce(day) # {}
  /\ ~lateClosing => open # {}

\* The Order bills the figures a second officer approved: no officer but a
\* super admin stands behind an assessment both as approver and as the one who
\* prepared or submitted it, also when two submissions and an approval overlap;
\* and the figures are those that officer was shown ("re-computing here would
\* let an Order differ from the figures a second officer actually approved"),
\* unless a line was written by a request that had read the assessment as a
\* Draft and came after its submission.
BilledAsApproved ==
  /\ \A d \in Opened : sheets[d].approver \notin SuperOnes \cup {Unset} =>
       sheets[d].approver \notin {sheets[d].creator, sheets[d].submitter}
  /\ ~lateEdit /\ order # Unset => order.lines = sheets[order.sheet].signed
=============================================================================
