------------------------------ MODULE Worklist ------------------------------
(***************************************************************************)
(* What the office is told: the rows of staff_notifications                *)
(* (staff-notification.service.ts), whom a move routes them to             *)
(* (staff-recipients.ts), and the sweep that finds Orders of Payment       *)
(* overdue (overdueAssessmentJob), which tells the applicant and the       *)
(* office in one transaction per Order, and looks up whom it has told by   *)
(* the application.                                                        *)
(*                                                                         *)
(* A move tells the office inside its transaction, before it commits; an   *)
(* officer may read in between.  A run of the sweep reads what is overdue  *)
(* in one statement, and works it off; once its lease has run out, another *)
(* replica may begin.                                                      *)
(***************************************************************************)
EXTENDS Authority, FiniteSets, Naturals
LOCAL Engine == INSTANCE LifecycleRules

CONSTANTS
  Papers,      \* applications
  Stewards,    \* staff accounts
  HatsOf,      \* the roles of each
  Sweeps,      \* runs of overdue-assessments
  NoMove,      \* no transaction; an actor who is not of the staff
  FirstStatuses, \* statuses the applications may be at
  MaxMoved,    \* bound: moves of the applications
  MaxBills,    \* bound: Orders of Payment of an application
  MaxSwept     \* bound: runs

ASSUME WorklistAssumption ==
  /\ HatsOf \in [ Stewards -> SUBSET StaffRoles ] /\ FirstStatuses \subseteq StatusNames
  /\ MaxMoved \in Nat /\ MaxBills \in Nat /\ MaxSwept \in Nat

VARIABLES
  paper,      \* applications, the Order in force of each and the payments of all its Orders
  inbox,      \* staff_notifications
  feed,       \* the applicants' notices of type payment-overdue
  crossing,   \* a move under way, by application
  round,      \* runs under way
  enabled,    \* accounts not disabled
  owed,       \* history: who has been told of what since they read of it last
  missed,     \* history: those who read an old notice while a new one was held back for it
  overlapped, \* history: a run has begun beside another
  moved, swept

worklistVars == << paper, inbox, feed, crossing, round, enabled, owed, missed, overlapped,
                   moved, swept >>

\* The Order in force is the last, 0 for none; an earlier one was superseded by the
\* next.  One payment stands for those of an Order.
Payment == [ order : Nat, status : {"Pending Verification", "Overdue", "Paid"} ]
Paper == [ place : StatusNames, order : Nat, due : SUBSET Nat,
           payments : SUBSET Payment, archived : BOOLEAN ]
StaffNotice == [ to : Stewards, paper : Papers, place : StatusNames, read : BOOLEAN,
                 type : {"awaiting you", "assessment overdue", "document resubmitted"} ]
Topic(n) == << n.to, n.paper, n.type >>
Unread == { Topic(n) : n \in { k \in inbox : ~k.read } }
FeedEntry == [ paper : Papers, order : Nat, nth : Nat, read : BOOLEAN, resolved : BOOLEAN ]
Todo == SUBSET [ paper : Papers, order : Nat, place : StatusNames ]
Round == [ on : BOOLEAN, todo : Todo, late : BOOLEAN ]

-----------------------------------------------------------------------------
\* Routing.

\* The first move out of a status, in the order of the table, is the one the
\* process expects; out of a terminal one none is.
ExpectedMove ==
  << << "Draft", "Submitted" >>, << "Submitted", "Received" >>,
     << "Received", "Document Verification" >>, << "Document Verification", "Under Evaluation" >>,
     << "Under Evaluation", "Assessed" >>, << "Revision Required", "Under Evaluation" >>,
     << "Assessed", "Payment Submitted" >>,
     << "Payment Submitted", "Payment Under Verification" >>,
     << "Payment Under Verification", "Payment Verified" >>,
     << "Payment Verified", "For Approval" >>, << "For Approval", "Approved" >>,
     << "Approved", "Permit Generated" >>, << "Permit Generated", "Ready for Release" >>,
     << "Ready for Release", "Released" >>, << "Released", "Completed" >> >>

\* The first staff move out, where it is another.
StalledMove ==
  { << "Revision Required", "Cancelled" >>, << "Assessed", "Cancelled" >>,
    << "Cancelled", "Submitted" >>, << "Rejected", "Submitted" >>, << "Expired", "Submitted" >> }

seesEverything(role) == VisibleTo(RoleScopes(role)) = StatusNames
canSee(role, status) == status \in VisibleTo(RoleScopes(role))

\* decide: the roles that hold the scope of the move and see the status, the
\* narrow ones if there are any.
decide(rule) ==
  LET holders == { role \in StaffRoles : /\ rule.requires \in RoleScopes(role)
                                         /\ canSee(role, rule.from) }
      narrow == { role \in holders : ~seesEverything(role) }
  IN  IF narrow # {} THEN narrow ELSE holders

recipientsFor(status) ==
  UNION { decide(r) : r \in { rule \in Engine!TRANSITIONS :
            /\ rule.from = status /\ "staff" \in rule.actors
            /\ \E i \in DOMAIN ExpectedMove : ExpectedMove[i] = << status, rule.to >> } }

recipientsWhenApplicantStalls(status) ==
  UNION { decide(r) : r \in { rule \in Engine!TRANSITIONS :
            /\ rule.from = status /\ "staff" \in rule.actors
            /\ IF \E to \in StatusNames : << status, to >> \in StalledMove
               THEN << status, rule.to >> \in StalledMove
               ELSE \E i \in DOMAIN ExpectedMove : ExpectedMove[i] = << status, rule.to >> } }

Holders(roles) == { s \in enabled : HatsOf[s] \cap roles # {} }

-----------------------------------------------------------------------------
\* Mutant: once told of an application, never again.
toldEver(told, p, type) ==
  { s \in told : \A n \in inbox : Topic(n) # << s, p, type >> }

\* on conflict do nothing: one unread notice of a type to an officer about an
\* application.
writeTo(told, p, type) == { s \in told : << s, p, type >> \notin Unread }

Copies(told, p, type, place) ==
  { [ to |-> s, paper |-> p, type |-> type, place |-> place, read |-> FALSE ] :
    s \in writeTo(told, p, type) }
Owing(told, p, type) == owed' = owed \cup (told \X {p} \X {type})

WorklistInit ==
  /\ paper \in [ Papers -> [ place : FirstStatuses, order : {0}, due : {{}},
                             payments : {{}}, archived : {FALSE} ] ]
  /\ inbox = {} /\ feed = {} /\ enabled = Stewards
  /\ crossing = [ p \in Papers |-> NoMove ]
  /\ round = [ i \in Sweeps |-> [ on |-> FALSE, todo |-> {}, late |-> FALSE ] ]
  /\ owed = {} /\ missed = {} /\ overlapped = FALSE /\ moved = 0 /\ swept = 0

\* announceArrival, in the transaction of the move: nobody is told of their own act.
Announce(p, rule, by) ==
  /\ crossing[p] = NoMove /\ moved < MaxMoved /\ moved' = moved + 1
  /\ rule.from = paper[p].place
  /\ LET told == Holders(recipientsFor(rule.to)) \ {by} IN
     crossing' = [ crossing EXCEPT ![p] =
       [ to |-> rule.to, told |-> told,
         rows |-> Copies(told, p, "awaiting you", rule.to) ] ]
  /\ UNCHANGED << paper, inbox, feed, round, enabled, owed, missed, overlapped, swept >>

CommitMove(p) ==
  /\ crossing[p] # NoMove
  /\ paper' = [ paper EXCEPT ![p].place = crossing[p].to ]
  /\ inbox' = inbox \cup crossing[p].rows
  /\ Owing(crossing[p].told, p, "awaiting you")
  /\ crossing' = [ crossing EXCEPT ![p] = NoMove ]
  /\ UNCHANGED << feed, round, enabled, missed, overlapped, moved, swept >>

RollBackMove(p) ==
  /\ crossing[p] # NoMove /\ crossing' = [ crossing EXCEPT ![p] = NoMove ]
  /\ UNCHANGED << paper, inbox, feed, round, enabled, owed, missed, overlapped, moved, swept >>

\* markRead, by the officer it was written to.
MarkRead(n) ==
  /\ n \in inbox /\ ~n.read
  /\ inbox' = (inbox \ {n}) \cup {[ n EXCEPT !.read = TRUE ]}
  /\ owed' = owed \ {Topic(n)}
  /\ missed' = IF crossing[n.paper] # NoMove /\ n.type = "awaiting you"
               THEN missed \cup {Topic(n)} ELSE missed
  /\ UNCHANGED << paper, feed, crossing, round, enabled, overlapped, moved, swept >>

\* tellRecordsOfficers, a statement after the applicant's document is stored.
TellRecords(p) ==
  /\ paper[p].place # "Draft"
  /\ LET told == Holders({"records-officer"}) IN
     /\ inbox' = inbox \cup Copies(told, p, "document resubmitted", paper[p].place)
     /\ Owing(told, p, "document resubmitted")
  /\ UNCHANGED << paper, feed, crossing, round, enabled, missed, overlapped, moved, swept >>

Disable(s) ==
  /\ s \in enabled /\ enabled' = enabled \ {s}
  /\ UNCHANGED << paper, inbox, feed, crossing, round, owed, missed, overlapped, moved, swept >>

-----------------------------------------------------------------------------
\* An Order is issued, or one that supersedes it; its due date passes; proof of a
\* payment against it comes in, and the cashier verifies a payment, one of an
\* application for good, which does not look at its status or its Order; the
\* application is put away, or brought back.
PaperBecomes(p, row) ==
  /\ paper' = [ paper EXCEPT ![p] = row ]
  /\ UNCHANGED << inbox, feed, crossing, round, enabled, owed, missed, overlapped, moved, swept >>

Settled(p) == \E y \in paper[p].payments : y.status = "Paid"

IssueBill(p) ==
  /\ paper[p].order < MaxBills
  /\ PaperBecomes(p, [ paper[p] EXCEPT !.order = @ + 1 ])
FallDue(p) ==
  /\ paper[p].order # 0
  /\ PaperBecomes(p, [ paper[p] EXCEPT !.due = @ \cup {paper[p].order} ])
ProvePayment(p) ==
  /\ paper[p].order # 0 /\ ~Settled(p)
  /\ \A y \in paper[p].payments : y.order # paper[p].order
  /\ PaperBecomes(p, [ paper[p] EXCEPT !.payments = @ \cup
                         {[ order |-> paper[p].order, status |-> "Pending Verification" ]} ])
VerifyPayment(p) ==
  /\ ~Settled(p)
  /\ \E y \in paper[p].payments :
       PaperBecomes(p, [ paper[p] EXCEPT !.payments = (@ \ {y}) \cup
                              {[ order |-> y.order, status |-> "Paid" ]} ])
Shelve(p) == PaperBecomes(p, [ paper[p] EXCEPT !.archived = ~@ ])

\* Mutant: whoever has read the notice is told again.
notReminded == { p \in Papers : \A e \in feed : e.paper = p => e.read }

\* No notice of the application yet, of whichever Order and whatever became of it.
notTold == { p \in Papers : \A e \in feed : e.paper # p }

Overdue ==
  { p \in notTold : /\ paper[p].order \in paper[p].due /\ ~paper[p].archived
                    /\ [ order |-> paper[p].order, status |-> "Paid" ] \notin paper[p].payments }

\* The run: claimed when no lease on it stands.
StartSweep(i) ==
  /\ swept < MaxSwept /\ swept' = swept + 1
  /\ ~round[i].on /\ \A k \in Sweeps : round[k].on => round[k].late
  /\ overlapped' = (overlapped \/ \E k \in Sweeps : round[k].on)
  /\ round' = [ round EXCEPT ![i] = [ on |-> TRUE, late |-> FALSE,
       todo |-> { [ paper |-> p, order |-> paper[p].order, place |-> paper[p].place ] :
                 p \in Overdue } ] ]
  /\ UNCHANGED << paper, inbox, feed, crossing, enabled, owed, missed, moved >>

\* Mutant: the payments of the application are marked, of whichever Order.
MarkedAll(payments, order) ==
  { IF y.status = "Pending Verification"
    THEN [ order |-> y.order, status |-> "Overdue" ] ELSE y : y \in payments }

\* The payments not verified of an Order go overdue with it, and of no other.
Marked(payments, order) ==
  { IF y.order = order /\ y.status = "Pending Verification"
    THEN [ order |-> y.order, status |-> "Overdue" ] ELSE y : y \in payments }

\* One Order, as it was read, be it superseded by now: its payments, the applicant,
\* the officers who must decide.  Nothing is asked again.
SweepOne(i) ==
  /\ round[i].on
  /\ \E item \in round[i].todo :
       LET p == item.paper
           told == Holders(recipientsWhenApplicantStalls(item.place))
       IN  /\ paper' = [ paper EXCEPT ![p].payments = Marked(@, item.order) ]
           /\ feed' = feed \cup {[ paper |-> p, order |-> item.order, nth |-> Cardinality(feed) + 1,
                                   read |-> FALSE, resolved |-> FALSE ]}
           /\ inbox' = inbox \cup Copies(told, p, "assessment overdue", item.place)
           /\ Owing(told, p, "assessment overdue")
           /\ round' = [ round EXCEPT ![i].todo = @ \ {item} ]
  /\ UNCHANGED << crossing, enabled, missed, overlapped, moved, swept >>

\* It is over, or its process dies; or it outlives its lease.
EndSweep(i) ==
  /\ round[i].on /\ round' = [ round EXCEPT ![i] = [ on |-> FALSE, todo |-> {}, late |-> FALSE ] ]
  /\ UNCHANGED << paper, inbox, feed, crossing, enabled, owed, missed, overlapped, moved, swept >>
LeaseRunsOut(i) ==
  /\ round[i].on /\ ~round[i].late /\ round' = [ round EXCEPT ![i].late = TRUE ]
  /\ UNCHANGED << paper, inbox, feed, crossing, enabled, owed, missed, overlapped, moved, swept >>

\* The applicant opens a notice, or says the act is done.
ReadOwn(e) ==
  /\ e \in feed /\ ~e.read /\ feed' = (feed \ {e}) \cup {[ e EXCEPT !.read = TRUE ]}
  /\ UNCHANGED << paper, inbox, crossing, round, enabled, owed, missed, overlapped, moved,
                  swept >>
ResolveOwn(e) ==
  /\ e \in feed /\ ~e.resolved /\ feed' = (feed \ {e}) \cup {[ e EXCEPT !.resolved = TRUE ]}
  /\ UNCHANGED << paper, inbox, crossing, round, enabled, owed, missed, overlapped, moved,
                  swept >>

-----------------------------------------------------------------------------
ArrivalStep ==
  \/ \E p \in Papers : \/ CommitMove(p) \/ RollBackMove(p) \/ TellRecords(p)
                       \/ \E rule \in Engine!TRANSITIONS, by \in Stewards \cup {NoMove} :
                            Announce(p, rule, by)
  \/ \E n \in inbox : MarkRead(n)
  \/ \E s \in Stewards : Disable(s)

OverdueStep ==
  \/ \E p \in Papers : \/ IssueBill(p) \/ FallDue(p) \/ ProvePayment(p) \/ VerifyPayment(p)
                       \/ Shelve(p)
  \/ \E i \in Sweeps : StartSweep(i) \/ SweepOne(i) \/ EndSweep(i) \/ LeaseRunsOut(i)
  \/ \E e \in feed : ReadOwn(e) \/ ResolveOwn(e)

WorklistNext == ArrivalStep \/ OverdueStep

WorklistSpec == WorklistInit /\ [][WorklistNext]_worklistVars

-----------------------------------------------------------------------------
\* Every variable has its type.
WorklistTypeOK ==
  /\ paper \in [ Papers -> Paper ] /\ inbox \subseteq StaffNotice
  /\ feed \subseteq FeedEntry /\ round \in [ Sweeps -> Round ] /\ enabled \subseteq Stewards

\* "At most one unread; but once they have read it and the application comes
\* back, that is news" (030_staff_notifications.sql): whoever an application waits
\* on, or is told of a document or of an Order overdue, has a notice of it they
\* have not read since - but for an officer who reads the old one while the move
\* that would have told them again holds its own back for it.
TheWaitingAreTold == owed \subseteq Unread \cup missed

\* The two of a transaction "cannot disagree about whether an Order went overdue"
\* (jobs.ts:204-205): no payment is overdue but one of an Order the applicant was
\* told of, whatever Order is in force by then.  And the statutory notice is sent
\* once however often the sweep runs, dies or is cut short, but for a run that
\* outlives its lease and goes on beside the next.  Once an application, not once an
\* Order as jobs.ts:187-193 and 239 say: the lookup (240-242) goes by the
\* application, so that no Order is told of twice, and one that supersedes an Order
\* already told of is not told of at all.
OverdueToldOnce ==
  /\ \A p \in Papers : \A y \in paper[p].payments :
       y.status = "Overdue" => \E e \in feed : e.paper = p /\ e.order = y.order
  /\ ~overlapped => \A e, f \in feed : e.paper = f.paper => e.nth = f.nth
=============================================================================
