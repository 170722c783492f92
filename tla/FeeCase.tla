------------------------------ MODULE FeeCase ------------------------------
(***************************************************************************)
(* The fee of one application, from the approved assessment to the permit  *)
(* handed over: AssessmentService, PaymentService and PermitService, and   *)
(* the moves of the application that their acts imply (followOn).          *)
(*                                                                         *)
(* A client's act is a session.  What the source reads outside the         *)
(* statement or transaction that writes is a step of its own ("checked"),  *)
(* and so is every autocommitted statement after it: the write, the        *)
(* follow-on's reading of the status, each of its hops.  Sessions          *)
(* interleave between them and may die between them.  A refusal leaves     *)
(* everything as it was, so an act that would be refused is not started.   *)
(* A lifecycle transition is one step here: Lifecycle shows that the row   *)
(* lock makes it one.                                                      *)
(***************************************************************************)
EXTENDS LifecycleRules, Sequences

CONSTANTS
  Owner,        \* the applicant's account
  Officers,     \* staff accounts, each holding every scope the acts ask for
  SuperAdmins,  \* the officers among them who are Super Admin
  Requests,     \* sessions
  Keys,         \* Idempotency-Key values
  Assessments,  \* ids of assessments two officers bring to Approved
  Orders,       \* ids of orders_of_payment rows
  Payments,     \* ids of payments rows
  Nothing,      \* SQL null
  Acts,         \* the acts clients ask for
  Asked,        \* the moves, as <<from, to>>, officers and applicant make by hand
  Crashes       \* whether sessions may die

ActKind == { "proof", "onsite", "verify", "reject", "void", "reverse", "refund",
             "issue", "supersede", "generate", "prepare", "release" }

ASSUME FeeCaseAssumption ==
  /\ Owner \notin Officers /\ SuperAdmins \subseteq Officers
  /\ Nothing \notin Officers \cup {Owner} \cup Keys
                    \cup Assessments \cup Orders \cup Payments
  /\ Acts \subseteq ActKind
  /\ Asked \subseteq LifecycleStatuses \X LifecycleStatuses
  /\ Crashes \in BOOLEAN

VARIABLES
  status,       \* applications.lifecycle_status
  assessments,  \* assessments: not yet, Approved, or Issued
  orders,       \* orders_of_payment
  payments,     \* payments
  keys,         \* idempotency_keys of payment.submit and payment.record-onsite
  permit,       \* whether generated_permits has the application's row
  release,      \* permit_releases: no row, prepared, released
  s             \* the sessions

vars == << status, assessments, orders, payments, keys, permit, release, s >>

Accounts == Officers \cup {Owner}
Maybe(set) == set \cup {Nothing}

Undone == {"Voided", "Reversed", "Refunded"}
PaymentStatus == {"Not Yet Available", "Pending Verification", "Paid"} \cup Undone

Order == [ state : {"none", "in force", "superseded"},
           assessment : Maybe(Assessments) ]
\* key is the account and the key of the request that recorded it.
Payment == [ status : PaymentStatus \cup {"none"}, verifier : Maybe(Officers),
             undoer : Maybe(Officers), order : Maybe(Orders), key : Maybe(Accounts \X Keys) ]
Hop == [ by : Accounts, to : LifecycleStatuses ]
Session == [ pc : {"idle", "checked", "inserted", "rejected", "written", "hopping"},
             act : ActKind, by : Accounts, payment : Maybe(Payments),
             order : Maybe(Orders), assessment : Maybe(Assessments),
             key : Maybe(Keys), hops : Seq(Hop) ]

NoOrder == [ state |-> "none", assessment |-> Nothing ]
NoPayment == [ status |-> "none", verifier |-> Nothing, undoer |-> Nothing,
               order |-> Nothing, key |-> Nothing ]
Idle == [ pc |-> "idle", act |-> "proof", by |-> Owner, payment |-> Nothing,
          order |-> Nothing, assessment |-> Nothing, key |-> Nothing, hops |-> <<>> ]

-----------------------------------------------------------------------------
\* What the statements read.

InForce == { o \in Orders : orders[o].state = "in force" }
Recorded == { p \in Payments : payments[p].status # "none" }
Verified == { p \in Payments : payments[p].verifier # Nothing }
approvedFor == { a \in Assessments : assessments[a] = "Approved" }

\* The preconditions SNAPSHOT_SQL reads.  Documents and evaluations are
\* complete and every instruction is answered in the cases modelled here.
Met ==
  Documents \cup
  { "all-instructions-resolved", "returned-documents-replaced",
    "evaluations-complete" } \cup
  { e \in {"order-of-payment-issued"} : InForce # {} } \cup
  { e \in {"payment-proof-submitted"} : Recorded # {} } \cup
  { e \in {"payment-verified"} : Verified # {} } \cup
  { e \in {"permit-generated"} : permit } \cup
  { e \in {"permit-released"} : release = "released" }

CallerOf(account) ==
  [ kind |-> IF account = Owner THEN "applicant" ELSE "staff",
    scopes |-> IF account = Owner THEN {"applications:write", "payments:write"}
               ELSE Scope,
    owner |-> account = Owner ]

Allows(account, to) ==
  decide([ status |-> status, version |-> 1, met |-> Met ], CallerOf(account),
         to, Unchecked) = "ok"

-----------------------------------------------------------------------------
\* The moves each act implies, in the order its route makes them.

By(account, statuses) ==
  [i \in 1..Len(statuses) |-> [ by |-> account, to |-> statuses[i] ]]

Settling == << "Payment Under Verification", "Payment Verified", "For Approval" >>

Implied(act, by) ==
  CASE act = "proof" -> By(Owner, << "Payment Submitted" >>)
    [] act = "onsite" -> By(Owner, << "Payment Submitted" >>) \o By(by, Settling)
    [] act = "verify" -> By(by, Settling)
    [] act = "reject" -> By(by, << "Payment Submitted", "Assessed" >>)
    [] act = "issue" -> By(by, << "Assessed" >>)
    [] act = "generate" -> By(by, << "Permit Generated" >>)
    [] act = "prepare" -> By(by, << "Ready for Release" >>)
    [] act = "release" -> By(by, << "Released", "Completed" >>)
    [] OTHER -> <<>>

\* Every evaluation stage has passed and nothing has been assessed yet.
Init ==
  /\ status = "Under Evaluation"
  /\ assessments = [a \in Assessments |-> "none"]
  /\ orders = [o \in Orders |-> NoOrder]
  /\ payments = [p \in Payments |-> NoPayment]
  /\ keys = {}
  /\ permit = FALSE /\ release = "none"
  /\ s = [r \in Requests |-> Idle]

Free(r, act) == s[r].pc = "idle" /\ act \in Acts
At(r, pc, acts) == s[r].pc = pc /\ s[r].act \in acts

\* What a session read stays with it until it writes.
Reads(r, session) == s' = [s EXCEPT ![r] = session]
Ends(r) == s' = [s EXCEPT ![r] = Idle]

\* The write is committed; the moves it implies come next.  The applicant's
\* route makes its one move at once, the officers' routes through followOn.
Written(r, act, by) ==
  s' = [s EXCEPT ![r] =
    [Idle EXCEPT !.pc = IF act = "proof" THEN "hopping" ELSE "written",
                 !.act = act, !.by = by, !.hops = Implied(act, by)]]

-----------------------------------------------------------------------------
\* The database's own rules.  A statement that breaks one raises, and its
\* transaction is rolled back.

\* Mutant: no unique index over verified payments.
unindexedPayments(p) == TRUE

payments_one_verified_idx(p) == Verified \subseteq {p}

orders_of_payment_in_force_idx(superseded) == InForce \subseteq superseded

idempotency_keys_pkey(by, key) == << by, key >> \notin keys

\* The status may not leave the three while the row names who undid it.
exception_is_attributable(p) == payments[p].undoer = Nothing

\* An undo holds the payment's row from its read to its commit.
RowFree(p) ==
  \A r \in Requests :
    At(r, "checked", {"void", "reverse", "refund"}) => s[r].payment # p

-----------------------------------------------------------------------------
\* Two officers bring an assessment to Approved; at most one is open.
approve(a) ==
  /\ assessments[a] = "none" /\ approvedFor = {}
  /\ assessments' = [assessments EXCEPT ![a] = "Approved"]
  /\ UNCHANGED << status, orders, payments, keys, permit, release, s >>

\* issue: an approved assessment and no Order in force, read outside any
\* transaction; the insert and markIssued are autocommitted one by one.
IssueCheck(r, officer) ==
  /\ Free(r, "issue")
  /\ InForce = {}
  /\ \E a \in approvedFor :
       Reads(r, [Idle EXCEPT !.pc = "checked", !.act = "issue", !.by = officer,
                             !.assessment = a])
  /\ UNCHANGED << status, assessments, orders, payments, keys, permit, release >>

insertOrder(o, assessment, superseded) ==
  /\ orders[o].state = "none"
  /\ orders_of_payment_in_force_idx(superseded)
  /\ orders' = [x \in Orders |->
       IF x = o THEN [ state |-> "in force", assessment |-> assessment ]
       ELSE IF x \in superseded THEN [orders[x] EXCEPT !.state = "superseded"]
       ELSE orders[x]]

IssueInsert(r) ==
  /\ At(r, "checked", {"issue"})
  /\ \E o \in Orders : insertOrder(o, s[r].assessment, {})
  /\ Reads(r, [s[r] EXCEPT !.pc = "inserted"])
  /\ UNCHANGED << status, assessments, payments, keys, permit, release >>

MarkIssued(r) ==
  /\ At(r, "inserted", {"issue"})
  /\ assessments' = [assessments EXCEPT ![s[r].assessment] = "Issued"]
  /\ Written(r, "issue", s[r].by)
  /\ UNCHANGED << status, orders, payments, keys, permit, release >>

\* supersede: the Order and the approved revision are read outside the
\* transaction that retires the one and issues the other.
SupersedeCheck(r, officer) ==
  /\ Free(r, "supersede")
  /\ \E o \in InForce, a \in approvedFor :
       Reads(r, [Idle EXCEPT !.pc = "checked", !.act = "supersede", !.by = officer,
                             !.order = o, !.assessment = a])
  /\ UNCHANGED << status, assessments, orders, payments, keys, permit, release >>

SupersedeWrite(r) ==
  /\ At(r, "checked", {"supersede"})
  /\ \E o \in Orders : insertOrder(o, s[r].assessment, {s[r].order})
  /\ assessments' = [assessments EXCEPT ![s[r].assessment] = "Issued"]
  /\ Ends(r)
  /\ UNCHANGED << status, payments, keys, permit, release >>

-----------------------------------------------------------------------------
\* Payments.

\* What both ways to pay ask for.
Payable == InForce # {} /\ Verified = {}

\* submitProof: key, Order and verified payment are read before the transaction
\* that inserts the row and the key.
PayCheck(r, act, by, key) ==
  /\ Free(r, act)
  /\ << by, key >> \notin keys
  /\ Payable
  /\ \E o \in InForce :
       Reads(r, [Idle EXCEPT !.pc = "checked", !.act = act, !.by = by,
                             !.order = o, !.key = key])
  /\ UNCHANGED << status, assessments, orders, payments, keys, permit, release >>

ProofCheck(r, key) == PayCheck(r, "proof", Owner, key)

\* recordOnsite reads the same inside its transaction, in one statement whose
\* snapshot is older than the row lock it waits for.
OnsiteCheck(r, cashier, key) == PayCheck(r, "onsite", cashier, key)

Pays(r, payment) ==
  /\ idempotency_keys_pkey(s[r].by, s[r].key)
  /\ keys' = keys \cup {<< s[r].by, s[r].key >>}
  /\ \E p \in Payments \ Recorded :
       /\ payment.verifier # Nothing => payments_one_verified_idx(p)
       /\ payments' = [payments EXCEPT ![p] = payment]
  /\ Written(r, s[r].act, s[r].by)
  /\ UNCHANGED << status, assessments, orders, permit, release >>

ProofWrite(r) ==
  /\ At(r, "checked", {"proof"})
  /\ Pays(r, [NoPayment EXCEPT !.status = "Pending Verification",
                               !.order = s[r].order, !.key = << s[r].by, s[r].key >>])

OnsiteWrite(r) ==
  /\ At(r, "checked", {"onsite"})
  /\ Pays(r, [NoPayment EXCEPT !.status = "Paid", !.verifier = s[r].by,
                               !.order = s[r].order, !.key = << s[r].by, s[r].key >>])

\* verify: one read, then an update that asks nothing more of the row.
VerifyCheck(r, officer, p) ==
  /\ Free(r, "verify")
  /\ p \in Recorded \ Verified
  /\ Reads(r, [Idle EXCEPT !.pc = "checked", !.act = "verify", !.by = officer,
                           !.payment = p])
  /\ UNCHANGED << status, assessments, orders, payments, keys, permit, release >>

VerifyWrite(r) ==
  LET p == s[r].payment IN
  /\ At(r, "checked", {"verify"})
  /\ RowFree(p)
  /\ exception_is_attributable(p)
  /\ payments_one_verified_idx(p)
  /\ payments' = [payments EXCEPT ![p].status = "Paid", ![p].verifier = s[r].by]
  /\ Written(r, "verify", s[r].by)
  /\ UNCHANGED << status, assessments, orders, keys, permit, release >>

\* reject: an update where verified_at is null, then, outside it, whether
\* another payment is being checked or settled.
Reject(r, officer, p) ==
  /\ Free(r, "reject")
  /\ p \in Recorded \ Verified
  /\ RowFree(p)
  /\ exception_is_attributable(p)
  /\ payments' = [payments EXCEPT ![p].status = "Not Yet Available"]
  /\ Reads(r, [Idle EXCEPT !.pc = "rejected", !.act = "reject", !.by = officer,
                           !.payment = p])
  /\ UNCHANGED << status, assessments, orders, keys, permit, release >>

anotherPaymentOpen(p) ==
  \E q \in Payments \ {p} : payments[q].status \in {"Pending Verification", "Paid"}

RejectOthers(r) ==
  /\ At(r, "rejected", {"reject"})
  /\ IF anotherPaymentOpen(s[r].payment) THEN Ends(r)
     ELSE Written(r, "reject", s[r].by)
  /\ UNCHANGED << status, assessments, orders, payments, keys, permit, release >>

Undoing == [ void |-> "Voided", reverse |-> "Reversed", refund |-> "Refunded" ]

\* Mutant: whoever verified a payment may also undo it.
MayUndoOwn(act, officer, p) == act = "void" <=> payments[p].status # "Paid"

\* A confirmed payment is reversed or refunded, by another officer; one that
\* does not stand at Paid is voided.
MayUndo(act, officer, p) ==
  /\ act = "void" <=> payments[p].status # "Paid"
  /\ act = "void" \/ payments[p].verifier # officer \/ officer \in SuperAdmins

\* undo: one transaction.  The payment's row is locked; the permit is only read.
UndoCheck(r, act, officer, p) ==
  /\ Free(r, act)
  /\ p \in Recorded /\ RowFree(p)
  /\ ~permit
  /\ MayUndo(act, officer, p)
  /\ Reads(r, [Idle EXCEPT !.pc = "checked", !.act = act, !.by = officer,
                           !.payment = p])
  /\ UNCHANGED << status, assessments, orders, payments, keys, permit, release >>

UndoWrite(r) ==
  /\ At(r, "checked", DOMAIN Undoing)
  /\ payments' = [payments EXCEPT ![s[r].payment].status = Undoing[s[r].act],
                                  ![s[r].payment].undoer = s[r].by]
  /\ Ends(r)
  /\ UNCHANGED << status, assessments, orders, keys, permit, release >>

-----------------------------------------------------------------------------
\* The permit.

\* Mutant: a permit is generated at any status.
GeneratableEarly == ~permit

Generatable == status = "Approved" /\ ~permit

\* generate: the application's row is locked before its status is read.
generate(r, officer) ==
  /\ Free(r, "generate")
  /\ Generatable
  /\ permit' = TRUE
  /\ Written(r, "generate", officer)
  /\ UNCHANGED << status, assessments, orders, payments, keys, release >>

\* prepareRelease: an upsert that leaves a release already made as it is.
prepareRelease(r, officer) ==
  /\ Free(r, "prepare")
  /\ permit
  /\ release' = IF release = "none" THEN "prepared" ELSE release
  /\ Written(r, "prepare", officer)
  /\ UNCHANGED << status, assessments, orders, payments, keys, permit >>

Releasable == status = "Ready for Release" /\ release = "prepared"

releasePermit(r, officer) ==
  /\ Free(r, "release")
  /\ Releasable
  /\ release' = "released"
  /\ Written(r, "release", officer)
  /\ UNCHANGED << status, assessments, orders, payments, keys, permit >>

-----------------------------------------------------------------------------
\* The moves.

\* followOn: "Resume after the hop the application already stands at, if any."
Resumed(hops) ==
  LET at == { i \in 1..Len(hops) : hops[i].to = status } IN
  IF at = {} THEN hops ELSE SubSeq(hops, 1 + CHOOSE i \in at : TRUE, Len(hops))

FollowOn(r) ==
  /\ s[r].pc = "written"
  /\ LET hops == Resumed(s[r].hops) IN
       IF hops = <<>> THEN Ends(r)
       ELSE Reads(r, [s[r] EXCEPT !.pc = "hopping", !.hops = hops])
  /\ UNCHANGED << status, assessments, orders, payments, keys, permit, release >>

\* One hop; the first refusal ends the chain.
HopOn(r) ==
  LET hop == Head(s[r].hops) IN
  /\ s[r].pc = "hopping" /\ s[r].hops # <<>>
  /\ IF Allows(hop.by, hop.to)
       THEN /\ status' = hop.to
            /\ IF Tail(s[r].hops) = <<>> THEN Ends(r)
               ELSE Reads(r, [s[r] EXCEPT !.hops = Tail(s[r].hops)])
       ELSE Ends(r) /\ UNCHANGED status
  /\ UNCHANGED << assessments, orders, payments, keys, permit, release >>

\* A move made by hand, by whoever asks for it.
Move(account, to) ==
  /\ << status, to >> \in Asked
  /\ Allows(account, to)
  /\ status' = to
  /\ UNCHANGED << assessments, orders, payments, keys, permit, release, s >>

\* A write the database refuses: the transaction is rolled back.
Raises(r) ==
  /\ \/ /\ At(r, "checked", {"proof", "onsite"})
        /\ \/ ~idempotency_keys_pkey(s[r].by, s[r].key)
           \/ s[r].act = "onsite" /\ Verified # {}
     \/ /\ At(r, "checked", {"verify"})
        /\ RowFree(s[r].payment)
        /\ ~( /\ exception_is_attributable(s[r].payment)
              /\ payments_one_verified_idx(s[r].payment) )
     \/ At(r, "checked", {"issue"}) /\ ~orders_of_payment_in_force_idx({})
     \/ /\ At(r, "checked", {"supersede"})
        /\ ~orders_of_payment_in_force_idx({s[r].order})
  /\ Ends(r)
  /\ UNCHANGED << status, assessments, orders, payments, keys, permit, release >>

\* The replica dies: an open transaction is rolled back, what was committed
\* stays, and nothing resumes the rest.
Crash(r) ==
  /\ Crashes /\ s[r].pc # "idle"
  /\ Ends(r)
  /\ UNCHANGED << status, assessments, orders, payments, keys, permit, release >>

Continue(r) ==
  \/ IssueInsert(r) \/ MarkIssued(r) \/ SupersedeWrite(r)
  \/ ProofWrite(r) \/ OnsiteWrite(r) \/ VerifyWrite(r)
  \/ RejectOthers(r) \/ UndoWrite(r)
  \/ FollowOn(r) \/ HopOn(r) \/ Raises(r)

Begin(r) ==
  \/ \E key \in Keys : ProofCheck(r, key)
  \/ \E officer \in Officers :
       \/ \E key \in Keys : OnsiteCheck(r, officer, key)
       \/ IssueCheck(r, officer) \/ SupersedeCheck(r, officer)
       \/ \E p \in Payments :
            \/ VerifyCheck(r, officer, p) \/ Reject(r, officer, p)
            \/ \E act \in DOMAIN Undoing : UndoCheck(r, act, officer, p)
       \/ generate(r, officer) \/ prepareRelease(r, officer)
       \/ releasePermit(r, officer)

Next ==
  \/ \E a \in Assessments : approve(a)
  \/ \E r \in Requests : Begin(r) \/ Continue(r) \/ Crash(r)
  \/ \E account \in Accounts, to \in LifecycleStatuses : Move(account, to)

Spec == Init /\ [][Next]_vars

-----------------------------------------------------------------------------
\* Rows, keys and sessions keep their types, and hops are only left to make
\* after a write (the tables' columns and checks, migrations 004, 019, 020).
TypeOK ==
  /\ status \in LifecycleStatuses
  /\ assessments \in [Assessments -> {"none", "Approved", "Issued"}]
  /\ orders \in [Orders -> Order]
  /\ payments \in [Payments -> Payment]
  /\ keys \subseteq Accounts \X Keys
  /\ permit \in BOOLEAN /\ release \in {"none", "prepared", "released"}
  /\ s \in [Requests -> Session]

\* However many attempts are sent, taken over the counter, verified and undone
\* at once, at most one payment of the application was ever verified
\* (ADR 0010: several attempts, "only one may ever be verified").
OneVerifiedPayment == \A p, q \in Verified : p = q

\* The applicant never has two bills, and once billed always has one: issues
\* and supersessions racing each other leave exactly one Order in force, and
\* every payment names an Order that was issued (issue, supersede).
OneBillInForce ==
  /\ (\E o \in Orders : orders[o].state # "none") => \E o \in Orders : InForce = {o}
  /\ \A p \in Recorded :
       payments[p].order \in Orders /\ orders[payments[p].order].state # "none"

\* A payment that was voided, reversed or refunded is never Paid or Pending
\* again, whoever verifies or rejects it meanwhile (undo, verify, reject).
UndoneStaysUndone ==
  [][\A p \in Payments : payments[p].status \in Undone => payments'[p].status \in Undone]_vars

\* A payment stands at Paid, Reversed or Refunded only with the officer who
\* confirmed it on record, and an officer other than that one (or a Super
\* Admin) took it back (undo: "Undoing your own confirmation alone").
SettledByOneUndoneByAnother ==
  \A p \in Payments :
    /\ payments[p].status \in {"Paid", "Reversed", "Refunded"}
         => payments[p].verifier # Nothing
    /\ payments[p].status \in {"Reversed", "Refunded"}
         => payments[p].undoer # payments[p].verifier
            \/ payments[p].undoer \in SuperAdmins

\* One key, one payment: a retry of a payment whose answer was lost never
\* records a second one (submitProof, recordOnsite).
OnePaymentPerKey ==
  \A p, q \in Recorded : payments[p].key = payments[q].key => p = q

\* A permit exists only for an application that was approved and had a verified
\* payment and an Order when it was, and leaves the office only from Ready for
\* Release (generate, release, the preconditions of the moves before them).
PermitWasEarned ==
  /\ permit => /\ status \in {"Approved", "Permit Generated", "Ready for Release",
                              "Released", "Completed"}
               /\ Verified # {} /\ InForce # {}
  /\ release = "released" =>
       permit /\ status \in {"Ready for Release", "Released", "Completed"}

\* The status never announces an instrument that does not exist, on any path,
\* by hand or by a follow-on that resumes or is refused half way (lifecycle.ts
\* 180-196, followOn).
InstrumentsBehindStatus ==
  /\ status \in {"Permit Generated", "Ready for Release", "Released", "Completed"}
       => permit
  /\ status \in {"Released", "Completed"} => release = "released"
  /\ status \in {"Payment Verified", "For Approval", "Approved"} => Verified # {}

-----------------------------------------------------------------------------
\* What comments and documents say, which the code does not do.

Quiet == \A r \in Requests : s[r].pc = "idle"
Paid == { p \in Payments : payments[p].status = "Paid" }

\* With every act finished, no paid application waits at Assessed, from where
\* only a payment of the applicant's would move it (recordOnsite's route).
PaidIsNotStuck == Quiet /\ Paid # {} => status # "Assessed"

\* No payment is undone once a permit exists (undo).
PermitRefusesUndo ==
  [][permit => \A p \in Payments :
       payments'[p].status \in Undone => payments[p].status \in Undone]_vars
=============================================================================
