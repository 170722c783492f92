--------------------------- MODULE FeeCaseProofs ---------------------------
(***************************************************************************)
(* What FeeCase guarantees for any number of sessions, officers, attempts, *)
(* Orders and keys: types; one verified payment; what is undone stays      *)
(* undone and was undone by another officer; one payment per key; one bill *)
(* in force; and a permit only after a verified payment.                   *)
(***************************************************************************)
EXTENDS FeeCase, SequenceTheorems, TLAPS

-----------------------------------------------------------------------------
\* THE TABLE OF MOVES

\* Reached only with a verified payment; with a permit due or generated; with
\* the permit generated, at the counter, handed over.
AfterPayment == { "Payment Verified", "For Approval", "Approved", "Permit Generated",
                  "Ready for Release", "Released", "Completed" }
WithPermit == { "Approved", "Permit Generated", "Ready for Release", "Released",
                "Completed" }
WithInstrument == { "Permit Generated", "Ready for Release", "Released", "Completed" }
AtRelease == { "Ready for Release", "Released", "Completed" }
HandedOver == { "Released", "Completed" }

\* Rules with their columns in given sets.
RulesOver(from, to, preconditions) ==
  [ from : from, to : to, actors : SUBSET {"applicant", "staff"}, requires : Scope,
    preconditions : preconditions, notifies : BOOLEAN ]

AnyStatus == LifecycleStatuses
AnyEvidence == SUBSET Preconditions
With(e) == { P \in AnyEvidence : e \in P }

LEMMA TableOverPermit ==
  TRANSITIONS \subseteq RulesOver(AnyStatus \ WithPermit, AnyStatus, AnyEvidence)
                        \cup RulesOver(WithPermit, WithPermit, AnyEvidence)
BY SMTT(60) DEF TRANSITIONS, Rule, RulesOver, LifecycleStatuses, Scope, Preconditions,
   Both, Staff, Citizen, Documents, AnyStatus, AnyEvidence, WithPermit

LEMMA TableOverRelease ==
  TRANSITIONS \subseteq RulesOver(AnyStatus \ AtRelease, AnyStatus, AnyEvidence)
                        \cup RulesOver(AtRelease, AtRelease, AnyEvidence)
BY SMTT(60) DEF TRANSITIONS, Rule, RulesOver, LifecycleStatuses, Scope, Preconditions,
   Both, Staff, Citizen, Documents, AnyStatus, AnyEvidence, AtRelease

LEMMA TableOverPayment ==
  TRANSITIONS \subseteq RulesOver(AnyStatus, AnyStatus \ AfterPayment, AnyEvidence)
                        \cup RulesOver(AfterPayment, AnyStatus, AnyEvidence)
                        \cup RulesOver(AnyStatus, AnyStatus, With("payment-verified"))
BY SMTT(60) DEF TRANSITIONS, Rule, RulesOver, LifecycleStatuses, Scope, Preconditions,
   Both, Staff, Citizen, Documents, AnyStatus, AnyEvidence, With, AfterPayment

LEMMA TableOverInstrument ==
  TRANSITIONS \subseteq RulesOver(AnyStatus, AnyStatus \ WithInstrument, AnyEvidence)
                        \cup RulesOver(WithInstrument, AnyStatus, AnyEvidence)
                        \cup RulesOver(AnyStatus, AnyStatus, With("permit-generated"))
BY SMTT(60) DEF TRANSITIONS, Rule, RulesOver, LifecycleStatuses, Scope, Preconditions,
   Both, Staff, Citizen, Documents, AnyStatus, AnyEvidence, With, WithInstrument

LEMMA TableOverHandedOver ==
  TRANSITIONS \subseteq RulesOver(AnyStatus, AnyStatus \ HandedOver, AnyEvidence)
                        \cup RulesOver(HandedOver, AnyStatus, AnyEvidence)
                        \cup RulesOver(AnyStatus, AnyStatus, With("permit-released"))
BY SMTT(60) DEF TRANSITIONS, Rule, RulesOver, LifecycleStatuses, Scope, Preconditions,
   Both, Staff, Citizen, Documents, AnyStatus, AnyEvidence, With, HandedOver

\* The table enters a status an instrument stands behind only with the
\* instrument, and never leaves the statuses of a permit for an earlier one.
THEOREM TableKeepsOrder ==
  ASSUME NEW rule \in TRANSITIONS
  PROVE  /\ rule.to \in AfterPayment =>
              rule.from \in AfterPayment \/ "payment-verified" \in rule.preconditions
         /\ rule.from \in WithPermit => rule.to \in WithPermit
         /\ rule.from \in AtRelease => rule.to \in AtRelease
         /\ rule.to \in WithInstrument =>
              rule.from \in WithInstrument \/ "permit-generated" \in rule.preconditions
         /\ rule.to \in HandedOver =>
              rule.from \in HandedOver \/ "permit-released" \in rule.preconditions
<1>1. rule.from \in WithPermit => rule.to \in WithPermit
  BY TableOverPermit DEF RulesOver
<1>2. rule.from \in AtRelease => rule.to \in AtRelease
  BY TableOverRelease DEF RulesOver
<1>3. rule.to \in AfterPayment =>
        rule.from \in AfterPayment \/ "payment-verified" \in rule.preconditions
  BY TableOverPayment DEF RulesOver, With
<1>4. rule.to \in WithInstrument =>
        rule.from \in WithInstrument \/ "permit-generated" \in rule.preconditions
  BY TableOverInstrument DEF RulesOver, With
<1>5. rule.to \in HandedOver =>
        rule.from \in HandedOver \/ "permit-released" \in rule.preconditions
  BY TableOverHandedOver DEF RulesOver, With
<1> QED  BY <1>1, <1>2, <1>3, <1>4, <1>5

-----------------------------------------------------------------------------
\* TYPES

LEMMA IdleType == Idle \in Session
<1>1. <<>> \in Seq(Hop)
  OBVIOUS
<1> QED  BY <1>1 DEF Idle, Session, ActKind, Accounts, Maybe

\* The moves of one account over listed statuses are hops.
LEMMA ByType ==
  ASSUME NEW account \in Accounts, NEW statuses \in Seq(LifecycleStatuses)
  PROVE  By(account, statuses) \in Seq(Hop)
<1>1. \A i \in 1..Len(statuses) :
        [ by |-> account, to |-> statuses[i] ] \in Hop
  BY DEF Hop
<1>2. Len(statuses) \in Nat
  OBVIOUS
<1> QED  BY <1>1, <1>2, SeqDef DEF By

LEMMA ImpliedType ==
  ASSUME NEW act, NEW by \in Accounts
  PROVE  Implied(act, by) \in Seq(Hop)
<1> DEFINE L == Seq(LifecycleStatuses)
<1>1. /\ << "Payment Submitted" >> \in L /\ Settling \in L
      /\ << "Payment Submitted", "Assessed" >> \in L /\ << "Assessed" >> \in L
      /\ << "Permit Generated" >> \in L /\ << "Ready for Release" >> \in L
      /\ << "Released", "Completed" >> \in L
  BY DEF Settling, LifecycleStatuses
<1>2. Owner \in Accounts
  BY DEF Accounts
<1>3. By(Owner, << "Payment Submitted" >>) \o By(by, Settling) \in Seq(Hop)
  BY <1>1, <1>2, ByType, ConcatProperties
<1>4. <<>> \in Seq(Hop)
  OBVIOUS
<1> HIDE DEF L
<1> QED  BY <1>1, <1>2, <1>3, <1>4, ByType DEF Implied, L

LEMMA ResumedType ==
  ASSUME NEW hops \in Seq(Hop)
  PROVE  Resumed(hops) \in Seq(Hop)
<1> DEFINE at == { i \in 1..Len(hops) : hops[i].to = status }
           n == CHOOSE i \in at : TRUE
<1>1. CASE at = {}
  BY <1>1 DEF Resumed
<1>2. CASE at # {}
  <2>1. n \in at
    BY <1>2
  <2>2. n \in 1..Len(hops)
    BY <2>1
  <2> HIDE DEF n
  <2>3. 1 + n \in Int /\ Len(hops) \in Int
        /\ \A i \in (1 + n)..Len(hops) : hops[i] \in Hop
    BY <2>2, LenProperties, ElementOfSeq
  <2>4. SubSeq(hops, 1 + n, Len(hops)) \in Seq(Hop)
    BY <2>3, SubSeqProperties
  <2> QED  BY <1>2, <2>4 DEF Resumed, n
<1> QED  BY <1>1, <1>2

\* A session that reads, ends or has written is a session.
LEMMA EndsType ==
  ASSUME TypeOK, NEW r \in Requests, Ends(r)
  PROVE  s' \in [Requests -> Session]
BY IdleType DEF Ends, TypeOK

LEMMA WrittenType ==
  ASSUME TypeOK, NEW r \in Requests, NEW act \in ActKind, NEW by \in Accounts,
         Written(r, act, by)
  PROVE  s' \in [Requests -> Session]
<1>1. Implied(act, by) \in Seq(Hop)
  BY ImpliedType
<1> DEFINE w == [Idle EXCEPT !.pc = IF act = "proof" THEN "hopping" ELSE "written",
                             !.act = act, !.by = by, !.hops = Implied(act, by)]
<1>2. w \in Session
  BY <1>1, IdleType DEF Session
<1>3. s' = [s EXCEPT ![r] = w]
  BY DEF Written
<1> HIDE DEF w
<1> QED  BY <1>2, <1>3 DEF TypeOK

LEMMA ReadsType ==
  ASSUME TypeOK, NEW r \in Requests, NEW session \in Session, Reads(r, session)
  PROVE  s' \in [Requests -> Session]
BY DEF Reads, TypeOK

\* The fields of a session.
LEMMA SessionFields ==
  ASSUME TypeOK, NEW r \in Requests
  PROVE  /\ s[r] \in Session
         /\ s[r].act \in ActKind /\ s[r].by \in Accounts
         /\ s[r].payment \in Maybe(Payments) /\ s[r].order \in Maybe(Orders)
         /\ s[r].assessment \in Maybe(Assessments) /\ s[r].key \in Maybe(Keys)
         /\ s[r].hops \in Seq(Hop)
<1>1. s[r] \in Session
  BY DEF TypeOK
<1> QED  BY <1>1 DEF Session

LEMMA TypeInit == Init => TypeOK
<1> SUFFICES ASSUME Init PROVE TypeOK
  OBVIOUS
<1>1. NoOrder \in Order /\ NoPayment \in Payment
  BY DEF NoOrder, Order, NoPayment, Payment, Maybe
<1>2. "Under Evaluation" \in LifecycleStatuses
  BY DEF LifecycleStatuses
<1> QED  BY <1>1, <1>2, IdleType DEF Init, TypeOK

\* What an act's first step keeps for its session.
LEMMA ChecksType ==
  ASSUME TypeOK, NEW r \in Requests
  PROVE  /\ \A officer \in Officers :
              \/ IssueCheck(r, officer) \/ SupersedeCheck(r, officer)
              \/ \E p \in Payments :
                   \/ VerifyCheck(r, officer, p) \/ Reject(r, officer, p)
                   \/ \E act \in DOMAIN Undoing : UndoCheck(r, act, officer, p)
              => s' \in [Requests -> Session]
         /\ \A by \in Accounts, key \in Keys, act \in {"proof", "onsite"} :
              PayCheck(r, act, by, key) => s' \in [Requests -> Session]
<1>1. Officers \subseteq Accounts /\ {"proof", "onsite"} \subseteq ActKind
      /\ {"issue", "supersede", "verify", "reject"} \subseteq ActKind
      /\ DOMAIN Undoing \subseteq ActKind
  BY DEF Accounts, ActKind, Undoing
<1>2. ASSUME NEW officer \in Officers, IssueCheck(r, officer)
      PROVE  s' \in [Requests -> Session]
  <2>1. PICK a \in approvedFor :
          Reads(r, [Idle EXCEPT !.pc = "checked", !.act = "issue", !.by = officer,
                                !.assessment = a])
    BY <1>2 DEF IssueCheck
  <2>2. [Idle EXCEPT !.pc = "checked", !.act = "issue", !.by = officer,
                     !.assessment = a] \in Session
    BY <1>1, IdleType DEF Session, Maybe, approvedFor
  <2> QED  BY <2>1, <2>2, ReadsType
<1>3. ASSUME NEW officer \in Officers, SupersedeCheck(r, officer)
      PROVE  s' \in [Requests -> Session]
  <2>1. PICK o \in InForce, a \in approvedFor :
          Reads(r, [Idle EXCEPT !.pc = "checked", !.act = "supersede",
                                !.by = officer, !.order = o, !.assessment = a])
    BY <1>3 DEF SupersedeCheck
  <2>2. [Idle EXCEPT !.pc = "checked", !.act = "supersede", !.by = officer,
                     !.order = o, !.assessment = a] \in Session
    BY <1>1, IdleType DEF Session, Maybe, approvedFor, InForce
  <2> QED  BY <2>1, <2>2, ReadsType
<1>4. ASSUME NEW officer \in Officers, NEW p \in Payments, NEW act \in ActKind,
             NEW pc \in {"checked", "rejected"},
             Reads(r, [Idle EXCEPT !.pc = pc, !.act = act, !.by = officer,
                                   !.payment = p])
      PROVE  s' \in [Requests -> Session]
  <2>1. [Idle EXCEPT !.pc = pc, !.act = act, !.by = officer, !.payment = p]
          \in Session
    BY <1>1, IdleType DEF Session, Maybe
  <2> QED  BY <1>4, <2>1, ReadsType
<1>5. ASSUME NEW by \in Accounts, NEW key \in Keys, NEW act \in {"proof", "onsite"},
             PayCheck(r, act, by, key)
      PROVE  s' \in [Requests -> Session]
  <2>1. PICK o \in InForce :
          Reads(r, [Idle EXCEPT !.pc = "checked", !.act = act, !.by = by,
                                !.order = o, !.key = key])
    BY <1>5 DEF PayCheck
  <2>2. [Idle EXCEPT !.pc = "checked", !.act = act, !.by = by, !.order = o,
                     !.key = key] \in Session
    BY <1>1, IdleType DEF Session, Maybe, InForce
  <2> QED  BY <2>1, <2>2, ReadsType
<1>6. ASSUME NEW officer \in Officers, NEW p \in Payments,
             \/ VerifyCheck(r, officer, p) \/ Reject(r, officer, p)
             \/ \E act \in DOMAIN Undoing : UndoCheck(r, act, officer, p)
      PROVE  s' \in [Requests -> Session]
  BY <1>1, <1>4, <1>6 DEF VerifyCheck, Reject, UndoCheck
<1> QED  BY <1>2, <1>3, <1>5, <1>6

\* insertOrder keeps the rows of orders_of_payment well typed.
LEMMA InsertOrderType ==
  ASSUME TypeOK, NEW o \in Orders, NEW a \in Maybe(Assessments), NEW superseded,
         insertOrder(o, a, superseded)
  PROVE  orders' \in [Orders -> Order]
<1>1. [ state |-> "in force", assessment |-> a ] \in Order
  BY DEF Order
<1>2. \A x \in Orders : /\ orders[x] \in Order
                        /\ [orders[x] EXCEPT !.state = "superseded"] \in Order
  BY DEF TypeOK, Order
<1> QED  BY <1>1, <1>2 DEF insertOrder

LEMMA PaysType ==
  ASSUME TypeOK, NEW r \in Requests, NEW payment \in Payment, Pays(r, payment),
         s[r].key \in Keys
  PROVE  /\ payments' \in [Payments -> Payment] /\ keys' \subseteq Accounts \X Keys
         /\ s' \in [Requests -> Session]
<1>1. s[r].act \in ActKind /\ s[r].by \in Accounts
  BY SessionFields
<1>2. Written(r, s[r].act, s[r].by)
  BY DEF Pays
<1>3. s' \in [Requests -> Session]
  BY <1>1, <1>2, WrittenType
<1>4. payments' \in [Payments -> Payment] /\ keys' \subseteq Accounts \X Keys
  BY <1>1 DEF Pays, TypeOK
<1> QED  BY <1>3, <1>4

-----------------------------------------------------------------------------
(***************************************************************************)
(* THE INDUCTIVE INVARIANT                                                 *)
(*                                                                         *)
(* Carries: what a session read and still rests on when it writes.  A      *)
(* refused or stale reading is either re-asked by an index or a constraint *)
(* of the database, or kept true by the payment row an undo holds.         *)
(* Rows: what the tables keep among themselves.  Earned: how the status    *)
(* and the permit follow the payments.                                     *)
(***************************************************************************)
Undoers(r) == At(r, "checked", DOMAIN Undoing)

Carries ==
  /\ \A r \in Requests :
       /\ s[r].pc = "checked" /\ s[r].act # "proof" => s[r].by \in Officers
       /\ At(r, "checked", {"proof", "onsite"}) => s[r].key \in Keys
       /\ At(r, "checked", {"proof", "onsite", "supersede"}) =>
            s[r].order \in Orders /\ orders[s[r].order].state # "none"
       /\ At(r, "checked", {"verify"}) => s[r].payment \in Recorded
       /\ Undoers(r) => s[r].payment \in Recorded
                        /\ MayUndo(s[r].act, s[r].by, s[r].payment)
  /\ \A r, q \in Requests :
       Undoers(r) /\ Undoers(q) /\ s[r].payment = s[q].payment => r = q

Tidy ==
  \A p \in Payments :
    /\ payments[p].status \in Undone => payments[p].undoer # Nothing
    /\ payments[p].status = "none" => payments[p].verifier = Nothing
    /\ p \in Recorded => payments[p].key \in keys

Rows ==
  /\ OneVerifiedPayment /\ SettledByOneUndoneByAnother /\ OnePaymentPerKey
  /\ OneBillInForce /\ Tidy

Earned ==
  /\ status \in AfterPayment => Verified # {}
  /\ permit => status \in WithPermit
  /\ release # "none" => permit
  /\ release = "released" => status \in AtRelease

IInv == TypeOK /\ Carries /\ Rows /\ Earned

LEMMA IInvInit == Init => IInv
<1> SUFFICES ASSUME Init PROVE IInv
  OBVIOUS
<1>1. TypeOK
  BY TypeInit
<1>2. \A r \in Requests : s[r].pc = "idle"
  BY DEF Init, Idle
<1>3. Carries
  BY <1>2 DEF Carries, At, Undoers
<1>4. /\ \A p \in Payments : payments[p] = NoPayment
      /\ \A o \in Orders : orders[o].state = "none"
  BY DEF Init, NoOrder
<1>5. Recorded = {} /\ Verified = {}
  BY <1>4 DEF Recorded, Verified, NoPayment
<1>6. Rows
  BY <1>4, <1>5 DEF Rows, OneVerifiedPayment, SettledByOneUndoneByAnother,
     OnePaymentPerKey, OneBillInForce, Tidy, NoPayment, Undone
<1>7. Earned
  BY DEF Init, Earned, AfterPayment
<1> QED  BY <1>1, <1>3, <1>6, <1>7 DEF IInv

\* Sessions that no longer wait to write, and rows that only grow, leave the
\* other sessions what they rest on.
LEMMA CarriesKept ==
  ASSUME Carries,
         \A q \in Requests : s'[q].pc = "checked" => s'[q] = s[q],
         \A o \in Orders : orders[o].state # "none" => orders'[o].state # "none",
         Recorded \subseteq Recorded',
         \A q \in Requests : Undoers(q) /\ s'[q] = s[q] =>
           payments'[s[q].payment] = payments[s[q].payment]
  PROVE  Carries'
<1>1. \A q \in Requests : \A acts :
        At(q, "checked", acts)' => s'[q] = s[q]
  BY DEF At
<1> QED  BY <1>1 DEF Carries, Undoers, At, MayUndo

\* A session that starts to read takes with it what it read.
LEMMA CarriesChecked ==
  ASSUME TypeOK, Carries, NEW r \in Requests, NEW x,
         s' = [s EXCEPT ![r] = x], UNCHANGED << orders, payments >>,
         x.act # "proof" => x.by \in Officers,
         x.act \in {"proof", "onsite"} => x.key \in Keys,
         x.act \in {"proof", "onsite", "supersede"} =>
           x.order \in Orders /\ orders[x.order].state # "none",
         x.act = "verify" => x.payment \in Recorded,
         x.act \in DOMAIN Undoing =>
           /\ x.payment \in Recorded /\ MayUndo(x.act, x.by, x.payment)
           /\ \A q \in Requests : Undoers(q) => s[q].payment # x.payment
  PROVE  Carries'
<1>1. s'[r] = x /\ \A q \in Requests : q # r => s'[q] = s[q]
  BY DEF TypeOK
<1>2. Recorded' = Recorded /\ \A act, by, p : MayUndo(act, by, p)' = MayUndo(act, by, p)
  BY DEF Recorded, MayUndo
<1>3. ASSUME NEW q \in Requests, q # r
      PROVE  \A acts : At(q, "checked", acts)' = At(q, "checked", acts)
  BY <1>1, <1>3 DEF At
<1>4. \A acts : At(r, "checked", acts)' => x.pc = "checked" /\ x.act \in acts
  BY <1>1 DEF At
<1>5. ASSUME NEW q \in Requests
      PROVE  /\ s'[q].pc = "checked" /\ s'[q].act # "proof" => s'[q].by \in Officers
             /\ At(q, "checked", {"proof", "onsite"})' => s'[q].key \in Keys
             /\ At(q, "checked", {"proof", "onsite", "supersede"})' =>
                  s'[q].order \in Orders /\ orders[s'[q].order].state # "none"
             /\ At(q, "checked", {"verify"})' => s'[q].payment \in Recorded
             /\ Undoers(q)' => s'[q].payment \in Recorded
                              /\ MayUndo(s'[q].act, s'[q].by, s'[q].payment)
  <2>1. CASE q = r
    BY <1>1, <1>4, <2>1 DEF Undoers
  <2>2. CASE q # r
    BY <1>1, <1>3, <2>2 DEF Carries, Undoers
  <2> QED  BY <2>1, <2>2
<1>6. ASSUME NEW q1 \in Requests, NEW q2 \in Requests, Undoers(q1)', Undoers(q2)',
             s'[q1].payment = s'[q2].payment
      PROVE  q1 = q2
  BY <1>1, <1>3, <1>4, <1>6 DEF Carries, Undoers
<1>7. UNCHANGED orders
  OBVIOUS
<1> QED  BY <1>2, <1>5, <1>6, <1>7 DEF Carries

\* The tables keep their rules while no statement touches them.
LEMMA RowsUntouched ==
  ASSUME Rows, UNCHANGED << orders, payments, keys >>
  PROVE  Rows'
BY DEF Rows, OneVerifiedPayment, SettledByOneUndoneByAnother, OnePaymentPerKey,
   OneBillInForce, Tidy, Verified, Recorded, InForce

\* A session that ends, has written or only goes on is not about to write.
LEMMA NotChecked ==
  ASSUME TypeOK, NEW r \in Requests, NEW act, NEW by, NEW x,
         Ends(r) \/ Written(r, act, by) \/ (Reads(r, x) /\ x.pc # "checked")
  PROVE  \A q \in Requests : s'[q].pc = "checked" => q # r /\ s'[q] = s[q]
<1>1. CASE Ends(r)
  BY <1>1 DEF Ends, Idle, TypeOK
<1>2. CASE Written(r, act, by)
  BY <1>2 DEF Written, Idle, TypeOK
<1>3. CASE Reads(r, x) /\ x.pc # "checked"
  BY <1>3 DEF Reads, TypeOK
<1> QED  BY <1>1, <1>2, <1>3

\* The steps that read: a session starts, the tables stay.
LEMMA CheckStep ==
  ASSUME IInv, NEW r \in Requests,
         \/ \E key \in Keys : ProofCheck(r, key)
         \/ \E officer \in Officers :
              \/ \E key \in Keys : OnsiteCheck(r, officer, key)
              \/ IssueCheck(r, officer) \/ SupersedeCheck(r, officer)
              \/ \E p \in Payments :
                   \/ VerifyCheck(r, officer, p)
                   \/ \E act \in DOMAIN Undoing : UndoCheck(r, act, officer, p)
  PROVE  IInv'
<1>1. TypeOK /\ Carries /\ Rows /\ Earned
  BY DEF IInv
<1>2. /\ UNCHANGED << status, assessments, orders, payments, keys, permit, release >>
      /\ s' \in [Requests -> Session]
  BY <1>1, ChecksType DEF ProofCheck, OnsiteCheck, PayCheck, IssueCheck,
     SupersedeCheck, VerifyCheck, UndoCheck, Accounts
<1>3. TypeOK' /\ Rows' /\ Earned'
  BY <1>1, <1>2, RowsUntouched DEF TypeOK, Earned, Verified
<1>4. ASSUME NEW by \in Accounts, NEW key \in Keys, NEW act \in {"proof", "onsite"},
             act # "proof" => by \in Officers, PayCheck(r, act, by, key)
      PROVE  Carries'
  <2>1. PICK o \in InForce :
          Reads(r, [Idle EXCEPT !.pc = "checked", !.act = act, !.by = by,
                                !.order = o, !.key = key])
    BY <1>4 DEF PayCheck
  <2> DEFINE x == [Idle EXCEPT !.pc = "checked", !.act = act, !.by = by,
                               !.order = o, !.key = key]
  <2>2. x.act = act /\ x.by = by /\ x.order = o /\ x.key = key
    BY DEF Idle
  <2>3. o \in Orders /\ orders[o].state # "none" /\ act \notin DOMAIN Undoing
    BY DEF InForce, Undoing
  <2>4. s' = [s EXCEPT ![r] = x]
    BY <2>1 DEF Reads
  <2> HIDE DEF x
  <2> QED  BY <1>1, <1>2, <1>4, <2>2, <2>3, <2>4, CarriesChecked
<1>5. ASSUME NEW officer \in Officers, IssueCheck(r, officer) PROVE Carries'
  <2>1. PICK a \in approvedFor :
          Reads(r, [Idle EXCEPT !.pc = "checked", !.act = "issue", !.by = officer,
                                !.assessment = a])
    BY <1>5 DEF IssueCheck
  <2> DEFINE x == [Idle EXCEPT !.pc = "checked", !.act = "issue", !.by = officer,
                               !.assessment = a]
  <2>2. x.act = "issue" /\ x.by = officer /\ "issue" \notin DOMAIN Undoing
    BY DEF Idle, Undoing
  <2>3. s' = [s EXCEPT ![r] = x]
    BY <2>1 DEF Reads
  <2> HIDE DEF x
  <2> QED  BY <1>1, <1>2, <2>2, <2>3, CarriesChecked
<1>6. ASSUME NEW officer \in Officers, SupersedeCheck(r, officer) PROVE Carries'
  <2>1. PICK o \in InForce, a \in approvedFor :
          Reads(r, [Idle EXCEPT !.pc = "checked", !.act = "supersede",
                                !.by = officer, !.order = o, !.assessment = a])
    BY <1>6 DEF SupersedeCheck
  <2> DEFINE x == [Idle EXCEPT !.pc = "checked", !.act = "supersede",
                               !.by = officer, !.order = o, !.assessment = a]
  <2>2. x.act = "supersede" /\ x.by = officer /\ x.order = o
        /\ "supersede" \notin DOMAIN Undoing
    BY DEF Idle, Undoing
  <2>3. o \in Orders /\ orders[o].state # "none"
    BY DEF InForce
  <2>4. s' = [s EXCEPT ![r] = x]
    BY <2>1 DEF Reads
  <2> HIDE DEF x
  <2> QED  BY <1>1, <1>2, <2>2, <2>3, <2>4, CarriesChecked
<1>7. ASSUME NEW officer \in Officers, NEW p \in Payments, VerifyCheck(r, officer, p)
      PROVE  Carries'
  <2> DEFINE x == [Idle EXCEPT !.pc = "checked", !.act = "verify", !.by = officer,
                               !.payment = p]
  <2>1. x.act = "verify" /\ x.by = officer /\ x.payment = p
        /\ "verify" \notin DOMAIN Undoing
    BY DEF Idle, Undoing
  <2>2. s' = [s EXCEPT ![r] = x] /\ p \in Recorded
    BY <1>7 DEF VerifyCheck, Reads
  <2> HIDE DEF x
  <2> QED  BY <1>1, <1>2, <2>1, <2>2, CarriesChecked
<1>8. ASSUME NEW officer \in Officers, NEW p \in Payments, NEW act \in DOMAIN Undoing,
             UndoCheck(r, act, officer, p)
      PROVE  Carries'
  <2> DEFINE x == [Idle EXCEPT !.pc = "checked", !.act = act, !.by = officer,
                               !.payment = p]
  <2>1. x.act = act /\ x.by = officer /\ x.payment = p
    BY DEF Idle
  <2>2. act \in {"void", "reverse", "refund"} /\ DOMAIN Undoing = {"void", "reverse", "refund"}
    BY DEF Undoing
  <2>3. /\ s' = [s EXCEPT ![r] = x] /\ p \in Recorded /\ MayUndo(act, officer, p)
        /\ \A q \in Requests : Undoers(q) => s[q].payment # p
    BY <1>8, <2>2 DEF UndoCheck, Reads, RowFree, Undoers
  <2> HIDE DEF x
  <2> QED  BY <1>1, <1>2, <2>1, <2>2, <2>3, CarriesChecked
<1>9. Carries'
  BY <1>4, <1>5, <1>6, <1>7, <1>8 DEF ProofCheck, OnsiteCheck, Accounts
<1> QED  BY <1>3, <1>9 DEF IInv

-----------------------------------------------------------------------------
\* THE MOVES

\* A move the engine allows is in the table and its preconditions are met.
LEMMA AllowedIsListed ==
  ASSUME NEW account, NEW to, Allows(account, to)
  PROVE  \E rule \in TRANSITIONS :
           rule.from = status /\ rule.to = to /\ rule.preconditions \subseteq Met
<1> DEFINE snapshot == [ status |-> status, version |-> 1, met |-> Met ]
<1>1. decide(snapshot, CallerOf(account), to, Unchecked) = "ok"
  BY DEF Allows
<1>2. snapshot.status = status /\ snapshot.met = Met
  OBVIOUS
<1> HIDE DEF snapshot
<1>3. /\ RuleFor(snapshot.status, to) # {}
      /\ \A rule \in RuleFor(snapshot.status, to) :
           rule.preconditions \subseteq snapshot.met
  BY <1>1 DEF decide
<1> QED  BY <1>2, <1>3 DEF RuleFor

LEMMA AllowedKeepsEarned ==
  ASSUME Earned, NEW account, NEW to, Allows(account, to)
  PROVE  /\ to \in AfterPayment => Verified # {}
         /\ status \in WithPermit => to \in WithPermit
         /\ status \in AtRelease => to \in AtRelease
<1>1. PICK rule \in TRANSITIONS :
        rule.from = status /\ rule.to = to /\ rule.preconditions \subseteq Met
  BY AllowedIsListed
<1>2. "payment-verified" \in Met => Verified # {}
  BY DEF Met, Documents
<1> QED  BY <1>1, <1>2, TableKeepsOrder DEF Earned

-----------------------------------------------------------------------------
\* THE STEPS

\* Steps that leave the tables alone: approvals of assessments, the reading of
\* other payments, follow-ons, hops, moves by hand, refused writes and crashes.
LEMMA QuietStep ==
  ASSUME IInv,
         \/ \E a \in Assessments : approve(a)
         \/ \E r \in Requests : \/ MarkIssued(r) \/ RejectOthers(r) \/ FollowOn(r)
                                \/ HopOn(r) \/ Raises(r) \/ Crash(r)
         \/ \E account \in Accounts, to \in LifecycleStatuses : Move(account, to)
  PROVE  IInv'
<1>1. TypeOK /\ Carries /\ Rows /\ Earned
  BY DEF IInv
<1>2. UNCHANGED << orders, payments, keys, permit, release >>
  BY DEF approve, MarkIssued, RejectOthers, FollowOn, HopOn, Raises, Crash, Move
<1>3. Rows'
  BY <1>1, <1>2, RowsUntouched
<1>4. /\ assessments' \in [Assessments -> {"none", "Approved", "Issued"}]
      /\ s' \in [Requests -> Session] /\ status' \in LifecycleStatuses
      /\ \A q \in Requests : s'[q].pc = "checked" => s'[q] = s[q]
  <2>1. ASSUME NEW a \in Assessments, approve(a) PROVE <1>4!:
    BY <1>1, <2>1 DEF approve, TypeOK
  <2>2. ASSUME NEW r \in Requests, MarkIssued(r) PROVE <1>4!:
    <3>1. "issue" \in ActKind /\ s[r].by \in Accounts
      BY <1>1, SessionFields DEF ActKind
    <3>2. Written(r, "issue", s[r].by) /\ UNCHANGED status
      BY <2>2 DEF MarkIssued
    <3>3. assessments' \in [Assessments -> {"none", "Approved", "Issued"}]
      BY <1>1, <2>2 DEF MarkIssued, TypeOK
    <3> QED  BY <1>1, <3>1, <3>2, <3>3, WrittenType, NotChecked DEF TypeOK
  <2>3. ASSUME NEW r \in Requests, RejectOthers(r) PROVE <1>4!:
    <3>1. "reject" \in ActKind /\ s[r].by \in Accounts
      BY <1>1, SessionFields DEF ActKind
    <3>2. Ends(r) \/ Written(r, "reject", s[r].by)
      BY <2>3 DEF RejectOthers
    <3>3. UNCHANGED << status, assessments >>
      BY <2>3 DEF RejectOthers
    <3> QED  BY <1>1, <3>1, <3>2, <3>3, WrittenType, EndsType, NotChecked DEF TypeOK
  <2>4. ASSUME NEW r \in Requests, FollowOn(r) PROVE <1>4!:
    <3> DEFINE x == [s[r] EXCEPT !.pc = "hopping", !.hops = Resumed(s[r].hops)]
    <3>1. x \in Session /\ x.pc # "checked"
      BY <1>1, SessionFields, ResumedType DEF Session
    <3>2. Ends(r) \/ Reads(r, x)
      BY <2>4 DEF FollowOn
    <3>3. UNCHANGED << status, assessments >>
      BY <2>4 DEF FollowOn
    <3> HIDE DEF x
    <3> QED  BY <1>1, <3>1, <3>2, <3>3, ReadsType, EndsType, NotChecked DEF TypeOK
  <2>5. ASSUME NEW r \in Requests, HopOn(r) PROVE <1>4!:
    <3> DEFINE x == [s[r] EXCEPT !.hops = Tail(s[r].hops)]
    <3>1. s[r].hops \in Seq(Hop) /\ s[r].hops # <<>> /\ s[r].pc = "hopping"
      BY <1>1, <2>5, SessionFields DEF HopOn
    <3>2. Head(s[r].hops) \in Hop /\ Tail(s[r].hops) \in Seq(Hop)
      BY <3>1, HeadTailProperties
    <3>3. x \in Session /\ x.pc # "checked"
      BY <1>1, <3>1, <3>2, SessionFields DEF Session
    <3>4. Ends(r) \/ Reads(r, x)
      BY <2>5 DEF HopOn
    <3>5. status' \in LifecycleStatuses /\ UNCHANGED assessments
      BY <1>1, <2>5, <3>2 DEF HopOn, Hop, TypeOK
    <3> HIDE DEF x
    <3> QED  BY <1>1, <3>3, <3>4, <3>5, ReadsType, EndsType, NotChecked DEF TypeOK
  <2>6. ASSUME NEW r \in Requests, Raises(r) \/ Crash(r) PROVE <1>4!:
    <3>1. Ends(r) /\ UNCHANGED << status, assessments >>
      BY <2>6 DEF Raises, Crash
    <3> QED  BY <1>1, <3>1, EndsType, NotChecked DEF TypeOK
  <2>7. ASSUME NEW account \in Accounts, NEW to \in LifecycleStatuses,
               Move(account, to)
        PROVE  <1>4!:
    BY <1>1, <2>7 DEF Move, TypeOK
  <2> QED  BY <2>1, <2>2, <2>3, <2>4, <2>5, <2>6, <2>7
<1>5. TypeOK'
  BY <1>1, <1>2, <1>4 DEF TypeOK
<1>6. Carries'
  <2>1. Recorded' = Recorded
    BY <1>2 DEF Recorded
  <2> QED  BY <1>1, <1>2, <1>4, <2>1, CarriesKept
<1>7. Earned'
  <2>1. Verified' = Verified
    BY <1>2 DEF Verified
  <2>2. UNCHANGED status \/ \E account, to : Allows(account, to) /\ status' = to
    BY DEF approve, MarkIssued, RejectOthers, FollowOn, HopOn, Raises, Crash, Move
  <2> QED  BY <1>1, <1>2, <2>1, <2>2, AllowedKeepsEarned DEF Earned
<1> QED  BY <1>3, <1>5, <1>6, <1>7 DEF IInv

\* The permit is generated, its release prepared and made.
LEMMA PermitStep ==
  ASSUME IInv, NEW r \in Requests, NEW officer \in Officers,
         generate(r, officer) \/ prepareRelease(r, officer) \/ releasePermit(r, officer)
  PROVE  IInv'
<1>1. TypeOK /\ Carries /\ Rows /\ Earned
  BY DEF IInv
<1>2. UNCHANGED << status, assessments, orders, payments, keys >>
  BY DEF generate, prepareRelease, releasePermit
<1>3. Rows'
  BY <1>1, <1>2, RowsUntouched
<1>4. /\ {"generate", "prepare", "release"} \subseteq ActKind /\ officer \in Accounts
      /\ \E act \in {"generate", "prepare", "release"} : Written(r, act, officer)
  BY DEF generate, prepareRelease, releasePermit, ActKind, Accounts
<1>5. /\ s' \in [Requests -> Session]
      /\ \A q \in Requests : s'[q].pc = "checked" => s'[q] = s[q]
  BY <1>1, <1>4, WrittenType, NotChecked
<1>6. TypeOK'
  BY <1>1, <1>2, <1>5 DEF TypeOK, generate, prepareRelease, releasePermit
<1>7. Carries'
  <2>1. Recorded' = Recorded
    BY <1>2 DEF Recorded
  <2> QED  BY <1>1, <1>2, <1>5, <2>1, CarriesKept
<1>8. Earned'
  <2>1. Verified' = Verified
    BY <1>2 DEF Verified
  <2> QED  BY <1>1, <1>2, <2>1 DEF Earned, generate, Generatable, prepareRelease,
              releasePermit, Releasable, WithPermit, AtRelease
<1> QED  BY <1>3, <1>6, <1>7, <1>8 DEF IInv

\* An Order is issued, in place of none or of the one it supersedes.
LEMMA InsertOrderKeepsOneBill ==
  ASSUME TypeOK, OneBillInForce, NEW o \in Orders, NEW a,
         NEW superseded \in SUBSET Orders,
         \A x \in superseded : orders[x].state # "none",
         insertOrder(o, a, superseded), UNCHANGED payments
  PROVE  /\ OneBillInForce'
         /\ \A x \in Orders : orders[x].state # "none" => orders'[x].state # "none"
<1>1. o \notin superseded /\ InForce \subseteq superseded
  BY DEF insertOrder, orders_of_payment_in_force_idx
<1>2. /\ orders'[o].state = "in force"
      /\ \A x \in superseded : orders'[x].state = "superseded"
      /\ \A x \in Orders \ (superseded \cup {o}) : orders'[x] = orders[x]
  <2>1. \A x \in Orders : orders[x] \in Order
    BY DEF TypeOK
  <2> QED  BY <1>1, <2>1 DEF insertOrder, Order
<1>3. InForce' = {o}
  BY <1>1, <1>2 DEF InForce
<1>4. \A x \in Orders : orders[x].state # "none" => orders'[x].state # "none"
  BY <1>2
<1>5. Recorded' = Recorded
  BY DEF Recorded
<1>6. \A p \in Recorded : payments[p].order \in Orders
                         /\ orders'[payments[p].order].state # "none"
  BY <1>4 DEF OneBillInForce
<1> QED  BY <1>3, <1>4, <1>5, <1>6 DEF OneBillInForce

LEMMA OrderStep ==
  ASSUME IInv, NEW r \in Requests, IssueInsert(r) \/ SupersedeWrite(r)
  PROVE  IInv'
<1>1. TypeOK /\ Carries /\ Rows /\ Earned
  BY DEF IInv
<1>2. UNCHANGED << status, payments, keys, permit, release >>
  BY DEF IssueInsert, SupersedeWrite
<1>3. s[r].assessment \in Maybe(Assessments) /\ s[r] \in Session
  BY <1>1, SessionFields
<1>4. PICK o \in Orders, superseded \in SUBSET Orders :
        /\ \A x \in superseded : orders[x].state # "none"
        /\ insertOrder(o, s[r].assessment, superseded)
  <2>1. CASE IssueInsert(r)
    BY <2>1 DEF IssueInsert
  <2>2. CASE SupersedeWrite(r)
    <3>1. s[r].order \in Orders /\ orders[s[r].order].state # "none"
      BY <1>1, <2>2 DEF SupersedeWrite, Carries, At
    <3> QED  BY <2>2, <3>1 DEF SupersedeWrite
  <2> QED  BY <2>1, <2>2
<1>5. /\ orders' \in [Orders -> Order] /\ OneBillInForce'
      /\ \A x \in Orders : orders[x].state # "none" => orders'[x].state # "none"
  BY <1>1, <1>2, <1>3, <1>4, InsertOrderType, InsertOrderKeepsOneBill DEF Rows
<1>6. /\ s' \in [Requests -> Session]
      /\ \A q \in Requests : s'[q].pc = "checked" => s'[q] = s[q]
  <2>1. CASE IssueInsert(r)
    <3> DEFINE x == [s[r] EXCEPT !.pc = "inserted"]
    <3>1. x \in Session /\ x.pc # "checked" /\ Reads(r, x)
      BY <1>3, <2>1 DEF Session, IssueInsert
    <3> HIDE DEF x
    <3> QED  BY <1>1, <3>1, ReadsType, NotChecked
  <2>2. CASE SupersedeWrite(r)
    BY <1>1, <2>2, EndsType, NotChecked DEF SupersedeWrite
  <2> QED  BY <2>1, <2>2
<1>7. TypeOK'
  BY <1>1, <1>2, <1>5, <1>6 DEF TypeOK, IssueInsert, SupersedeWrite
<1>8. Rows'
  BY <1>1, <1>2, <1>5 DEF Rows, OneVerifiedPayment, SettledByOneUndoneByAnother,
     OnePaymentPerKey, Tidy, Verified, Recorded
<1>9. Carries' /\ Earned'
  <2>1. Recorded' = Recorded /\ Verified' = Verified
    BY <1>2 DEF Recorded, Verified
  <2> QED  BY <1>1, <1>2, <1>5, <1>6, <2>1, CarriesKept DEF Earned
<1> QED  BY <1>7, <1>8, <1>9 DEF IInv

\* A payment is recorded, with the key of its request.
LEMMA PayStep ==
  ASSUME IInv, NEW r \in Requests, ProofWrite(r) \/ OnsiteWrite(r)
  PROVE  IInv'
<1>1. TypeOK /\ Carries /\ Rows /\ Earned
  BY DEF IInv
<1>2. /\ s[r].key \in Keys /\ s[r].order \in Orders
      /\ orders[s[r].order].state # "none" /\ s[r].by \in Accounts
      /\ s[r].act = "onsite" => s[r].by \in Officers
  BY <1>1, SessionFields DEF ProofWrite, OnsiteWrite, Carries, At
<1>3. PICK payment \in Payment :
        /\ Pays(r, payment)
        /\ payment.status \in {"Pending Verification", "Paid"}
        /\ payment.status = "Paid" => payment.verifier # Nothing
        /\ payment.order = s[r].order /\ payment.key = << s[r].by, s[r].key >>
  <2>1. CASE ProofWrite(r)
    <3> DEFINE x == [NoPayment EXCEPT !.status = "Pending Verification",
                       !.order = s[r].order, !.key = << s[r].by, s[r].key >>]
    <3>1. /\ x \in Payment /\ x.status = "Pending Verification"
          /\ x.order = s[r].order /\ x.key = << s[r].by, s[r].key >>
      BY <1>2 DEF NoPayment, Payment, PaymentStatus, Maybe
    <3>2. Pays(r, x)
      BY <2>1 DEF ProofWrite
    <3> HIDE DEF x
    <3> QED  BY <3>1, <3>2
  <2>2. CASE OnsiteWrite(r)
    <3> DEFINE x == [NoPayment EXCEPT !.status = "Paid", !.verifier = s[r].by,
                       !.order = s[r].order, !.key = << s[r].by, s[r].key >>]
    <3>1. s[r].by \in Officers
      BY <1>2, <2>2 DEF OnsiteWrite, At
    <3>2. /\ x \in Payment /\ x.status = "Paid" /\ x.verifier # Nothing
          /\ x.order = s[r].order /\ x.key = << s[r].by, s[r].key >>
      BY <1>2, <3>1, FeeCaseAssumption DEF NoPayment, Payment, PaymentStatus, Maybe
    <3>3. Pays(r, x)
      BY <2>2 DEF OnsiteWrite
    <3> HIDE DEF x
    <3> QED  BY <3>2, <3>3
  <2> QED  BY <2>1, <2>2
<1>4. /\ payments' \in [Payments -> Payment] /\ keys' \subseteq Accounts \X Keys
      /\ s' \in [Requests -> Session]
  BY <1>1, <1>2, <1>3, PaysType
<1>5. /\ UNCHANGED << status, assessments, orders, permit, release >>
      /\ << s[r].by, s[r].key >> \notin keys
      /\ keys' = keys \cup {<< s[r].by, s[r].key >>}
  BY <1>3 DEF Pays, idempotency_keys_pkey
<1>6. PICK p \in Payments \ Recorded :
        /\ payment.verifier # Nothing => Verified \subseteq {p}
        /\ payments' = [payments EXCEPT ![p] = payment]
  BY <1>3 DEF Pays, payments_one_verified_idx
<1>7. /\ payments'[p] = payment
      /\ \A q \in Payments : q # p => payments'[q] = payments[q]
  BY <1>1, <1>6 DEF TypeOK
<1>8. /\ Recorded' = Recorded \cup {p}
      /\ Verified' = Verified \cup { q \in {p} : payment.verifier # Nothing }
  <2>1. payment.status # "none"
    BY <1>3
  <2>2. payments[p].status = "none" /\ payments[p].verifier = Nothing
    BY <1>1, <1>6 DEF Recorded, Rows, Tidy
  <2>3. Recorded' = Recorded \cup {p}
    BY <1>7, <2>1 DEF Recorded
  <2>4. \A q \in Payments : q \in Verified' <=>
          q \in Verified \/ (q = p /\ payment.verifier # Nothing)
    BY <1>7, <2>2 DEF Verified
  <2>5. Verified \subseteq Payments /\ Verified' \subseteq Payments /\ p \in Payments
    BY DEF Verified
  <2> QED  BY <2>3, <2>4, <2>5
<1>9. TypeOK'
  BY <1>1, <1>4, <1>5 DEF TypeOK
<1>10. Carries'
  <2>1. \A q \in Requests : s'[q].pc = "checked" => s'[q] = s[q]
    BY <1>1, <1>3, NotChecked DEF Pays
  <2>2. \A q \in Requests : Undoers(q) => payments'[s[q].payment] = payments[s[q].payment]
    BY <1>1, <1>6, <1>7 DEF Carries, Recorded
  <2> QED  BY <1>1, <1>5, <1>8, <2>1, <2>2, CarriesKept
<1>11. OneVerifiedPayment' /\ SettledByOneUndoneByAnother'
  BY <1>1, <1>3, <1>6, <1>7, <1>8 DEF Rows, OneVerifiedPayment,
     SettledByOneUndoneByAnother
<1>12. OnePaymentPerKey' /\ Tidy'
  <2>1. \A q \in Recorded : payments[q].key \in keys /\ q # p
    BY <1>1, <1>6 DEF Rows, Tidy, Recorded
  <2>2. \A q \in Recorded : payments'[q].key # payment.key
    BY <1>3, <1>5, <1>7, <2>1 DEF Recorded
  <2>3. OnePaymentPerKey'
    <3>1. \A q \in Recorded : payments'[q] = payments[q]
      BY <1>7, <2>1 DEF Recorded
    <3> QED  BY <1>1, <1>7, <1>8, <2>2, <3>1 DEF Rows, OnePaymentPerKey
  <2>4. payment.status \notin Undone /\ payment.status # "none" /\ payment.key \in keys'
    BY <1>3, <1>5 DEF Undone
  <2>5. Tidy'
    BY <1>1, <1>5, <1>7, <1>8, <2>1, <2>4 DEF Rows, Tidy
  <2> QED  BY <2>3, <2>5
<1>13. OneBillInForce'
  <2>1. InForce' = InForce
    BY <1>5 DEF InForce
  <2>2. \A q \in Recorded : payments'[q] = payments[q]
    BY <1>6, <1>7 DEF Recorded
  <2>3. \A q \in Recorded' : payments'[q].order \in Orders
                            /\ orders[payments'[q].order].state # "none"
    BY <1>1, <1>2, <1>3, <1>7, <1>8, <2>2 DEF Rows, OneBillInForce
  <2> QED  BY <1>1, <1>5, <2>1, <2>3 DEF Rows, OneBillInForce
<1>14. Earned'
  BY <1>1, <1>5, <1>8 DEF Earned
<1> QED  BY <1>9, <1>10, <1>11, <1>12, <1>13, <1>14 DEF IInv, Rows

\* A recorded payment's row is rewritten; its key and its Order stay.
LEMMA RewriteStep ==
  ASSUME TypeOK, Rows, NEW p \in Recorded, NEW row \in Payment,
         payments' = [payments EXCEPT ![p] = row], UNCHANGED << orders, keys >>,
         row.key = payments[p].key, row.order = payments[p].order,
         row.status # "none",
         row.status \in Undone => row.undoer # Nothing,
         row.status \in {"Paid", "Reversed", "Refunded"} => row.verifier # Nothing,
         row.status \in {"Reversed", "Refunded"} =>
           row.undoer # row.verifier \/ row.undoer \in SuperAdmins,
         row.verifier # Nothing => Verified \subseteq {p},
         payments[p].verifier # Nothing => row.verifier # Nothing
  PROVE  /\ Rows' /\ payments' \in [Payments -> Payment]
         /\ Recorded' = Recorded /\ Verified \subseteq Verified'
         /\ \A q \in Payments : q # p => payments'[q] = payments[q]
<1>1. p \in Payments /\ payments[p].status # "none"
  BY DEF Recorded
<1>2. /\ payments'[p] = row
      /\ \A q \in Payments : q # p => payments'[q] = payments[q]
  BY <1>1 DEF TypeOK
<1>3. payments' \in [Payments -> Payment]
  BY DEF TypeOK
<1>4. Recorded' = Recorded
  BY <1>1, <1>2 DEF Recorded
<1>5. Verified \subseteq Verified'
  BY <1>1, <1>2 DEF Verified
<1>6. OneVerifiedPayment'
  <2>1. ASSUME NEW q \in Verified' PROVE q \in Verified \/ (q = p /\ row.verifier # Nothing)
    BY <1>2, <2>1 DEF Verified
  <2> QED  BY <2>1 DEF Rows, OneVerifiedPayment
<1>7. SettledByOneUndoneByAnother'
  <2>1. ASSUME NEW q \in Payments
        PROVE  /\ payments'[q].status \in {"Paid", "Reversed", "Refunded"} =>
                    payments'[q].verifier # Nothing
               /\ payments'[q].status \in {"Reversed", "Refunded"} =>
                    payments'[q].undoer # payments'[q].verifier
                    \/ payments'[q].undoer \in SuperAdmins
    <3>1. CASE q = p
      BY <1>2, <3>1
    <3>2. CASE q # p
      BY <1>2, <2>1, <3>2 DEF Rows, SettledByOneUndoneByAnother
    <3> QED  BY <3>1, <3>2
  <2> QED  BY <2>1 DEF SettledByOneUndoneByAnother
<1>8. \A q \in Recorded : /\ payments'[q].key = payments[q].key
                         /\ payments'[q].order = payments[q].order
  BY <1>2 DEF Recorded
<1>9. OnePaymentPerKey'
  BY <1>4, <1>8 DEF Rows, OnePaymentPerKey
<1>10. OneBillInForce'
  <2>1. InForce' = InForce
    BY DEF InForce
  <2> QED  BY <1>4, <1>8, <2>1 DEF Rows, OneBillInForce
<1>11. Tidy'
  <2>1. ASSUME NEW q \in Payments
        PROVE  /\ payments'[q].status \in Undone => payments'[q].undoer # Nothing
               /\ payments'[q].status = "none" => payments'[q].verifier = Nothing
    BY <1>2, <2>1 DEF Rows, Tidy
  <2>2. \A q \in Recorded' : payments'[q].key \in keys'
    BY <1>4, <1>8 DEF Rows, Tidy, Recorded
  <2> QED  BY <2>1, <2>2 DEF Tidy
<1> QED  BY <1>2, <1>3, <1>4, <1>5, <1>6, <1>7, <1>9, <1>10, <1>11 DEF Rows

\* A payment is verified.
LEMMA VerifyStep ==
  ASSUME IInv, NEW r \in Requests, VerifyWrite(r)
  PROVE  IInv'
<1> DEFINE p == s[r].payment
           row == [payments[p] EXCEPT !.status = "Paid", !.verifier = s[r].by]
<1>1. TypeOK /\ Carries /\ Rows /\ Earned
  BY DEF IInv
<1>2. /\ UNCHANGED << status, assessments, orders, keys, permit, release >>
      /\ Written(r, "verify", s[r].by)
  BY DEF VerifyWrite
<1>3. p \in Recorded /\ p \in Payments /\ s[r].by \in Officers
  BY <1>1 DEF VerifyWrite, Carries, At, Recorded
<1>4. payments[p] \in Payment /\ payments[p].undoer = Nothing /\ Verified \subseteq {p}
  BY <1>1, <1>3 DEF TypeOK, VerifyWrite, exception_is_attributable,
     payments_one_verified_idx
<1>5. /\ row \in Payment /\ row.status = "Paid" /\ row.verifier # Nothing
      /\ row.key = payments[p].key /\ row.order = payments[p].order
  BY <1>3, <1>4, FeeCaseAssumption DEF Payment, PaymentStatus, Maybe
<1>6. payments' = [payments EXCEPT ![p] = row]
  BY DEF VerifyWrite
<1>7. \A q \in Requests : Undoers(q) => s[q].payment # p
  BY DEF VerifyWrite, RowFree, Undoers, Undoing
<1> HIDE DEF row, p
<1>8. /\ Rows' /\ payments' \in [Payments -> Payment]
      /\ Recorded' = Recorded /\ Verified \subseteq Verified'
      /\ \A q \in Payments : q # p => payments'[q] = payments[q]
  BY <1>1, <1>2, <1>3, <1>4, <1>5, <1>6, RewriteStep DEF Undone
<1>9. /\ s' \in [Requests -> Session]
      /\ \A q \in Requests : s'[q].pc = "checked" => s'[q] = s[q]
  BY <1>1, <1>2, <1>3, WrittenType, NotChecked DEF ActKind, Accounts
<1>10. TypeOK'
  BY <1>1, <1>2, <1>8, <1>9 DEF TypeOK
<1>11. Carries'
  <2>1. \A q \in Requests : Undoers(q) => payments'[s[q].payment] = payments[s[q].payment]
    BY <1>1, <1>7, <1>8 DEF Carries, Recorded
  <2> QED  BY <1>1, <1>2, <1>8, <1>9, <2>1, CarriesKept
<1>12. Earned'
  BY <1>1, <1>2, <1>8 DEF Earned
<1> QED  BY <1>8, <1>10, <1>11, <1>12 DEF IInv

\* A payment that was never verified is rejected.
LEMMA RejectStep ==
  ASSUME IInv, NEW r \in Requests, NEW officer \in Officers, NEW p \in Payments,
         Reject(r, officer, p)
  PROVE  IInv'
<1> DEFINE row == [payments[p] EXCEPT !.status = "Not Yet Available"]
           x == [Idle EXCEPT !.pc = "rejected", !.act = "reject", !.by = officer,
                             !.payment = p]
<1>1. TypeOK /\ Carries /\ Rows /\ Earned
  BY DEF IInv
<1>2. /\ UNCHANGED << status, assessments, orders, keys, permit, release >>
      /\ Reads(r, x)
  BY DEF Reject
<1>3. p \in Recorded /\ payments[p].verifier = Nothing
  BY DEF Reject, Verified
<1>4. payments[p] \in Payment
  BY <1>1 DEF TypeOK
<1>5. /\ row \in Payment /\ row.status = "Not Yet Available" /\ row.verifier = Nothing
      /\ row.key = payments[p].key /\ row.order = payments[p].order
  BY <1>3, <1>4 DEF Payment, PaymentStatus
<1>6. payments' = [payments EXCEPT ![p] = row]
  BY DEF Reject
<1>7. \A q \in Requests : Undoers(q) => s[q].payment # p
  BY DEF Reject, RowFree, Undoers, Undoing
<1>8. x \in Session /\ x.pc # "checked"
  BY IdleType DEF Session, ActKind, Accounts, Maybe
<1> HIDE DEF row, x
<1>9. /\ Rows' /\ payments' \in [Payments -> Payment]
      /\ Recorded' = Recorded /\ Verified \subseteq Verified'
      /\ \A q \in Payments : q # p => payments'[q] = payments[q]
  BY <1>1, <1>2, <1>3, <1>4, <1>5, <1>6, RewriteStep DEF Undone
<1>10. /\ s' \in [Requests -> Session]
       /\ \A q \in Requests : s'[q].pc = "checked" => s'[q] = s[q]
  BY <1>1, <1>2, <1>8, ReadsType, NotChecked
<1>11. TypeOK'
  BY <1>1, <1>2, <1>9, <1>10 DEF TypeOK
<1>12. Carries'
  <2>1. \A q \in Requests : Undoers(q) => payments'[s[q].payment] = payments[s[q].payment]
    BY <1>1, <1>7, <1>9 DEF Carries, Recorded
  <2> QED  BY <1>1, <1>2, <1>9, <1>10, <2>1, CarriesKept
<1>13. Earned'
  BY <1>1, <1>2, <1>9 DEF Earned
<1> QED  BY <1>9, <1>11, <1>12, <1>13 DEF IInv

\* What an undo writes: its own status, by an officer who may.
LEMMA UndoneRow ==
  ASSUME IInv, NEW r \in Requests, UndoWrite(r)
  PROVE  LET p == s[r].payment
             row == [payments[p] EXCEPT !.status = Undoing[s[r].act], !.undoer = s[r].by]
         IN  /\ p \in Recorded /\ p \in Payments
             /\ payments' = [payments EXCEPT ![p] = row]
             /\ row \in Payment /\ row.status \in Undone /\ row.undoer # Nothing
             /\ row.key = payments[p].key /\ row.order = payments[p].order
             /\ row.verifier = payments[p].verifier
             /\ row.status \in {"Reversed", "Refunded"} =>
                  /\ row.verifier # Nothing
                  /\ row.undoer # row.verifier \/ row.undoer \in SuperAdmins
<1> DEFINE p == s[r].payment
           row == [payments[p] EXCEPT !.status = Undoing[s[r].act], !.undoer = s[r].by]
<1>1. TypeOK /\ Carries /\ Rows
  BY DEF IInv
<1>2. /\ p \in Recorded /\ p \in Payments /\ s[r].by \in Officers
      /\ MayUndo(s[r].act, s[r].by, p)
      /\ s[r].act \in {"void", "reverse", "refund"}
  BY <1>1 DEF UndoWrite, Carries, Undoers, At, Recorded, Undoing
<1>3. payments[p] \in Payment
  BY <1>1, <1>2 DEF TypeOK
<1>4. payments' = [payments EXCEPT ![p] = row]
  BY DEF UndoWrite
<1>5. /\ Undoing[s[r].act] \in Undone
      /\ Undoing[s[r].act] \in {"Reversed", "Refunded"} => s[r].act # "void"
  BY <1>2 DEF Undoing, Undone
<1>6. /\ row \in Payment /\ row.status = Undoing[s[r].act] /\ row.undoer = s[r].by
      /\ row.key = payments[p].key /\ row.order = payments[p].order
      /\ row.verifier = payments[p].verifier
  BY <1>2, <1>3, <1>5 DEF Payment, PaymentStatus, Maybe, Undone
<1>7. row.undoer # Nothing
  BY <1>2, <1>6, FeeCaseAssumption
<1>8. s[r].act # "void" => /\ payments[p].status = "Paid"
                           /\ payments[p].verifier # s[r].by \/ s[r].by \in SuperAdmins
  BY <1>2 DEF MayUndo
<1>9. payments[p].status = "Paid" => payments[p].verifier # Nothing
  BY <1>1, <1>2 DEF Rows, SettledByOneUndoneByAnother
<1> HIDE DEF row, p
<1>10. row.status \in {"Reversed", "Refunded"} =>
         /\ row.verifier # Nothing
         /\ row.undoer # row.verifier \/ row.undoer \in SuperAdmins
  BY <1>5, <1>6, <1>8, <1>9
<1>11. row.status \in Undone
  BY <1>5, <1>6
<1> QED  BY <1>2, <1>4, <1>6, <1>7, <1>10, <1>11 DEF row, p

\* A payment is voided, reversed or refunded.
LEMMA UndoStep ==
  ASSUME IInv, NEW r \in Requests, UndoWrite(r)
  PROVE  IInv'
<1> DEFINE p == s[r].payment
           row == [payments[p] EXCEPT !.status = Undoing[s[r].act], !.undoer = s[r].by]
<1>1. TypeOK /\ Carries /\ Rows /\ Earned
  BY DEF IInv
<1>2. /\ UNCHANGED << status, assessments, orders, keys, permit, release >>
      /\ Ends(r) /\ Undoers(r)
  BY DEF UndoWrite, Undoers
<1>3. /\ p \in Recorded /\ p \in Payments
      /\ payments' = [payments EXCEPT ![p] = row]
      /\ row \in Payment /\ row.status \in Undone /\ row.undoer # Nothing
      /\ row.key = payments[p].key /\ row.order = payments[p].order
      /\ row.verifier = payments[p].verifier
      /\ row.status \in {"Reversed", "Refunded"} =>
           /\ row.verifier # Nothing
           /\ row.undoer # row.verifier \/ row.undoer \in SuperAdmins
  BY UndoneRow
<1>4. \A q \in Requests : Undoers(q) /\ q # r => s[q].payment # p
  BY <1>1, <1>2 DEF Carries
<1> HIDE DEF row, p
<1>5. row.verifier # Nothing => Verified \subseteq {p}
  <2>1. row.verifier # Nothing => p \in Verified
    BY <1>3 DEF Verified
  <2> QED  BY <1>1, <2>1 DEF Rows, OneVerifiedPayment
<1>6. row.status # "none" /\ row.status # "Paid"
  BY <1>3 DEF Undone
<1>7. /\ Rows' /\ payments' \in [Payments -> Payment]
      /\ Recorded' = Recorded /\ Verified \subseteq Verified'
      /\ \A q \in Payments : q # p => payments'[q] = payments[q]
  BY <1>1, <1>2, <1>3, <1>5, <1>6, RewriteStep
<1>8. /\ s' \in [Requests -> Session]
      /\ \A q \in Requests : s'[q].pc = "checked" => q # r /\ s'[q] = s[q]
  BY <1>1, <1>2, EndsType, NotChecked
<1>9. TypeOK'
  BY <1>1, <1>2, <1>7, <1>8 DEF TypeOK
<1>10. Carries'
  <2>1. s'[r] # s[r]
    BY <1>1, <1>2 DEF Ends, Idle, TypeOK, Undoers, At
  <2>2. \A q \in Requests : Undoers(q) /\ s'[q] = s[q] =>
          payments'[s[q].payment] = payments[s[q].payment]
    BY <1>1, <1>4, <1>7, <2>1 DEF Carries, Recorded
  <2> QED  BY <1>1, <1>2, <1>7, <1>8, <2>2, CarriesKept
<1>11. Earned'
  BY <1>1, <1>2, <1>7 DEF Earned
<1> QED  BY <1>7, <1>9, <1>10, <1>11 DEF IInv

LEMMA IInvStep == IInv /\ [Next]_vars => IInv'
<1> SUFFICES ASSUME IInv, [Next]_vars PROVE IInv'
  OBVIOUS
<1>1. ASSUME NEW a \in Assessments, approve(a) PROVE IInv'
  BY <1>1, QuietStep
<1>2. ASSUME NEW r \in Requests, Begin(r) PROVE IInv'
  <2>1. CASE \E officer \in Officers :
               \/ generate(r, officer) \/ prepareRelease(r, officer)
               \/ releasePermit(r, officer)
    BY <2>1, PermitStep
  <2>2. CASE \E officer \in Officers, p \in Payments : Reject(r, officer, p)
    BY <2>2, RejectStep
  <2>3. CASE \/ \E key \in Keys : ProofCheck(r, key)
             \/ \E officer \in Officers :
                  \/ \E key \in Keys : OnsiteCheck(r, officer, key)
                  \/ IssueCheck(r, officer) \/ SupersedeCheck(r, officer)
                  \/ \E p \in Payments :
                       \/ VerifyCheck(r, officer, p)
                       \/ \E act \in DOMAIN Undoing : UndoCheck(r, act, officer, p)
    BY <2>3, CheckStep
  <2> QED  BY <1>2, <2>1, <2>2, <2>3 DEF Begin
<1>3. ASSUME NEW r \in Requests, Continue(r) \/ Crash(r) PROVE IInv'
  <2>1. CASE \/ MarkIssued(r) \/ RejectOthers(r) \/ FollowOn(r) \/ HopOn(r)
             \/ Raises(r) \/ Crash(r)
    BY <2>1, QuietStep
  <2>2. CASE IssueInsert(r) \/ SupersedeWrite(r)
    BY <2>2, OrderStep
  <2>3. CASE ProofWrite(r) \/ OnsiteWrite(r)
    BY <2>3, PayStep
  <2>4. CASE VerifyWrite(r)
    BY <2>4, VerifyStep
  <2>5. CASE UndoWrite(r)
    BY <2>5, UndoStep
  <2> QED  BY <1>3, <2>1, <2>2, <2>3, <2>4, <2>5 DEF Continue
<1>4. ASSUME NEW account \in Accounts, NEW to \in LifecycleStatuses, Move(account, to)
      PROVE  IInv'
  BY <1>4, QuietStep
<1>5. CASE UNCHANGED vars
  <2>1. TypeOK'
    BY <1>5 DEF IInv, TypeOK, vars
  <2>2. Rows'
    BY <1>5, RowsUntouched DEF IInv, vars
  <2>3. Recorded' = Recorded /\ Verified' = Verified
    BY <1>5 DEF Recorded, Verified, vars
  <2>4. UNCHANGED << s, orders, payments, status, permit, release >>
    BY <1>5 DEF vars
  <2>5. Carries'
    BY <2>3, <2>4, CarriesKept DEF IInv
  <2>6. Earned'
    BY <2>3, <2>4 DEF IInv, Earned
  <2> QED  BY <2>1, <2>2, <2>5, <2>6 DEF IInv
<1> QED  BY <1>1, <1>2, <1>3, <1>4, <1>5 DEF Next

THEOREM Invariance == Spec => []IInv
BY IInvInit, IInvStep, PTL DEF Spec

-----------------------------------------------------------------------------
\* WHAT FOLLOWS

\* Rows, keys and sessions keep their types whatever clients ask for, in
\* whatever order the statements of their acts interleave.
THEOREM TypeCorrect == Spec => []TypeOK
<1>1. IInv => TypeOK
  BY DEF IInv
<1> QED  BY <1>1, Invariance, PTL

\* At most one payment of an application is ever verified, however many are
\* sent, taken over the counter and verified at once (payments_one_verified_idx).
THEOREM OneVerified == Spec => []OneVerifiedPayment
<1>1. IInv => OneVerifiedPayment
  BY DEF IInv, Rows
<1> QED  BY <1>1, Invariance, PTL

\* A settled payment names who confirmed it, and another officer or a Super
\* Admin took it back (undo under the row lock it takes).
THEOREM FourEyes == Spec => []SettledByOneUndoneByAnother
<1>1. IInv => SettledByOneUndoneByAnother
  BY DEF IInv, Rows
<1> QED  BY <1>1, Invariance, PTL

\* A retry under the same key never records a second payment (submitProof,
\* recordOnsite, the primary key of idempotency_keys).
THEOREM OnePerKey == Spec => []OnePaymentPerKey
<1>1. IInv => OnePaymentPerKey
  BY DEF IInv, Rows
<1> QED  BY <1>1, Invariance, PTL

\* Once billed, an application has exactly one Order in force, and its payments
\* name Orders that were issued (issue, supersede, submitProof, recordOnsite).
THEOREM OneBill == Spec => []OneBillInForce
<1>1. IInv => OneBillInForce
  BY DEF IInv, Rows
<1> QED  BY <1>1, Invariance, PTL

LEMMA EarnedPermit == IInv => PermitWasEarned
<1> SUFFICES ASSUME IInv PROVE PermitWasEarned
  OBVIOUS
<1>1. /\ permit => status \in WithPermit
      /\ release = "released" => permit /\ status \in AtRelease
  BY DEF IInv, Earned
<1>2. ASSUME permit PROVE Verified # {} /\ InForce # {}
  <2>1. Verified # {}
    BY <1>1, <1>2 DEF IInv, Earned, WithPermit, AfterPayment
  <2>2. PICK p \in Payments : payments[p].verifier # Nothing
    BY <2>1 DEF Verified
  <2>3. p \in Recorded
    BY <2>2 DEF IInv, Rows, Tidy, Recorded
  <2>4. \E o \in Orders : orders[o].state # "none"
    BY <2>3 DEF IInv, Rows, OneBillInForce
  <2> QED  BY <2>1, <2>4 DEF IInv, Rows, OneBillInForce
<1> QED  BY <1>1, <1>2 DEF PermitWasEarned, WithPermit, AtRelease

\* A permit stands only on an approved application with a verified payment and
\* a bill, and is handed over only from Ready for Release (generate, release,
\* and the preconditions of the transition table).
THEOREM EarnedAlways == Spec => []PermitWasEarned
BY EarnedPermit, Invariance, PTL

LEMMA UndoneStep ==
  ASSUME IInv, [Next]_vars, NEW p \in Payments, payments[p].status \in Undone
  PROVE  payments'[p].status \in Undone
<1>1. payments \in [Payments -> Payment] /\ payments[p].undoer # Nothing
  BY DEF IInv, TypeOK, Rows, Tidy
<1>2. p \in Recorded
  BY DEF Undone, Recorded
<1>3. ASSUME NEW r \in Requests, NEW payment, Pays(r, payment)
      PROVE  payments'[p] = payments[p]
  BY <1>1, <1>2, <1>3 DEF Pays
<1>4. ASSUME NEW r \in Requests, VerifyWrite(r) PROVE payments'[p] = payments[p]
  BY <1>1, <1>4 DEF VerifyWrite, exception_is_attributable
<1>5. ASSUME NEW r \in Requests, NEW officer \in Officers, NEW q \in Payments,
             Reject(r, officer, q)
      PROVE  payments'[p] = payments[p]
  BY <1>1, <1>5 DEF Reject, exception_is_attributable
<1>6. ASSUME NEW r \in Requests, UndoWrite(r) PROVE payments'[p].status \in Undone
  <2> DEFINE q == s[r].payment
             row == [payments[q] EXCEPT !.status = Undoing[s[r].act], !.undoer = s[r].by]
  <2>1. payments' = [payments EXCEPT ![q] = row] /\ row.status \in Undone
    BY <1>6, UndoneRow
  <2> HIDE DEF row, q
  <2> QED  BY <1>1, <2>1
<1>7. CASE UNCHANGED payments
  BY <1>7
<1>8. \/ UNCHANGED payments
      \/ \E r \in Requests :
           \/ ProofWrite(r) \/ OnsiteWrite(r) \/ VerifyWrite(r) \/ UndoWrite(r)
           \/ \E officer \in Officers, q \in Payments : Reject(r, officer, q)
  <2>1. CASE UNCHANGED vars
    BY <2>1 DEF vars
  <2>2. ASSUME NEW a \in Assessments, approve(a) PROVE UNCHANGED payments
    BY <2>2 DEF approve
  <2>3. ASSUME NEW account \in Accounts, NEW to \in LifecycleStatuses, Move(account, to)
        PROVE  UNCHANGED payments
    BY <2>3 DEF Move
  <2>4. ASSUME NEW r \in Requests, Begin(r)
        PROVE  \/ UNCHANGED payments
               \/ \E officer \in Officers, q \in Payments : Reject(r, officer, q)
    BY <2>4 DEF Begin, ProofCheck, OnsiteCheck, PayCheck, IssueCheck, SupersedeCheck,
       VerifyCheck, UndoCheck, generate, prepareRelease, releasePermit
  <2>5. ASSUME NEW r \in Requests, Continue(r) \/ Crash(r)
        PROVE  \/ UNCHANGED payments
               \/ ProofWrite(r) \/ OnsiteWrite(r) \/ VerifyWrite(r) \/ UndoWrite(r)
    BY <2>5 DEF Continue, Crash, IssueInsert, MarkIssued, SupersedeWrite, RejectOthers,
       FollowOn, HopOn, Raises
  <2> QED  BY <2>1, <2>2, <2>3, <2>4, <2>5 DEF Next
<1> QED  BY <1>3, <1>4, <1>5, <1>6, <1>7, <1>8 DEF ProofWrite, OnsiteWrite

\* Instruments are only ever added, and the status only moves as the table allows.
LEMMA InstrumentsGrow ==
  ASSUME [Next]_vars
  PROVE  /\ permit => permit'
         /\ release = "released" => release' = "released"
         /\ \/ UNCHANGED status
            \/ \E account, to : Allows(account, to) /\ status' = to
<1>1. ASSUME NEW r \in Requests, Begin(r)
      PROVE  /\ permit => permit'
             /\ release = "released" => release' = "released"
             /\ UNCHANGED status
  <2>1. CASE \E officer \in Officers :
               \/ generate(r, officer) \/ prepareRelease(r, officer)
               \/ releasePermit(r, officer)
    <3>1. UNCHANGED status /\ (release = "released" => release' = "released")
      BY <2>1 DEF generate, prepareRelease, releasePermit
    <3>2. permit => permit'
      BY <2>1, Zenon DEF generate, prepareRelease, releasePermit
    <3> QED  BY <3>1, <3>2
  <2>2. CASE \/ \E key \in Keys : ProofCheck(r, key)
             \/ \E officer \in Officers :
                  \/ \E key \in Keys : OnsiteCheck(r, officer, key)
                  \/ IssueCheck(r, officer) \/ SupersedeCheck(r, officer)
                  \/ \E p \in Payments :
                       \/ VerifyCheck(r, officer, p) \/ Reject(r, officer, p)
                       \/ \E act \in DOMAIN Undoing : UndoCheck(r, act, officer, p)
    <3>1. UNCHANGED << status, permit, release >>
      BY <2>2 DEF ProofCheck, OnsiteCheck, PayCheck, IssueCheck, SupersedeCheck,
         VerifyCheck, Reject, UndoCheck
    <3> QED  BY <3>1
  <2> QED  BY <1>1, <2>1, <2>2 DEF Begin
<1>2. ASSUME NEW r \in Requests, Continue(r) \/ Crash(r)
      PROVE  /\ UNCHANGED << permit, release >>
             /\ \/ UNCHANGED status
                \/ \E account, to : Allows(account, to) /\ status' = to
  BY <1>2 DEF Continue, Crash, IssueInsert, MarkIssued, SupersedeWrite, ProofWrite,
     OnsiteWrite, Pays, VerifyWrite, RejectOthers, UndoWrite, FollowOn, HopOn, Raises
<1>3. ASSUME NEW a \in Assessments, approve(a)
      PROVE  UNCHANGED << permit, release, status >>
  BY <1>3 DEF approve
<1>4. ASSUME NEW account \in Accounts, NEW to \in LifecycleStatuses, Move(account, to)
      PROVE  Allows(account, to) /\ status' = to /\ UNCHANGED << permit, release >>
  BY <1>4 DEF Move
<1>5. CASE UNCHANGED vars
  BY <1>5 DEF vars
<1> QED  BY <1>1, <1>2, <1>3, <1>4, <1>5 DEF Next

\* What the status announces: the permit that was generated, then handed over.
Announced ==
  /\ status \in WithInstrument => permit
  /\ status \in HandedOver => release = "released"

LEMMA AnnouncedStep == Announced /\ [Next]_vars => Announced'
<1> SUFFICES ASSUME Announced, [Next]_vars PROVE Announced'
  OBVIOUS
<1>1. /\ permit => permit'
      /\ release = "released" => release' = "released"
      /\ \/ UNCHANGED status
         \/ \E account, to : Allows(account, to) /\ status' = to
  BY InstrumentsGrow
<1>2. CASE UNCHANGED status
  BY <1>1, <1>2 DEF Announced
<1>3. ASSUME NEW account, NEW to, Allows(account, to), status' = to
      PROVE  Announced'
  <2>1. PICK rule \in TRANSITIONS :
          rule.from = status /\ rule.to = to /\ rule.preconditions \subseteq Met
    BY <1>3, AllowedIsListed
  <2>2. /\ "permit-generated" \in Met => permit
        /\ "permit-released" \in Met => release = "released"
    BY DEF Met, Documents
  <2>3. /\ to \in WithInstrument =>
              status \in WithInstrument \/ "permit-generated" \in Met
        /\ to \in HandedOver =>
              status \in HandedOver \/ "permit-released" \in Met
    BY <2>1, TableKeepsOrder
  <2> QED  BY <1>1, <1>3, <2>2, <2>3 DEF Announced
<1> QED  BY <1>1, <1>2, <1>3

\* The status never announces a permit, a release or a payment that does not
\* exist: on no path through the table, by hand or by a follow-on that resumes
\* or is refused half way, with any sessions in between.
THEOREM StatusIsBacked == Spec => []InstrumentsBehindStatus
<1>1. Init => Announced
  BY DEF Init, Announced, WithInstrument, HandedOver
<1>2. IInv /\ Announced => InstrumentsBehindStatus
  BY DEF IInv, Earned, Announced, WithInstrument, HandedOver, AfterPayment,
     InstrumentsBehindStatus
<1> QED  BY <1>1, <1>2, AnnouncedStep, Invariance, PTL DEF Spec

\* No verification or rejection in flight brings an undone payment back (undo,
\* verify, reject, exception_is_attributable).
THEOREM UndoneForGood == Spec => UndoneStaysUndone
<1>1. IInv /\ [Next]_vars =>
        [\A p \in Payments : payments[p].status \in Undone =>
           payments'[p].status \in Undone]_vars
  BY UndoneStep
<1> QED  BY <1>1, Invariance, PTL DEF Spec, UndoneStaysUndone
=============================================================================
