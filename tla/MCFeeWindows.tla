---------------------------- MODULE MCFeeWindows ----------------------------
(***************************************************************************)
(* One instance of FeeCase for TLC: a case is followed at one of two       *)
(* windows, each with the acts it is about.                                *)
(***************************************************************************)
EXTENDS FeeCase, FiniteSets, TLC

CONSTANT
  Clerks     \* the officers who are no Super Admin

\* Sessions, keys and rows differ by nothing but their names.
Symmetry ==
  Permutations(Requests) \cup Permutations(Keys) \cup Permutations(Orders)
    \cup Permutations(Payments) \cup Permutations(Assessments)

PermitMoves ==
  { << "For Approval", "Approved" >>, << "Approved", "Permit Generated" >>,
    << "Permit Generated", "Ready for Release" >>,
    << "Ready for Release", "Released" >> }

-----------------------------------------------------------------------------
VARIABLE window

\* Paying, checking and taking back, by two officers who are no Super Admin.
PayingActs == { "issue", "proof", "onsite", "verify", "reject", "void", "reverse" }

\* Billing and correcting the bill, and from the payment to the permit in the
\* claimant's hands.
PermitActs ==
  { "issue", "supersede", "onsite", "refund", "generate", "prepare", "release" }

CaseActs == PayingActs \cup PermitActs

Working(acts, accounts) ==
  \A r \in Requests : s'[r].pc # "idle" => s'[r].act \in acts /\ s'[r].by \in accounts

PayingWindow ==
  /\ Next
  /\ Working(PayingActs, {Owner} \cup Clerks)
  /\ status' \notin {"Approved", "Permit Generated", "Ready for Release", "Released"}
  /\ Cardinality({ a \in Assessments : assessments'[a] # "none" }) <= 1

PermitWindow ==
  /\ Next
  /\ Working(PermitActs, {Owner, CHOOSE o \in Clerks : TRUE} \cup SuperAdmins)
  /\ Cardinality({ p \in Payments : payments'[p].status # "none" }) <= 1

CaseInit == Init /\ window \in {"paying", "permit"}
CaseNext ==
  /\ UNCHANGED window
  /\ \/ window = "paying" /\ PayingWindow
     \/ window = "permit" /\ PermitWindow
CaseSpec == CaseInit /\ [][CaseNext]_<< vars, window >>
=============================================================================
