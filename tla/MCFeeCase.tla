----------------------------- MODULE MCFeeCase -----------------------------
(***************************************************************************)
(* Instances of FeeCase for TLC: which acts the clients ask for, and which *)
(* moves are made by hand.                                                 *)
(***************************************************************************)
EXTENDS FeeCase, TLC

\* Sessions, keys and rows differ by nothing but their names, and so do the
\* officers where none of them is Super Admin.
Symmetry ==
  Permutations(Requests) \cup Permutations(Keys) \cup Permutations(Orders)
    \cup Permutations(Payments) \cup Permutations(Assessments)
    \cup Permutations(Officers)

\* The few acts of one disagreement.
StuckActs == { "issue", "onsite" }
UndoPermitActs == { "issue", "onsite", "reverse", "generate" }

NoMoves == {}
PermitMoves ==
  { << "For Approval", "Approved" >>, << "Approved", "Permit Generated" >>,
    << "Permit Generated", "Ready for Release" >>,
    << "Ready for Release", "Released" >> }

\* Returned by the building official, answered, and assessed by hand again.
ReturnMoves ==
  { << "For Approval", "Revision Required" >>,
    << "Revision Required", "Under Evaluation" >>, << "Under Evaluation", "Assessed" >> }
=============================================================================
