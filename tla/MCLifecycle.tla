---------------------------- MODULE MCLifecycle -----------------------------
(***************************************************************************)
(* Instances of Lifecycle for TLC.  Each names the moves its clients ask   *)
(* for and the evidence that changes under them.                           *)
(***************************************************************************)
EXTENDS Lifecycle

MCScopes == [o \in Officers |-> Scope]
Everyone == [s \in {"Document Verification", "Under Evaluation"} |-> Officers]

\* Filing, withdrawing, archiving and restoring.
FilingMoves ==
  { << "Draft", "Submitted" >>, << "Draft", "Cancelled" >>,
    << "Submitted", "Cancelled" >>, << "Cancelled", "Submitted" >> }

\* Returned for revision, answered, returned again, abandoned and restored.
RevisionMoves ==
  { << "Submitted", "Received" >>, << "Received", "Document Verification" >>,
    << "Document Verification", "Revision Required" >>,
    << "Revision Required", "Under Evaluation" >>,
    << "Under Evaluation", "Revision Required" >>,
    << "Revision Required", "Cancelled" >>, << "Cancelled", "Submitted" >> }
RevisionGiven == Documents \cup {"returned-documents-replaced"}
=============================================================================
