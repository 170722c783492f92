--------------------------- MODULE LifecycleRules ---------------------------
(***************************************************************************)
(* The permit lifecycle as data, and the pure decision made over it:       *)
(* lifecycle.ts (the table of legal moves) and lifecycle-engine.ts         *)
(* (decide).  The same table seeds lifecycle_transitions, which both the   *)
(* service and the database trigger read.                                  *)
(***************************************************************************)
EXTENDS Naturals

LifecycleStatuses ==
  { "Draft", "Submitted", "Received", "Document Verification",
    "Under Evaluation", "Revision Required", "Assessed", "Payment Submitted",
    "Payment Under Verification", "Payment Verified", "For Approval",
    "Approved", "Permit Generated", "Ready for Release", "Released",
    "Completed", "Rejected", "Cancelled", "Expired" }

Preconditions ==
  { "identity-document-verified", "required-documents-present",
    "all-instructions-resolved", "returned-documents-replaced",
    "order-of-payment-issued", "payment-proof-submitted", "payment-verified",
    "evaluations-complete", "permit-generated", "permit-released" }

\* The scopes the rules name; a role grants a set of them.
Scope ==
  { "applications:write", "payments:write", "staff:receive", "staff:evaluate",
    "staff:assess", "staff:verify-payment", "staff:approve", "staff:release" }

Rule(from, to, actors, requires, preconditions, notifies) ==
  [ from |-> from, to |-> to, actors |-> actors, requires |-> requires,
    preconditions |-> preconditions, notifies |-> notifies ]

\* Who may start a move: the applicant and any officer, or only one of them.
Both == {"applicant", "staff"}
Staff == {"staff"}
Citizen == {"applicant"}

Documents == {"identity-document-verified", "required-documents-present"}

TRANSITIONS ==
  { Rule("Draft", "Submitted", Both, "applications:write", Documents, TRUE),
    Rule("Draft", "Cancelled", Both, "applications:write", {}, FALSE),
    Rule("Submitted", "Received", Staff, "staff:receive", {}, TRUE),
    Rule("Submitted", "Cancelled", Both, "applications:write", {}, FALSE),
    Rule("Received", "Document Verification", Staff, "staff:receive", {}, TRUE),
    Rule("Received", "Cancelled", Both, "applications:write", {}, FALSE),
    Rule("Document Verification", "Under Evaluation", Staff, "staff:evaluate",
         Documents, FALSE),
    Rule("Document Verification", "Revision Required", Staff, "staff:evaluate",
         {}, TRUE),
    Rule("Document Verification", "Rejected", Staff, "staff:approve", {}, TRUE),
    Rule("Under Evaluation", "Assessed", Staff, "staff:assess",
         {"evaluations-complete", "order-of-payment-issued"}, TRUE),
    Rule("Under Evaluation", "Revision Required", Staff, "staff:evaluate",
         {}, TRUE),
    Rule("Under Evaluation", "Rejected", Staff, "staff:approve", {}, TRUE),
    Rule("Revision Required", "Under Evaluation", Citizen, "applications:write",
         {"all-instructions-resolved", "returned-documents-replaced"}, FALSE),
    Rule("Revision Required", "Cancelled", Both, "applications:write",
         {}, FALSE),
    Rule("Revision Required", "Expired", Staff, "applications:write",
         {}, FALSE),
    Rule("Assessed", "Payment Submitted", Citizen, "payments:write",
         {"order-of-payment-issued", "payment-proof-submitted"}, TRUE),
    Rule("Assessed", "Cancelled", Staff, "staff:assess", {}, FALSE),
    Rule("Assessed", "Expired", Staff, "staff:assess", {}, FALSE),
    Rule("Payment Submitted", "Payment Under Verification", Staff,
         "staff:verify-payment", {"payment-proof-submitted"}, FALSE),
    Rule("Payment Under Verification", "Payment Verified", Staff,
         "staff:verify-payment", {"payment-verified"}, TRUE),
    Rule("Payment Under Verification", "Payment Submitted", Staff,
         "staff:verify-payment", {}, FALSE),
    Rule("Payment Verified", "For Approval", Staff, "staff:verify-payment",
         {"payment-verified"}, FALSE),
    Rule("For Approval", "Approved", Staff, "staff:approve",
         {"payment-verified", "evaluations-complete"}, TRUE),
    Rule("For Approval", "Revision Required", Staff, "staff:approve", {}, TRUE),
    Rule("For Approval", "Rejected", Staff, "staff:approve", {}, TRUE),
    Rule("Approved", "Permit Generated", Staff, "staff:approve",
         {"permit-generated"}, TRUE),
    Rule("Permit Generated", "Ready for Release", Staff, "staff:release",
         {"permit-generated"}, TRUE),
    Rule("Ready for Release", "Released", Staff, "staff:release",
         {"permit-generated", "permit-released"}, TRUE),
    Rule("Released", "Completed", Staff, "staff:release", {}, FALSE),
    Rule("Cancelled", "Submitted", Staff, "staff:approve", {}, FALSE),
    Rule("Rejected", "Submitted", Staff, "staff:approve", {}, FALSE),
    Rule("Expired", "Submitted", Staff, "staff:approve", {}, FALSE),
    Rule("Payment Submitted", "Assessed", Staff, "staff:verify-payment",
         {}, FALSE) }

RuleFor(from, to) == { r \in TRANSITIONS : r.from = from /\ r.to = to }

TERMINAL == {"Completed", "Rejected", "Cancelled", "Expired"}
isTerminal(status) == status \in TERMINAL

pledgeSuspended(status) == status = "Revision Required"

-----------------------------------------------------------------------------
\* "The version the caller last saw. Omitted means they did not check."
Unchecked == 0

\* Mutants: a move the table does not list is let through; the preconditions
\* are not asked.
decideUnlisted(snapshot, caller, to, expectedVersion) ==
  LET rules == RuleFor(snapshot.status, to) IN
  IF expectedVersion # Unchecked /\ expectedVersion # snapshot.version
    THEN "stale-version"
  ELSE IF \E r \in rules : ~(r.preconditions \subseteq snapshot.met)
    THEN "precondition-unmet"
  ELSE "ok"

decideUnmet(snapshot, caller, to, expectedVersion) ==
  IF expectedVersion # Unchecked /\ expectedVersion # snapshot.version
    THEN "stale-version"
  ELSE IF RuleFor(snapshot.status, to) = {} THEN "illegal-transition"
  ELSE "ok"

(***************************************************************************)
(* decide: the first reason that applies, in the order of the source's     *)
(* early returns, or "ok".  The snapshot is [status, version, met], met    *)
(* being the preconditions the SNAPSHOT_SQL found true; the caller is      *)
(* [kind, scopes, owner].                                                  *)
(***************************************************************************)
decide(snapshot, caller, to, expectedVersion) ==
  LET rules == RuleFor(snapshot.status, to) IN
  IF expectedVersion # Unchecked /\ expectedVersion # snapshot.version
    THEN "stale-version"
  ELSE IF rules = {} THEN "illegal-transition"
  ELSE IF \/ \E r \in rules : caller.kind \notin r.actors
          \/ \E r \in rules : r.requires \notin caller.scopes
          \/ caller.kind = "applicant" /\ ~caller.owner
    THEN "not-permitted"
  ELSE IF \E r \in rules : ~(r.preconditions \subseteq snapshot.met)
    THEN "precondition-unmet"
  ELSE "ok"
=============================================================================
