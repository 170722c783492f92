----------------------------- MODULE Authority -----------------------------
(***************************************************************************)
(* What the roles of staff confer: the scopes of each (account.ts) and the *)
(* statuses those let their holder see (visibility.ts).  The queue, the    *)
(* roster and the notices to staff all read these tables.                  *)
(***************************************************************************)

StaffRoles == { "receiving-officer", "records-officer", "evaluator", "assessor", "cashier",
  "building-official", "releasing-officer", "administrator", "auditor", "super-admin" }

StatusNames == { "Draft", "Submitted", "Received", "Document Verification", "Under Evaluation",
  "Revision Required", "Assessed", "Payment Submitted", "Payment Under Verification",
  "Payment Verified", "For Approval", "Approved", "Permit Generated", "Ready for Release",
  "Released", "Completed", "Rejected", "Cancelled", "Expired" }

\* ROLE_SCOPES, the scopes that confer authority over an application.
RoleScopes(role) ==
  CASE role = "receiving-officer" -> {"staff:receive"}
    [] role = "records-officer" -> {"staff:receive", "applications:write"}
    [] role = "evaluator" -> {"staff:evaluate"}
    [] role = "assessor" -> {"staff:assess"}
    [] role = "cashier" -> {"staff:verify-payment"}
    [] role = "building-official" -> {"staff:approve"}
    [] role = "releasing-officer" -> {"staff:release"}
    [] role = "administrator" -> {"staff:administer"}
    [] role = "auditor" -> {"audit:read"}
    [] role = "super-admin" ->
         { "staff:receive", "applications:write", "staff:evaluate", "staff:assess", "audit:read",
           "staff:verify-payment", "staff:approve", "staff:release", "staff:administer" }

\* visibleStatusesFor: what the worklist and the notices show a token's bearer.
VisibleTo(scopes) ==
  IF scopes \cap {"staff:administer", "audit:read", "applications:write", "staff:approve"} # {}
  THEN StatusNames
  ELSE UNION { CASE scope = "staff:receive" -> {"Submitted", "Received", "Document Verification"}
                 [] scope = "staff:evaluate" -> { "Submitted", "Received", "Revision Required",
                      "Document Verification", "Under Evaluation" }
                 [] scope = "staff:assess" -> {"Under Evaluation", "Assessed"}
                 [] scope = "staff:verify-payment" -> { "Assessed", "Payment Submitted",
                      "Payment Under Verification", "Payment Verified" }
                 [] scope = "staff:release" -> { "Approved", "Permit Generated",
                      "Ready for Release", "Released", "Completed" }
               : scope \in scopes }
=============================================================================
