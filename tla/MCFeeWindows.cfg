SPECIFICATION CaseSpec
CONSTANTS
  Owner = owner
  Officers = {o1, o2, o3}
  Clerks = {o1, o3}
  SuperAdmins = {o2}
  Requests = {r1, r2}
  Keys = {k1, k2}
  Assessments = {a1, a2}
  Orders = {op1, op2, op3}
  Payments = {p1, p2}
  Nothing = nothing
  Acts <- CaseActs
  Asked <- PermitMoves
  Crashes = TRUE
SYMMETRY Symmetry
CHECK_DEADLOCK FALSE
INVARIANTS
  OneVerifiedPayment
  SettledByOneUndoneByAnother
  PermitWasEarned
  InstrumentsBehindStatus
