SPECIFICATION Spec
CONSTANTS
  Owner = owner
  Officers = {o1}
  SuperAdmins = {}
  Requests = {r1}
  Keys = {k1}
  Assessments = {a1}
  Orders = {op1}
  Payments = {p1}
  Nothing = nothing
  Acts <- StuckActs
  Asked <- ReturnMoves
  Crashes = FALSE
SYMMETRY Symmetry
CHECK_DEADLOCK FALSE
INVARIANT PaidIsNotStuck
