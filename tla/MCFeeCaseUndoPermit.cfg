SPECIFICATION Spec
CONSTANTS
  Owner = owner
  Officers = {o1, o2}
  SuperAdmins = {}
  Requests = {r1, r2}
  Keys = {k1}
  Assessments = {a1}
  Orders = {op1}
  Payments = {p1}
  Nothing = nothing
  Acts <- UndoPermitActs
  Asked <- PermitMoves
  Crashes = FALSE
SYMMETRY Symmetry
CHECK_DEADLOCK FALSE
PROPERTY PermitRefusesUndo
