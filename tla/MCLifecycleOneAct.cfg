SPECIFICATION Spec
CONSTANTS
  Owner = owner
  Officers = {o1}
  FormAccess = {o1}
  Scopes <- MCScopes
  StageHolder <- Everyone
  Requests = {r1}
  Keys = {k1}
  NoKey = NoKey
  NoRequest = NoRequest
  InitialStatus = "Submitted"
  Given <- RevisionGiven
  Changing = {}
  Asked <- RevisionMoves
  MaxVersion = 6
  MaxArchivings = 0
INVARIANTS
  AnsweringIsOneAct
CHECK_DEADLOCK FALSE
