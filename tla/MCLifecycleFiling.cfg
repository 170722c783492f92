SPECIFICATION FairSpec
CONSTANTS
  Owner = owner
  Officers = {o1}
  FormAccess = {o1}
  Scopes <- MCScopes
  StageHolder <- Everyone
  Requests = {r1, r2}
  Keys = {k1}
  NoKey = NoKey
  NoRequest = NoRequest
  InitialStatus = "Draft"
  Given <- Documents
  Changing = {}
  Asked <- FilingMoves
  MaxVersion = 4
  MaxArchivings = 0
INVARIANTS
  TimelineIsAWalk
  MovesAreTold
  ReplaysAreTrue
PROPERTIES
  EveryRequestEnds
CHECK_DEADLOCK FALSE
