SPECIFICATION Spec
CONSTANTS
  Owner = owner
  Officers = {o1}
  FormAccess = {o1}
  Scopes <- MCScopes
  StageHolder <- Everyone
  Requests = {r1}
  Keys = {k1}
  NoKey = NoKey
  NoRequest = NoRequest
  InitialStatus = "Submitted"
  Given <- RevisionGiven
  Changing = {"required-documents-present"}
  Asked <- RevisionMoves
  MaxVersion = 9
  MaxArchivings = 1
INVARIANTS
  OneLetterWaiting
CHECK_DEADLOCK FALSE
