SPECIFICATION OfficeSpec
CONSTANTS
  Rows = {1, 2, 3}
  Files = {f1}
  Citizens = {maria}
  Counters = {}
  Matters = {m1}
  None = none
  Uploads = {1, 2}
  MaxLost = 1
  Writers = {w1, w2}
  Entries = {e1, refusal}
  Refusals = {refusal}
  MaxChain = 3
  MaxTamper = 1
  Numbers = {n1, n2}
  Tokens = {1, 2, 3}
  Photos = {k1, k2}
  Applications = {a1, a2}
  Nil = nil
  Acts = {1, 2}
  MaxAttempts = 2
  MaxCutShort = 1
  Addresses = {maria, luisa}
  Names = {ana, ben}
  Counterstaff = {clerk1}
  Bare = {}
  Keys = {key1}
  Shops = {s1}
  Types = {residential}
  Permits = {p1}
  PermitOf <- MCPermitOf
  Filings = {1, 2}
  Nobody = nobody
  Clerks = {1, 2}
  MaxGuesses = 2
  Codes = {plans, clearance}
  StageOf <- MCStageOf
  Officers = {ines, zoe}
  Applicant = maria
  Positions <- MCPositions
  NoOne = nobody
  Desks = {1, 2}
  MaxCopies = 2
  People = {paul, rosa, juan}
  Founders = {paul, rosa}
  Requests = {1, 2}
  Levels = {view, edit}
  ViewOnly = {view}
  Absent = absent
  Tasks = {1, 2}
  MaxTries = 2
  Versions = {v1, v2, v3}
  Lines = {filing}
  Amounts = {0, 1}
  MaxDay = 2
  Methods = {cash, card}
  Drafts = {1, 2}
  Assessors = {ines, zoe}
  SuperOnes = {}
  Unset = unset
  Tills = {1, 2}
  MaxOrders = 2
  maria = maria
  luisa = luisa
  ana = ana
  ben = ben
  p1 = p1
  residential = residential
  plans = plans
  clearance = clearance
  ines = ines
  zoe = zoe
  paul = paul
  juan = juan
  v1 = v1
  Pages <- MCPages
  Unseen = unseen
  MaxBoots = 2
  Fields <- MCFields
  HeadOf <- MCHeadOf
  IssuedBy <- MCIssuedBy
  Texts = {first, second}
  Editors = {vera, otto}
  Proposals = {proposal1}
  Edits = {typist, second_typist}
  Blank = blank
  Slugs = {fiesta}
  Hands = {1, 2}
  Never = never
  MaxHour = 1
  health = health
  mayor = mayor
  vera = vera
  first = first
  typist = typist
  fiesta = fiesta
  Firms = {firm1}
  Cases = {case1, case2}
  Facts = {old_number, new_number}
  Visits = {1, 2}
  Missing = missing
  MaxCorrected = 2
  case2 = case2
  Places <- MCPlaces
  FinalPlaces = {"Completed"}
  FirstPlaces = {"Submitted"}
  Scopes = {"staff:approve", "staff:evaluate", "staff:receive", "applications:read"}
  Conditions = {"paid"}
  ReadOnly = {"applications:read"}
  Tables <- MCTables
  FirstTable <- MCFirstTable
  Folders = {1}
  Enclosures = {lot_plan, sketch}
  Officials = {1, 2}
  Nowhere = nowhere
  MaxReplaced = 2
  Dossiers = {1, 2, 3}
  Forms = {residential}
  Members = {ines, zoe}
  Seats <- MCSeats
  FirstSeat <- MCFirstSeat
  NoDossier = nodossier
  PageSize = 1
  PerMilli = 2
  MaxMoment = 2
  WeekLength = 4
  Weekend = {2}
  YearLength = 3
  Proclaimable = {1, 3}
  Pledged = {1, 2}
  NoDate = nodate
  LastDate = 3
  SearchLimit = 12
  MaxHops = 3
  Papers = {1}
  Stewards = {ines, zoe}
  HatsOf <- MCHatsOf
  Sweeps = {1, 2}
  NoMove = nomove
  FirstStatuses = {"Document Verification", "Assessed"}
  MaxMoved = 3
  MaxBills = 2
  MaxSwept = 2
  Secrets = {q1, q2}
  Enrollee = paul
  Managers = {rosa}
  Topmost = {paul, rosa}
  Nothing = nothing
  Calls = {1, 2}
  MaxClock = 3
  Numbered = {1, 2}
  Contents = {"base", "column", "index"}
  NoFile = nofile
  Builds = {"old", "new", "recut"}
  Carries <- MCCarries
  Pipelines = {1, 2}
  Replicas = {1}
  MaxServed = 1
INVARIANTS
  FactorIsHeld
  NoneTurnedAway
  NeverAccusedWrongly
  TheWaitingAreTold
  OverdueToldOnce
  UnchangedIsCurrent
  TakenDownIsOffTheList
  FilesAreKept
  VerdictIsRight
  VerifiedWasProven
  ErasedStaysErased
  OneExchange
  NoneLeftBehind
  SeriesHasNoGap
  FloorHolds
  NoDayWithoutFees
  BilledAsApproved
  RegistrationIsAccountedFor
  NobodyStranded
  PublishedAsAWhole
  QueueMissesNothing
  WaitsOnWhoMayAct
PROPERTIES
  ChainIsALog
  CheckedByItsStage
CHECK_DEADLOCK FALSE
