CONSTANTS
  Replicas = {r1, r2}
  dispatch = dispatch
  Dispatch = dispatch
  Jobs = {dispatch}
  NoJob = none
  JobOrder <- OneJob
  Interval <- EveryUnit
  Lease <- TwoUnits
  MaxTrouble = 1
  Notices = {1}
  Statutory = {1}
  Devices = {phone}
  PlanLimit = 1
  SendLimit = 1
  MaxAttempts = 2
SPECIFICATION FairSpec
INVARIANTS NothingLost
PROPERTIES EveryNoticeSettles DueJobRuns
CHECK_DEADLOCK FALSE
