CONSTANTS
  Replicas = {r1}
  export_job = export_job
  expiry_job = expiry_job
  Export = export_job
  Expiry = expiry_job
  Jobs = {export_job, expiry_job}
  NoJob = none
  JobOrder <- BothJobs
  Interval <- Intervals
  Lease <- Leases
  MaxTrouble = 1
  Accounts = {maria}
  Requests = {1}
  Files = {f1, f2}
  NoRow = null
  Batch = 1
  Window = 2
SPECIFICATION FairSpec
PROPERTY EveryFileIsDeleted
CHECK_DEADLOCK FALSE
