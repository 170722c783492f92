---------------------------- MODULE MCDataExport ----------------------------
(***************************************************************************)
(* Instances of DataExport for TLC.  What is compared keeps its order: the *)
(* export is due when its lease ends, the expiry only later, and a window  *)
(* is longer than a lease.                                                 *)
(***************************************************************************)
EXTENDS DataExport

CONSTANTS export_job, expiry_job

BothJobs == << export_job, expiry_job >>
Intervals == [j \in Jobs |-> IF j = export_job THEN 1 ELSE 2]
Leases == [j \in Jobs |-> 1]
=============================================================================
