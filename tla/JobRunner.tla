----------------------------- MODULE JobRunner -----------------------------
(***************************************************************************)
(* The scheduled jobs of the fleet: the rows of scheduled_jobs, and the    *)
(* replicas whose schedulers offer every job on each tick to a runner that *)
(* claims it by a lease, runs it and releases it.                          *)
(*                                                                         *)
(* Time is a step of its own, and only the ages that the code compares are *)
(* kept: how long ago a job was started, up to its interval, and how much  *)
(* of a lease is left.  The clocks of the replicas agree.  What a job does *)
(* is the business of the modules that extend this one.                    *)
(***************************************************************************)
EXTENDS Integers, Sequences

CONSTANTS
  Replicas,    \* the processes of the fleet
  Jobs,        \* names of jobs
  NoJob,       \* a replica that runs none
  JobOrder,    \* the scheduler's list
  Interval,    \* interval_seconds, by job
  Lease,       \* leaseSeconds, by job
  MaxTrouble   \* bound on drains, deaths, failed runs, lost releases, jobs
               \* switched off

ASSUME JobRunnerAssumption ==
  /\ NoJob \notin Jobs
  /\ JobOrder \in Seq(Jobs)
  /\ Interval \in [Jobs -> Nat \ {0}] /\ Lease \in [Jobs -> Nat \ {0}]
  /\ MaxTrouble \in Nat

VARIABLES
  row,      \* scheduled_jobs
  at,       \* each replica: the rest of its tick, the job it runs, its lease
  draining, \* DrainState
  late,     \* history: a run has outlived its lease
  trouble   \* counts against MaxTrouble

runner == << row, at, draining, late, trouble >>

\* started: how long ago, at least; never started counts as due.  left: of
\* locked_until, or Free when it is null or past.
Free == -1
Row == [ enabled : BOOLEAN, started : Nat, left : Nat \cup {Free} ]
Replica == [ todo : Seq(Jobs), job : Jobs \cup {NoJob}, left : Nat \cup {Free} ]

Resting == [ todo |-> <<>>, job |-> NoJob, left |-> Free ]

RunnerInit ==
  /\ row = [j \in Jobs |-> [ enabled |-> TRUE, started |-> Interval[j],
                             left |-> Free ]]
  /\ at = [i \in Replicas |-> Resting]
  /\ draining = [i \in Replicas |-> FALSE]
  /\ late = FALSE
  /\ trouble = 0

Running(i) == at[i].job # NoJob
InLease(i) == Running(i) /\ at[i].left # Free

Troubles ==
  /\ trouble < MaxTrouble
  /\ trouble' = trouble + 1

-----------------------------------------------------------------------------
\* tick: a pass over every job, skipped while the last one is not over.
TickBegins(i) ==
  /\ at[i].todo = <<>> /\ ~Running(i) /\ ~draining[i]
  /\ at' = [at EXCEPT ![i].todo = JobOrder]
  /\ UNCHANGED << row, draining, late, trouble >>

Offered(i) == Head(at[i].todo)
Offers(i) == at[i].todo # <<>> /\ ~Running(i)

\* Mutant: claimed whatever lease stands.
DueAnyway(j) == row[j].enabled /\ row[j].started = Interval[j]

\* The WHERE of the claim.
Due(j) == row[j].enabled /\ row[j].left = Free /\ row[j].started = Interval[j]

\* The claim, one statement; the run begins.
Claim(i) ==
  LET j == Offered(i) IN
  /\ Offers(i) /\ ~draining[i] /\ Due(j)
  /\ row' = [row EXCEPT ![j].started = 0, ![j].left = Lease[j]]
  /\ at' = [at EXCEPT ![i] = [ todo |-> Tail(@.todo), job |-> j, left |-> Lease[j] ]]
  /\ UNCHANGED << draining, late, trouble >>

\* Nothing new is started once the instance is shutting down.
PassOver(i) ==
  /\ Offers(i)
  /\ \/ /\ draining[i]
        /\ at' = [at EXCEPT ![i].todo = <<>>]
     \/ /\ ~draining[i] /\ ~Due(Offered(i))
        /\ at' = [at EXCEPT ![i].todo = Tail(@)]
  /\ UNCHANGED << row, draining, late, trouble >>

Ended(i) == at' = [at EXCEPT ![i].job = NoJob, ![i].left = Free]

\* finish: by the job's name, whoever holds it by now.
Finish(i, outcome) ==
  /\ Running(i)
  /\ Ended(i)
  /\ row' = [row EXCEPT ![at[i].job].left = Free]
  /\ IF outcome = "failed" THEN Troubles ELSE UNCHANGED trouble
  /\ UNCHANGED << draining, late >>

\* The update of finish fails, which is caught; the lease runs out by itself.
FinishLost(i) ==
  /\ Running(i) /\ Troubles
  /\ Ended(i)
  /\ UNCHANGED << row, draining, late >>

Drain(i) ==
  /\ ~draining[i] /\ Troubles
  /\ draining' = [draining EXCEPT ![i] = TRUE]
  /\ UNCHANGED << row, at, late >>

\* The process ends - drained, at the deadline of its shutdown, or killed - and
\* another takes its place.
Exit(i) ==
  /\ IF draining[i] THEN UNCHANGED trouble ELSE Troubles
  /\ at' = [at EXCEPT ![i] = Resting]
  /\ draining' = [draining EXCEPT ![i] = FALSE]
  /\ UNCHANGED << row, late >>

\* An operator stops a job, or lets it run again.
Switch(j) ==
  /\ row' = [row EXCEPT ![j].enabled = ~@]
  /\ IF row[j].enabled THEN Troubles ELSE UNCHANGED trouble
  /\ UNCHANGED << at, draining, late >>

\* Mutant: a lease that never ends.
LessForever(left) == IF left = Free \/ left = 0 THEN left ELSE left - 1

Less(left) == IF left = Free THEN Free ELSE left - 1

Time ==
  /\ row' = [j \in Jobs |->
       [row[j] EXCEPT !.started = IF @ = Interval[j] THEN @ ELSE @ + 1,
                      !.left = Less(@)]]
  /\ at' = [i \in Replicas |-> [at[i] EXCEPT !.left = Less(@)]]
  /\ late' = (late \/ \E i \in Replicas : Running(i) /\ at[i].left = 0)
  /\ UNCHANGED << draining, trouble >>

RunnerNext ==
  \/ \E i \in Replicas :
       \/ TickBegins(i) \/ Claim(i) \/ PassOver(i)
       \/ Finish(i, "succeeded") \/ Finish(i, "failed") \/ FinishLost(i)
       \/ Drain(i) \/ Exit(i)
  \/ \E j \in Jobs : Switch(j)
  \/ Time

RunnerSpec == RunnerInit /\ [][RunnerNext]_runner

-----------------------------------------------------------------------------
\* Rows and replicas keep their types, ages within what is compared.
RunnerTypeOK ==
  /\ row \in [Jobs -> Row]
  /\ \A j \in Jobs : row[j].started <= Interval[j]
  /\ at \in [Replicas -> Replica]
  /\ draining \in [Replicas -> BOOLEAN]
  /\ late \in BOOLEAN
  /\ trouble \in 0..MaxTrouble

\* "Periodic work, claimed by exactly one replica at a time" (012): two replicas
\* are in their leases of one job only after some run has outlived its own, whose
\* release then frees the lease of its successor; and not even then if the lease
\* is shorter than the interval.
OneInLease ==
  \A i, k \in Replicas :
    /\ InLease(i) /\ InLease(k) /\ at[i].job = at[k].job
    /\ ~late \/ Lease[at[i].job] < Interval[at[i].job]
    => i = k

\* A job that is due is started, or switched off: neither a replica that died
\* holding it nor a release that was lost stops it for good.
DueJobRuns ==
  \A j \in Jobs :
    row[j].enabled /\ row[j].started = Interval[j]
      ~> row[j].started < Interval[j] \/ ~row[j].enabled
=============================================================================
