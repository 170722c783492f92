---------------------------- MODULE OutboxProofs ----------------------------
(***************************************************************************)
(* That no notice is lost, deferred pushes wait, and a sent push stays     *)
(* sent as long as no run outlives its lease.                              *)
(*                                                                         *)
(* A run writes a push by its id long after it read it.  What makes that   *)
(* safe is what is known of the rows it still holds: never are they        *)
(* deferred again (Left), and as long as no run was late they are still    *)
(* due (Held), because then JobRunner leaves the job to one replica.  The  *)
(* attempts are bounded because the count read with a row is (Counted).    *)
(***************************************************************************)
EXTENDS Outbox, JobRunnerProofs

Typed ==
  /\ notice \in [Notices -> {"none", "pending", "dispatched"}]
  /\ records \subseteq Notices \X {"email", "sms"}
  /\ push \in [Notices -> Push]
  /\ devices \subseteq Devices
  /\ work \in [Replicas -> Work]

\* A run that works is one the runner started.
OnDuty == \A i \in Replicas : work[i].phase = "off" <=> ~Running(i)

Counted ==
  /\ \A n \in Notices : push[n].attempts <= MaxAttempts
  /\ \A n \in Notices : push[n].status \in {"none", "queued", "deferred", "opened"}
                          => push[n].attempts < MaxAttempts
  /\ \A i \in Replicas, n \in Notices : work[i].attempts[n] < MaxAttempts

Holds(i, n) == work[i].phase \in {"devices", "sending"} /\ n \in work[i].todo

Left == \A i \in Replicas, n \in Notices :
          Holds(i, n) => push[n].status \notin {"none", "deferred"}

Held == ~late => \A i \in Replicas, n \in Notices :
          Holds(i, n) => push[n].status \in {"queued", "opened"}

IInv == RunnerInv /\ Typed /\ OnDuty /\ Counted /\ Left /\ Held /\ NothingLost

Assumptions == JobRunnerAssumption /\ OutboxAssumption

\* Every step is one of the runner's, or leaves the runner alone.
LEMMA StepsOfRunner == ASSUME [Next]_vars PROVE [RunnerNext]_runner
<1>1. ASSUME NEW i \in Replicas, Runs(i) PROVE [RunnerNext]_runner
  <2>1. CASE Begin(i)
    BY <2>1 DEF Begin, RunnerNext
  <2>2. CASE Ends(i)
    BY <2>2 DEF Ends, RunnerNext
  <2> QED BY <1>1, <2>1, <2>2
       DEF Runs, ReadPending, PlanOne, ReadDue, ReadDevices, SendOne, Record
<1>2. ASSUME NEW i \in Replicas, Throws(i) \/ Dies(i) PROVE [RunnerNext]_runner
  BY <1>2 DEF Throws, Dies, RunnerNext
<1>3. ASSUME NEW i \in Replicas, Scheduling(i) PROVE [RunnerNext]_runner
  BY <1>3 DEF Scheduling, RunnerNext
<1>4. ASSUME NEW j \in Jobs, Switch(j) PROVE [RunnerNext]_runner
  BY <1>4 DEF RunnerNext
<1>5. ASSUME Time PROVE [RunnerNext]_runner
  BY <1>5 DEF RunnerNext
<1>6. ASSUME NEW n \in Notices, Announce(n) \/ WindowOpens(n) PROVE [RunnerNext]_runner
  BY <1>6 DEF Announce, WindowOpens
<1>7. ASSUME NEW d \in Devices, registerDevice(d) \/ removeOwnDevice(d)
      PROVE  [RunnerNext]_runner
  BY <1>7 DEF registerDevice, removeOwnDevice
<1>8. ASSUME UNCHANGED vars PROVE [RunnerNext]_runner
  BY <1>8 DEF vars
<1> QED BY <1>1, <1>2, <1>3, <1>4, <1>5, <1>6, <1>7, <1>8 DEF Next

\* What a run works on is bounded by what it read.
LEMMA WorkType ==
  ASSUME Typed, NEW i \in Replicas
  PROVE  /\ work[i] \in Work /\ work[i].todo \subseteq Notices
         /\ work[i].hasDevice \in BOOLEAN /\ work[i].attempts \in [Notices -> Nat]
         /\ work[i].handsets \subseteq Devices
         /\ work[i].delivered \in BOOLEAN /\ work[i].reachable \in BOOLEAN
BY DEF Typed, Work

LEMMA Starts == ASSUME Assumptions PROVE Init => IInv
<1> SUFFICES ASSUME Init PROVE IInv
  OBVIOUS
<1>1. RunnerInv
  BY RunnerStarts DEF Init, Assumptions
<1>2. AtRest \in Work
  BY DEF AtRest, Work, Phases
<1>3. NoPush \in Push
  BY DEF NoPush, Push, PushStatus
<1>4. Typed
  <2>1. work \in [Replicas -> Work] /\ push \in [Notices -> Push]
    BY <1>2, <1>3 DEF Init
  <2> QED BY <2>1 DEF Init, Typed
<1>5. OnDuty
  BY DEF Init, OnDuty, AtRest, Running, RunnerInit, Resting
<1>6. Counted
  <2>1. MaxAttempts \in Nat /\ MaxAttempts # 0
    BY DEF Assumptions, OutboxAssumption
  <2> QED BY <2>1 DEF Init, Counted, AtRest, NoPush
<1>7. Left /\ Held
  BY DEF Init, Left, Held, Holds, AtRest
<1>8. NothingLost
  BY DEF Init, NothingLost
<1> QED BY <1>1, <1>4, <1>5, <1>6, <1>7, <1>8 DEF IInv

\* A step of a run that only reads, or ends the run, changes what the run holds.
LEMMA Working ==
  ASSUME IInv, RunnerInv', NEW i \in Replicas, NEW w \in Work,
         work' = [work EXCEPT ![i] = w],
         UNCHANGED << notice, records, push, late >>, devices' \subseteq Devices,
         w.phase = "off" <=> ~Running(i)',
         \A k \in Replicas : k # i => Running(k)' = Running(k),
         \A n \in Notices : w.attempts[n] < MaxAttempts,
         w.phase \in {"devices", "sending"} =>
           \A n \in w.todo : /\ push[n].status \notin {"none", "deferred"}
                             /\ ~late => push[n].status \in {"queued", "opened"}
  PROVE  IInv'
<1>1. work'[i] = w /\ \A k \in Replicas : k # i => work'[k] = work[k]
  BY DEF IInv, Typed
<1>2. Typed'
  BY DEF IInv, Typed
<1>3. OnDuty'
  BY <1>1 DEF IInv, OnDuty
<1>4. Counted'
  BY <1>1 DEF IInv, Counted
<1>5. Left' /\ Held'
  BY <1>1 DEF IInv, Left, Held, Holds
<1>6. NothingLost'
  BY DEF IInv, NothingLost
<1> QED BY <1>2, <1>3, <1>4, <1>5, <1>6 DEF IInv

\* A step around the runs changes notices yet unplanned, handsets, or the runner.
LEMMA Around ==
  ASSUME IInv, RunnerInv', UNCHANGED << records, push, work >>, devices' \subseteq Devices,
         notice' \in [Notices -> {"none", "pending", "dispatched"}],
         \A n \in Notices : notice'[n] = "dispatched" => notice[n] = "dispatched",
         late => late',
         \A k \in Replicas : Running(k)' = Running(k)
  PROVE  IInv'
<1>1. Typed'
  BY DEF IInv, Typed
<1>2. OnDuty' /\ Counted'
  BY DEF IInv, OnDuty, Counted
<1>3. Left' /\ Held'
  BY DEF IInv, Left, Held, Holds
<1>4. NothingLost'
  BY DEF IInv, NothingLost
<1> QED BY <1>1, <1>2, <1>3, <1>4 DEF IInv

-----------------------------------------------------------------------------
LEMMA BeginKeeps ==
  ASSUME Assumptions, IInv, RunnerInv', NEW i \in Replicas, Begin(i) PROVE IInv'
<1> DEFINE w == [work[i] EXCEPT !.phase = "plan"]
<1>1. w \in Work /\ w.phase = "plan" /\ w.attempts = work[i].attempts
  BY DEF IInv, Typed, Work, Phases
<1>2. work' = [work EXCEPT ![i] = w] /\ UNCHANGED << notice, records, push, devices >>
  BY DEF Begin
<1>3. /\ late' = late /\ at \in [Replicas -> Replica]
      /\ at' = [at EXCEPT ![i] = [ todo |-> Tail(@.todo), job |-> Offered(i),
                                   left |-> Lease[Offered(i)] ]]
      /\ Offers(i)
  BY DEF Begin, Claim, IInv, RunnerInv, RunnerTypeOK
<1>4. Offered(i) # NoJob
  <2>1. at[i].todo \in Seq(Jobs) /\ at[i].todo # <<>>
    BY <1>3 DEF Offers, Replica
  <2> QED BY <2>1, TailOfSeq DEF Offered, Assumptions, JobRunnerAssumption
<1>5. Running(i)' /\ \A k \in Replicas : k # i => Running(k)' = Running(k)
  BY <1>3, <1>4 DEF Running
<1> HIDE DEF w
<1> QED BY <1>1, <1>2, <1>3, <1>5, Working DEF IInv, Typed, Counted

LEMMA ReadPendingKeeps ==
  ASSUME Assumptions, IInv, RunnerInv', NEW i \in Replicas, ReadPending(i) PROVE IInv'
<1> DEFINE w == [work[i] EXCEPT !.phase = "planning", !.todo = Earliest(Pending, PlanLimit),
                                !.hasDevice = devices # {}]
<1>1. Earliest(Pending, PlanLimit) \subseteq Notices
  BY DEF Earliest, Pending
<1>2. w \in Work /\ w.phase = "planning" /\ w.attempts = work[i].attempts
  BY <1>1 DEF IInv, Typed, Work, Phases
<1>3. work' = [work EXCEPT ![i] = w] /\ UNCHANGED << runner, notice, records, push, devices >>
  BY DEF ReadPending
<1>4. Running(i) /\ late' = late /\ \A k \in Replicas : Running(k)' = Running(k)
  BY <1>3 DEF ReadPending, IInv, OnDuty, Running, runner
<1> HIDE DEF w
<1> QED BY <1>2, <1>3, <1>4, Working DEF IInv, Typed, Counted

LEMMA ReadDueKeeps ==
  ASSUME Assumptions, IInv, RunnerInv', NEW i \in Replicas, ReadDue(i) PROVE IInv'
<1> DEFINE due == Earliest(DuePushes, SendLimit)
           a == [n \in Notices |-> IF n \in due THEN push[n].attempts ELSE 0]
           w == [work[i] EXCEPT !.phase = "devices", !.todo = due, !.attempts = a]
<1>1. due \subseteq Notices /\ \A n \in due : push[n].status \in {"queued", "opened"}
  BY DEF Earliest, DuePushes
<1>2. /\ a \in [Notices -> Nat] /\ \A n \in Notices : a[n] < MaxAttempts
  <2>1. 0 < MaxAttempts /\ MaxAttempts \in Nat
    BY DEF Assumptions, OutboxAssumption
  <2>2. \A n \in Notices : push[n].attempts \in Nat
    BY DEF IInv, Typed, Push
  <2>3. \A n \in due : push[n].attempts < MaxAttempts
    BY <1>1 DEF IInv, Counted
  <2> QED BY <2>1, <2>2, <2>3
<1> HIDE DEF due, a
<1>3. w \in Work /\ w.phase = "devices" /\ w.attempts = a /\ w.todo = due
  BY <1>1, <1>2 DEF IInv, Typed, Work, Phases
<1>4. work' = [work EXCEPT ![i] = w] /\ UNCHANGED << runner, notice, records, push, devices >>
  BY DEF ReadDue, due, a
<1>5. Running(i) /\ late' = late /\ \A k \in Replicas : Running(k)' = Running(k)
  BY <1>4 DEF ReadDue, IInv, OnDuty, Running, runner
<1> HIDE DEF w
<1>6. \A n \in w.todo : /\ push[n].status \notin {"none", "deferred"}
                        /\ ~late => push[n].status \in {"queued", "opened"}
  BY <1>1, <1>3
<1> QED BY <1>2, <1>3, <1>4, <1>5, <1>6, Working DEF IInv, Typed

LEMMA ReadDevicesKeeps ==
  ASSUME Assumptions, IInv, RunnerInv', NEW i \in Replicas, ReadDevices(i) PROVE IInv'
<1> DEFINE w == [work[i] EXCEPT !.phase = "sending", !.handsets = devices,
                                !.delivered = FALSE, !.reachable = FALSE]
<1>1. /\ w \in Work /\ w.phase = "sending"
      /\ w.attempts = work[i].attempts /\ w.todo = work[i].todo
  BY DEF IInv, Typed, Work, Phases
<1>2. work' = [work EXCEPT ![i] = w] /\ UNCHANGED << runner, notice, records, push, devices >>
  BY DEF ReadDevices
<1>3. Running(i) /\ late' = late /\ \A k \in Replicas : Running(k)' = Running(k)
  BY <1>2 DEF ReadDevices, IInv, OnDuty, Running, runner
<1>4. work[i].todo \subseteq Notices
  BY WorkType DEF IInv
<1> HIDE DEF w
<1>5. \A n \in w.todo : /\ push[n].status \notin {"none", "deferred"}
                        /\ ~late => push[n].status \in {"queued", "opened"}
  BY <1>1, <1>4 DEF ReadDevices, IInv, Left, Held, Holds
<1> QED BY <1>1, <1>2, <1>3, <1>5, Working DEF IInv, Typed, Counted

LEMMA SendOneKeeps ==
  ASSUME Assumptions, IInv, RunnerInv', NEW i \in Replicas, NEW d \in Devices, SendOne(i, d)
  PROVE  IInv'
<1>1. PICK r \in BOOLEAN, v \in BOOLEAN :
        work' = [work EXCEPT ![i] = [work[i] EXCEPT !.handsets = @ \ {d},
                                       !.reachable = r, !.delivered = v]]
  <2>1. CASE devices' = devices
    <3>1. PICK ok \in BOOLEAN :
            \/ work' = [work EXCEPT ![i].handsets = @ \ {d}, ![i].reachable = TRUE,
                                    ![i].delivered = @ \/ ok]
            \/ work' = [work EXCEPT ![i].handsets = @ \ {d}]
      BY DEF SendOne
    <3>2. work[i].reachable \in BOOLEAN /\ work[i].delivered \in BOOLEAN /\ work[i] \in Work
      BY WorkType DEF IInv
    <3>3. [work[i] EXCEPT !.handsets = @ \ {d}]
            = [work[i] EXCEPT !.handsets = @ \ {d}, !.reachable = work[i].reachable,
                              !.delivered = work[i].delivered]
      BY <3>2 DEF Work
    <3>4. CASE work' = [work EXCEPT ![i].handsets = @ \ {d}]
      BY <3>2, <3>3, <3>4
    <3>5. CASE work' = [work EXCEPT ![i].handsets = @ \ {d}, ![i].reachable = TRUE,
                                    ![i].delivered = @ \/ ok]
      <4>1. (work[i].delivered \/ ok) \in BOOLEAN /\ TRUE \in BOOLEAN
        OBVIOUS
      <4> QED BY <3>5, <4>1
    <3> QED BY <3>1, <3>4, <3>5
  <2>2. CASE devices' # devices
    <3>1. work' = [work EXCEPT ![i].handsets = @ \ {d}]
      BY <2>2 DEF SendOne
    <3>2. work[i].reachable \in BOOLEAN /\ work[i].delivered \in BOOLEAN /\ work[i] \in Work
      BY WorkType DEF IInv
    <3>3. [work[i] EXCEPT !.handsets = @ \ {d}]
            = [work[i] EXCEPT !.handsets = @ \ {d}, !.reachable = work[i].reachable,
                              !.delivered = work[i].delivered]
      BY <3>2 DEF Work
    <3> QED BY <3>1, <3>2, <3>3
  <2> QED BY <2>1, <2>2
<1> DEFINE w == [work[i] EXCEPT !.handsets = @ \ {d}, !.reachable = r, !.delivered = v]
<1>2. /\ w \in Work /\ w.phase = "sending"
      /\ w.attempts = work[i].attempts /\ w.todo = work[i].todo
  <2>1. work[i] \in Work /\ work[i].phase = "sending"
    BY DEF IInv, Typed, SendOne
  <2>2. work[i].handsets \ {d} \subseteq Devices
    BY <2>1 DEF Work
  <2> QED BY <2>1, <2>2 DEF Work
<1>3. work' = [work EXCEPT ![i] = w] /\ UNCHANGED << runner, notice, records, push >>
  BY <1>1 DEF SendOne
<1>4. devices' \subseteq Devices
  BY DEF SendOne, IInv, Typed
<1>5. Running(i) /\ late' = late /\ \A k \in Replicas : Running(k)' = Running(k)
  BY <1>3 DEF SendOne, IInv, OnDuty, Running, runner
<1>6. work[i].todo \subseteq Notices
  BY WorkType DEF IInv
<1> HIDE DEF w
<1>7. \A n \in w.todo : /\ push[n].status \notin {"none", "deferred"}
                        /\ ~late => push[n].status \in {"queued", "opened"}
  BY <1>2, <1>6 DEF SendOne, IInv, Left, Held, Holds
<1> QED BY <1>2, <1>3, <1>4, <1>5, <1>7, Working DEF IInv, Counted

LEMMA EndKeeps ==
  ASSUME Assumptions, IInv, RunnerInv', NEW i \in Replicas, Ends(i) \/ Throws(i) \/ Dies(i)
  PROVE  IInv'
<1>1. work' = [work EXCEPT ![i] = AtRest] /\ UNCHANGED << notice, records, push, devices >>
  BY DEF Ends, Throws, Dies, GivenUp
<1>2. /\ AtRest \in Work /\ AtRest.phase = "off"
      /\ \A n \in Notices : AtRest.attempts[n] < MaxAttempts
  BY DEF AtRest, Work, Phases, Assumptions, OutboxAssumption
<1>3. at \in [Replicas -> Replica]
  BY DEF IInv, RunnerInv, RunnerTypeOK
<1>4. /\ late' = late
      /\ Ended(i) \/ at' = [at EXCEPT ![i] = Resting]
  BY DEF Ends, Throws, Dies, Finish, FinishLost, Exit
<1>5. ~Running(i)' /\ \A k \in Replicas : k # i => Running(k)' = Running(k)
  BY <1>3, <1>4 DEF Ended, Running, Resting, Replica
<1>6. devices' \subseteq Devices
  BY <1>1 DEF IInv, Typed
<1> QED BY <1>1, <1>2, <1>4, <1>5, <1>6, Working

LEMMA PlanOneKeeps ==
  ASSUME Assumptions, IInv, RunnerInv', NEW i \in Replicas, PlanOne(i) PROVE IInv'
<1>1. PICK n \in Oldest(i), muted \in BOOLEAN, quiet \in BOOLEAN :
        LET plan == planDelivery(n, work[i].hasDevice, muted, quiet) IN
        /\ records' = records \cup ({n} \X plan.records)
        /\ push' = IF plan.push = "none" THEN push
                   ELSE [push EXCEPT ![n] = inserted(@, plan.push)]
        /\ notice' = [notice EXCEPT ![n] = "dispatched"]
        /\ work' = [work EXCEPT ![i].todo = @ \ {n}]
  BY DEF PlanOne
<1> DEFINE plan == planDelivery(n, work[i].hasDevice, muted, quiet)
<1>2. n \in Notices /\ n \in work[i].todo
  BY WorkType DEF Oldest, IInv
<1>3. /\ plan.records \subseteq {"email", "sms"} /\ "email" \in plan.records
      /\ n \in Statutory => "sms" \in plan.records
      /\ plan.push \in {"none", "deferred", "queued"}
  BY DEF planDelivery
<1>4. /\ records' = records \cup ({n} \X plan.records)
      /\ push' = IF plan.push = "none" THEN push
                 ELSE [push EXCEPT ![n] = inserted(@, plan.push)]
  BY <1>1
<1> HIDE DEF plan
<1>5. UNCHANGED << runner, devices >> /\ work[i].phase = "planning"
  BY DEF PlanOne
<1>6. MaxAttempts \in Nat /\ 0 < MaxAttempts
  BY DEF Assumptions, OutboxAssumption
<1>7. /\ push[n] \in Push
      /\ inserted(push[n], plan.push) \in Push \/ plan.push = "none"
  BY <1>2, <1>3 DEF IInv, Typed, inserted, Push, PushStatus
<1>8. push' \in [Notices -> Push]
  BY <1>2, <1>4, <1>7 DEF IInv, Typed
<1>9. \A m \in Notices :
        \/ push'[m] = push[m]
        \/ /\ m = n /\ push[n].status = "none" /\ plan.push # "none"
           /\ push'[n] = [ status |-> plan.push, attempts |-> 0 ]
  BY <1>2, <1>4 DEF inserted, IInv, Typed
<1> DEFINE w == [work[i] EXCEPT !.todo = @ \ {n}]
<1>10. /\ w \in Work /\ w.phase = "planning" /\ w.attempts = work[i].attempts
  BY <1>5 DEF IInv, Typed, Work
<1>11. work' = [work EXCEPT ![i] = w]
  BY <1>1
<1> HIDE DEF w
<1>12. work'[i] = w /\ \A k \in Replicas : k # i => work'[k] = work[k]
  BY <1>11 DEF IInv, Typed
<1>13. Typed'
  <2>1. records' \subseteq Notices \X {"email", "sms"}
    BY <1>2, <1>3, <1>4 DEF IInv, Typed
  <2>2. notice' \in [Notices -> {"none", "pending", "dispatched"}]
    BY <1>1 DEF IInv, Typed
  <2>3. work' \in [Replicas -> Work]
    BY <1>10, <1>11 DEF IInv, Typed
  <2> QED BY <1>5, <1>8, <2>1, <2>2, <2>3 DEF IInv, Typed
<1>14. OnDuty'
  BY <1>5, <1>10, <1>12 DEF IInv, OnDuty, Running, runner
<1>15. Counted'
  <2>1. \A m \in Notices : push'[m].attempts <= MaxAttempts
    BY <1>6, <1>9 DEF IInv, Counted
  <2>2. \A m \in Notices : push'[m].status \in {"none", "queued", "deferred", "opened"}
                             => push'[m].attempts < MaxAttempts
    BY <1>6, <1>9 DEF IInv, Counted
  <2>3. \A k \in Replicas, m \in Notices : work'[k].attempts[m] < MaxAttempts
    BY <1>10, <1>12 DEF IInv, Counted
  <2> QED BY <2>1, <2>2, <2>3 DEF Counted
<1>16. \A k \in Replicas, m \in Notices : Holds(k, m)' => Holds(k, m)
  BY <1>10, <1>12 DEF Holds
<1>17. Left'
  BY <1>9, <1>16 DEF IInv, Left
<1>18. Held'
  <2>1. late' = late
    BY <1>5 DEF runner
  <2>2. \A k \in Replicas, m \in Notices : Holds(k, m)' => push'[m] = push[m]
    BY <1>9, <1>16 DEF IInv, Left
  <2> QED BY <1>16, <2>1, <2>2 DEF IInv, Held
<1>19. NothingLost'
  <2> SUFFICES ASSUME NEW m \in Notices, notice'[m] = "dispatched"
               PROVE  /\ << m, "email" >> \in records'
                      /\ m \in Statutory => << m, "sms" >> \in records'
    BY DEF NothingLost
  <2>1. CASE m = n
    BY <1>3, <1>4, <2>1
  <2>2. CASE m # n
    BY <1>1, <1>4, <2>2 DEF IInv, Typed, NothingLost
  <2> QED BY <2>1, <2>2
<1> QED BY <1>13, <1>14, <1>15, <1>17, <1>18, <1>19 DEF IInv

\* As long as no run was late, one replica works at most.
LEMMA OneWorks ==
  ASSUME Assumptions, IInv, ~late,
         NEW i \in Replicas, NEW k \in Replicas,
         work[i].phase # "off", work[k].phase # "off"
  PROVE  i = k
<1>1. Running(i) /\ Running(k)
  BY DEF IInv, OnDuty
<1>2. at[i].job = Dispatch /\ at[k].job = Dispatch
  BY <1>1 DEF Assumptions, OutboxAssumption, IInv, RunnerInv, RunnerTypeOK, Replica, Running
<1> QED BY <1>1, <1>2 DEF IInv, RunnerInv, Alone

LEMMA RecordKeeps ==
  ASSUME Assumptions, IInv, RunnerInv', NEW i \in Replicas, Record(i) PROVE IInv'
<1>1. PICK n \in Oldest(i) :
        LET attempts == work[i].attempts[n] + 1 IN
        /\ push' = [push EXCEPT ![n] =
                      [ status |-> Outcome(i, attempts), attempts |-> attempts ]]
        /\ work' = [work EXCEPT ![i].phase = "devices", ![i].todo = @ \ {n},
                                ![i].attempts = [@ EXCEPT ![n] = 0],
                                ![i].delivered = FALSE, ![i].reachable = FALSE]
  BY DEF Record
<1> DEFINE c == work[i].attempts[n] + 1
           p == [ status |-> Outcome(i, c), attempts |-> c ]
           a == [work[i].attempts EXCEPT ![n] = 0]
           w == [work[i] EXCEPT !.phase = "devices", !.todo = @ \ {n}, !.attempts = a,
                                !.delivered = FALSE, !.reachable = FALSE]
<1>2. n \in Notices /\ n \in work[i].todo /\ work[i].phase = "sending"
  BY WorkType DEF Oldest, IInv, Record
<1>3. MaxAttempts \in Nat /\ 0 < MaxAttempts
  BY DEF Assumptions, OutboxAssumption
<1>4. work[i].attempts \in [Notices -> Nat] /\ work[i].attempts[n] < MaxAttempts
  BY <1>2, WorkType DEF IInv, Counted
<1>5. /\ p.status \in {"sent", "failed", "queued"} /\ p.attempts \in Nat
      /\ p.attempts <= MaxAttempts
      /\ p.status = "queued" => p.attempts < MaxAttempts
      /\ p \in Push
  BY <1>2, <1>3, <1>4 DEF Outcome, Push, PushStatus
<1>6. a \in [Notices -> Nat] /\ \A m \in Notices : a[m] < MaxAttempts
  BY <1>2, <1>3, <1>4 DEF IInv, Counted
<1>7. /\ push' = [push EXCEPT ![n] = p] /\ work' = [work EXCEPT ![i] = w]
      /\ UNCHANGED << runner, notice, records, devices >>
  <2>1. push' = [push EXCEPT ![n] = p]
    BY <1>1
  <2>2. work' = [work EXCEPT ![i] = w]
    BY <1>1
  <2> QED BY <2>1, <2>2 DEF Record
<1> HIDE DEF a, p, c
<1>8. /\ w \in Work /\ w.phase = "devices" /\ w.attempts = a
      /\ w.todo = work[i].todo \ {n}
  BY <1>6 DEF IInv, Typed, Work, Phases
<1> HIDE DEF w
<1>9. /\ work'[i] = w /\ \A k \in Replicas : k # i => work'[k] = work[k]
      /\ push'[n] = p /\ \A m \in Notices : m # n => push'[m] = push[m]
  BY <1>2, <1>7 DEF IInv, Typed
<1>10. Typed'
  BY <1>2, <1>5, <1>7, <1>8 DEF IInv, Typed
<1>11. OnDuty'
  BY <1>2, <1>7, <1>8, <1>9 DEF IInv, OnDuty, Running, runner
<1>12. Counted'
  <2>1. \A m \in Notices : push'[m].attempts <= MaxAttempts
    BY <1>5, <1>9 DEF IInv, Counted
  <2>2. \A m \in Notices : push'[m].status \in {"none", "queued", "deferred", "opened"}
                             => push'[m].attempts < MaxAttempts
    BY <1>5, <1>9 DEF IInv, Counted
  <2>3. \A k \in Replicas, m \in Notices : work'[k].attempts[m] < MaxAttempts
    BY <1>6, <1>8, <1>9 DEF IInv, Counted
  <2> QED BY <2>1, <2>2, <2>3 DEF Counted
<1>13. \A k \in Replicas, m \in Notices :
         Holds(k, m)' => Holds(k, m) /\ (k = i => m # n)
  BY <1>2, <1>8, <1>9 DEF Holds
<1>14. Left'
  BY <1>5, <1>9, <1>13 DEF IInv, Left
<1>15. Held'
  <2> SUFFICES ASSUME ~late', NEW k \in Replicas, NEW m \in Notices, Holds(k, m)'
               PROVE  push'[m].status \in {"queued", "opened"}
    BY DEF Held
  <2>1. ~late
    BY <1>7 DEF runner
  <2>2. Holds(k, m) /\ k = i
    BY <1>2, <1>13, <2>1, OneWorks DEF Holds
  <2>3. push'[m] = push[m]
    BY <1>9, <1>13, <2>2
  <2> QED BY <2>1, <2>2, <2>3 DEF IInv, Held
<1>16. NothingLost'
  BY <1>7 DEF IInv, NothingLost
<1> QED BY <1>10, <1>11, <1>12, <1>14, <1>15, <1>16 DEF IInv

LEMMA WindowKeeps ==
  ASSUME Assumptions, IInv, RunnerInv', NEW n \in Notices, WindowOpens(n) PROVE IInv'
<1> DEFINE p == [push[n] EXCEPT !.status = "opened"]
<1>1. /\ push' = [push EXCEPT ![n] = p] /\ push[n].status = "deferred"
      /\ UNCHANGED << runner, notice, records, devices, work >>
  BY DEF WindowOpens
<1>2. p \in Push /\ p.status = "opened" /\ p.attempts = push[n].attempts
  BY DEF IInv, Typed, Push, PushStatus
<1> HIDE DEF p
<1>3. push'[n] = p /\ \A m \in Notices : m # n => push'[m] = push[m]
  BY <1>1 DEF IInv, Typed
<1>4. Typed'
  BY <1>1, <1>2 DEF IInv, Typed
<1>5. OnDuty'
  BY <1>1 DEF IInv, OnDuty, Running, runner
<1>6. Counted'
  BY <1>1, <1>2, <1>3 DEF IInv, Counted
<1>7. Left' /\ Held'
  BY <1>1, <1>2, <1>3 DEF IInv, Left, Held, Holds, runner
<1>8. NothingLost'
  BY <1>1 DEF IInv, NothingLost
<1> QED BY <1>4, <1>5, <1>6, <1>7, <1>8 DEF IInv

LEMMA Steps == ASSUME Assumptions, IInv, [Next]_vars PROVE IInv'
<1>1. RunnerInv'
  BY StepsOfRunner, RunnerSteps DEF IInv, Assumptions
<1>2. ASSUME NEW i \in Replicas, Runs(i) \/ Throws(i) \/ Dies(i) PROVE IInv'
  <2>1. ASSUME NEW d \in Devices, SendOne(i, d) PROVE IInv'
    BY <1>1, <2>1, SendOneKeeps
  <2> QED
    BY <1>1, <1>2, <2>1, BeginKeeps, ReadPendingKeeps, PlanOneKeeps, ReadDueKeeps,
       ReadDevicesKeeps, RecordKeeps, EndKeeps
    DEF Runs
<1>3. ASSUME NEW i \in Replicas, Scheduling(i), UNCHANGED outbox PROVE IInv'
  <2>1. at \in [Replicas -> Replica]
    BY DEF IInv, RunnerInv, RunnerTypeOK
  <2>2. late' = late /\ \A k \in Replicas : Running(k)' = Running(k)
    <3>1. CASE TickBegins(i)
      BY <2>1, <3>1 DEF TickBegins, Running, Replica
    <3>2. CASE PassOver(i)
      <4>1. PICK rest : at' = [at EXCEPT ![i].todo = rest]
        BY <3>2 DEF PassOver
      <4>2. late' = late
        BY <3>2 DEF PassOver
      <4> QED BY <2>1, <4>1, <4>2 DEF Running, Replica
    <3>3. CASE Drain(i)
      BY <3>3 DEF Drain, Running
    <3> QED BY <1>3, <3>1, <3>2, <3>3 DEF Scheduling
  <2> QED BY <1>1, <1>3, <2>2, Around DEF outbox, IInv, Typed
<1>4. ASSUME NEW j \in Jobs, Switch(j), UNCHANGED outbox PROVE IInv'
  <2>1. late' = late /\ \A k \in Replicas : Running(k)' = Running(k)
    BY <1>4 DEF Switch, Running
  <2> QED BY <1>1, <1>4, <2>1, Around DEF outbox, IInv, Typed
<1>5. ASSUME Time, UNCHANGED outbox PROVE IInv'
  <2>1. at \in [Replicas -> Replica]
    BY DEF IInv, RunnerInv, RunnerTypeOK
  <2>2. (late => late') /\ \A k \in Replicas : Running(k)' = Running(k)
    BY <1>5, <2>1 DEF Time, Running, Replica
  <2> QED BY <1>1, <1>5, <2>2, Around DEF outbox, IInv, Typed
<1>6. ASSUME NEW n \in Notices, Announce(n) PROVE IInv'
  <2>1. \A k \in Replicas : Running(k)' = Running(k)
    BY <1>6 DEF Announce, Running, runner
  <2>2. notice' \in [Notices -> {"none", "pending", "dispatched"}]
    BY <1>6 DEF Announce, IInv, Typed
  <2>3. \A m \in Notices : notice'[m] = "dispatched" => notice[m] = "dispatched"
    BY <1>6 DEF Announce, IInv, Typed
  <2> QED BY <1>1, <1>6, <2>1, <2>2, <2>3, Around DEF Announce, IInv, Typed, runner
<1>7. ASSUME NEW d \in Devices, registerDevice(d) \/ removeOwnDevice(d) PROVE IInv'
  <2>1. UNCHANGED << runner, notice, records, push, work >> /\ devices' \subseteq Devices
    BY <1>7 DEF registerDevice, removeOwnDevice, IInv, Typed
  <2>2. \A k \in Replicas : Running(k)' = Running(k)
    BY <2>1 DEF Running, runner
  <2> QED BY <1>1, <2>1, <2>2, Around DEF IInv, Typed, runner
<1>8. ASSUME UNCHANGED vars PROVE IInv'
  <2>1. \A k \in Replicas : Running(k)' = Running(k)
    BY <1>8 DEF vars, Running, runner
  <2> QED BY <1>1, <1>8, <2>1, Around DEF vars, IInv, Typed, runner
<1> QED
  BY <1>1, <1>2, <1>3, <1>4, <1>5, <1>6, <1>7, <1>8, WindowKeeps DEF Next

LEMMA Always == ASSUME Assumptions PROVE Spec => []IInv
<1>1. Init => IInv
  BY Starts
<1>2. IInv /\ [Next]_vars => IInv'
  BY Steps
<1> QED BY <1>1, <1>2, PTL DEF Spec

\* Rows, runs and handsets keep their types, and no push is tried more than
\* MAX_PUSH_ATTEMPTS times, for any replicas, notices, handsets and limits.
THEOREM TypeCorrect == ASSUME Assumptions PROVE Spec => []TypeOK
<1>1. IInv => TypeOK
  BY DEF IInv, RunnerInv, Typed, OnDuty, Counted, TypeOK
<1> QED BY <1>1, Always, PTL

\* A dispatched notice has its email row, and its SMS row if it is statutory,
\* whatever preferences say and wherever runs overlap, fail or die.
THEOREM NoNoticeLost == ASSUME Assumptions PROVE Spec => []NothingLost
<1>1. IInv => NothingLost
  BY DEF IInv
<1> QED BY <1>1, Always, PTL

\* What the lease gives every job it gives the dispatch.
THEOREM OneDispatches == ASSUME Assumptions PROVE Spec => []OneInLease
<1>1. Spec => RunnerSpec
  <2>1. Init => RunnerInit
    BY DEF Init
  <2>2. [Next]_vars => [RunnerNext]_runner
    BY StepsOfRunner
  <2> QED BY <2>1, <2>2, PTL DEF Spec, RunnerSpec
<1>2. RunnerSpec => []OneInLease
  BY LeaseExcludes DEF Assumptions
<1> QED BY <1>1, <1>2, PTL

\* However many runs overlap, none makes a deferred push due.
THEOREM DeferredAlwaysWaits == ASSUME Assumptions PROVE Spec => DeferredWaits
<1>1. IInv /\ [Next]_vars =>
        [\A n \in Notices : push[n].status = "deferred" =>
           push'[n].status \in {"deferred", "opened"}]_vars
  <2> SUFFICES ASSUME IInv, [Next]_vars, NEW n \in Notices, push[n].status = "deferred"
               PROVE  push'[n] = push[n] \/ push'[n].status = "opened"
    OBVIOUS
  <2>1. push \in [Notices -> Push]
    BY DEF IInv, Typed
  <2>2. ASSUME NEW i \in Replicas, PlanOne(i) PROVE push'[n] = push[n]
    <3>1. PICK m, status :
            push' = push \/ push' = [push EXCEPT ![m] = inserted(@, status)]
      BY <2>2 DEF PlanOne
    <3> QED BY <2>1, <3>1 DEF inserted
  <2>3. ASSUME NEW i \in Replicas, Record(i) PROVE push'[n] = push[n]
    <3>1. PICK m, p : m \in Oldest(i) /\ push' = [push EXCEPT ![m] = p]
      BY <2>3 DEF Record
    <3>2. m \in Notices /\ Holds(i, m)
      BY <2>3, <3>1, WorkType DEF Oldest, Holds, Record, IInv
    <3>3. m # n
      BY <3>2 DEF IInv, Left
    <3> QED BY <2>1, <3>1, <3>3
  <2>4. ASSUME NEW m \in Notices, WindowOpens(m)
        PROVE  push'[n] = push[n] \/ push'[n].status = "opened"
    BY <2>1, <2>4 DEF WindowOpens, Push
  <2> QED
    BY <2>2, <2>3, <2>4
    DEF Next, vars, outbox, Runs, Begin, ReadPending, ReadDue, ReadDevices, SendOne,
        Ends, Throws, Dies, Announce, registerDevice, removeOwnDevice
<1> QED BY <1>1, Always, PTL DEF Spec, DeferredWaits

\* As long as no run has outlived its lease, a sent push stays sent, with the count
\* it was sent at.
THEOREM SentForGood == ASSUME Assumptions PROVE Spec => SentStaysSent
<1>1. IInv /\ [Next]_vars =>
        [~late => \A n \in Notices : push[n].status = "sent" => push'[n] = push[n]]_vars
  <2> SUFFICES ASSUME IInv, [Next]_vars, ~late, NEW n \in Notices, push[n].status = "sent"
               PROVE  push'[n] = push[n]
    OBVIOUS
  <2>1. push \in [Notices -> Push]
    BY DEF IInv, Typed
  <2>2. ASSUME NEW i \in Replicas, PlanOne(i) PROVE push'[n] = push[n]
    <3>1. PICK m, status :
            push' = push \/ push' = [push EXCEPT ![m] = inserted(@, status)]
      BY <2>2 DEF PlanOne
    <3> QED BY <2>1, <3>1 DEF inserted
  <2>3. ASSUME NEW i \in Replicas, Record(i) PROVE push'[n] = push[n]
    <3>1. PICK m, p : m \in Oldest(i) /\ push' = [push EXCEPT ![m] = p]
      BY <2>3 DEF Record
    <3>2. m \in Notices /\ Holds(i, m)
      BY <2>3, <3>1, WorkType DEF Oldest, Holds, Record, IInv
    <3>3. m # n
      BY <3>2 DEF IInv, Held
    <3> QED BY <2>1, <3>1, <3>3
  <2>4. ASSUME NEW m \in Notices, WindowOpens(m) PROVE push'[n] = push[n]
    BY <2>1, <2>4 DEF WindowOpens
  <2> QED
    BY <2>2, <2>3, <2>4
    DEF Next, vars, outbox, Runs, Begin, ReadPending, ReadDue, ReadDevices, SendOne,
        Ends, Throws, Dies, Announce, registerDevice, removeOwnDevice
<1> QED BY <1>1, Always, PTL DEF Spec, SentStaysSent
=============================================================================
