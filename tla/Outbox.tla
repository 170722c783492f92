------------------------------- MODULE Outbox -------------------------------
(***************************************************************************)
(* Notices to one citizen and their delivery: the rows of notifications    *)
(* that a move commits (the outbox), the rows of notification_deliveries,  *)
(* the citizen's handsets, and the notification-dispatch job that plans    *)
(* deliveries and sends the pushes that are due, run by JobRunner's        *)
(* replicas, one of which may still be at it when the next begins.         *)
(*                                                                         *)
(* A step of a run is one statement, or one transaction, or one request to *)
(* FCM; an error of any of them ends the run.  Preferences and quiet hours *)
(* are read, never written: what they say is an input.  Email and SMS have *)
(* no sender yet, so of their rows only that they exist is kept.           *)
(***************************************************************************)
EXTENDS JobRunner, FiniteSets

CONSTANTS
  Notices,      \* numbers in the order of created_at
  Statutory,    \* those that start a clock the citizen can miss
  Devices,      \* handsets
  Dispatch,     \* notification-dispatch
  PlanLimit,    \* rows a run plans
  SendLimit,    \* pushes a run sends
  MaxAttempts   \* MAX_PUSH_ATTEMPTS

ASSUME OutboxAssumption ==
  /\ Notices \subseteq Nat /\ Statutory \subseteq Notices
  /\ Jobs = {Dispatch}
  /\ {PlanLimit, SendLimit, MaxAttempts} \subseteq Nat \ {0}

VARIABLES
  notice,    \* notifications: none, pending, or dispatched
  records,   \* email and sms rows of notification_deliveries
  push,      \* push rows
  devices,   \* registered handsets
  work       \* what the run of each replica holds

outbox == << notice, records, push, devices, work >>
vars == << runner, notice, records, push, devices, work >>

\* opened: deferred, with deferred_until past.
PushStatus == {"none", "queued", "deferred", "opened", "sent", "failed"}
Push == [ status : PushStatus, attempts : Nat ]
NoPush == [ status |-> "none", attempts |-> 0 ]

Phases == {"off", "plan", "planning", "devices", "sending"}
Work ==
  [ phase : Phases,
    todo : SUBSET Notices,             \* rows read and not yet worked off
    hasDevice : BOOLEAN,               \* read with them
    attempts : [Notices -> Nat],       \* read with them
    handsets : SUBSET Devices,         \* still to send to
    delivered : BOOLEAN, reachable : BOOLEAN ]

AtRest ==
  [ phase |-> "off", todo |-> {}, hasDevice |-> FALSE,
    attempts |-> [n \in Notices |-> 0], handsets |-> {},
    delivered |-> FALSE, reachable |-> FALSE ]

Init ==
  /\ RunnerInit
  /\ notice = [n \in Notices |-> "none"]
  /\ records = {}
  /\ push = [n \in Notices |-> NoPush]
  /\ devices = {}
  /\ work = [i \in Replicas |-> AtRest]

\* order by created_at limit
Earliest(S, limit) == {n \in S : Cardinality({m \in S : m < n}) < limit}
Oldest(i) == {n \in work[i].todo : \A m \in work[i].todo : n <= m}

Pending == {n \in Notices : notice[n] = "pending"}

\* Mutant: rows whose window has opened are forgotten.
DueQueued == {n \in Notices : push[n].status = "queued"}

DuePushes == {n \in Notices : push[n].status \in {"queued", "opened"}}

-----------------------------------------------------------------------------
(* The run. *)

Begin(i) ==
  /\ Claim(i)
  /\ work' = [work EXCEPT ![i].phase = "plan"]
  /\ UNCHANGED << notice, records, push, devices >>

ReadPending(i) ==
  /\ work[i].phase = "plan"
  /\ work' = [work EXCEPT ![i].phase = "planning",
                          ![i].todo = Earliest(Pending, PlanLimit),
                          ![i].hasDevice = devices # {}]
  /\ UNCHANGED << runner, notice, records, push, devices >>

\* Mutant: a mute silences the SMS as well.
planDeliveryMuted(n, hasDevice, muted, quiet) ==
  [ records |-> {"email"} \cup (IF n \in Statutory /\ ~muted THEN {"sms"} ELSE {}),
    push |-> IF ~hasDevice \/ muted THEN "none" ELSE IF quiet THEN "deferred" ELSE "queued" ]

planDelivery(n, hasDevice, muted, quiet) ==
  [ records |-> {"email"} \cup (IF n \in Statutory THEN {"sms"} ELSE {}),
    push |-> IF ~hasDevice \/ muted THEN "none" ELSE IF quiet THEN "deferred" ELSE "queued" ]

\* on conflict (notification_id, channel) do nothing
inserted(old, status) ==
  IF old.status = "none" THEN [ status |-> status, attempts |-> 0 ] ELSE old

\* The preferences, then the transaction that records the plan and marks the
\* notice; it asks nothing of the notice again.
PlanOne(i) ==
  /\ work[i].phase = "planning"
  /\ \E n \in Oldest(i), muted, quiet \in BOOLEAN :
       LET plan == planDelivery(n, work[i].hasDevice, muted, quiet) IN
       /\ records' = records \cup ({n} \X plan.records)
       /\ push' = IF plan.push = "none" THEN push
                  ELSE [push EXCEPT ![n] = inserted(@, plan.push)]
       /\ notice' = [notice EXCEPT ![n] = "dispatched"]
       /\ work' = [work EXCEPT ![i].todo = @ \ {n}]
  /\ UNCHANGED << runner, devices >>

ReadDue(i) ==
  /\ work[i].phase = "planning" /\ work[i].todo = {}
  /\ LET due == Earliest(DuePushes, SendLimit) IN
     work' = [work EXCEPT ![i].phase = "devices", ![i].todo = due,
                ![i].attempts = [n \in Notices |-> IF n \in due THEN push[n].attempts ELSE 0]]
  /\ UNCHANGED << runner, notice, records, push, devices >>

ReadDevices(i) ==
  /\ work[i].phase = "devices" /\ work[i].todo # {}
  /\ work' = [work EXCEPT ![i].phase = "sending", ![i].handsets = devices,
                          ![i].delivered = FALSE, ![i].reachable = FALSE]
  /\ UNCHANGED << runner, notice, records, push, devices >>

\* FCM takes the message, refuses it for now, or reports the handset gone; a token
\* that cannot be opened is pruned like the last.
SendOne(i, d) ==
  /\ work[i].phase = "sending" /\ d \in work[i].handsets
  /\ \/ \E ok \in BOOLEAN :
          /\ work' = [work EXCEPT ![i].handsets = @ \ {d}, ![i].reachable = TRUE,
                                  ![i].delivered = @ \/ ok]
          /\ UNCHANGED devices
     \/ /\ work' = [work EXCEPT ![i].handsets = @ \ {d}]
        /\ devices' = devices \ {d}
  /\ UNCHANGED << runner, notice, records, push >>

Outcome(i, attempts) ==
  IF work[i].delivered THEN "sent"
  ELSE IF ~work[i].reachable \/ attempts >= MaxAttempts THEN "failed" ELSE "queued"

\* The update, by the row's id and with the count read before the sending.
Record(i) ==
  /\ work[i].phase = "sending" /\ work[i].handsets = {}
  /\ \E n \in Oldest(i) :
       LET attempts == work[i].attempts[n] + 1 IN
       /\ push' = [push EXCEPT ![n] =
                     [ status |-> Outcome(i, attempts), attempts |-> attempts ]]
       /\ work' = [work EXCEPT ![i].phase = "devices", ![i].todo = @ \ {n},
                               ![i].attempts = [@ EXCEPT ![n] = 0],
                               ![i].delivered = FALSE, ![i].reachable = FALSE]
  /\ UNCHANGED << runner, notice, records, devices >>

WorkedOff(i) == work[i].phase = "devices" /\ work[i].todo = {}
GivenUp(i) == work' = [work EXCEPT ![i] = AtRest]

Ends(i) ==
  /\ WorkedOff(i)
  /\ Finish(i, "succeeded") \/ FinishLost(i)
  /\ GivenUp(i)
  /\ UNCHANGED << notice, records, push, devices >>

\* A statement or a request to FCM fails; what was read is dropped.
Throws(i) ==
  /\ ~WorkedOff(i)
  /\ Finish(i, "failed") \/ FinishLost(i)
  /\ GivenUp(i)
  /\ UNCHANGED << notice, records, push, devices >>

Dies(i) ==
  /\ Exit(i)
  /\ GivenUp(i)
  /\ UNCHANGED << notice, records, push, devices >>

-----------------------------------------------------------------------------
(* Around it. *)

\* A move commits its notice.
Announce(n) ==
  /\ notice[n] = "none"
  /\ notice' = [notice EXCEPT ![n] = "pending"]
  /\ UNCHANGED << runner, records, push, devices, work >>

registerDevice(d) ==
  /\ devices' = devices \cup {d}
  /\ UNCHANGED << runner, notice, records, push, work >>

removeOwnDevice(d) ==
  /\ devices' = devices \ {d}
  /\ UNCHANGED << runner, notice, records, push, work >>

WindowOpens(n) ==
  /\ push[n].status = "deferred"
  /\ push' = [push EXCEPT ![n].status = "opened"]
  /\ UNCHANGED << runner, notice, records, devices, work >>

Scheduling(i) == TickBegins(i) \/ PassOver(i) \/ Drain(i)

Runs(i) ==
  \/ Begin(i) \/ ReadPending(i) \/ PlanOne(i) \/ ReadDue(i)
  \/ ReadDevices(i) \/ (\E d \in Devices : SendOne(i, d))
  \/ Record(i) \/ Ends(i)

Next ==
  \/ \E i \in Replicas : Runs(i) \/ Throws(i) \/ Dies(i)
  \/ /\ \/ \E i \in Replicas : Scheduling(i)
        \/ \E j \in Jobs : Switch(j)
        \/ Time
     /\ UNCHANGED outbox
  \/ \E n \in Notices : Announce(n) \/ WindowOpens(n)
  \/ \E d \in Devices : registerDevice(d) \/ removeOwnDevice(d)

Spec == Init /\ [][Next]_vars

\* The timer ticks, a run goes on, an instance told to drain exits by its deadline,
\* and quiet hours end.  Nothing is assumed of failures, citizens and operators.
Fairness ==
  /\ \A i \in Replicas :
       /\ WF_vars((TickBegins(i) \/ PassOver(i)) /\ UNCHANGED outbox)
       /\ WF_vars(Runs(i))
       /\ WF_vars(draining[i] /\ Dies(i))
  /\ WF_vars(Time /\ UNCHANGED outbox)
  /\ \A n \in Notices : WF_vars(WindowOpens(n))

FairSpec == Spec /\ Fairness
-----------------------------------------------------------------------------
(* Properties. *)

\* Rows keep their types, and no push is tried more than MAX_PUSH_ATTEMPTS times,
\* however many runs overlap.
TypeOK ==
  /\ RunnerTypeOK
  /\ notice \in [Notices -> {"none", "pending", "dispatched"}]
  /\ records \subseteq Notices \X {"email", "sms"}
  /\ push \in [Notices -> Push]
  /\ \A n \in Notices : push[n].attempts <= MaxAttempts
  /\ devices \subseteq Devices
  /\ work \in [Replicas -> Work]
  /\ \A i \in Replicas : work[i].phase = "off" <=> ~Running(i)

\* "No combination of muting, quiet hours and a missing device may result in the
\* LGU having told nobody anything" (ADR 0011), nor a run that dies half-way: what
\* is marked dispatched has its email row, and its SMS row if it is statutory.
NothingLost ==
  \A n \in Notices : notice[n] = "dispatched" =>
    /\ << n, "email" >> \in records
    /\ n \in Statutory => << n, "sms" >> \in records

\* A push deferred for quiet hours waits for its window: no run, not one that plans
\* the notice a second time either, makes it due before.
DeferredWaits ==
  [][\A n \in Notices : push[n].status = "deferred" =>
       push'[n].status \in {"deferred", "opened"}]_vars

\* "The only defence is that running it again is harmless" (job-runner.ts): a push
\* that was sent is not taken back for sent.
RunningTwiceIsHarmless ==
  [][\A n \in Notices : push[n].status = "sent" => push'[n] = push[n]]_vars

\* It holds as long as no run outlives its lease, whatever crashes.
SentStaysSent ==
  [][~late => \A n \in Notices : push[n].status = "sent" => push'[n] = push[n]]_vars

\* Every notice is planned, and its push then sent or given up, unless the job is
\* switched off.
EveryNoticeSettles ==
  \A n \in Notices :
    notice[n] = "pending" ~>
      \/ notice[n] = "dispatched" /\ push[n].status \in {"none", "sent", "failed"}
      \/ ~row[Dispatch].enabled
=============================================================================
