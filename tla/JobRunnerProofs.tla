--------------------------- MODULE JobRunnerProofs ---------------------------
(***************************************************************************)
(* That a lease keeps two replicas off one job.                            *)
(*                                                                         *)
(* finish releases by the job's name, so a run that outlived its lease may *)
(* release the lease of its successor.  What is inductive is therefore     *)
(* either of two facts about a run in its lease.  As long as no run has    *)
(* been late, it is the only run of its job and what is left of its lease  *)
(* is what the row says.  And in any case the job was started no longer    *)
(* ago than the part of the lease that is spent, so a lease shorter than   *)
(* the interval ends before the job is due again.                          *)
(***************************************************************************)
EXTENDS JobRunner, TLAPS

\* As long as no run was late, leases on rows are those of the runs.
Alone ==
  ~late => \A i \in Replicas : Running(i) =>
    /\ at[i].left # Free
    /\ row[at[i].job].left = at[i].left
    /\ \A k \in Replicas : Running(k) /\ at[k].job = at[i].job => k = i

\* The age of the job's last start and what is left of a lease on it.
Fresh ==
  \A i \in Replicas : InLease(i) =>
    row[at[i].job].started + at[i].left <= Lease[at[i].job]

\* A lease shorter than the interval admits one run in its lease.
Apart ==
  \A i, k \in Replicas :
    /\ InLease(i) /\ InLease(k) /\ at[i].job = at[k].job
    /\ Lease[at[i].job] < Interval[at[i].job]
    => i = k

RunnerInv == RunnerTypeOK /\ Alone /\ Fresh /\ Apart

LEMMA TailOfSeq == ASSUME NEW S, NEW s \in Seq(S), s # <<>>
                   PROVE  Head(s) \in S /\ Tail(s) \in Seq(S)
  OBVIOUS

LEMMA RunnerStarts == ASSUME JobRunnerAssumption PROVE RunnerInit => RunnerInv
<1> USE DEF RunnerInit, JobRunnerAssumption, Resting, Free, Running, InLease
<1>1. ASSUME RunnerInit PROVE RunnerTypeOK
  <2>1. <<>> \in Seq(Jobs)
    OBVIOUS
  <2>2. at \in [Replicas -> Replica]
    BY <1>1, <2>1 DEF Replica
  <2>3. row \in [Jobs -> Row] /\ \A j \in Jobs : row[j].started <= Interval[j]
    <3>1. \A j \in Jobs : Interval[j] \in Nat
      OBVIOUS
    <3> QED BY <1>1, <3>1 DEF Row
  <2>4. draining \in [Replicas -> BOOLEAN] /\ late \in BOOLEAN /\ trouble \in 0..MaxTrouble
    <3>1. 0 \in 0..MaxTrouble
      OBVIOUS
    <3> QED BY <1>1, <3>1
  <2> QED BY <2>2, <2>3, <2>4 DEF RunnerTypeOK
<1>2. RunnerInit => Alone /\ Fresh /\ Apart
  BY DEF Alone, Fresh, Apart
<1> QED BY <1>1, <1>2 DEF RunnerInv

\* The parts of RunnerTypeOK.
RowsOK == row \in [Jobs -> Row] /\ \A j \in Jobs : row[j].started <= Interval[j]
RestOK == draining \in [Replicas -> BOOLEAN] /\ late \in BOOLEAN /\ trouble \in 0..MaxTrouble

LEMMA TroublesType == ASSUME JobRunnerAssumption, RestOK, Troubles
                      PROVE  trouble' \in 0..MaxTrouble
BY DEF JobRunnerAssumption, RestOK, Troubles

LEMMA EndedType ==
  ASSUME at \in [Replicas -> Replica], NEW i \in Replicas, Ended(i)
  PROVE  at' \in [Replicas -> Replica]
<1> DEFINE r == [at[i] EXCEPT !.job = NoJob, !.left = Free]
<1>1. r \in Replica
  BY DEF Replica, Free
<1>2. at' = [at EXCEPT ![i] = r]
  BY DEF Ended
<1> HIDE DEF r
<1> QED BY <1>1, <1>2

LEMMA ReleaseType ==
  ASSUME JobRunnerAssumption, RowsOK, NEW j \in Jobs, row' = [row EXCEPT ![j].left = Free]
  PROVE  RowsOK'
<1> DEFINE r == [row[j] EXCEPT !.left = Free]
<1>1. r \in Row /\ r.started = row[j].started
  BY DEF RowsOK, Row, Free
<1>2. row' = [row EXCEPT ![j] = r]
  OBVIOUS
<1> HIDE DEF r
<1> QED BY <1>1, <1>2 DEF RowsOK

LEMMA LessType == ASSUME NEW left \in Nat \cup {Free}
                  PROVE  Less(left) \in Nat \cup {Free}
BY DEF Less, Free

\* Every step keeps the types of rows and replicas.
LEMMA RunnerTypes ==
  ASSUME JobRunnerAssumption, RunnerTypeOK, [RunnerNext]_runner
  PROVE  RunnerTypeOK'
<1>0. RowsOK /\ at \in [Replicas -> Replica] /\ RestOK
  BY DEF RunnerTypeOK, RowsOK, RestOK
<1> SUFFICES RowsOK' /\ at' \in [Replicas -> Replica] /\ RestOK'
  BY DEF RunnerTypeOK, RowsOK, RestOK
<1> USE <1>0
<1>1. ASSUME NEW i \in Replicas, TickBegins(i)
      PROVE  RowsOK' /\ at' \in [Replicas -> Replica] /\ RestOK'
  <2> DEFINE r == [at[i] EXCEPT !.todo = JobOrder]
  <2>1. r \in Replica
    BY DEF JobRunnerAssumption, Replica
  <2>2. at' = [at EXCEPT ![i] = r] /\ UNCHANGED << row, draining, late, trouble >>
    BY <1>1 DEF TickBegins
  <2> HIDE DEF r
  <2> QED BY <2>1, <2>2 DEF RowsOK, RestOK
<1>2. ASSUME NEW i \in Replicas, Claim(i)
      PROVE  RowsOK' /\ at' \in [Replicas -> Replica] /\ RestOK'
  <2> DEFINE j == Offered(i)
             r == [ todo |-> Tail(at[i].todo), job |-> j, left |-> Lease[j] ]
             w == [row[j] EXCEPT !.started = 0, !.left = Lease[j]]
  <2>1. at[i].todo \in Seq(Jobs) /\ at[i].todo # <<>>
    BY <1>2 DEF Claim, Offers, Replica
  <2>2. j \in Jobs /\ Tail(at[i].todo) \in Seq(Jobs)
    BY <2>1, TailOfSeq DEF Offered
  <2>3. /\ row' = [row EXCEPT ![j] = w] /\ at' = [at EXCEPT ![i] = r]
        /\ UNCHANGED << draining, late, trouble >>
    BY <1>2 DEF Claim
  <2> HIDE DEF j
  <2>4. Lease[j] \in Nat /\ Interval[j] \in Nat
    BY <2>2 DEF JobRunnerAssumption
  <2>5. r \in Replica
    BY <2>2, <2>4 DEF Replica
  <2>6. w \in Row /\ w.started = 0
    BY <2>2, <2>4 DEF RowsOK, Row
  <2> HIDE DEF r, w
  <2> QED BY <2>2, <2>3, <2>4, <2>5, <2>6 DEF RowsOK, RestOK
<1>3. ASSUME NEW i \in Replicas, PassOver(i)
      PROVE  RowsOK' /\ at' \in [Replicas -> Replica] /\ RestOK'
  <2>1. PICK rest \in {<<>>, Tail(at[i].todo)} : at' = [at EXCEPT ![i].todo = rest]
    BY <1>3 DEF PassOver
  <2>2. at[i].todo \in Seq(Jobs) /\ at[i].todo # <<>>
    BY <1>3 DEF PassOver, Offers, Replica
  <2>3. rest \in Seq(Jobs)
    <3>1. <<>> \in Seq(Jobs) /\ Tail(at[i].todo) \in Seq(Jobs)
      BY <2>2, TailOfSeq
    <3> QED BY <3>1
  <2> DEFINE r == [at[i] EXCEPT !.todo = rest]
  <2>4. r \in Replica
    BY <2>3 DEF Replica
  <2>5. at' = [at EXCEPT ![i] = r]
    BY <2>1
  <2> HIDE DEF r
  <2> QED BY <1>3, <2>4, <2>5 DEF PassOver, RowsOK, RestOK
<1>4. ASSUME NEW i \in Replicas, NEW outcome, Finish(i, outcome)
      PROVE  RowsOK' /\ at' \in [Replicas -> Replica] /\ RestOK'
  <2>1. at[i].job \in Jobs
    BY <1>4 DEF Finish, Running, Replica
  <2>2. RowsOK'
    BY <1>4, <2>1, ReleaseType DEF Finish
  <2>3. RestOK'
    BY <1>4, TroublesType DEF Finish, RestOK
  <2> QED BY <1>4, <2>2, <2>3, EndedType DEF Finish
<1>5. ASSUME NEW i \in Replicas, FinishLost(i)
      PROVE  RowsOK' /\ at' \in [Replicas -> Replica] /\ RestOK'
  BY <1>5, EndedType, TroublesType DEF FinishLost, RowsOK, RestOK
<1>6. ASSUME NEW i \in Replicas, Drain(i)
      PROVE  RowsOK' /\ at' \in [Replicas -> Replica] /\ RestOK'
  BY <1>6, TroublesType DEF Drain, RowsOK, RestOK
<1>7. ASSUME NEW i \in Replicas, Exit(i)
      PROVE  RowsOK' /\ at' \in [Replicas -> Replica] /\ RestOK'
  <2>1. Resting \in Replica
    BY DEF Resting, Replica, Free
  <2>2. RestOK'
    BY <1>7, TroublesType DEF Exit, RestOK
  <2> QED BY <1>7, <2>1, <2>2 DEF Exit, RowsOK
<1>8. ASSUME NEW j \in Jobs, Switch(j)
      PROVE  RowsOK' /\ at' \in [Replicas -> Replica] /\ RestOK'
  <2> DEFINE w == [row[j] EXCEPT !.enabled = ~row[j].enabled]
  <2>1. w \in Row /\ w.started = row[j].started
    BY DEF RowsOK, Row
  <2>2. row' = [row EXCEPT ![j] = w]
    BY <1>8 DEF Switch
  <2> HIDE DEF w
  <2>3. RowsOK'
    BY <2>1, <2>2 DEF RowsOK
  <2>4. RestOK'
    BY <1>8, TroublesType DEF Switch, RestOK
  <2> QED BY <1>8, <2>3, <2>4 DEF Switch
<1>9. ASSUME Time
      PROVE  RowsOK' /\ at' \in [Replicas -> Replica] /\ RestOK'
  <2>1. \A i \in Replicas : [at[i] EXCEPT !.left = Less(@)] \in Replica
    <3> TAKE i \in Replicas
    <3>1. Less(at[i].left) \in Nat \cup {Free}
      BY LessType DEF Replica
    <3> QED BY <3>1 DEF Replica
  <2>2. at' \in [Replicas -> Replica]
    BY <1>9, <2>1 DEF Time
  <2> DEFINE w(j) == [row[j] EXCEPT !.started = IF @ = Interval[j] THEN @ ELSE @ + 1,
                                    !.left = Less(@)]
  <2>3. ASSUME NEW j \in Jobs PROVE w(j) \in Row /\ w(j).started <= Interval[j]
    <3>1. Interval[j] \in Nat
      BY DEF JobRunnerAssumption
    <3>2. row[j] \in Row /\ row[j].started <= Interval[j]
      BY DEF RowsOK
    <3>3. Less(row[j].left) \in Nat \cup {Free}
      BY <3>2, LessType DEF Row
    <3> DEFINE a == IF row[j].started = Interval[j] THEN row[j].started ELSE row[j].started + 1
    <3>4. a \in Nat /\ a <= Interval[j]
      BY <3>1, <3>2 DEF Row
    <3> HIDE DEF a
    <3>5. w(j) = [row[j] EXCEPT !.started = a, !.left = Less(row[j].left)]
      BY DEF a
    <3> QED BY <3>2, <3>3, <3>4, <3>5 DEF Row
  <2>4. row' = [j \in Jobs |-> w(j)]
    BY <1>9 DEF Time
  <2> HIDE DEF w
  <2>5. RowsOK'
    BY <2>3, <2>4 DEF RowsOK
  <2>6. late' \in BOOLEAN
    BY <1>9 DEF Time
  <2>7. UNCHANGED << draining, trouble >>
    BY <1>9 DEF Time
  <2>8. RestOK'
    BY <2>6, <2>7 DEF RestOK
  <2> QED BY <2>2, <2>5, <2>8
<1>10. CASE UNCHANGED runner
  BY <1>10 DEF runner, RowsOK, RestOK
<1> QED
  BY <1>1, <1>2, <1>3, <1>4, <1>5, <1>6, <1>7, <1>8, <1>9, <1>10 DEF RunnerNext

-----------------------------------------------------------------------------
\* A step that starts no run, ages nothing, and frees a lease only of a job whose
\* runs are over or late keeps all three facts.
LEMMA Unstarted ==
  ASSUME RunnerInv, late' = late,
         \A k \in Replicas : Running(k)' =>
           Running(k) /\ at'[k].job = at[k].job /\ at'[k].left = at[k].left,
         \A j \in Jobs : row'[j].started = row[j].started,
         \A k \in Replicas : Running(k)' =>
           late \/ row'[at[k].job].left = row[at[k].job].left
  PROVE  Alone' /\ Fresh' /\ Apart'
<1>1. \A k \in Replicas : Running(k) => at[k].job \in Jobs
  BY DEF RunnerInv, RunnerTypeOK, Replica, Running
<1>2. Alone'
  BY <1>1 DEF RunnerInv, Alone
<1>3. \A k \in Replicas : InLease(k)' => InLease(k)
  BY DEF InLease, Free
<1>4. Fresh'
  BY <1>1, <1>3 DEF RunnerInv, Fresh, InLease
<1>5. Apart'
  BY <1>3 DEF RunnerInv, Apart, InLease
<1> QED BY <1>2, <1>4, <1>5

\* The row of a claimed job; a claim finds no run of it in its lease.
LEMMA Claimed ==
  ASSUME JobRunnerAssumption, RunnerInv, NEW i \in Replicas, Claim(i)
  PROVE  Alone' /\ Fresh' /\ Apart'
<1> DEFINE j == Offered(i)
           r == [ todo |-> Tail(at[i].todo), job |-> j, left |-> Lease[j] ]
           w == [row[j] EXCEPT !.started = 0, !.left = Lease[j]]
<1>1. at[i].todo \in Seq(Jobs) /\ at[i].todo # <<>>
  BY DEF Claim, Offers, Replica, RunnerInv, RunnerTypeOK
<1>2. j \in Jobs
  BY <1>1, TailOfSeq DEF Offered
<1>3. /\ row' = [row EXCEPT ![j] = w] /\ at' = [at EXCEPT ![i] = r] /\ late' = late
      /\ ~Running(i) /\ row[j].left = Free /\ row[j].started = Interval[j]
  BY DEF Claim, Offers, Due
<1>4. row[j] \in Row /\ at \in [Replicas -> Replica] /\ row \in [Jobs -> Row]
  BY <1>2 DEF RunnerInv, RunnerTypeOK
<1>5. w.started = 0 /\ w.left = Lease[j] /\ r.job = j /\ r.left = Lease[j]
  BY <1>4 DEF Row
<1> HIDE DEF j, r, w
<1>6. Lease[j] \in Nat /\ Lease[j] # Free /\ Interval[j] \in Nat /\ j # NoJob
  BY <1>2 DEF JobRunnerAssumption, Free
<1>7. /\ row'[j] = w /\ at'[i] = r
      /\ \A k \in Replicas : k # i => at'[k] = at[k]
      /\ \A g \in Jobs : g # j => row'[g] = row[g]
  BY <1>2, <1>3, <1>4
<1>8. \A k \in Replicas : Running(k) =>
        at[k].job \in Jobs /\ at[k].left \in Nat \cup {Free}
  BY <1>4 DEF Replica, Running
<1>9. Alone'
  <2> SUFFICES ASSUME ~late', NEW k \in Replicas, Running(k)'
               PROVE  /\ at'[k].left # Free
                      /\ row'[at'[k].job].left = at'[k].left
                      /\ \A g \in Replicas : Running(g)' /\ at'[g].job = at'[k].job => g = k
    BY DEF Alone
  <2>1. \A g \in Replicas : Running(g) => at[g].job # j
    BY <1>3 DEF RunnerInv, Alone
  <2>2. CASE k = i
    BY <1>5, <1>6, <1>7, <2>1, <2>2 DEF Running
  <2>3. CASE k # i
    <3>1. Running(k) /\ at'[k] = at[k] /\ row'[at[k].job] = row[at[k].job]
      BY <1>7, <1>8, <2>1, <2>3 DEF Running
    <3>2. at[k].job # j
      BY <2>1, <3>1
    <3> QED BY <1>3, <1>5, <1>7, <2>3, <3>1, <3>2 DEF RunnerInv, Alone, Running
  <2> QED BY <2>2, <2>3
<1>10. Fresh'
  <2> SUFFICES ASSUME NEW k \in Replicas, InLease(k)'
               PROVE  row'[at'[k].job].started + at'[k].left <= Lease[at'[k].job]
    BY DEF Fresh
  <2>1. CASE k = i
    BY <1>5, <1>6, <1>7, <2>1
  <2>2. CASE k # i
    <3>1. InLease(k) /\ at'[k] = at[k] /\ at[k].job \in Jobs /\ at[k].left \in Nat
      BY <1>7, <1>8, <2>2 DEF InLease, Running
    <3>2. row[at[k].job].started + at[k].left <= Lease[at[k].job]
      BY <3>1 DEF RunnerInv, Fresh
    <3>3. row[at[k].job].started \in Nat
      BY <1>4, <3>1 DEF Row
    <3>4. Lease[at[k].job] \in Nat
      BY <3>1 DEF JobRunnerAssumption
    <3>5. CASE at[k].job = j
      BY <1>5, <1>7, <3>1, <3>2, <3>3, <3>4, <3>5
    <3>6. CASE at[k].job # j
      BY <1>7, <3>1, <3>2, <3>6
    <3> QED BY <3>5, <3>6
  <2> QED BY <2>1, <2>2
<1>11. Apart'
  <2>1. ASSUME NEW k \in Replicas, InLease(k), at[k].job = j, Lease[j] < Interval[j]
        PROVE  FALSE
    <3>1. row[j].started + at[k].left <= Lease[j]
      BY <2>1 DEF RunnerInv, Fresh
    <3>2. at[k].left \in Nat
      BY <1>8, <2>1 DEF InLease
    <3> QED BY <1>3, <1>6, <2>1, <3>1, <3>2
  <2>2. \A k \in Replicas : k # i /\ InLease(k)' => InLease(k)
    BY <1>7 DEF InLease, Running
  <2> QED BY <1>5, <1>7, <2>1, <2>2 DEF RunnerInv, Apart
<1> QED BY <1>9, <1>10, <1>11

\* Leases on rows and runs age together.
LEMMA Aged ==
  ASSUME JobRunnerAssumption, RunnerInv, Time
  PROVE  Alone' /\ Fresh' /\ Apart'
<1>1. \A k \in Replicas :
        /\ at'[k].job = at[k].job /\ at'[k].left = Less(at[k].left)
        /\ at[k].left \in Nat \cup {Free}
        /\ Running(k) => at[k].job \in Jobs
  BY DEF Time, RunnerInv, RunnerTypeOK, Replica, Running
<1>2. \A j \in Jobs :
        /\ row'[j].left = Less(row[j].left)
        /\ row[j].started \in Nat /\ row'[j].started \in Nat
        /\ row'[j].started <= row[j].started + 1
  <2> TAKE j \in Jobs
  <2>1. row[j] \in Row
    BY DEF RunnerInv, RunnerTypeOK
  <2>2. row'[j] = [row[j] EXCEPT !.started = IF @ = Interval[j] THEN @ ELSE @ + 1,
                                 !.left = Less(@)]
    BY DEF Time
  <2>3. /\ row'[j].left = Less(row[j].left)
        /\ row'[j].started = IF row[j].started = Interval[j] THEN row[j].started
                             ELSE row[j].started + 1
    BY <2>1, <2>2 DEF Row
  <2>4. row[j].started \in Nat
    BY <2>1 DEF Row
  <2> QED BY <2>3, <2>4
<1>3. \A k \in Replicas : Running(k)' = Running(k)
  BY <1>1 DEF Running
<1>4. Alone'
  <2> SUFFICES ASSUME ~late', NEW k \in Replicas, Running(k)'
               PROVE  /\ at'[k].left # Free
                      /\ row'[at'[k].job].left = at'[k].left
                      /\ \A g \in Replicas : Running(g)' /\ at'[g].job = at'[k].job => g = k
    BY DEF Alone
  <2>1. Running(k) /\ ~late /\ at[k].left # 0
    BY <1>3 DEF Time
  <2>2. /\ at[k].left # Free /\ row[at[k].job].left = at[k].left
        /\ \A g \in Replicas : Running(g) /\ at[g].job = at[k].job => g = k
    BY <2>1 DEF RunnerInv, Alone
  <2>3. at'[k].left # Free
    BY <1>1, <2>1, <2>2 DEF Less, Free
  <2>4. row'[at'[k].job].left = at'[k].left
    BY <1>1, <1>2, <2>1, <2>2
  <2> QED BY <1>1, <1>3, <2>2, <2>3, <2>4
<1>5. \A k \in Replicas : InLease(k)' =>
        InLease(k) /\ at[k].left \in Nat /\ at'[k].left = at[k].left - 1
  BY <1>1, <1>3 DEF InLease, Less, Free
<1>6. Fresh'
  <2> SUFFICES ASSUME NEW k \in Replicas, InLease(k)'
               PROVE  row'[at'[k].job].started + at'[k].left <= Lease[at'[k].job]
    BY DEF Fresh
  <2>1. /\ InLease(k) /\ at[k].left \in Nat /\ at'[k].left = at[k].left - 1
        /\ at'[k].job = at[k].job /\ at[k].job \in Jobs
    BY <1>1, <1>5 DEF InLease
  <2>2. row[at[k].job].started + at[k].left <= Lease[at[k].job]
    BY <2>1 DEF RunnerInv, Fresh
  <2>3. Lease[at[k].job] \in Nat
    BY <2>1 DEF JobRunnerAssumption
  <2> DEFINE before == row[at[k].job].started
             after == row'[at[k].job].started
             left == at[k].left
             lease == Lease[at[k].job]
  <2>4. /\ before \in Nat /\ after \in Nat /\ after <= before + 1
        /\ left \in Nat /\ lease \in Nat /\ before + left <= lease
    BY <1>2, <2>1, <2>2, <2>3
  <2>5. after + (left - 1) <= lease
    <3> HIDE DEF before, after, left, lease
    <3> QED BY <2>4
  <2> QED BY <2>1, <2>5
<1>7. Apart'
  BY <1>1, <1>5 DEF RunnerInv, Apart
<1> QED BY <1>4, <1>6, <1>7

LEMMA RunnerSteps ==
  ASSUME JobRunnerAssumption, RunnerInv, [RunnerNext]_runner
  PROVE  RunnerInv'
<1>1. RunnerTypeOK'
  BY RunnerTypes DEF RunnerInv
<1>2. at \in [Replicas -> Replica] /\ row \in [Jobs -> Row]
  BY DEF RunnerInv, RunnerTypeOK
<1>3. \A k \in Replicas : Running(k) => at[k].job \in Jobs
  BY <1>2 DEF Replica, Running
<1>4. ASSUME NEW i \in Replicas, TickBegins(i) PROVE Alone' /\ Fresh' /\ Apart'
  <2>1. \A k \in Replicas : at'[k].job = at[k].job /\ at'[k].left = at[k].left
    BY <1>2, <1>4 DEF TickBegins, Replica
  <2>2. row' = row /\ late' = late
    BY <1>4 DEF TickBegins
  <2> QED BY <2>1, <2>2, Unstarted DEF Running
<1>5. ASSUME NEW i \in Replicas, PassOver(i) PROVE Alone' /\ Fresh' /\ Apart'
  <2>1. \A k \in Replicas : at'[k].job = at[k].job /\ at'[k].left = at[k].left
    <3>1. PICK rest : at' = [at EXCEPT ![i].todo = rest]
      BY <1>5 DEF PassOver
    <3> QED BY <1>2, <3>1 DEF Replica
  <2>2. row' = row /\ late' = late
    BY <1>5 DEF PassOver
  <2> QED BY <2>1, <2>2, Unstarted DEF Running
<1>6. ASSUME NEW i \in Replicas, NEW outcome, Finish(i, outcome)
      PROVE  Alone' /\ Fresh' /\ Apart'
  <2>1. \A k \in Replicas : Running(k)' =>
          k # i /\ Running(k) /\ at'[k].job = at[k].job /\ at'[k].left = at[k].left
    BY <1>2, <1>6 DEF Finish, Ended, Running, Replica
  <2>2. /\ Running(i) /\ at[i].job \in Jobs /\ late' = late
        /\ row' = [row EXCEPT ![at[i].job].left = Free]
    BY <1>3, <1>6 DEF Finish
  <2>3. /\ \A j \in Jobs : row'[j].started = row[j].started
        /\ \A j \in Jobs : j # at[i].job => row'[j].left = row[j].left
    BY <1>2, <2>2 DEF Row
  <2>4. \A k \in Replicas : Running(k)' => late \/ at[k].job # at[i].job
    BY <2>1, <2>2 DEF RunnerInv, Alone
  <2>5. \A k \in Replicas : Running(k)' =>
          late \/ row'[at[k].job].left = row[at[k].job].left
    BY <1>3, <2>1, <2>3, <2>4
  <2> QED BY <2>1, <2>2, <2>3, <2>5, Unstarted
<1>7. ASSUME NEW i \in Replicas, FinishLost(i) PROVE Alone' /\ Fresh' /\ Apart'
  BY <1>2, <1>7, Unstarted DEF FinishLost, Ended, Running, Replica
<1>8. ASSUME NEW i \in Replicas, Drain(i) PROVE Alone' /\ Fresh' /\ Apart'
  BY <1>8, Unstarted DEF Drain, Running
<1>9. ASSUME NEW i \in Replicas, Exit(i) PROVE Alone' /\ Fresh' /\ Apart'
  BY <1>2, <1>9, Unstarted DEF Exit, Resting, Running, Replica
<1>10. ASSUME NEW j \in Jobs, Switch(j) PROVE Alone' /\ Fresh' /\ Apart'
  <2>1. \A g \in Jobs : row'[g].started = row[g].started /\ row'[g].left = row[g].left
    BY <1>2, <1>10 DEF Switch, Row
  <2>2. at' = at /\ late' = late
    BY <1>10 DEF Switch
  <2> QED BY <1>3, <2>1, <2>2, Unstarted DEF Running
<1>11. ASSUME UNCHANGED runner PROVE Alone' /\ Fresh' /\ Apart'
  BY <1>11, Unstarted DEF runner, Running
<1> QED
  BY <1>1, <1>4, <1>5, <1>6, <1>7, <1>8, <1>9, <1>10, <1>11, Claimed, Aged
  DEF RunnerNext, RunnerInv

LEMMA RunnerAlways == ASSUME JobRunnerAssumption PROVE RunnerSpec => []RunnerInv
<1>1. RunnerInit => RunnerInv
  BY RunnerStarts
<1>2. RunnerInv /\ [RunnerNext]_runner => RunnerInv'
  BY RunnerSteps
<1> QED BY <1>1, <1>2, PTL DEF RunnerSpec

\* Two replicas are in their leases of one job only after some run was late, and
\* never if the lease is shorter than the interval: for any number of replicas and
\* jobs, any leases and intervals, and any crashes, drains and lost releases.
THEOREM LeaseExcludes == ASSUME JobRunnerAssumption PROVE RunnerSpec => []OneInLease
<1>1. RunnerInv => OneInLease
  BY DEF RunnerInv, Alone, Apart, OneInLease, InLease
<1> QED BY <1>1, RunnerAlways, PTL
=============================================================================
