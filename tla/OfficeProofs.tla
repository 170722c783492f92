---------------------------- MODULE OfficeProofs ----------------------------
(*****************************************************************************)
(* What tlapm proves of the offices' own books: releases, numbers, files,    *)
(* the workflow, registrations, fees and the portal's pages.  One section    *)
(* for each component: its inductive invariant, a lemma for each group of    *)
(* actions, and its theorems at the end.                                     *)
(*****************************************************************************)
EXTENDS Deployment, Filing, Documents, Workflow, Records, FeeBook, Notices, PublicContent,
        Integers, FiniteSetTheorems, TLAPS

-----------------------------------------------------------------------------
(*****************************************************************************)
(* Deployment: releases, replicas and schema checks.                         *)
(*                                                                           *)
(* That the last request went right says nothing of the next one.  What is   *)
(* carried is that the verdict which put a replica in rotation still holds,  *)
(* because the ledger only grows and the build has everything in it and      *)
(* nothing beyond, and that a draining replica is out of rotation by the     *)
(* check it waits for.                                                       *)
(*****************************************************************************)

\* The build understands every migration the ledger holds, and has no other.
Understands(b) == ~Divergent(b) /\ ~Behind(b)

\* A replica that drains is out of rotation after two checks, and one that
\* closed, or that nothing was started in, is not in it.
Rotation(i) ==
  /\ replica[i].phase = "up" => replica[i].checks = 0
  /\ replica[i].phase = "draining" => replica[i].checks <= balancer[i].missed
  /\ balancer[i].missed = 2 => ~balancer[i].routed
  /\ replica[i].phase \in {"closing", "off"} => ~balancer[i].routed

\* A verdict that put a replica in rotation holds for as long as it is there.
Judged(i) ==
  balancer[i].routed /\ balancer[i].verdict # "unread" => Understands(replica[i].build)

DeploymentInv ==
  /\ DeploymentTypeOK /\ NoneTurnedAway
  /\ \A i \in Replicas : Rotation(i) /\ Judged(i)

\* The ledger only grows: what a build had whole and understood it still does.
LEMMA UnderstandsStill ==
  ASSUME DeploymentAssumption, DeploymentInv, NEW m \in Pipelines, ApplyMigration(m), NEW b \in Builds,
         Understands(b)
  PROVE  Understands(b)'
<1> DEFINE next == CHOOSE v \in pipeline[m].left : \A w \in pipeline[m].left : v <= w
<1> HIDE DEF next
<1>1. ledger' = ledger \/ (ledger[next] = NoFile /\ ledger' = [ ledger EXCEPT ![next] = Carries[pipeline[m].build][next] ])
  BY DEF ApplyMigration, next
<1>2. \A v \in Numbered : ledger'[v] = ledger[v] \/ (ledger[v] = NoFile /\ v = next)
  BY <1>1 DEF DeploymentInv, DeploymentTypeOK
<1>3. \A v \in Numbered : ledger[v] = NoFile => Carries[b][v] = NoFile
  BY DEF Understands, Behind
<1> QED BY <1>2, <1>3 DEF Understands, Divergent, Behind

LEMMA MigrateKeeps ==
  ASSUME DeploymentAssumption, DeploymentInv, NEW m \in Pipelines, MigrateStep(m) PROVE DeploymentInv'
<1> USE DEF DeploymentInv
<1>1. UNCHANGED << replica, balancer, turnedAway >>
  BY DEF MigrateStep, ApplyMigration, MigrationFails, BeginMigrate
<1>2. ledger' \in [ Numbered -> OrNoFile(Contents) ] /\ pipeline' \in [ Pipelines -> Run ]
  <2>1. CASE ApplyMigration(m)
    <3> DEFINE next == CHOOSE v \in pipeline[m].left : \A w \in pipeline[m].left : v <= w
    <3>1. \/ ledger' = [ ledger EXCEPT ![next] = Carries[pipeline[m].build][next] ]
             /\ pipeline' = [ pipeline EXCEPT ![m].left = @ \ {next} ]
          \/ ledger' = ledger /\ pipeline' = [ pipeline EXCEPT ![m].left = {} ]
      BY <2>1 DEF ApplyMigration
    <3> HIDE DEF next
    <3>2. pipeline[m] \in Run /\ pipeline[m].build \in Builds
      BY DEF DeploymentTypeOK, Run
    <3>3. next \in Numbered => Carries[pipeline[m].build][next] \in OrNoFile(Contents)
      BY <3>2 DEF DeploymentAssumption
    <3>4. [ ledger EXCEPT ![next] = Carries[pipeline[m].build][next] ] \in [ Numbered -> OrNoFile(Contents) ]
      BY <3>3 DEF DeploymentTypeOK
    <3>5. [ pipeline[m] EXCEPT !.left = @ \ {next} ] \in Run /\ [ pipeline[m] EXCEPT !.left = {} ] \in Run
      BY <3>2 DEF Run
    <3> QED BY <3>1, <3>4, <3>5 DEF DeploymentTypeOK
  <2>2. CASE MigrationFails(m)
    <3>1. [ pipeline[m] EXCEPT !.left = {} ] \in Run
      BY DEF DeploymentTypeOK, Run
    <3> QED BY <2>2, <3>1 DEF MigrationFails, DeploymentTypeOK
  <2>3. ASSUME NEW b \in Builds, BeginMigrate(m, b) PROVE pipeline' \in [ Pipelines -> Run ] /\ ledger' = ledger
    BY <2>3 DEF BeginMigrate, DeploymentTypeOK, Run
  <2> QED BY <2>1, <2>2, <2>3 DEF MigrateStep, DeploymentTypeOK
<1>3. \A b \in Builds : Understands(b) => Understands(b)'
  <2> TAKE b \in Builds
  <2>1. CASE ApplyMigration(m)
    BY <2>1, UnderstandsStill
  <2>2. CASE ~ApplyMigration(m)
    <3>1. ledger' = ledger
      BY <2>2 DEF MigrateStep, MigrationFails, BeginMigrate
    <3> QED BY <3>1 DEF Understands, Divergent, Behind
  <2> QED BY <2>1, <2>2
<1>4. \A i \in Replicas : replica[i].build \in Builds
  BY DEF DeploymentTypeOK, Replica
<1>5. \A i \in Replicas : Rotation(i)' /\ Judged(i)'
  BY <1>1, <1>3, <1>4 DEF Rotation, Judged
<1> QED BY <1>1, <1>2, <1>5 DEF DeploymentTypeOK, NoneTurnedAway

\* A step of one replica: the ledger and the others rest.
LEMMA ReplicaKeeps ==
  ASSUME DeploymentInv, NEW i \in Replicas, NEW row \in Replica, NEW target \in Target,
         replica' = [ replica EXCEPT ![i] = row ], balancer' = [ balancer EXCEPT ![i] = target ],
         UNCHANGED << ledger, pipeline >>, turnedAway' \subseteq {"unread"},
         row.phase = "up" => row.checks = 0,
         row.phase = "draining" => row.checks <= target.missed,
         target.missed = 2 => ~target.routed,
         row.phase \in {"closing", "off"} => ~target.routed,
         target.routed /\ target.verdict # "unread" => Understands(row.build)
  PROVE  DeploymentInv'
<1> USE DEF DeploymentInv
<1>1. /\ replica' \in [ Replicas -> Replica ] /\ replica'[i] = row
      /\ \A j \in Replicas \ {i} : replica'[j] = replica[j]
  BY DEF DeploymentTypeOK
<1>2. /\ balancer' \in [ Replicas -> Target ] /\ balancer'[i] = target
      /\ \A j \in Replicas \ {i} : balancer'[j] = balancer[j]
  BY DEF DeploymentTypeOK
<1>3. \A b \in Builds : Understands(b)' <=> Understands(b)
  BY DEF Understands, Divergent, Behind
<1>4. ASSUME NEW j \in Replicas PROVE Rotation(j)' /\ Judged(j)'
  <2>1. CASE j = i
    BY <1>1, <1>2, <1>3, <2>1 DEF Rotation, Judged, Replica
  <2>2. CASE j # i
    <3>1. replica'[j] = replica[j] /\ balancer'[j] = balancer[j] /\ replica[j].build \in Builds
      BY <1>1, <1>2, <2>2 DEF DeploymentTypeOK, Replica
    <3> QED BY <1>3, <3>1 DEF Rotation, Judged
  <2> QED BY <2>1, <2>2
<1>5. DeploymentTypeOK'
  <2>1. turnedAway' \in SUBSET SchemaVerdicts
    BY DEF SchemaVerdicts
  <2> QED BY <1>1, <1>2, <2>1 DEF DeploymentTypeOK
<1> QED BY <1>4, <1>5 DEF NoneTurnedAway

LEMMA BootKeeps ==
  ASSUME DeploymentAssumption, DeploymentInv, NEW i \in Replicas, NEW b \in Builds, Boot(i, b) PROVE DeploymentInv'
<1> DEFINE row == [ build |-> b, phase |-> "up", inHand |-> 0, checks |-> 0 ]
<1>1. row \in Replica /\ row.phase = "up" /\ row.checks = 0
  BY DEF Replica
<1>2. NewTarget \in Target /\ ~NewTarget.routed /\ NewTarget.missed = 0
  BY DEF NewTarget, Target, SchemaVerdicts
<1>3. replica' = [ replica EXCEPT ![i] = row ] /\ balancer' = [ balancer EXCEPT ![i] = NewTarget ]
      /\ UNCHANGED << ledger, pipeline, turnedAway >>
  BY DEF Boot
<1> HIDE DEF row
<1>4. turnedAway' \subseteq {"unread"}
  BY <1>3 DEF DeploymentInv, NoneTurnedAway
<1> QED BY <1>1, <1>2, <1>3, <1>4, ReplicaKeeps

\* The balancer asks: what it finds up, it found in order or could not tell.
LEMMA CheckKeeps ==
  ASSUME DeploymentAssumption, DeploymentInv, NEW i \in Replicas,
         NEW database \in {"reads", "unread", "unreachable"}, Check(i, database)
  PROVE  DeploymentInv'
<1> DEFINE up == probe(i, database) = "up"
           missed == IF up THEN 0 ELSE IF balancer[i].missed = 2 THEN 2 ELSE balancer[i].missed + 1
           target == [ routed |-> up \/ (balancer[i].routed /\ missed < 2), missed |-> missed,
                       verdict |-> IF up /\ database = "reads" THEN compareSchema(replica[i].build)
                                   ELSE IF up THEN "unread" ELSE balancer[i].verdict ]
           row == IF replica[i].phase = "draining" /\ replica[i].checks < 2
                  THEN [ replica[i] EXCEPT !.checks = @ + 1 ] ELSE replica[i]
<1>1. replica[i] \in Replica /\ balancer[i] \in Target
  BY DEF DeploymentInv, DeploymentTypeOK
<1>2. Rotation(i) /\ Judged(i)
  BY DEF DeploymentInv
<1>3. /\ balancer' = [ balancer EXCEPT ![i] = target ] /\ replica' = [ replica EXCEPT ![i] = row ]
      /\ UNCHANGED << ledger, pipeline, turnedAway >>
  BY DEF Check, DeploymentInv, DeploymentTypeOK
<1>4. compareSchema(replica[i].build) \in SchemaVerdicts
  BY DEF compareSchema, SchemaVerdicts
<1>5. up => replica[i].phase = "up" /\ (database = "unread" \/ servesTraffic(compareSchema(replica[i].build)))
  BY DEF probe
<1>6. servesTraffic(compareSchema(replica[i].build)) => Understands(replica[i].build)
  BY DEF servesTraffic, compareSchema, Understands
<1>7. up \in BOOLEAN
  OBVIOUS
<1> HIDE DEF up
<1>8. missed \in 0..2 /\ (up => missed = 0) /\ (~up => missed >= balancer[i].missed /\ missed > 0)
      /\ (~up /\ balancer[i].missed = 1 => missed = 2) /\ (~up /\ balancer[i].missed = 0 => missed = 1)
  BY <1>1, <1>7 DEF Target
<1>9. /\ target.routed = (up \/ (balancer[i].routed /\ missed < 2)) /\ target.missed = missed
      /\ target.verdict = IF up /\ database = "reads" THEN compareSchema(replica[i].build)
                          ELSE IF up THEN "unread" ELSE balancer[i].verdict
  OBVIOUS
<1> HIDE DEF missed
<1>10. target \in Target
  <2>1. target.verdict \in SchemaVerdicts
    BY <1>1, <1>4, <1>9 DEF Target, SchemaVerdicts
  <2>2. balancer[i].routed \in BOOLEAN
    BY <1>1 DEF Target
  <2>3. (up \/ (balancer[i].routed /\ missed < 2)) \in BOOLEAN
    BY <1>7, <2>2
  <2> QED BY <1>8, <2>1, <2>3 DEF Target
<1>11. /\ row \in Replica /\ row.phase = replica[i].phase /\ row.build = replica[i].build
       /\ row.phase = "draining" => \/ row.checks = replica[i].checks + 1 /\ replica[i].checks < 2
                                   \/ row.checks = replica[i].checks
       /\ row.phase # "draining" => row.checks = replica[i].checks
  BY <1>1 DEF Replica
<1> HIDE DEF target, row
<1>12. row.phase = "draining" => row.checks <= target.missed
  <2> SUFFICES ASSUME row.phase = "draining" PROVE row.checks <= missed
    BY <1>9
  <2>1. /\ ~up /\ replica[i].checks <= balancer[i].missed /\ balancer[i].missed \in 0..2
        /\ replica[i].checks \in Nat /\ missed \in 0..2
    BY <1>1, <1>2, <1>5, <1>8, <1>11 DEF Rotation, Replica, Target
  <2>2. row.checks = replica[i].checks \/ (row.checks = replica[i].checks + 1 /\ replica[i].checks < 2)
    BY <1>11
  <2>3. CASE row.checks = replica[i].checks
    BY <1>8, <2>1, <2>3
  <2>4. CASE row.checks = replica[i].checks + 1 /\ replica[i].checks < 2
    <3>1. balancer[i].missed = 0 => missed = 1
      BY <1>8, <2>1
    <3>2. balancer[i].missed = 1 => missed = 2
      BY <1>8, <2>1
    <3>3. balancer[i].missed = 2 => missed = 2
      BY <1>8, <2>1
    <3> QED BY <2>1, <2>4, <3>1, <3>2, <3>3
  <2> QED BY <2>2, <2>3, <2>4
<1>13. row.phase = "up" => row.checks = 0
  BY <1>2, <1>11 DEF Rotation
<1>14. target.missed = 2 => ~target.routed
  <2> SUFFICES ASSUME target.missed = 2 PROVE ~target.routed
    OBVIOUS
  <2>1. missed = 2 /\ ~(missed < 2)
    BY <1>9
  <2>2. ~up
    BY <1>8, <2>1
  <2> QED BY <1>9, <2>1, <2>2, Zenon
<1>15. row.phase \in {"closing", "off"} => ~target.routed
  BY <1>2, <1>5, <1>9, <1>11 DEF Rotation
<1>16. target.routed /\ target.verdict # "unread" => Understands(row.build)
  <2>1. CASE up
    BY <1>5, <1>6, <1>9, <1>11, <2>1
  <2>2. CASE ~up
    BY <1>2, <1>9, <1>11, <2>2 DEF Judged
  <2> QED BY <2>1, <2>2
<1>17. turnedAway' \subseteq {"unread"}
  BY <1>3 DEF DeploymentInv, NoneTurnedAway
<1> QED BY <1>3, <1>10, <1>11, <1>12, <1>13, <1>14, <1>15, <1>16, <1>17, ReplicaKeeps

\* A request, a signal and the end: the balancer is not asked.
LEMMA ReplicaMoves ==
  ASSUME DeploymentInv, NEW i \in Replicas, NEW row \in Replica,
         replica' = [ replica EXCEPT ![i] = row ], row.build = replica[i].build,
         UNCHANGED << ledger, pipeline, balancer >>, turnedAway' \subseteq {"unread"},
         row.phase = "up" => row.checks = 0,
         row.phase = "draining" => row.checks <= balancer[i].missed,
         row.phase \in {"closing", "off"} => ~balancer[i].routed
  PROVE  DeploymentInv'
<1>1. balancer[i] \in Target /\ balancer' = [ balancer EXCEPT ![i] = balancer[i] ]
  BY DEF DeploymentInv, DeploymentTypeOK
<1>2. /\ balancer[i].missed = 2 => ~balancer[i].routed
      /\ balancer[i].routed /\ balancer[i].verdict # "unread" => Understands(row.build)
  BY DEF DeploymentInv, Rotation, Judged
<1> QED BY <1>1, <1>2, ReplicaKeeps

LEMMA ServeKeeps ==
  ASSUME DeploymentAssumption, DeploymentInv, NEW i \in Replicas,
         Arrive(i) \/ Respond(i) \/ Signal(i) \/ DrainEnds(i) \/ Exit(i)
  PROVE  DeploymentInv'
<1>1. replica[i] \in Replica /\ balancer[i] \in Target /\ Rotation(i) /\ Judged(i)
  BY DEF DeploymentInv, DeploymentTypeOK
<1>2. turnedAway \subseteq {"unread"}
  BY DEF DeploymentInv, NoneTurnedAway
<1>3. replica = [ replica EXCEPT ![i] = replica[i] ]
  BY DEF DeploymentInv, DeploymentTypeOK
<1>4. /\ replica[i].phase = "up" => replica[i].checks = 0
      /\ replica[i].phase = "draining" => replica[i].checks <= balancer[i].missed
      /\ replica[i].phase \in {"closing", "off"} => ~balancer[i].routed
      /\ balancer[i].missed = 2 => ~balancer[i].routed
      /\ replica[i].inHand \in Nat /\ replica[i].checks \in Nat /\ balancer[i].missed \in 0..2
      /\ replica[i].phase \in {"off", "up", "draining", "closing"}
  BY <1>1 DEF Rotation, Replica, Target
<1>5. \A n \in Nat : LET row == [ replica[i] EXCEPT !.inHand = n ] IN
        /\ row \in Replica /\ row.build = replica[i].build /\ row.phase = replica[i].phase
        /\ row.checks = replica[i].checks
  BY <1>1 DEF Replica
<1>6. ASSUME NEW n \in Nat, replica' = [ replica EXCEPT ![i].inHand = n ],
             UNCHANGED << ledger, pipeline, balancer >>, turnedAway' \subseteq {"unread"}
      PROVE  DeploymentInv'
  <2> DEFINE row == [ replica[i] EXCEPT !.inHand = n ]
  <2>1. replica' = [ replica EXCEPT ![i] = row ]
    BY <1>6
  <2>2. /\ row \in Replica /\ row.build = replica[i].build /\ row.phase = replica[i].phase
        /\ row.checks = replica[i].checks
    BY <1>5
  <2> HIDE DEF row
  <2> QED BY <1>4, <1>6, <2>1, <2>2, ReplicaMoves
<1>7. CASE Arrive(i)
  <2>1. replica[i].phase \in {"up", "draining"}
    BY <1>4, <1>7 DEF Arrive
  <2>2. CASE ~Divergent(replica[i].build) /\ ~Behind(replica[i].build)
    <3>1. /\ turnedAway' = turnedAway /\ UNCHANGED << ledger, pipeline, balancer >>
          /\ replica' = [ replica EXCEPT ![i].inHand = replica[i].inHand + 1 ]
      BY <1>7, <2>1, <2>2 DEF Arrive
    <3>2. replica[i].inHand + 1 \in Nat
      BY <1>4
    <3> QED BY <1>2, <1>6, <3>1, <3>2
  <2>3. CASE Divergent(replica[i].build) \/ Behind(replica[i].build)
    <3>1. balancer[i].verdict = "unread"
      BY <1>1, <1>7, <2>3 DEF Arrive, Judged, Understands
    <3>2. /\ turnedAway' = turnedAway \cup {balancer[i].verdict} /\ replica' = replica
          /\ UNCHANGED << ledger, pipeline, balancer >>
      BY <1>7, <2>3 DEF Arrive
    <3>3. turnedAway' \subseteq {"unread"}
      BY <1>2, <3>1, <3>2
    <3> QED BY <1>1, <1>3, <1>4, <3>2, <3>3, ReplicaMoves
  <2> QED BY <2>2, <2>3
<1>8. CASE Respond(i)
  <2>1. /\ replica' = [ replica EXCEPT ![i].inHand = replica[i].inHand - 1 ]
        /\ UNCHANGED << ledger, pipeline, balancer, turnedAway >> /\ replica[i].inHand - 1 \in Nat
    BY <1>4, <1>8 DEF Respond
  <2> QED BY <1>2, <1>6, <2>1
<1>9. CASE Signal(i)
  <2> DEFINE row == [ replica[i] EXCEPT !.phase = "draining" ]
  <2>1. row \in Replica /\ row.build = replica[i].build /\ row.phase = "draining" /\ row.checks = replica[i].checks
    BY <1>1 DEF Replica
  <2>2. replica' = [ replica EXCEPT ![i] = row ] /\ UNCHANGED << ledger, pipeline, balancer, turnedAway >>
    BY <1>9 DEF Signal
  <2>3. replica[i].checks <= balancer[i].missed
    BY <1>4, <1>9 DEF Signal
  <2> HIDE DEF row
  <2> QED BY <1>2, <2>1, <2>2, <2>3, ReplicaMoves
<1>10. CASE DrainEnds(i)
  <2> DEFINE row == [ replica[i] EXCEPT !.phase = "closing" ]
  <2>1. row \in Replica /\ row.build = replica[i].build /\ row.phase = "closing"
    BY <1>1 DEF Replica
  <2>2. replica' = [ replica EXCEPT ![i] = row ] /\ UNCHANGED << ledger, pipeline, balancer, turnedAway >>
    BY <1>10 DEF DrainEnds
  <2>3. balancer[i].missed = 2
    BY <1>4, <1>10 DEF DrainEnds
  <2> HIDE DEF row
  <2> QED BY <1>2, <1>4, <2>1, <2>2, <2>3, ReplicaMoves
<1>11. CASE Exit(i)
  <2> DEFINE row == [ replica[i] EXCEPT !.phase = "off", !.inHand = 0 ]
  <2>1. row \in Replica /\ row.build = replica[i].build /\ row.phase = "off"
    BY <1>1 DEF Replica
  <2>2. replica' = [ replica EXCEPT ![i] = row ] /\ UNCHANGED << ledger, pipeline, balancer, turnedAway >>
    BY <1>11 DEF Exit
  <2>3. ~balancer[i].routed
    BY <1>4, <1>11 DEF Exit
  <2> HIDE DEF row
  <2> QED BY <1>2, <2>1, <2>2, <2>3, ReplicaMoves
<1> QED BY <1>7, <1>8, <1>9, <1>10, <1>11

LEMMA DeploymentStep ==
  ASSUME DeploymentAssumption, DeploymentInv, [DeploymentNext]_deploymentVars PROVE DeploymentInv'
<1>1. CASE UNCHANGED deploymentVars
  <2>1. UNCHANGED << ledger, pipeline, replica, balancer, turnedAway >>
    BY <1>1 DEF deploymentVars
  <2> QED BY <2>1 DEF DeploymentInv, DeploymentTypeOK, NoneTurnedAway, Rotation, Judged, Understands, Divergent, Behind
<1>2. CASE DeploymentNext
  BY <1>2, MigrateKeeps, BootKeeps, CheckKeeps, ServeKeeps DEF DeploymentNext
<1> QED BY <1>1, <1>2

\* No request goes to a replica that closed, or whose build does not know the
\* schema, unless its ledger could not be read: however migrations, roll-outs,
\* roll-backs and shutdowns interleave, for any builds and migrations.
THEOREM NobodyTurnedAway == DeploymentSpec => []NoneTurnedAway
<1>1. DeploymentInit => DeploymentInv
  <2> SUFFICES ASSUME DeploymentInit PROVE DeploymentInv
    OBVIOUS
  <2>1. SomeBuild \in Builds
    BY DeploymentAssumption DEF SomeBuild
  <2>2. NewTarget \in Target /\ ~NewTarget.routed /\ NewTarget.missed = 0
    BY DEF NewTarget, Target, SchemaVerdicts
  <2>3. DeploymentTypeOK
    BY <2>1, <2>2 DEF DeploymentInit, DeploymentTypeOK, OrNoFile, Run, Replica
  <2>4. ASSUME NEW i \in Replicas PROVE Rotation(i) /\ Judged(i)
    BY <2>2 DEF DeploymentInit, Rotation, Judged
  <2> QED BY <2>3, <2>4 DEF DeploymentInit, DeploymentInv, NoneTurnedAway
<1>2. DeploymentInv /\ [DeploymentNext]_deploymentVars => DeploymentInv'
  BY DeploymentAssumption, DeploymentStep
<1>3. DeploymentInv => NoneTurnedAway
  BY DEF DeploymentInv
<1> QED BY <1>1, <1>2, <1>3, PTL DEF DeploymentSpec

-----------------------------------------------------------------------------
(*****************************************************************************)
(* Filing: the numbers an application takes.                                 *)
(*                                                                           *)
(* The series has no gap because the counter's row is locked from taking a   *)
(* number to the commit: whoever holds a number holds it alone, and it is    *)
(* the next.  A key has one application because the commit asks for it       *)
(* again under the primary key.                                              *)
(*****************************************************************************)

Filer == {"self", "counter"}

\* A request that took its number.
Took(c) == Busy(c, {"self", "counter", "draft"}) /\ clerk[c].number # 0
Finishes(c) == Busy(c, {"draft"})

\* The series: numbered is what is filed for good, once each, and without a gap.
Numbering ==
  /\ \A a \in Filed : /\ applications[a].status = "Submitted" <=> applications[a].number > 0
                      /\ applications[a].number <= counter
  /\ \A a, b \in Filed : applications[a].number = applications[b].number /\ applications[a].number > 0 => a = b
  /\ \A n \in 1..counter : \E a \in Filed : applications[a].number = n

\* Whoever took a number holds the counter's row, and it is the next; a draft
\* that is being filed, or filed as a draft, has none.
Holding ==
  /\ \A c \in Clerks : Took(c) => clerk[c].number = counter + 1 /\ \A d \in Clerks : Took(d) => c = d
  /\ \A c \in Clerks : Busy(c, Filer) /\ clerk[c].draft => clerk[c].number = 0
  /\ \A c \in Clerks : Finishes(c) =>
       /\ clerk[c].filing \in Filed /\ applications[clerk[c].filing].status = "Draft"
       /\ \A d \in Clerks : Finishes(d) /\ clerk[d].filing = clerk[c].filing => c = d

\* A key answers for the one application made under it.
Answers(a) ==
  /\ [ by |-> applications[a].by, key |-> applications[a].key, filing |-> a ] \in keys
  /\ \A k \in keys : k.by = applications[a].by /\ k.key = applications[a].key => k.filing = a
Keyed == \A a \in Filed : applications[a].key # Nobody => Answers(a)

FilingDeskInv == FilingDeskTypeOK /\ Numbering /\ Holding /\ Keyed

-----------------------------------------------------------------------------
LEMMA RequestKinds ==
  ASSUME FilingDeskTypeOK, NEW c \in Clerks
  PROVE  /\ Busy(c, Filer) => clerk[c] \in Request
         /\ Busy(c, {"draft"}) => clerk[c] \in Finishing
         /\ Busy(c, {"register"}) => clerk[c] \in Joining
         /\ ~Unoccupied(c) => Busy(c, Filer) \/ Busy(c, {"draft"}) \/ Busy(c, {"register"})
BY DEF FilingDeskTypeOK, Busy, Filer, Request, Finishing, Joining, Unoccupied

LEMMA RequestRowsTyped ==
  ASSUME FilingDeskTypeOK, NEW a \in Filed PROVE a \in Filings /\ applications[a] \in Application
BY DEF FilingDeskTypeOK, Filed

\* Nothing is filed, and what a request holds is what it held, or nothing.
LEMMA FilingRests ==
  ASSUME FilingDeskInv, UNCHANGED << applications, counter, keys >>,
         \A c \in Clerks : \/ clerk'[c] = clerk[c]
                           \/ clerk'[c] = Nobody
                           \/ clerk'[c].kind = "register"
                           \/ clerk'[c].kind \in Filer /\ clerk'[c].number = 0
  PROVE  Numbering' /\ Holding' /\ Keyed'
<1>1. Filed' = Filed
  BY DEF Filed
<1>2. Numbering' /\ Keyed'
  BY <1>1 DEF FilingDeskInv, Numbering, Keyed, Answers
<1>3. \A c \in Clerks : /\ Took(c)' => Took(c) /\ clerk'[c] = clerk[c]
                        /\ Finishes(c)' => Finishes(c) /\ clerk'[c] = clerk[c]
                        /\ Busy(c, Filer)' => clerk'[c] = clerk[c] \/ clerk'[c].number = 0
  BY DEF Took, Finishes, Busy, Filer
<1>4. \A c \in Clerks : Took(c)' => clerk'[c].number = counter' + 1 /\ \A d \in Clerks : Took(d)' => c = d
  BY <1>3 DEF FilingDeskInv, Holding
<1>5. \A c \in Clerks : (Busy(c, Filer) /\ clerk[c].draft => clerk[c].number = 0)'
  <2> TAKE c \in Clerks
  <2> SUFFICES ASSUME Busy(c, Filer)', clerk'[c].draft PROVE clerk'[c].number = 0
    OBVIOUS
  <2>1. CASE clerk'[c] = clerk[c]
    BY <2>1 DEF FilingDeskInv, Holding, Busy
  <2> QED BY <1>3, <2>1
<1>6. \A c \in Clerks : Finishes(c)' =>
        /\ clerk'[c].filing \in Filed' /\ applications'[clerk'[c].filing].status = "Draft"
        /\ \A d \in Clerks : Finishes(d)' /\ clerk'[d].filing = clerk'[c].filing => c = d
  BY <1>1, <1>3 DEF FilingDeskInv, Holding
<1> QED BY <1>2, <1>4, <1>5, <1>6 DEF Holding

\* The counter's row is locked: the next number has one holder.
LEMMA TakeNumberHolds ==
  ASSUME FilingDeskInv, NEW c \in Clerks, TakeNumber(c) PROVE Numbering' /\ Holding' /\ Keyed'
<1> DEFINE row == [ clerk[c] EXCEPT !.number = counter + 1 ]
<1>1. /\ Busy(c, {"self", "counter", "draft"}) /\ clerk[c].number = 0 /\ CounterIsFree
      /\ clerk' = [ clerk EXCEPT ![c] = row ] /\ UNCHANGED << applications, counter, keys >>
      /\ clerk[c].kind # "draft" => ~clerk[c].draft
  BY DEF TakeNumber
<1>2. Filed' = Filed /\ counter \in Nat
  BY <1>1 DEF Filed, FilingDeskInv, FilingDeskTypeOK
<1>3. Numbering' /\ Keyed'
  BY <1>1, <1>2 DEF FilingDeskInv, Numbering, Keyed, Answers
<1>4. clerk'[c] = row /\ \A d \in Clerks : d # c => clerk'[d] = clerk[d]
  BY <1>1 DEF FilingDeskInv, FilingDeskTypeOK
<1>5. clerk[c] \in Request \cup Finishing
  BY <1>1, RequestKinds DEF FilingDeskInv, Busy, Filer
<1>6. row.number = counter + 1 /\ row.kind = clerk[c].kind
      /\ (clerk[c].kind # "draft" => row.draft = clerk[c].draft)
      /\ (clerk[c].kind = "draft" => row.filing = clerk[c].filing)
  BY <1>5 DEF Request, Finishing
<1> HIDE DEF row
<1>7. \A d \in Clerks : ~Took(d)
  BY <1>1 DEF CounterIsFree, Took
<1>8. \A d \in Clerks : Took(d)' => d = c
  BY <1>4, <1>7 DEF Took, Busy
<1>9. \A d \in Clerks : (Busy(d, Filer) /\ clerk[d].draft => clerk[d].number = 0)'
  <2> TAKE d \in Clerks
  <2>1. CASE d = c
    BY <1>1, <1>4, <1>6, <2>1 DEF Busy, Filer
  <2>2. CASE d # c
    BY <1>4, <2>2 DEF Busy, FilingDeskInv, Holding
  <2> QED BY <2>1, <2>2
<1>10. \A d \in Clerks : Finishes(d)' => Finishes(d) /\ clerk'[d].filing = clerk[d].filing
  BY <1>1, <1>4, <1>6 DEF Finishes, Busy
<1>11. \A d \in Clerks : Finishes(d)' =>
        /\ clerk'[d].filing \in Filed' /\ applications'[clerk'[d].filing].status = "Draft"
        /\ \A e \in Clerks : Finishes(e)' /\ clerk'[e].filing = clerk'[d].filing => d = e
  BY <1>1, <1>2, <1>10 DEF FilingDeskInv, Holding
<1>12. \A d \in Clerks : Took(d)' => clerk'[d].number = counter' + 1 /\ \A e \in Clerks : Took(e)' => d = e
  BY <1>1, <1>4, <1>6, <1>8
<1> QED BY <1>3, <1>9, <1>11, <1>12 DEF Holding

\* Requests that go on as they were, while one ends.
LEMMA OthersHold ==
  ASSUME FilingDeskInv, NEW c \in Clerks, Ends(c)
  PROVE  /\ \A d \in Clerks : d # c => clerk'[d] = clerk[d]
         /\ \A d \in Clerks : Took(d)' => d # c /\ Took(d) /\ clerk'[d] = clerk[d]
         /\ \A d \in Clerks : Finishes(d)' => d # c /\ Finishes(d) /\ clerk'[d] = clerk[d]
         /\ \A d \in Clerks : Busy(d, Filer)' => d # c /\ Busy(d, Filer) /\ clerk'[d] = clerk[d]
<1>1. clerk'[c] = Nobody /\ \A d \in Clerks : d # c => clerk'[d] = clerk[d]
  BY DEF Ends, FilingDeskInv, FilingDeskTypeOK
<1> QED BY <1>1 DEF Took, Finishes, Busy

\* The insert of an application: the next number, or none and a draft.
LEMMA FileNumbers ==
  ASSUME NoNullRow, FilingDeskInv, NEW c \in Clerks, NEW a \in Filings, NEW unknown \in BOOLEAN,
         File(c, a, unknown)
  PROVE  Numbering' /\ Holding' /\ Keyed'
<1> DEFINE r == clerk[c]
           row == [ applicant |-> r.applicant, name |-> r.name, by |-> r.by,
                    key |-> IF unknown THEN Nobody ELSE r.key,
                    status |-> IF r.draft THEN "Draft" ELSE "Submitted", number |-> r.number,
                    form |-> r.form ]
<1>1. /\ Busy(c, Filer) /\ a \notin Filed /\ Ends(c)
      /\ ~r.draft => r.number # 0
      /\ unknown \/ KeyIsFree(r)
      /\ applications' = [ applications EXCEPT ![a] = row ]
      /\ counter' = (IF r.draft THEN counter ELSE r.number)
      /\ keys' = (IF unknown THEN keys ELSE keys \cup {[ by |-> r.by, key |-> r.key, filing |-> a ]})
  BY DEF File, Filer
<1>2. r \in Request
  BY <1>1, RequestKinds DEF FilingDeskInv
<1>3. row \in Application /\ row # Nobody
  BY <1>2 DEF Request, Application, OrNobody, NoNullRow
<1>4. /\ row.number = r.number /\ row.status = (IF r.draft THEN "Draft" ELSE "Submitted")
      /\ row.by = r.by /\ row.key = (IF unknown THEN Nobody ELSE r.key)
  OBVIOUS
<1> HIDE DEF row
<1>5. applications'[a] = row /\ \A b \in Filings : b # a => applications'[b] = applications[b]
  BY <1>1 DEF FilingDeskInv, FilingDeskTypeOK
<1>6. Filed' = Filed \cup {a} /\ \A b \in Filed : b # a /\ b \in Filings
  BY <1>1, <1>3, <1>5 DEF Filed
<1>7. counter \in Nat /\ r.number \in Nat /\ r.draft \in BOOLEAN
  BY <1>2 DEF FilingDeskInv, FilingDeskTypeOK, Request
<1>8. r.draft => r.number = 0
  BY <1>1 DEF FilingDeskInv, Holding
<1>9. ~r.draft => Took(c) /\ r.number = counter + 1
  <2> SUFFICES ASSUME ~r.draft PROVE Took(c) /\ r.number = counter + 1
    OBVIOUS
  <2>1. Took(c)
    BY <1>1 DEF Took, Busy, Filer
  <2> QED BY <2>1 DEF FilingDeskInv, Holding
<1>10. \A b \in Filed : applications[b].number \in Nat /\ applications[b].number <= counter
  BY RequestRowsTyped DEF FilingDeskInv, Numbering, Application
<1>11. Numbering'
  <2>1. CASE r.draft
    <3>1. counter' = counter /\ row.number = 0 /\ row.status = "Draft"
      BY <1>1, <1>4, <1>8, <2>1
    <3>2. \A b \in Filed' : /\ applications'[b].status = "Submitted" <=> applications'[b].number > 0
                            /\ applications'[b].number <= counter'
      BY <1>5, <1>6, <1>7, <3>1 DEF FilingDeskInv, Numbering
    <3>3. \A b, d \in Filed' : applications'[b].number = applications'[d].number /\ applications'[b].number > 0 => b = d
      BY <1>5, <1>6, <3>1 DEF FilingDeskInv, Numbering
    <3>4. \A n \in 1..counter' : \E b \in Filed' : applications'[b].number = n
      BY <1>5, <1>6, <3>1 DEF FilingDeskInv, Numbering
    <3> QED BY <3>2, <3>3, <3>4 DEF Numbering
  <2>2. CASE ~r.draft
    <3>1. counter' = counter + 1 /\ row.number = counter + 1 /\ row.status = "Submitted"
      BY <1>1, <1>4, <1>9, <2>2
    <3>2. \A b \in Filed' : /\ applications'[b].status = "Submitted" <=> applications'[b].number > 0
                            /\ applications'[b].number <= counter'
      <4> TAKE b \in Filed'
      <4>1. CASE b = a
        BY <1>5, <1>7, <3>1, <4>1
      <4>2. CASE b # a
        <5>1. b \in Filed /\ applications'[b] = applications[b]
          BY <1>5, <1>6, <4>2
        <5>2. applications[b].number <= counter'
          BY <1>7, <1>10, <3>1, <5>1
        <5> QED BY <5>1, <5>2 DEF FilingDeskInv, Numbering
      <4> QED BY <4>1, <4>2
    <3>3. ASSUME NEW b \in Filed', NEW d \in Filed', applications'[b].number = applications'[d].number,
                 applications'[b].number > 0
          PROVE  b = d
      <4>1. CASE b # a /\ d # a
        BY <1>5, <1>6, <3>3, <4>1 DEF FilingDeskInv, Numbering
      <4>2. CASE b = a /\ d # a
        <5>1. applications'[b].number = counter + 1 /\ applications'[d].number <= counter
          BY <1>5, <1>6, <1>10, <3>1, <4>2
        <5> QED BY <1>7, <3>3, <5>1
      <4>3. CASE b # a /\ d = a
        <5>1. applications'[d].number = counter + 1 /\ applications'[b].number <= counter
          BY <1>5, <1>6, <1>10, <3>1, <4>3
        <5> QED BY <1>7, <3>3, <5>1
      <4> QED BY <4>1, <4>2, <4>3
    <3>4. ASSUME NEW n \in 1..counter' PROVE \E b \in Filed' : applications'[b].number = n
      <4>1. CASE n = counter + 1
        BY <1>5, <1>6, <3>1, <4>1
      <4>2. CASE n # counter + 1
        <5>1. n \in 1..counter
          BY <1>7, <3>1, <4>2
        <5>2. PICK b \in Filed : applications[b].number = n
          BY <5>1 DEF FilingDeskInv, Numbering
        <5> QED BY <1>5, <1>6, <5>2
      <4> QED BY <4>1, <4>2
    <3> QED BY <3>2, <3>3, <3>4 DEF Numbering
  <2> QED BY <1>7, <2>1, <2>2
<1>12. Keyed'
  <2> SUFFICES ASSUME NEW b \in Filed', applications'[b].key # Nobody PROVE Answers(b)'
    BY DEF Keyed
  <2>1. CASE b = a
    <3>1. ~unknown /\ row.key = r.key
      BY <1>4, <1>5, <2>1
    <3>2. keys' = keys \cup {[ by |-> r.by, key |-> r.key, filing |-> a ]}
      BY <1>1, <3>1
    <3>3. \A k \in keys : ~(k.by = r.by /\ k.key = r.key)
      BY <1>1, <3>1 DEF KeyIsFree, Known
    <3> QED BY <1>4, <1>5, <2>1, <3>1, <3>2, <3>3 DEF Answers
  <2>2. CASE b # a
    <3>1. b \in Filed /\ applications'[b] = applications[b]
      BY <1>5, <1>6, <2>2
    <3>2. Answers(b)
      BY <2>2, <3>1 DEF FilingDeskInv, Keyed
    <3>3. \A k \in keys' : k \in keys \/ (k = [ by |-> r.by, key |-> r.key, filing |-> a ] /\ KeyIsFree(r))
      BY <1>1
    <3>4. KeyIsFree(r) => ~(r.by = applications[b].by /\ r.key = applications[b].key)
      BY <3>2 DEF Answers, KeyIsFree, Known
    <3>5. \A k \in keys' : k.by = applications[b].by /\ k.key = applications[b].key => k.filing = b
      BY <3>2, <3>3, <3>4 DEF Answers
    <3>6. keys \subseteq keys'
      BY <1>1
    <3> QED BY <3>1, <3>2, <3>5, <3>6 DEF Answers
  <2> QED BY <2>1, <2>2
<1>13. \A d \in Clerks : Took(d)' => clerk'[d].number = counter' + 1 /\ \A e \in Clerks : Took(e)' => d = e
  <2> TAKE d \in Clerks
  <2> SUFFICES ASSUME Took(d)' PROVE clerk'[d].number = counter' + 1 /\ \A e \in Clerks : Took(e)' => d = e
    OBVIOUS
  <2>1. d # c /\ Took(d) /\ clerk'[d] = clerk[d]
    BY <1>1, OthersHold
  <2>2. ~Took(c)
    BY <2>1 DEF FilingDeskInv, Holding
  <2>3. r.draft
    BY <1>9, <2>2
  <2>4. \A e \in Clerks : Took(e)' => Took(e)
    BY <1>1, OthersHold
  <2> QED BY <1>1, <2>1, <2>3, <2>4 DEF FilingDeskInv, Holding
<1>14. \A d \in Clerks : (Busy(d, Filer) /\ clerk[d].draft => clerk[d].number = 0)'
  BY <1>1, OthersHold DEF FilingDeskInv, Holding
<1>15. \A d \in Clerks : Finishes(d)' =>
        /\ clerk'[d].filing \in Filed' /\ applications'[clerk'[d].filing].status = "Draft"
        /\ \A e \in Clerks : Finishes(e)' /\ clerk'[e].filing = clerk'[d].filing => d = e
  <2>1. \A d \in Clerks : Finishes(d)' => Finishes(d) /\ clerk'[d] = clerk[d]
    BY <1>1, OthersHold
  <2> QED BY <1>5, <1>6, <2>1 DEF FilingDeskInv, Holding
<1> QED BY <1>11, <1>12, <1>13, <1>14, <1>15 DEF Holding

\* A draft is filed: it takes the next number, and its row is let go.
LEMMA FileDraftNumbers ==
  ASSUME NoNullRow, FilingDeskInv, NEW c \in Clerks, FileDraft(c) PROVE Numbering' /\ Holding' /\ Keyed'
<1> DEFINE a == clerk[c].filing
           row == [ applications[a] EXCEPT !.status = "Submitted", !.number = clerk[c].number ]
<1>1. /\ Busy(c, {"draft"}) /\ clerk[c].number # 0 /\ Ends(c) /\ counter' = clerk[c].number
      /\ applications' = [ applications EXCEPT ![a] = row ] /\ UNCHANGED keys
  BY DEF FileDraft
<1>2. Took(c) /\ Finishes(c)
  BY <1>1 DEF Took, Finishes, Busy
<1>3. a \in Filed /\ applications[a].status = "Draft" /\ clerk[c].number = counter + 1
  BY <1>2 DEF FilingDeskInv, Holding
<1>4. a \in Filings /\ applications[a] \in Application /\ counter \in Nat
  BY <1>3, RequestRowsTyped DEF FilingDeskInv, FilingDeskTypeOK
<1>5. /\ row.status = "Submitted" /\ row.number = counter + 1 /\ row \in Application
      /\ row.key = applications[a].key /\ row.by = applications[a].by
  <2>1. \A x \in Application, n \in Nat :
          LET y == [ x EXCEPT !.status = "Submitted", !.number = n ] IN
          /\ y \in Application /\ y.status = "Submitted" /\ y.number = n /\ y.key = x.key /\ y.by = x.by
    BY DEF Application
  <2>2. clerk[c].number \in Nat
    BY <1>3, <1>4
  <2> HIDE DEF a
  <2> QED BY <1>3, <1>4, <2>1, <2>2
<1> HIDE DEF a, row
<1>6. row # Nobody
  BY <1>5 DEF NoNullRow
<1>7. applications'[a] = row /\ \A b \in Filings : b # a => applications'[b] = applications[b]
  BY <1>1, <1>4 DEF FilingDeskInv, FilingDeskTypeOK
<1>8. Filed' = Filed /\ counter' = counter + 1 /\ \A b \in Filed : b \in Filings
  BY <1>1, <1>3, <1>6, <1>7 DEF Filed
<1>9. \A b \in Filed : applications[b].number \in Nat /\ applications[b].number <= counter
  BY RequestRowsTyped DEF FilingDeskInv, Numbering, Application
<1>10. \A b \in Filed' : /\ applications'[b].status = "Submitted" <=> applications'[b].number > 0
                         /\ applications'[b].number <= counter'
  <2> TAKE b \in Filed'
  <2>1. CASE b = a
    BY <1>4, <1>5, <1>7, <1>8, <2>1
  <2>2. CASE b # a
    <3>1. applications'[b] = applications[b] /\ applications[b].number <= counter'
      BY <1>4, <1>7, <1>8, <1>9, <2>2
    <3> QED BY <1>8, <3>1 DEF FilingDeskInv, Numbering
  <2> QED BY <2>1, <2>2
<1>11. ASSUME NEW b \in Filed', NEW d \in Filed', applications'[b].number = applications'[d].number,
              applications'[b].number > 0
       PROVE  b = d
  <2>1. ASSUME NEW e \in Filed', e # a PROVE applications'[e].number # counter + 1
    BY <1>4, <1>7, <1>8, <1>9, <2>1
  <2>2. CASE b # a /\ d # a
    BY <1>7, <1>8, <1>11, <2>2 DEF FilingDeskInv, Numbering
  <2>3. CASE b = a \/ d = a
    BY <1>5, <1>7, <1>11, <2>1, <2>3
  <2> QED BY <2>2, <2>3
<1>12. ASSUME NEW n \in 1..counter' PROVE \E b \in Filed' : applications'[b].number = n
  <2>1. CASE n = counter + 1
    BY <1>3, <1>5, <1>7, <1>8, <2>1
  <2>2. CASE n # counter + 1
    <3>1. n \in 1..counter /\ n > 0
      BY <1>4, <1>8, <2>2
    <3>2. PICK b \in Filed : applications[b].number = n
      BY <3>1 DEF FilingDeskInv, Numbering
    <3>3. b # a
      BY <1>3, <3>1, <3>2 DEF FilingDeskInv, Numbering
    <3> QED BY <1>7, <1>8, <3>2, <3>3
  <2> QED BY <2>1, <2>2
<1>13. Keyed'
  <2> SUFFICES ASSUME NEW b \in Filed', applications'[b].key # Nobody PROVE Answers(b)'
    BY DEF Keyed
  <2>1. applications'[b].key = applications[b].key /\ applications'[b].by = applications[b].by
    BY <1>5, <1>7, <1>8
  <2>2. Answers(b)
    BY <1>8, <2>1 DEF FilingDeskInv, Keyed
  <2> QED BY <1>1, <2>1, <2>2 DEF Answers
<1>14. \A d \in Clerks : ~Took(d)'
  BY <1>1, <1>2, OthersHold DEF FilingDeskInv, Holding
<1>15. \A d \in Clerks : (Busy(d, Filer) /\ clerk[d].draft => clerk[d].number = 0)'
  BY <1>1, OthersHold DEF FilingDeskInv, Holding
<1>16. \A d \in Clerks : Finishes(d)' =>
        /\ clerk'[d].filing \in Filed' /\ applications'[clerk'[d].filing].status = "Draft"
        /\ \A e \in Clerks : Finishes(e)' /\ clerk'[e].filing = clerk'[d].filing => d = e
  <2>1. \A d \in Clerks : Finishes(d)' => d # c /\ Finishes(d) /\ clerk'[d] = clerk[d]
    BY <1>1, OthersHold
  <2>2. \A d \in Clerks : Finishes(d)' => clerk[d].filing # a
    BY <1>2, <2>1 DEF FilingDeskInv, Holding, a
  <2> QED BY <1>7, <1>8, <2>1, <2>2 DEF FilingDeskInv, Holding
<1>17. Numbering'
  BY <1>10, <1>11, <1>12 DEF Numbering
<1> QED BY <1>13, <1>14, <1>15, <1>16, <1>17 DEF Holding

LEMMA UpdateDraftKeeps ==
  ASSUME NoNullRow, FilingDeskInv, NEW a \in Filings, NEW form \in Form, NEW resent \in SUBSET {"type", "action", "shop"},
         UpdateDraft(a, form, resent)
  PROVE  Numbering' /\ Holding' /\ Keyed' /\ applications' \in [ Filings -> Application \cup {Nobody} ]
<1>1. PICK now \in Form : applications' = [ applications EXCEPT ![a].form = now ]
  <2> DEFINE was == applications[a].form
             now == [ type   |-> IF "type" \in resent THEN form.type ELSE was.type,
                  shop   |-> IF "shop" \in resent THEN form.shop ELSE was.shop,
                  action |-> IF "action" \in resent THEN form.action ELSE was.action,
                  permit |-> IF "action" \in resent THEN form.permit ELSE was.permit,
                  claim  |-> IF "action" \in resent THEN form.claim ELSE was.claim ]
  <2>1. applications' = [ applications EXCEPT ![a].form = now ]
    BY DEF UpdateDraft
  <2>2. was \in Form
    BY RequestRowsTyped DEF UpdateDraft, FilingDeskInv, Application
  <2>3. now \in Form
    BY <2>2 DEF Form
  <2> HIDE DEF now
  <2> QED BY <2>1, <2>3
<1>2. a \in Filed /\ applications[a] \in Application /\ UNCHANGED << counter, keys, clerk >>
  BY RequestRowsTyped DEF UpdateDraft, FilingDeskInv
<1> DEFINE row == [ applications[a] EXCEPT !.form = now ]
<1>3. /\ row \in Application /\ row.status = applications[a].status /\ row.number = applications[a].number
      /\ row.by = applications[a].by /\ row.key = applications[a].key
  BY <1>2 DEF Application
<1>4. applications' = [ applications EXCEPT ![a] = row ]
  BY <1>1
<1> HIDE DEF row
<1>5. row # Nobody
  BY <1>3 DEF NoNullRow
<1>6. applications' \in [ Filings -> Application \cup {Nobody} ]
  BY <1>3, <1>4 DEF FilingDeskInv, FilingDeskTypeOK
<1>7. applications'[a] = row /\ \A b \in Filings : b # a => applications'[b] = applications[b]
  BY <1>4 DEF FilingDeskInv, FilingDeskTypeOK
<1>8. Filed' = Filed
  BY <1>2, <1>5, <1>7 DEF Filed
<1>9. \A b \in Filed : /\ applications'[b].status = applications[b].status
                       /\ applications'[b].number = applications[b].number
                       /\ applications'[b].by = applications[b].by /\ applications'[b].key = applications[b].key
  BY <1>3, <1>7 DEF Filed
<1>10. Numbering'
  BY <1>2, <1>8, <1>9 DEF FilingDeskInv, Numbering
<1>11. Keyed'
  BY <1>2, <1>8, <1>9 DEF FilingDeskInv, Keyed, Answers
<1>12. Holding'
  BY <1>2, <1>8, <1>9 DEF FilingDeskInv, Holding, Took, Finishes, Busy
<1> QED BY <1>6, <1>10, <1>11, <1>12

\* A draft is taken up by one request at a time.
LEMMA BeginFilingHolds ==
  ASSUME FilingDeskInv, NEW c \in Clerks, NEW a \in Filings, BeginFiling(c, a)
  PROVE  Numbering' /\ Holding' /\ Keyed'
<1> DEFINE row == [ kind |-> "draft", filing |-> a, number |-> 0 ]
<1>1. /\ clerk[c] = Nobody /\ a \in Filed /\ applications[a].status = "Draft" /\ ~Held(a)
      /\ clerk' = [ clerk EXCEPT ![c] = row ] /\ UNCHANGED << applications, counter, keys >>
  BY DEF BeginFiling, Unoccupied
<1>2. row.kind = "draft" /\ row.filing = a /\ row.number = 0
  OBVIOUS
<1> HIDE DEF row
<1>3. clerk'[c] = row /\ \A d \in Clerks : d # c => clerk'[d] = clerk[d]
  BY <1>1 DEF FilingDeskInv, FilingDeskTypeOK
<1>4. Filed' = Filed
  BY <1>1 DEF Filed
<1>5. Numbering' /\ Keyed'
  BY <1>1, <1>4 DEF FilingDeskInv, Numbering, Keyed, Answers
<1>6. \A d \in Clerks : Took(d)' => Took(d) /\ clerk'[d] = clerk[d]
  BY <1>2, <1>3 DEF Took, Busy
<1>7. \A d \in Clerks : Took(d)' => clerk'[d].number = counter' + 1 /\ \A e \in Clerks : Took(e)' => d = e
  BY <1>1, <1>6 DEF FilingDeskInv, Holding
<1>8. \A d \in Clerks : (Busy(d, Filer) /\ clerk[d].draft => clerk[d].number = 0)'
  BY <1>2, <1>3 DEF FilingDeskInv, Holding, Busy
<1>9. \A d \in Clerks : Finishes(d)' => d = c \/ (Finishes(d) /\ clerk'[d] = clerk[d] /\ clerk[d].filing # a)
  BY <1>1, <1>3 DEF Finishes, Busy, Held
<1>10. \A d \in Clerks : Finishes(d)' =>
        /\ clerk'[d].filing \in Filed' /\ applications'[clerk'[d].filing].status = "Draft"
        /\ \A e \in Clerks : Finishes(e)' /\ clerk'[e].filing = clerk'[d].filing => d = e
  BY <1>1, <1>2, <1>3, <1>4, <1>9 DEF FilingDeskInv, Holding
<1> QED BY <1>5, <1>7, <1>8, <1>10 DEF Holding

-----------------------------------------------------------------------------
\* The types of the rows each step writes.

LEMMA ClerkTyped ==
  ASSUME FilingDeskTypeOK, NEW c \in Clerks,
         NEW row \in Request \cup Finishing \cup Joining \cup {Nobody}
  PROVE  [ clerk EXCEPT ![c] = row ] \in [ Clerks -> Request \cup Finishing \cup Joining \cup {Nobody} ]
BY DEF FilingDeskTypeOK

LEMMA EndsTyped ==
  ASSUME FilingDeskTypeOK, NEW c \in Clerks, Ends(c)
  PROVE  clerk' \in [ Clerks -> Request \cup Finishing \cup Joining \cup {Nobody} ]
BY DEF FilingDeskTypeOK, Ends

LEMMA WalkInTyped ==
  ASSUME FilingDeskTypeOK, NEW r \in Request, WalkIn(r)
  PROVE  citizens' \in [ Addresses -> Account \cup {Nobody} ] /\ codes' \in [ Addresses -> Code ]
<1>1. r.applicant \in Addresses /\ r.name \in Names
  BY DEF Request
<1>2. CASE r.kind = "self"
  BY <1>2 DEF WalkIn, FilingDeskTypeOK
<1>3. CASE r.kind # "self"
  <2> DEFINE was == IF r.found = "none" \/ citizens[r.applicant] = Nobody
                    THEN [ name |-> Nobody, verified |-> FALSE ] ELSE citizens[r.applicant]
             now == [ name |-> IF was.name = Nobody THEN r.name ELSE was.name,
                      verified |-> was.verified \/ codes[r.applicant].confirmed ]
  <2>1. citizens' = [ citizens EXCEPT ![r.applicant] = now ]
        /\ codes' = [ codes EXCEPT ![r.applicant].confirmed = FALSE ]
    BY <1>3 DEF WalkIn
  <2>2. was \in Account
    <3>1. [ name |-> Nobody, verified |-> FALSE ] \in Account
      BY DEF Account, OrNobody
    <3>2. citizens[r.applicant] # Nobody => citizens[r.applicant] \in Account
      BY <1>1 DEF FilingDeskTypeOK
    <3> QED BY <3>1, <3>2
  <2>3. was.name \in OrNobody(Names) /\ was.verified \in BOOLEAN
    <3> HIDE DEF was
    <3> QED BY <2>2 DEF Account
  <2>4. codes[r.applicant].confirmed \in BOOLEAN
    BY <1>1 DEF FilingDeskTypeOK, Code
  <2>5. now \in Account
    <3> HIDE DEF was
    <3>1. (was.verified \/ codes[r.applicant].confirmed) \in BOOLEAN
      OBVIOUS
    <3>2. (IF was.name = Nobody THEN r.name ELSE was.name) \in OrNobody(Names)
      BY <1>1, <2>3 DEF OrNobody
    <3> QED BY <3>1, <3>2 DEF Account
  <2> HIDE DEF was, now
  <2>6. citizens' \in [ Addresses -> Account \cup {Nobody} ]
    BY <1>1, <2>1, <2>5 DEF FilingDeskTypeOK
  <2>7. \A x \in Code : [ x EXCEPT !.confirmed = FALSE ] \in Code
    BY DEF Code
  <2>8. codes' \in [ Addresses -> Code ]
    BY <1>1, <2>1, <2>7 DEF FilingDeskTypeOK
  <2> QED BY <2>6, <2>8
<1> QED BY <1>2, <1>3

LEMMA BeginSubmitTyped ==
  ASSUME FilingDeskTypeOK, NEW c \in Clerks, NEW by \in Addresses, NEW key \in Keys, NEW form \in Form,
         NEW draft \in BOOLEAN, BeginSubmit(c, by, key, form, draft)
  PROVE  FilingDeskTypeOK' /\ clerk'[c].kind \in Filer /\ clerk'[c].number = 0
<1> DEFINE row == [ kind |-> "self", by |-> by, key |-> key, applicant |-> by,
                    name |-> citizens[by].name, form |-> form, draft |-> draft,
                    found |-> "profile", number |-> 0 ]
<1>1. /\ Profile(by) = "profile" /\ clerk' = [ clerk EXCEPT ![c] = row ]
      /\ UNCHANGED << citizens, owner, applications, counter, keys, codes >>
  BY DEF BeginSubmit
<1>2. citizens[by] \in Account /\ citizens[by].name # Nobody
  BY <1>1 DEF Profile, FilingDeskTypeOK
<1>3. row \in Request
  BY <1>2 DEF Account, OrNobody, Request
<1>4. row.kind = "self" /\ row.number = 0
  OBVIOUS
<1> HIDE DEF row
<1>5. clerk'[c] = row
  BY <1>1 DEF FilingDeskTypeOK
<1> QED BY <1>1, <1>3, <1>4, <1>5 DEF FilingDeskTypeOK, Filer

LEMMA BeginOnBehalfTyped ==
  ASSUME FilingDeskTypeOK, NEW c \in Clerks, NEW officer \in Counterstaff, NEW key \in Keys,
         NEW address \in Addresses, NEW name \in Names, NEW form \in Form, NEW draft \in BOOLEAN,
         BeginOnBehalf(c, officer, key, address, name, form, draft)
  PROVE  FilingDeskTypeOK' /\ clerk'[c].kind \in Filer /\ clerk'[c].number = 0
<1> DEFINE row == [ kind |-> "counter", by |-> officer, key |-> key, applicant |-> address,
                    name |-> name, form |-> form, draft |-> draft,
                    found |-> Profile(address), number |-> 0 ]
<1>1. /\ clerk' = [ clerk EXCEPT ![c] = row ]
      /\ UNCHANGED << citizens, owner, applications, counter, keys, codes >>
  BY DEF BeginOnBehalf
<1>2. Profile(address) \in {"none", "bare", "profile"}
  BY DEF Profile
<1>3. row \in Request
  BY <1>2 DEF Request
<1>4. row.kind = "counter" /\ row.number = 0
  OBVIOUS
<1> HIDE DEF row
<1>5. clerk'[c] = row
  BY <1>1 DEF FilingDeskTypeOK
<1> QED BY <1>1, <1>3, <1>4, <1>5 DEF FilingDeskTypeOK, Filer

LEMMA TakeNumberTyped ==
  ASSUME FilingDeskTypeOK, NEW c \in Clerks, TakeNumber(c) PROVE FilingDeskTypeOK'
<1> DEFINE row == [ clerk[c] EXCEPT !.number = counter + 1 ]
<1>1. /\ Busy(c, {"self", "counter", "draft"}) /\ clerk' = [ clerk EXCEPT ![c] = row ]
      /\ UNCHANGED << citizens, owner, applications, counter, keys, codes >>
  BY DEF TakeNumber
<1>2. clerk[c] \in Request \cup Finishing /\ counter + 1 \in Nat
  BY <1>1, RequestKinds DEF Busy, Filer, FilingDeskTypeOK
<1>3. \A n \in Nat : /\ \A r \in Request : [ r EXCEPT !.number = n ] \in Request
                     /\ \A r \in Finishing : [ r EXCEPT !.number = n ] \in Finishing
  BY DEF Request, Finishing
<1>4. row \in Request \cup Finishing
  BY <1>2, <1>3
<1> HIDE DEF row
<1> QED BY <1>1, <1>4 DEF FilingDeskTypeOK

LEMMA FileTyped ==
  ASSUME FilingDeskTypeOK, NEW c \in Clerks, NEW a \in Filings, NEW unknown \in BOOLEAN, File(c, a, unknown)
  PROVE  FilingDeskTypeOK'
<1> DEFINE r == clerk[c]
           row == [ applicant |-> r.applicant, name |-> r.name, by |-> r.by,
                    key |-> IF unknown THEN Nobody ELSE r.key,
                    status |-> IF r.draft THEN "Draft" ELSE "Submitted", number |-> r.number,
                    form |-> r.form ]
           k == [ by |-> r.by, key |-> r.key, filing |-> a ]
<1>1. /\ Busy(c, Filer) /\ Ends(c) /\ WalkIn(r)
      /\ applications' = [ applications EXCEPT ![a] = row ]
      /\ counter' = (IF r.draft THEN counter ELSE r.number)
      /\ keys' = (IF unknown THEN keys ELSE keys \cup {k})
      /\ UNCHANGED owner
  BY DEF File, Filer
<1>2. r \in Request
  BY <1>1, RequestKinds
<1>3. row \in Application
  BY <1>2 DEF Request, Application, OrNobody
<1>4. k \in Key /\ r.number \in Nat
  BY <1>2 DEF Key, Request
<1>5. citizens' \in [ Addresses -> Account \cup {Nobody} ] /\ codes' \in [ Addresses -> Code ]
  BY <1>1, <1>2, WalkInTyped
<1>6. clerk' \in [ Clerks -> Request \cup Finishing \cup Joining \cup {Nobody} ]
  BY <1>1, EndsTyped
<1> HIDE DEF row, k
<1>7. applications' \in [ Filings -> Application \cup {Nobody} ]
  BY <1>1, <1>3 DEF FilingDeskTypeOK
<1>8. counter' \in Nat /\ keys' \subseteq Key /\ owner' \in [ Shops -> OrNobody(Addresses) ]
  BY <1>1, <1>4 DEF FilingDeskTypeOK
<1> QED BY <1>5, <1>6, <1>7, <1>8 DEF FilingDeskTypeOK

LEMMA FileDraftTyped ==
  ASSUME FilingDeskInv, NEW c \in Clerks, FileDraft(c) PROVE FilingDeskTypeOK'
<1> DEFINE a == clerk[c].filing
           row == [ applications[a] EXCEPT !.status = "Submitted", !.number = clerk[c].number ]
<1>1. /\ Busy(c, {"draft"}) /\ clerk[c].number # 0 /\ Ends(c) /\ counter' = clerk[c].number
      /\ applications' = [ applications EXCEPT ![a] = row ] /\ UNCHANGED << citizens, owner, keys, codes >>
  BY DEF FileDraft
<1>2. clerk[c].number \in Nat
  BY <1>1, RequestKinds DEF FilingDeskInv, Finishing
<1>3. applications[a] \in Application
  BY <1>1, RequestRowsTyped DEF FilingDeskInv, Holding, Finishes
<1>4. \A x \in Application, n \in Nat : [ x EXCEPT !.status = "Submitted", !.number = n ] \in Application
  BY DEF Application
<1> HIDE DEF a
<1>5. row \in Application
  BY <1>2, <1>3, <1>4
<1>6. clerk' \in [ Clerks -> Request \cup Finishing \cup Joining \cup {Nobody} ]
  BY <1>1, EndsTyped DEF FilingDeskInv
<1> HIDE DEF row
<1>7. applications' \in [ Filings -> Application \cup {Nobody} ]
  BY <1>1, <1>5 DEF FilingDeskInv, FilingDeskTypeOK
<1> QED BY <1>1, <1>2, <1>6, <1>7 DEF FilingDeskInv, FilingDeskTypeOK

\* The codes, the accounts and the requests to register: none of them files.
LEMMA ProofTyped ==
  ASSUME FilingDeskTypeOK, ProofStep
  PROVE  FilingDeskTypeOK' /\ UNCHANGED << applications, counter, keys, clerk >>
<1>1. PICK address \in Addresses :
        \/ RequestCodeFor(address)
        \/ ProofExpires(address)
        \/ \E answer \in {"right", "wrong", "late"} : AnswerCode(address, answer)
  BY DEF ProofStep
<1>2. \A x \in Code : /\ [ x EXCEPT !.live = TRUE, !.guesses = 0 ] \in Code
                      /\ [ x EXCEPT !.live = FALSE, !.guesses = 0 ] \in Code
                      /\ [ x EXCEPT !.live = FALSE, !.guesses = 0, !.confirmed = TRUE ] \in Code
                      /\ [ x EXCEPT !.guesses = x.guesses + 1 ] \in Code
                      /\ [ x EXCEPT !.confirmed = FALSE ] \in Code
  <2> TAKE x \in Code
  <2>1. \A b \in BOOLEAN : [ x EXCEPT !.live = b, !.guesses = 0 ] \in Code
    BY DEF Code
  <2>2. [ x EXCEPT !.live = FALSE, !.guesses = 0, !.confirmed = TRUE ] \in Code
    BY DEF Code
  <2>3. [ x EXCEPT !.guesses = x.guesses + 1 ] \in Code
    BY DEF Code
  <2>4. [ x EXCEPT !.confirmed = FALSE ] \in Code
    BY DEF Code
  <2> QED BY <2>1, <2>2, <2>3, <2>4
<1>3. codes[address] \in Code
  BY DEF FilingDeskTypeOK
<1>4. UNCHANGED << citizens, owner, applications, counter, keys, clerk >>
  BY <1>1 DEF RequestCodeFor, ProofExpires, AnswerCode
<1>5. \E row \in Code : codes' = [ codes EXCEPT ![address] = row ]
  <2>1. CASE RequestCodeFor(address)
    <3> DEFINE row == [ codes[address] EXCEPT !.live = TRUE, !.guesses = 0 ]
    <3>1. codes' = [ codes EXCEPT ![address] = row ]
      BY <2>1 DEF RequestCodeFor, FilingDeskTypeOK
    <3> QED BY <1>2, <1>3, <3>1
  <2>2. CASE ProofExpires(address)
    <3> DEFINE row == [ codes[address] EXCEPT !.confirmed = FALSE ]
    <3>1. codes' = [ codes EXCEPT ![address] = row ]
      BY <2>2 DEF ProofExpires
    <3> QED BY <1>2, <1>3, <3>1
  <2>3. ASSUME NEW answer \in {"right", "wrong", "late"}, AnswerCode(address, answer)
        PROVE  \E row \in Code : codes' = [ codes EXCEPT ![address] = row ]
    <3> DEFINE was == codes[address]
               row == CASE answer = "right" -> [ was EXCEPT !.live = FALSE, !.guesses = 0, !.confirmed = TRUE ]
                        [] answer = "wrong" /\ was.guesses + 1 < MaxGuesses ->
                             [ was EXCEPT !.guesses = was.guesses + 1 ]
                        [] OTHER -> [ was EXCEPT !.live = FALSE, !.guesses = 0 ]
    <3>1. codes' = [ codes EXCEPT ![address] = row ]
      BY <2>3 DEF AnswerCode
    <3>2. row \in Code
      <4> HIDE DEF was
      <4>1. was \in Code
        BY <1>3 DEF was
      <4>2. CASE answer = "right"
        BY <1>2, <4>1, <4>2
      <4>3. CASE answer # "right" /\ answer = "wrong" /\ was.guesses + 1 < MaxGuesses
        BY <1>2, <4>1, <4>3
      <4>4. CASE answer # "right" /\ ~(answer = "wrong" /\ was.guesses + 1 < MaxGuesses)
        BY <1>2, <4>1, <4>4
      <4> QED BY <4>2, <4>3, <4>4
    <3> HIDE DEF row
    <3> QED BY <3>1, <3>2
  <2> QED BY <1>1, <2>1, <2>2, <2>3
<1>6. codes' \in [ Addresses -> Code ]
  BY <1>5 DEF FilingDeskTypeOK
<1> QED BY <1>4, <1>6 DEF FilingDeskTypeOK

LEMMA RegisterTyped ==
  ASSUME FilingDeskTypeOK, NEW c \in Clerks, RegisterStep(c)
  PROVE  /\ FilingDeskTypeOK' /\ UNCHANGED << applications, counter, keys >>
         /\ \A d \in Clerks : \/ clerk'[d] = clerk[d]
                               \/ clerk'[d] = Nobody
                               \/ clerk'[d].kind = "register"
<1>1. CASE \E address \in Addresses, name \in Names : BeginRegister(c, address, name)
  <2>1. PICK address \in Addresses, name \in Names : BeginRegister(c, address, name)
    BY <1>1
  <2> DEFINE row == [ kind |-> "register", applicant |-> address, name |-> name,
                      proven |-> codes[address].confirmed ]
  <2>2. /\ codes' = [ codes EXCEPT ![address].confirmed = FALSE ]
        /\ clerk' = clerk \/ clerk' = [ clerk EXCEPT ![c] = row ]
        /\ UNCHANGED << citizens, owner, applications, counter, keys >>
    BY <2>1 DEF BeginRegister
  <2>3. codes[address].confirmed \in BOOLEAN
    BY DEF FilingDeskTypeOK, Code
  <2>4. row \in Joining /\ row.kind = "register"
    BY <2>3 DEF Joining
  <2> HIDE DEF row
  <2>5. \A x \in Code : [ x EXCEPT !.confirmed = FALSE ] \in Code
    BY DEF Code
  <2>6. codes' \in [ Addresses -> Code ]
    BY <2>2, <2>5 DEF FilingDeskTypeOK
  <2>7. clerk' \in [ Clerks -> Request \cup Finishing \cup Joining \cup {Nobody} ]
    BY <2>2, <2>4 DEF FilingDeskTypeOK
  <2>8. \A d \in Clerks : clerk'[d] = clerk[d] \/ clerk'[d].kind = "register"
    BY <2>2, <2>4 DEF FilingDeskTypeOK
  <2> QED BY <2>2, <2>6, <2>7, <2>8 DEF FilingDeskTypeOK
<1>2. CASE SaveAccount(c)
  <2> DEFINE r == clerk[c]
             row == [ name |-> r.name, verified |-> r.proven ]
  <2>1. /\ Busy(c, {"register"}) /\ Ends(c)
        /\ citizens' = citizens \/ citizens' = [ citizens EXCEPT ![r.applicant] = row ]
        /\ UNCHANGED << owner, applications, counter, keys, codes >>
    BY <1>2 DEF SaveAccount
  <2>2. r \in Joining
    BY <2>1, RequestKinds
  <2>3. r.applicant \in Addresses /\ row \in Account
    BY <2>2 DEF Joining, Account, OrNobody
  <2> HIDE DEF r, row
  <2>4. citizens' \in [ Addresses -> Account \cup {Nobody} ]
    BY <2>1, <2>3 DEF FilingDeskTypeOK
  <2>5. \A d \in Clerks : clerk'[d] = clerk[d] \/ clerk'[d] = Nobody
    BY <2>1 DEF Ends, FilingDeskTypeOK
  <2> QED BY <2>1, <2>4, <2>5, EndsTyped DEF FilingDeskTypeOK
<1> QED BY <1>1, <1>2 DEF RegisterStep

-----------------------------------------------------------------------------
LEMMA FilingDeskStarts ==
  ASSUME NoNullRow, FilingDeskInit PROVE FilingDeskInv
<1>1. /\ citizens \in [ Addresses -> Account \cup {Nobody} ] /\ owner \in [ Shops -> OrNobody(Addresses) ]
      /\ applications = [ a \in Filings |-> Nobody ] /\ counter = 0 /\ keys = {}
      /\ codes = [ a \in Addresses |-> [ live |-> FALSE, guesses |-> 0, confirmed |-> FALSE ] ]
      /\ clerk = [ c \in Clerks |-> Nobody ]
  BY DEF FilingDeskInit
<1>2. [ live |-> FALSE, guesses |-> 0, confirmed |-> FALSE ] \in Code
  BY DEF Code
<1>3. FilingDeskTypeOK
  BY <1>1, <1>2 DEF FilingDeskTypeOK
<1>4. Filed = {} /\ (\A c \in Clerks : clerk[c] = Nobody)
  BY <1>1 DEF Filed
<1>5. Numbering /\ Keyed
  BY <1>1, <1>4 DEF Numbering, Keyed
<1>6. Holding
  BY <1>4 DEF Holding, Took, Finishes, Busy
<1> QED BY <1>3, <1>5, <1>6 DEF FilingDeskInv

LEMMA SubmitPreserves ==
  ASSUME NoNullRow, FilingDeskInv, NEW c \in Clerks, SubmitStep(c) PROVE FilingDeskInv'
<1>0. FilingDeskTypeOK
  BY DEF FilingDeskInv
<1>1. ASSUME NEW by \in Addresses, NEW key \in Keys, NEW form \in Form, NEW draft \in BOOLEAN,
             BeginSubmit(c, by, key, form, draft)
      PROVE  FilingDeskInv'
  <2>1. FilingDeskTypeOK' /\ clerk'[c].kind \in Filer /\ clerk'[c].number = 0
    BY <1>0, <1>1, BeginSubmitTyped
  <2>2. UNCHANGED << applications, counter, keys >> /\ \A d \in Clerks : d # c => clerk'[d] = clerk[d]
    BY <1>0, <1>1 DEF BeginSubmit, FilingDeskTypeOK
  <2> QED BY <2>1, <2>2, FilingRests DEF FilingDeskInv
<1>2. ASSUME NEW a \in Filings, NEW unknown \in BOOLEAN, File(c, a, unknown) PROVE FilingDeskInv'
  BY <1>0, <1>2, FileTyped, FileNumbers DEF FilingDeskInv
<1>3. CASE TakeNumber(c)
  BY <1>0, <1>3, TakeNumberTyped, TakeNumberHolds DEF FilingDeskInv
<1>4. CASE RollBack(c)
  <2>1. Ends(c) /\ UNCHANGED << citizens, owner, applications, counter, keys, codes >>
    BY <1>4 DEF RollBack
  <2>2. FilingDeskTypeOK'
    BY <1>0, <2>1, EndsTyped DEF FilingDeskTypeOK
  <2>3. \A d \in Clerks : clerk'[d] = clerk[d] \/ clerk'[d] = Nobody
    BY <1>0, <2>1 DEF Ends, FilingDeskTypeOK
  <2> QED BY <2>1, <2>2, <2>3, FilingRests DEF FilingDeskInv
<1> QED BY <1>1, <1>2, <1>3, <1>4 DEF SubmitStep

LEMMA CounterPreserves ==
  ASSUME FilingDeskInv, NEW c \in Clerks, CounterStep(c) PROVE FilingDeskInv'
<1>0. FilingDeskTypeOK
  BY DEF FilingDeskInv
<1>1. ASSUME NEW officer \in Counterstaff, NEW key \in Keys, NEW address \in Addresses, NEW name \in Names,
             NEW form \in Form, NEW draft \in BOOLEAN,
             BeginOnBehalf(c, officer, key, address, name, form, draft)
      PROVE  FilingDeskInv'
  <2>1. FilingDeskTypeOK' /\ clerk'[c].kind \in Filer /\ clerk'[c].number = 0
    BY <1>0, <1>1, BeginOnBehalfTyped
  <2>2. UNCHANGED << applications, counter, keys >> /\ \A d \in Clerks : d # c => clerk'[d] = clerk[d]
    BY <1>0, <1>1 DEF BeginOnBehalf, FilingDeskTypeOK
  <2> QED BY <2>1, <2>2, FilingRests DEF FilingDeskInv
<1>2. CASE RefuseLate(c)
  <2>1. /\ Busy(c, {"counter"}) /\ WalkIn(clerk[c]) /\ Ends(c)
        /\ UNCHANGED << owner, applications, counter, keys >>
    BY <1>2 DEF RefuseLate
  <2>2. clerk[c] \in Request
    BY <1>0, <2>1, RequestKinds DEF Busy, Filer
  <2>3. citizens' \in [ Addresses -> Account \cup {Nobody} ] /\ codes' \in [ Addresses -> Code ]
    BY <1>0, <2>1, <2>2, WalkInTyped
  <2>4. FilingDeskTypeOK'
    BY <1>0, <2>1, <2>3, EndsTyped DEF FilingDeskTypeOK
  <2>5. \A d \in Clerks : clerk'[d] = clerk[d] \/ clerk'[d] = Nobody
    BY <1>0, <2>1 DEF Ends, FilingDeskTypeOK
  <2> QED BY <2>1, <2>4, <2>5, FilingRests DEF FilingDeskInv
<1> QED BY <1>1, <1>2 DEF CounterStep

LEMMA DraftPreserves ==
  ASSUME NoNullRow, FilingDeskInv, NEW c \in Clerks, DraftStep(c) PROVE FilingDeskInv'
<1>0. FilingDeskTypeOK
  BY DEF FilingDeskInv
<1>1. ASSUME NEW a \in Filings, BeginFiling(c, a) PROVE FilingDeskInv'
  <2> DEFINE row == [ kind |-> "draft", filing |-> a, number |-> 0 ]
  <2>1. /\ clerk' = [ clerk EXCEPT ![c] = row ]
        /\ UNCHANGED << citizens, owner, applications, counter, keys, codes >>
    BY <1>1 DEF BeginFiling
  <2>2. row \in Finishing
    BY DEF Finishing
  <2> HIDE DEF row
  <2>3. FilingDeskTypeOK'
    BY <1>0, <2>1, <2>2 DEF FilingDeskTypeOK
  <2> QED BY <1>1, <2>3, BeginFilingHolds DEF FilingDeskInv
<1>2. ASSUME NEW a \in Filings, NEW form \in Form, NEW resent \in SUBSET {"type", "action", "shop"},
             UpdateDraft(a, form, resent)
      PROVE  FilingDeskInv'
  <2>1. Numbering' /\ Holding' /\ Keyed' /\ applications' \in [ Filings -> Application \cup {Nobody} ]
    BY <1>2, UpdateDraftKeeps
  <2>2. UNCHANGED << citizens, owner, counter, keys, codes, clerk >>
    BY <1>2 DEF UpdateDraft
  <2> QED BY <1>0, <2>1, <2>2 DEF FilingDeskInv, FilingDeskTypeOK
<1>3. CASE FileDraft(c)
  BY <1>3, FileDraftTyped, FileDraftNumbers DEF FilingDeskInv
<1> QED BY <1>1, <1>2, <1>3 DEF DraftStep

LEMMA FilingDeskStep ==
  ASSUME NoNullRow, FilingDeskInv, [FilingDeskNext]_filingDeskVars PROVE FilingDeskInv'
<1>0. FilingDeskTypeOK
  BY DEF FilingDeskInv
<1>1. ASSUME NEW c \in Clerks, RegisterStep(c) PROVE FilingDeskInv'
  BY <1>0, <1>1, RegisterTyped, FilingRests DEF FilingDeskInv
<1>2. CASE ProofStep
  BY <1>0, <1>2, ProofTyped, FilingRests DEF FilingDeskInv
<1>3. CASE UNCHANGED filingDeskVars
  <2>1. UNCHANGED << citizens, owner, applications, counter, keys, codes, clerk >>
    BY <1>3 DEF filingDeskVars
  <2>2. FilingDeskTypeOK'
    BY <1>0, <2>1 DEF FilingDeskTypeOK
  <2> QED BY <2>1, <2>2, FilingRests DEF FilingDeskInv
<1> QED BY <1>1, <1>2, <1>3, SubmitPreserves, CounterPreserves, DraftPreserves DEF FilingDeskNext

\* A series that is numbered without a gap, and keys that answer for what was
\* filed under them.
LEMMA NumberingShows ==
  ASSUME FilingDeskInv PROVE SeriesHasNoGap
<1> DEFINE numbers == { applications[a].number : a \in { a \in Filed : applications[a].status = "Submitted" } }
<1>1. numbers = 1..counter
  <2>1. ASSUME NEW n \in numbers PROVE n \in 1..counter
    <3>1. PICK a \in Filed : applications[a].status = "Submitted" /\ n = applications[a].number
      BY <2>1
    <3>2. applications[a].number \in Nat /\ counter \in Nat
      BY RequestRowsTyped DEF FilingDeskInv, FilingDeskTypeOK, Application
    <3>3. applications[a].number > 0 /\ applications[a].number <= counter
      BY <3>1 DEF FilingDeskInv, Numbering
    <3> QED BY <3>1, <3>2, <3>3
  <2>2. ASSUME NEW n \in 1..counter PROVE n \in numbers
    <3>1. PICK a \in Filed : applications[a].number = n
      BY <2>2 DEF FilingDeskInv, Numbering
    <3>2. n > 0
      BY <2>2 DEF FilingDeskInv, FilingDeskTypeOK
    <3>3. applications[a].status = "Submitted"
      BY <3>1, <3>2 DEF FilingDeskInv, Numbering
    <3> QED BY <3>1, <3>3
  <2> QED BY <2>1, <2>2
<1>2. ASSUME NEW a \in Filed, applications[a].key # Nobody
      PROVE  { k.filing : k \in { k \in keys : k.by = applications[a].by /\ k.key = applications[a].key } } = {a}
  <2>1. Answers(a)
    BY <1>2 DEF FilingDeskInv, Keyed
  <2> DEFINE mine == [ by |-> applications[a].by, key |-> applications[a].key, filing |-> a ]
  <2>2. mine \in keys /\ mine.by = applications[a].by /\ mine.key = applications[a].key /\ mine.filing = a
    BY <2>1 DEF Answers
  <2>3. \A k \in keys : k.by = applications[a].by /\ k.key = applications[a].key => k.filing = a
    BY <2>1 DEF Answers
  <2> HIDE DEF mine
  <2> QED BY <2>2, <2>3
<1>3. \A a, b \in Filed : /\ applications[a].status = "Submitted" <=> applications[a].number > 0
                          /\ applications[a].number = applications[b].number
                             /\ applications[a].number > 0 => a = b
  BY DEF FilingDeskInv, Numbering
<1> QED BY <1>1, <1>2, <1>3 DEF SeriesHasNoGap

\* The official series has no gap and no number twice, and however often and
\* however concurrently a request is sent under one key, one filing came of it:
\* for any number of requests in flight, whoever dies and wherever.
THEOREM SeriesNeverGaps == FilingDeskSpec => []SeriesHasNoGap
<1>1. FilingDeskInit => FilingDeskInv
  BY FilingDeskStarts, NoNullRow
<1>2. FilingDeskInv /\ [FilingDeskNext]_filingDeskVars => FilingDeskInv'
  BY FilingDeskStep, NoNullRow
<1>3. FilingDeskInv => SeriesHasNoGap
  BY NumberingShows
<1> QED BY <1>1, <1>2, <1>3, PTL DEF FilingDeskSpec

-----------------------------------------------------------------------------
(*****************************************************************************)
(* Documents: uploads, scans, reviews and the retention sweep.               *)
(*                                                                           *)
(* What the retention run holds was due when it picked it, and stays so.     *)
(* What is gone was due, or is of a row that nobody cleared and nobody in    *)
(* flight will clear: that case the property alone leaves out.               *)
(*****************************************************************************)

Writing == {"stored", "inserted"}
Unkept(r) == r \notin store \/ documents[r].deleted

\* No session will clear this row.
Uncleared(r) ==
  documents[r].status # "Approved" /\ \A u \in Uploads : ~(upload[u].pc = "inserted" /\ upload[u].row = r)

SameRow(u, v) == upload[u].pc \in Writing /\ upload[v].pc \in Writing /\ upload[u].row = upload[v].row

\* Each session's row is its own, stored before it is inserted.
Uploading ==
  /\ \A u \in Uploads : upload[u].pc = "stored" => upload[u].row \in store \ Present
  /\ \A u \in Uploads : upload[u].pc \in {"inserted", "purged", "scanned", "remembered", "reviewing"} =>
       upload[u].row \in Present
  /\ \A u \in Uploads : upload[u].pc = "inserted" => documents[upload[u].row].status # "Approved"
  /\ \A u, v \in Uploads : SameRow(u, v) => u = v
  /\ \A u \in Uploads : upload[u].pc \in {"checked", "stored"} => upload[u].by # None /\ upload[u].file # None

\* What the retention run is at was due when it picked it, and is still there.
Due(r) ==
  /\ r \in Present
  /\ sweep.at = "closed" => LongClosed(r)
  /\ sweep.at = "abandoned" => documents[r].old
  /\ sweep.at # "idle"
Sweeping ==
  /\ \A r \in sweep.todo : Due(r) /\ r \in Live /\ r # sweep.row
  /\ sweep.row # None => Due(sweep.row) /\ sweep.row \notin evidence
  /\ sweep.row # None => documents[sweep.row].deleted = sweep.gone
  /\ sweep.gone => sweep.row # None

Closings == \A m \in Matters : matters[m].phase = "closed" => matters[m].closings # {}

\* What is missing was due, or never cleared; what is missing of a live row is
\* what the run is at, or died at, or was never cleared.
Kept ==
  /\ \A r \in Present : Unkept(r) => documents[r].old \/ LongClosed(r) \/ Uncleared(r)
  /\ \A r \in Live : r \notin store => r = sweep.row \/ lostSweeps > 0 \/ Uncleared(r)

Unevidenced == { r \in Present : documents[r].deleted /\ r \notin evidence }
Evidenced ==
  /\ \A r \in evidence : r \in Present /\ documents[r].deleted
  /\ Cardinality(Unevidenced) <= lostSweeps + (IF sweep.gone THEN 1 ELSE 0)

DocumentsInv == DocumentsTypeOK /\ Uploading /\ Sweeping /\ Closings /\ Kept /\ Evidenced

-----------------------------------------------------------------------------
LEMMA DocumentEdits ==
  ASSUME NEW d \in Document
  PROVE  /\ d # None
         /\ \A s \in {"Pending", "Approved", "Rejected"} : [ d EXCEPT !.status = s ] \in Document
         /\ \A v \in OrNone(Verdicts) : [ d EXCEPT !.review = v ] \in Document
         /\ \A m \in OrNone(Matters) : [ d EXCEPT !.matter = m ] \in Document
         /\ \A b \in BOOLEAN : /\ [ d EXCEPT !.archived = b ] \in Document
                               /\ [ d EXCEPT !.deleted = b ] \in Document
                               /\ [ d EXCEPT !.old = b ] \in Document
<1>1. d # None
  BY NoNullDocument
<1>2. \A s \in {"Pending", "Approved", "Rejected"} : [ d EXCEPT !.status = s ] \in Document
  BY DEF Document
<1>3. \A v \in OrNone(Verdicts) : [ d EXCEPT !.review = v ] \in Document
  BY DEF Document
<1>4. \A m \in OrNone(Matters) : [ d EXCEPT !.matter = m ] \in Document
  BY DEF Document
<1>5. \A b \in BOOLEAN : [ d EXCEPT !.archived = b ] \in Document
  BY DEF Document
<1>6. \A b \in BOOLEAN : [ d EXCEPT !.deleted = b ] \in Document
  BY DEF Document
<1>7. \A b \in BOOLEAN : [ d EXCEPT !.old = b ] \in Document
  BY DEF Document
<1> QED BY <1>1, <1>2, <1>3, <1>4, <1>5, <1>6, <1>7

LEMMA PresentTyped ==
  ASSUME DocumentsTypeOK, NEW r \in Present PROVE r \in Rows /\ documents[r] \in Document
BY DEF DocumentsTypeOK, Present

LEMMA Written ==
  ASSUME DocumentsTypeOK, NEW r \in Present, NEW d \in Document, documents' = [ documents EXCEPT ![r] = d ]
  PROVE  /\ documents' \in [ Rows -> Document \cup {None} ] /\ Present' = Present
         /\ documents'[r] = d /\ \A q \in Rows : q # r => documents'[q] = documents[q]
<1>1. r \in Rows /\ documents[r] # None /\ d # None
  BY DocumentEdits DEF Present
<1>2. documents'[r] = d /\ \A q \in Rows : q # r => documents'[q] = documents[q]
  BY <1>1 DEF DocumentsTypeOK
<1>3. documents' \in [ Rows -> Document \cup {None} ]
  BY <1>1 DEF DocumentsTypeOK
<1> QED BY <1>1, <1>2, <1>3 DEF Present

LEMMA StatusWritten ==
  ASSUME DocumentsTypeOK, NEW r \in Present, NEW s \in {"Pending", "Approved", "Rejected"}, Write(r, "status", s)
  PROVE  /\ documents' \in [ Rows -> Document \cup {None} ] /\ Present' = Present
         /\ documents'[r] = [ documents[r] EXCEPT !.status = s ]
         /\ \A q \in Rows : q # r => documents'[q] = documents[q]
<1> DEFINE d == [ documents[r] EXCEPT !.status = s ]
<1>1. documents' = [ documents EXCEPT ![r] = d ]
  BY DEF Write
<1>2. d \in Document
  BY PresentTyped, DocumentEdits
<1> HIDE DEF d
<1>3. documents'[r] = d /\ documents' \in [ Rows -> Document \cup {None} ] /\ Present' = Present
      /\ \A q \in Rows : q # r => documents'[q] = documents[q]
  BY <1>1, <1>2, Written
<1> QED BY <1>3 DEF d

\* A step that stores, inserts, clears and deletes nothing.
LEMMA Quiet ==
  ASSUME DocumentsInv, UNCHANGED << store, evidence, sweep, lostSweeps >>, Present' = Present,
         \A r \in Present : /\ documents'[r].deleted = documents[r].deleted
                            /\ documents'[r].status \in {documents[r].status, "Rejected"}
                            /\ documents[r].old => documents'[r].old
                            /\ LongClosed(r) => LongClosed(r)',
         \A u \in Uploads : upload'[u].pc \in Writing => upload'[u] = upload[u]
  PROVE  /\ Sweeping' /\ Kept' /\ Evidenced'
         /\ \A u \in Uploads : upload'[u].pc = "stored" => upload'[u].row \in store' \ Present'
         /\ \A u \in Uploads : upload'[u].pc = "inserted" => documents'[upload'[u].row].status # "Approved"
         /\ \A u, v \in Uploads : SameRow(u, v)' => u = v
<1>1. \A r \in Present : Uncleared(r) => Uncleared(r)'
  BY DEF Uncleared, Writing
<1>2. \A r \in Present : Unkept(r)' = Unkept(r)
  BY DEF Unkept
<1>3. Live' = Live /\ \A r \in Live : r \in Present
  BY DEF Live
<1>4. Kept'
  BY <1>1, <1>2, <1>3 DEF DocumentsInv, Kept
<1>5. \A r \in Present : Due(r) => Due(r)'
  BY DEF Due
<1>6. Sweeping'
  BY <1>3, <1>5 DEF DocumentsInv, Sweeping, Due
<1>7. Unevidenced' = Unevidenced
  BY DEF Unevidenced
<1>8. Evidenced'
  BY <1>7 DEF DocumentsInv, Evidenced
<1>9. \A u \in Uploads : upload'[u].pc = "stored" => upload'[u].row \in store' \ Present'
  BY DEF DocumentsInv, Uploading, Writing
<1>10. \A u \in Uploads : upload'[u].pc = "inserted" => documents'[upload'[u].row].status # "Approved"
  BY DEF DocumentsInv, Uploading, Writing
<1>11. \A u, v \in Uploads : SameRow(u, v)' => u = v
  BY DEF DocumentsInv, Uploading, SameRow
<1> QED BY <1>4, <1>6, <1>8, <1>9, <1>10, <1>11

\* The sessions: what a session goes on to keeps its type.
LEMMA SessionEdits ==
  ASSUME NEW s \in Session
  PROVE  /\ Idle \in Session
         /\ \A p \in {"idle", "checked", "stored", "inserted", "purged", "scanned", "remembered", "reviewing"} :
              /\ [ s EXCEPT !.pc = p ] \in Session
              /\ \A k \in Rows : [ s EXCEPT !.pc = p, !.row = k ] \in Session
<1>1. Idle \in Session
  BY DEF Session, Idle, OrNone, Verdicts
<1>2. \A p \in {"idle", "checked", "stored", "inserted", "purged", "scanned", "remembered", "reviewing"} :
        [ s EXCEPT !.pc = p ] \in Session
  BY DEF Session
<1>3. \A p \in {"idle", "checked", "stored", "inserted", "purged", "scanned", "remembered", "reviewing"}, k \in Rows :
        [ s EXCEPT !.pc = p, !.row = k ] \in Session
  BY DEF Session, OrNone
<1> QED BY <1>1, <1>2, <1>3

LEMMA WentTo ==
  ASSUME DocumentsTypeOK, NEW u \in Uploads,
         NEW p \in {"idle", "checked", "stored", "inserted", "purged", "scanned", "remembered", "reviewing"}, Goto(u, p)
  PROVE  /\ upload' \in [ Uploads -> Session ]
         /\ upload'[u].pc = p /\ upload'[u].row = upload[u].row /\ upload'[u].by = upload[u].by
         /\ upload'[u].file = upload[u].file
         /\ \A v \in Uploads : v # u => upload'[v] = upload[v]
<1> DEFINE s == [ upload[u] EXCEPT !.pc = p ]
<1>1. upload' = [ upload EXCEPT ![u] = s ] /\ upload[u] \in Session
  BY DEF Goto, DocumentsTypeOK
<1>2. s \in Session
  BY <1>1, SessionEdits
<1>3. s.pc = p /\ s.row = upload[u].row /\ s.by = upload[u].by /\ s.file = upload[u].file
  BY <1>1 DEF Session
<1> HIDE DEF s
<1> QED BY <1>1, <1>2, <1>3 DEF DocumentsTypeOK

LEMMA WasDone ==
  ASSUME DocumentsTypeOK, NEW u \in Uploads, Done(u)
  PROVE  /\ upload' \in [ Uploads -> Session ] /\ upload'[u].pc = "idle"
         /\ \A v \in Uploads : v # u => upload'[v] = upload[v]
<1>1. Idle \in Session /\ Idle.pc = "idle"
  BY SessionEdits DEF DocumentsTypeOK, Idle
<1> QED BY <1>1 DEF Done, DocumentsTypeOK

\* What is left to say of the sessions after a quiet step.
LEMMA QuietSessions ==
  ASSUME DocumentsInv, DocumentsTypeOK', Closings', UNCHANGED << store, evidence, sweep, lostSweeps >>, Present' = Present,
         \A r \in Present : /\ documents'[r].deleted = documents[r].deleted
                            /\ documents'[r].status \in {documents[r].status, "Rejected"}
                            /\ documents[r].old => documents'[r].old
                            /\ LongClosed(r) => LongClosed(r)',
         NEW u \in Uploads, \A v \in Uploads : v # u => upload'[v] = upload[v],
         \/ upload'[u] = upload[u]
         \/ upload'[u].pc = "idle"
         \/ upload'[u].pc = "checked" /\ upload'[u].by # None /\ upload'[u].file # None
         \/ upload'[u].pc \in {"scanned", "remembered", "reviewing"} /\ upload'[u].row \in Present
  PROVE  DocumentsInv'
<1>1. \A v \in Uploads : upload'[v].pc \in Writing => upload'[v] = upload[v]
  BY DEF Writing
<1>2. /\ Sweeping' /\ Kept' /\ Evidenced'
      /\ \A v \in Uploads : upload'[v].pc = "stored" => upload'[v].row \in store' \ Present'
      /\ \A v \in Uploads : upload'[v].pc = "inserted" => documents'[upload'[v].row].status # "Approved"
      /\ \A v, w \in Uploads : SameRow(v, w)' => v = w
  BY <1>1, Quiet
<1>3. \A v \in Uploads : upload'[v].pc \in {"inserted", "purged", "scanned", "remembered", "reviewing"} =>
        upload'[v].row \in Present'
  BY DEF DocumentsInv, Uploading
<1>4. \A v \in Uploads : upload'[v].pc \in {"checked", "stored"} => upload'[v].by # None /\ upload'[v].file # None
  BY DEF DocumentsInv, Uploading
<1>5. Uploading'
  BY <1>2, <1>3, <1>4 DEF Uploading
<1> QED BY <1>2, <1>5 DEF DocumentsInv

LEMMA BeginUploadKeeps ==
  ASSUME DocumentsAssumption, DocumentsInv, NEW u \in Uploads, NEW by \in Uploaders, NEW file \in Files,
         NEW m \in OrNone(Matters), NEW reuse \in OrNone(Rows), BeginUpload(u, by, file, m, reuse)
  PROVE  DocumentsInv'
<1> DEFINE s == [ upload[u] EXCEPT !.pc = "checked", !.by = by, !.file = file, !.matter = m ]
<1>1. upload' = [ upload EXCEPT ![u] = s ] /\ UNCHANGED << documents, store, matters, answers, evidence, sweep, lostSweeps >>
  BY DEF BeginUpload, DocumentsInv, DocumentsTypeOK
<1>2. \A x \in Session : LET y == [ x EXCEPT !.pc = "checked", !.by = by, !.file = file, !.matter = m ] IN
        y \in Session /\ y.pc = "checked" /\ y.by = by /\ y.file = file
  BY DEF Session, OrNone
<1>3. s \in Session /\ s.pc = "checked" /\ s.by = by /\ s.file = file
  BY <1>2 DEF DocumentsInv, DocumentsTypeOK
<1> HIDE DEF s
<1>4. by # None /\ file # None
  BY DEF DocumentsAssumption, Uploaders
<1>5. DocumentsTypeOK'
  BY <1>1, <1>3 DEF DocumentsInv, DocumentsTypeOK
<1>6. upload'[u] = s /\ \A v \in Uploads : v # u => upload'[v] = upload[v]
  BY <1>1 DEF DocumentsInv, DocumentsTypeOK
<1>7. Closings' /\ Present' = Present /\ \A r \in Present : LongClosed(r)' = LongClosed(r)
  BY <1>1 DEF DocumentsInv, Closings, Present, LongClosed
<1> QED BY <1>1, <1>3, <1>4, <1>5, <1>6, <1>7, QuietSessions

LEMMA BeginResubmitKeeps ==
  ASSUME DocumentsAssumption, DocumentsInv, NEW u \in Uploads, NEW by \in Uploaders, NEW file \in Files,
         NEW r \in Rows, BeginResubmit(u, by, file, r)
  PROVE  DocumentsInv'
<1> DEFINE m == documents[r].matter
           s == [ upload[u] EXCEPT !.pc = "checked", !.by = by, !.file = file, !.matter = m, !.replaces = r ]
<1>1. /\ upload' = [ upload EXCEPT ![u] = s ] /\ r \in Live
      /\ UNCHANGED << documents, store, matters, answers, evidence, sweep, lostSweeps >>
  BY DEF BeginResubmit, DocumentsInv, DocumentsTypeOK
<1>2. m \in OrNone(Matters)
  BY <1>1, PresentTyped DEF Live, Document, DocumentsInv
<1> HIDE DEF m
<1>3. \A x \in Session :
        LET y == [ x EXCEPT !.pc = "checked", !.by = by, !.file = file, !.matter = m, !.replaces = r ] IN
        y \in Session /\ y.pc = "checked" /\ y.by = by /\ y.file = file
  BY <1>2 DEF Session, OrNone
<1>4. s \in Session /\ s.pc = "checked" /\ s.by = by /\ s.file = file
  BY <1>3 DEF DocumentsInv, DocumentsTypeOK
<1> HIDE DEF s
<1>5. by # None /\ file # None
  BY DEF DocumentsAssumption, Uploaders
<1>6. DocumentsTypeOK'
  BY <1>1, <1>4 DEF DocumentsInv, DocumentsTypeOK
<1>7. upload'[u] = s /\ \A v \in Uploads : v # u => upload'[v] = upload[v]
  BY <1>1 DEF DocumentsInv, DocumentsTypeOK
<1>8. Closings' /\ Present' = Present /\ \A q \in Present : LongClosed(q)' = LongClosed(q)
  BY <1>1 DEF DocumentsInv, Closings, Present, LongClosed
<1> QED BY <1>1, <1>4, <1>5, <1>6, <1>7, <1>8, QuietSessions

\* The steps of a session that only move it on.
LEMMA MovesOnKeeps ==
  ASSUME DocumentsInv, NEW u \in Uploads,
         ScanUnavailable(u) \/ Remember(u) \/ Answer(u) \/ UploadDies(u)
  PROVE  DocumentsInv'
<1>1. /\ UNCHANGED << documents, store, matters, evidence, sweep, lostSweeps >>
      /\ \/ Goto(u, "scanned") /\ upload[u].pc = "inserted" /\ answers' = answers
         \/ Goto(u, "remembered") /\ upload[u].pc = "scanned" /\ answers' = answers \cup {upload[u].row}
         \/ Done(u) /\ answers' = answers
  BY DEF ScanUnavailable, Remember, Answer, UploadDies
<1>2. upload[u].pc \in {"inserted", "scanned"} => upload[u].row \in Present
  BY DEF DocumentsInv, Uploading
<1>3. /\ upload' \in [ Uploads -> Session ] /\ \A v \in Uploads : v # u => upload'[v] = upload[v]
      /\ \/ upload'[u].pc = "idle"
         \/ upload'[u].pc \in {"scanned", "remembered"} /\ upload'[u].row \in Present
  BY <1>1, <1>2, WentTo, WasDone DEF DocumentsInv
<1>4. answers' \subseteq Rows
  BY <1>1, <1>2 DEF Present, DocumentsInv, DocumentsTypeOK
<1>5. DocumentsTypeOK'
  BY <1>1, <1>3, <1>4 DEF DocumentsInv, DocumentsTypeOK
<1>6. Closings' /\ Present' = Present /\ \A q \in Present : LongClosed(q)' = LongClosed(q)
  BY <1>1 DEF DocumentsInv, Closings, Present, LongClosed
<1> QED BY <1>1, <1>3, <1>5, <1>6, QuietSessions

LEMMA StoreBytesKeeps ==
  ASSUME DocumentsInv, NEW u \in Uploads, StoreBytes(u) PROVE DocumentsInv'
<1> DEFINE k == CHOOSE k \in FreshKeys : TRUE
           s == [ upload[u] EXCEPT !.pc = "stored", !.row = k ]
<1>1. /\ upload[u].pc = "checked" /\ FreshKeys # {} /\ store' = store \cup {k}
      /\ upload' = [ upload EXCEPT ![u] = s ]
      /\ UNCHANGED << documents, matters, answers, evidence, sweep, lostSweeps >>
  BY DEF StoreBytes, DocumentsInv, DocumentsTypeOK
<1>2. k \in FreshKeys
  BY <1>1
<1> HIDE DEF k
<1>3. k \in Rows /\ k \notin Present /\ k \notin store /\ \A v \in Uploads : upload[v].row # k
  BY <1>2 DEF FreshKeys
<1>4. upload[u] \in Session
  BY DEF DocumentsInv, DocumentsTypeOK
<1>5. s \in Session
  BY <1>3, <1>4, SessionEdits
<1>6. s.pc = "stored" /\ s.row = k /\ s.by = upload[u].by /\ s.file = upload[u].file
  BY <1>4 DEF Session
<1> HIDE DEF s
<1>7. upload'[u] = s /\ \A v \in Uploads : v # u => upload'[v] = upload[v]
  BY <1>1 DEF DocumentsInv, DocumentsTypeOK
<1>8. DocumentsTypeOK'
  BY <1>1, <1>3, <1>5 DEF DocumentsInv, DocumentsTypeOK
<1>9. Present' = Present /\ Live' = Live /\ Closings' /\ (\A r \in Present : LongClosed(r)' = LongClosed(r))
      /\ \A r \in Live : r \in Present
  BY <1>1 DEF Present, Live, Closings, LongClosed, DocumentsInv
<1>10. Uploading'
  <2>1. \A v \in Uploads : upload'[v].pc = "stored" => upload'[v].row \in store' \ Present'
    BY <1>1, <1>3, <1>6, <1>7, <1>9 DEF DocumentsInv, Uploading
  <2>2. \A v \in Uploads : upload'[v].pc \in {"inserted", "purged", "scanned", "remembered", "reviewing"} =>
          upload'[v].row \in Present'
    BY <1>6, <1>7, <1>9 DEF DocumentsInv, Uploading
  <2>3. \A v \in Uploads : upload'[v].pc = "inserted" => documents'[upload'[v].row].status # "Approved"
    BY <1>1, <1>6, <1>7 DEF DocumentsInv, Uploading
  <2>4. \A v, w \in Uploads : SameRow(v, w)' => v = w
    <3> TAKE v, w \in Uploads
    <3>1. CASE v # u /\ w # u
      BY <1>7, <3>1 DEF DocumentsInv, Uploading, SameRow
    <3>2. CASE v = u \/ w = u
      BY <1>3, <1>6, <1>7, <3>2 DEF SameRow
    <3> QED BY <3>1, <3>2
  <2>5. \A v \in Uploads : upload'[v].pc \in {"checked", "stored"} => upload'[v].by # None /\ upload'[v].file # None
    BY <1>1, <1>6, <1>7 DEF DocumentsInv, Uploading
  <2> QED BY <2>1, <2>2, <2>3, <2>4, <2>5 DEF Uploading
<1>11. \A r \in Present : (Uncleared(r) => Uncleared(r)') /\ (Unkept(r)' => Unkept(r))
  BY <1>1, <1>3, <1>6, <1>7 DEF Uncleared, Unkept
<1>12. Kept'
  BY <1>1, <1>9, <1>11 DEF DocumentsInv, Kept
<1>13. Sweeping'
  BY <1>1, <1>9 DEF DocumentsInv, Sweeping, Due
<1>14. Evidenced'
  BY <1>1, <1>9 DEF DocumentsInv, Evidenced, Unevidenced
<1> QED BY <1>8, <1>9, <1>10, <1>12, <1>13, <1>14 DEF DocumentsInv

LEMMA InsertRowKeeps ==
  ASSUME DocumentsInv, NEW u \in Uploads, InsertRow(u) PROVE DocumentsInv'
<1> DEFINE s == upload[u]
           r == s.row
           d == [ by |-> s.by, file |-> s.file, matter |-> s.matter,
                  replaces |-> s.replaces, status |-> "Pending", review |-> None,
                  archived |-> FALSE, deleted |-> FALSE, old |-> FALSE ]
<1>1. CASE ~UniqueSupersedes(s.replaces)
  <2>1. Done(u) /\ UNCHANGED << documents, store, matters, answers, evidence, sweep, lostSweeps >>
    BY <1>1 DEF InsertRow
  <2>2. /\ upload' \in [ Uploads -> Session ] /\ upload'[u].pc = "idle"
        /\ \A v \in Uploads : v # u => upload'[v] = upload[v]
    BY <2>1, WasDone DEF DocumentsInv
  <2>3. DocumentsTypeOK'
    BY <2>1, <2>2 DEF DocumentsInv, DocumentsTypeOK
  <2>4. Closings' /\ Present' = Present /\ \A q \in Present : LongClosed(q)' = LongClosed(q)
    BY <2>1 DEF DocumentsInv, Closings, Present, LongClosed
  <2> QED BY <2>1, <2>2, <2>3, <2>4, QuietSessions
<1>2. CASE UniqueSupersedes(s.replaces)
  <2>1. /\ s.pc = "stored" /\ documents' = [ documents EXCEPT ![r] = d ] /\ Goto(u, "inserted")
        /\ UNCHANGED << store, matters, answers, evidence, sweep, lostSweeps >>
    BY <1>2 DEF InsertRow
  <2>2. r \in store /\ r \notin Present /\ s.by # None /\ s.file # None /\ s \in Session
    BY <2>1 DEF DocumentsInv, Uploading, DocumentsTypeOK
  <2>3. r \in Rows
    BY <2>2 DEF DocumentsInv, DocumentsTypeOK
  <2>4. s.by \in Uploaders /\ s.file \in Files /\ s.matter \in OrNone(Matters) /\ s.replaces \in OrNone(Rows)
    BY <2>2 DEF Session, OrNone
  <2>5. d \in Document
    BY <2>4 DEF Document, OrNone
  <2>6. d.status = "Pending" /\ ~d.deleted /\ d # None
    BY <2>5, NoNullDocument
  <2>7. /\ upload' \in [ Uploads -> Session ] /\ upload'[u].pc = "inserted" /\ upload'[u].row = r
        /\ \A v \in Uploads : v # u => upload'[v] = upload[v]
    BY <2>1, WentTo DEF DocumentsInv
  <2> HIDE DEF d, r, s
  <2>8. documents'[r] = d /\ \A q \in Rows : q # r => documents'[q] = documents[q]
    BY <2>1, <2>3 DEF DocumentsInv, DocumentsTypeOK
  <2>9. DocumentsTypeOK'
    BY <2>1, <2>3, <2>5, <2>7 DEF DocumentsInv, DocumentsTypeOK
  <2>10. Present' = Present \cup {r} /\ (\A q \in Present : q \in Rows /\ q # r)
         /\ (\A q \in Present : LongClosed(q)' = LongClosed(q) /\ documents'[q] = documents[q])
    BY <2>1, <2>2, <2>3, <2>6, <2>8 DEF Present, LongClosed
  <2>11. Live' = Live \cup {r} /\ \A q \in Live : q \in Present
    BY <2>6, <2>8, <2>10 DEF Live
  <2>12. \A v \in Uploads : v # u /\ upload[v].pc \in Writing => upload[v].row # r
    BY <2>1 DEF DocumentsInv, Uploading, SameRow, Writing, r, s
  <2>13. Uploading'
    <3>1. \A v \in Uploads : upload'[v].pc = "stored" => upload'[v].row \in store' \ Present'
      BY <2>1, <2>7, <2>10, <2>12 DEF DocumentsInv, Uploading, Writing
    <3>2. \A v \in Uploads : upload'[v].pc \in {"inserted", "purged", "scanned", "remembered", "reviewing"} =>
            upload'[v].row \in Present'
      BY <2>7, <2>10 DEF DocumentsInv, Uploading
    <3>3. \A v \in Uploads : upload'[v].pc = "inserted" => documents'[upload'[v].row].status # "Approved"
      BY <2>6, <2>7, <2>8, <2>10 DEF DocumentsInv, Uploading
    <3>4. \A v, w \in Uploads : SameRow(v, w)' => v = w
      <4> TAKE v, w \in Uploads
      <4>1. CASE v # u /\ w # u
        BY <2>7, <4>1 DEF DocumentsInv, Uploading, SameRow
      <4>2. CASE v = u \/ w = u
        BY <2>7, <2>12, <4>2 DEF SameRow
      <4> QED BY <4>1, <4>2
    <3>5. \A v \in Uploads : upload'[v].pc \in {"checked", "stored"} => upload'[v].by # None /\ upload'[v].file # None
      BY <2>7 DEF DocumentsInv, Uploading
    <3> QED BY <3>1, <3>2, <3>3, <3>4, <3>5 DEF Uploading
  <2>14. \A q \in Present : (Uncleared(q) => Uncleared(q)') /\ (Unkept(q)' => Unkept(q))
    BY <2>1, <2>7, <2>10 DEF Uncleared, Unkept
  <2>15. \A q \in Rows : q = r => ~Unkept(q)' /\ q \in store'
    BY <2>1, <2>2, <2>6, <2>8 DEF Unkept
  <2>16. Kept'
    BY <2>1, <2>3, <2>10, <2>11, <2>14, <2>15 DEF DocumentsInv, Kept
  <2>17. Sweeping'
    <3>1. \A q \in Present : Due(q) => Due(q)'
      BY <2>1, <2>10 DEF Due
    <3> QED BY <2>1, <2>10, <2>11, <3>1 DEF DocumentsInv, Sweeping, Due
  <2>18. Evidenced'
    <3>1. Unevidenced' = Unevidenced
      BY <2>1, <2>6, <2>8, <2>10 DEF Unevidenced
    <3> QED BY <2>1, <2>10, <3>1 DEF DocumentsInv, Evidenced
  <2>19. Closings'
    BY <2>1 DEF DocumentsInv, Closings
  <2> QED BY <2>9, <2>13, <2>16, <2>17, <2>18, <2>19 DEF DocumentsInv
<1> QED BY <1>1, <1>2

LEMMA ScanInfectedKeeps ==
  ASSUME DocumentsInv, NEW u \in Uploads, ScanInfected(u) PROVE DocumentsInv'
<1> DEFINE r == upload[u].row
<1>1. /\ upload[u].pc = "inserted" /\ store' = store \ {r} /\ Goto(u, "purged")
      /\ UNCHANGED << documents, matters, answers, evidence, sweep, lostSweeps >>
  BY DEF ScanInfected
<1>2. r \in Present /\ documents[r].status # "Approved"
  BY <1>1 DEF DocumentsInv, Uploading
<1>3. /\ upload' \in [ Uploads -> Session ] /\ upload'[u].pc = "purged" /\ upload'[u].row = r
      /\ \A v \in Uploads : v # u => upload'[v] = upload[v]
  BY <1>1, WentTo DEF DocumentsInv
<1>4. \A v \in Uploads : v # u /\ upload[v].pc \in Writing => upload[v].row # r
  BY <1>1 DEF DocumentsInv, Uploading, SameRow, Writing
<1> HIDE DEF r
<1>5. DocumentsTypeOK' /\ Closings'
  BY <1>1, <1>3 DEF DocumentsInv, DocumentsTypeOK, Closings
<1>6. Present' = Present /\ Live' = Live /\ (\A q \in Present : LongClosed(q)' = LongClosed(q))
      /\ \A q \in Live : q \in Present
  BY <1>1 DEF Present, Live, LongClosed
<1>7. Uploading'
  <2>1. \A v \in Uploads : upload'[v].pc = "stored" => upload'[v].row \in store' \ Present'
    BY <1>1, <1>3, <1>4, <1>6 DEF DocumentsInv, Uploading, Writing
  <2>2. \A v \in Uploads : upload'[v].pc \in {"inserted", "purged", "scanned", "remembered", "reviewing"} =>
          upload'[v].row \in Present'
    BY <1>2, <1>3, <1>6 DEF DocumentsInv, Uploading
  <2>3. \A v \in Uploads : upload'[v].pc = "inserted" => documents'[upload'[v].row].status # "Approved"
    BY <1>1, <1>3 DEF DocumentsInv, Uploading
  <2>4. \A v, w \in Uploads : SameRow(v, w)' => v = w
    BY <1>3 DEF DocumentsInv, Uploading, SameRow, Writing
  <2>5. \A v \in Uploads : upload'[v].pc \in {"checked", "stored"} => upload'[v].by # None /\ upload'[v].file # None
    BY <1>3 DEF DocumentsInv, Uploading
  <2> QED BY <2>1, <2>2, <2>3, <2>4, <2>5 DEF Uploading
<1>8. \A q \in Present : Uncleared(q) => Uncleared(q)'
  BY <1>1, <1>3 DEF Uncleared
<1>9. \A q \in Present : q = r => Uncleared(q)'
  BY <1>1, <1>2, <1>3, <1>4 DEF Uncleared, Writing
<1>10. Kept'
  BY <1>1, <1>6, <1>8, <1>9 DEF DocumentsInv, Kept, Unkept
<1>11. Sweeping'
  BY <1>1, <1>6 DEF DocumentsInv, Sweeping, Due
<1>12. Evidenced'
  BY <1>1, <1>6 DEF DocumentsInv, Evidenced, Unevidenced
<1> QED BY <1>5, <1>7, <1>10, <1>11, <1>12 DEF DocumentsInv

LEMMA ScanCleanKeeps ==
  ASSUME DocumentsInv, NEW u \in Uploads, ScanClean(u) PROVE DocumentsInv'
<1> DEFINE r == upload[u].row
<1>1. /\ upload[u].pc = "inserted" /\ Write(r, "status", "Approved") /\ Goto(u, "scanned")
      /\ UNCHANGED << store, matters, answers, evidence, sweep, lostSweeps >>
  BY DEF ScanClean
<1>2. r \in Present
  BY <1>1 DEF DocumentsInv, Uploading
<1>3. /\ upload' \in [ Uploads -> Session ] /\ upload'[u].pc = "scanned" /\ upload'[u].row = r
      /\ \A v \in Uploads : v # u => upload'[v] = upload[v]
  BY <1>1, WentTo DEF DocumentsInv
<1>4. \A v \in Uploads : v # u /\ upload[v].pc \in Writing => upload[v].row # r
  BY <1>1 DEF DocumentsInv, Uploading, SameRow, Writing
<1>5. ~Uncleared(r)
  BY <1>1 DEF Uncleared
<1> HIDE DEF r
<1>6. /\ documents' \in [ Rows -> Document \cup {None} ] /\ Present' = Present
      /\ documents'[r] = [ documents[r] EXCEPT !.status = "Approved" ]
      /\ \A q \in Rows : q # r => documents'[q] = documents[q]
  BY <1>1, <1>2, StatusWritten DEF DocumentsInv
<1>7. documents'[r].old = documents[r].old /\ documents'[r].matter = documents[r].matter
      /\ documents'[r].deleted = documents[r].deleted
  BY <1>2, <1>6, PresentTyped DEF Document, DocumentsInv
<1>8. DocumentsTypeOK' /\ Closings'
  BY <1>1, <1>3, <1>6 DEF DocumentsInv, DocumentsTypeOK, Closings
<1>9. \A q \in Present : /\ q \in Rows /\ LongClosed(q)' = LongClosed(q) /\ documents'[q].old = documents[q].old
                         /\ documents'[q].deleted = documents[q].deleted
  BY <1>1, <1>6, <1>7 DEF Present, LongClosed
<1>10. Live' = Live /\ \A q \in Live : q \in Present
  BY <1>6, <1>9 DEF Live
<1>11. Uploading'
  <2>1. \A v \in Uploads : upload'[v].pc = "stored" => upload'[v].row \in store' \ Present'
    BY <1>1, <1>3, <1>6 DEF DocumentsInv, Uploading
  <2>2. \A v \in Uploads : upload'[v].pc \in {"inserted", "purged", "scanned", "remembered", "reviewing"} =>
          upload'[v].row \in Present'
    BY <1>2, <1>3, <1>6 DEF DocumentsInv, Uploading
  <2>3. \A v \in Uploads : upload'[v].pc = "inserted" => documents'[upload'[v].row].status # "Approved"
    <3> SUFFICES ASSUME NEW v \in Uploads, upload'[v].pc = "inserted"
                 PROVE  documents'[upload'[v].row].status # "Approved"
      OBVIOUS
    <3>1. v # u /\ upload'[v] = upload[v] /\ upload[v].row # r /\ upload[v].row \in Present
      BY <1>3, <1>4 DEF DocumentsInv, Uploading, Writing
    <3> QED BY <1>6, <1>9, <3>1 DEF DocumentsInv, Uploading
  <2>4. \A v, w \in Uploads : SameRow(v, w)' => v = w
    BY <1>3 DEF DocumentsInv, Uploading, SameRow, Writing
  <2>5. \A v \in Uploads : upload'[v].pc \in {"checked", "stored"} => upload'[v].by # None /\ upload'[v].file # None
    BY <1>3 DEF DocumentsInv, Uploading
  <2> QED BY <2>1, <2>2, <2>3, <2>4, <2>5 DEF Uploading
<1>12. \A q \in Present : (q # r /\ Uncleared(q) => Uncleared(q)') /\ Unkept(q)' = Unkept(q)
  BY <1>1, <1>3, <1>6, <1>9 DEF Uncleared, Unkept
<1>13. Kept'
  BY <1>1, <1>5, <1>6, <1>9, <1>10, <1>12 DEF DocumentsInv, Kept
<1>14. Sweeping'
  BY <1>1, <1>6, <1>9, <1>10 DEF DocumentsInv, Sweeping, Due
<1>15. Evidenced'
  <2>1. Unevidenced' = Unevidenced
    BY <1>1, <1>6, <1>9 DEF Unevidenced
  <2> QED BY <1>1, <1>6, <1>9, <2>1 DEF DocumentsInv, Evidenced
<1> QED BY <1>8, <1>11, <1>13, <1>14, <1>15 DEF DocumentsInv

LEMMA QuarantineKeeps ==
  ASSUME DocumentsInv, NEW u \in Uploads, Quarantine(u) PROVE DocumentsInv'
<1> DEFINE r == upload[u].row
<1>1. /\ upload[u].pc = "purged" /\ Write(r, "status", "Rejected") /\ Done(u)
      /\ UNCHANGED << store, matters, answers, evidence, sweep, lostSweeps >>
  BY DEF Quarantine
<1>2. r \in Present
  BY <1>1 DEF DocumentsInv, Uploading
<1>3. /\ upload' \in [ Uploads -> Session ] /\ upload'[u].pc = "idle"
      /\ \A v \in Uploads : v # u => upload'[v] = upload[v]
  BY <1>1, WasDone DEF DocumentsInv
<1> HIDE DEF r
<1>4. /\ documents' \in [ Rows -> Document \cup {None} ] /\ Present' = Present
      /\ documents'[r] = [ documents[r] EXCEPT !.status = "Rejected" ]
      /\ \A q \in Rows : q # r => documents'[q] = documents[q]
  BY <1>1, <1>2, StatusWritten DEF DocumentsInv
<1>5. documents'[r].old = documents[r].old /\ documents'[r].matter = documents[r].matter
      /\ documents'[r].deleted = documents[r].deleted /\ documents'[r].status = "Rejected"
  BY <1>2, <1>4, PresentTyped DEF Document, DocumentsInv
<1>6. DocumentsTypeOK' /\ Closings'
  BY <1>1, <1>3, <1>4 DEF DocumentsInv, DocumentsTypeOK, Closings
<1>7. \A q \in Present : /\ LongClosed(q)' = LongClosed(q) /\ documents'[q].old = documents[q].old
                         /\ documents'[q].deleted = documents[q].deleted
                         /\ documents'[q].status \in {documents[q].status, "Rejected"}
  BY <1>1, <1>4, <1>5 DEF Present, LongClosed
<1> QED BY <1>1, <1>3, <1>4, <1>6, <1>7, QuietSessions

LEMMA BeginReviewKeeps ==
  ASSUME DocumentsInv, NEW u \in Uploads, NEW r \in Rows, NEW verdict \in Verdicts, BeginReview(u, r, verdict)
  PROVE  DocumentsInv'
<1> DEFINE s == [ upload[u] EXCEPT !.pc = "reviewing", !.row = r, !.verdict = verdict ]
<1>1. /\ upload' = [ upload EXCEPT ![u] = s ] /\ r \in Live
      /\ UNCHANGED << documents, store, matters, answers, evidence, sweep, lostSweeps >>
  BY DEF BeginReview, DocumentsInv, DocumentsTypeOK
<1>2. \A x \in Session : LET y == [ x EXCEPT !.pc = "reviewing", !.row = r, !.verdict = verdict ] IN
        y \in Session /\ y.pc = "reviewing" /\ y.row = r
  BY DEF Session, OrNone
<1>3. s \in Session /\ s.pc = "reviewing" /\ s.row = r
  BY <1>2 DEF DocumentsInv, DocumentsTypeOK
<1> HIDE DEF s
<1>4. DocumentsTypeOK' /\ r \in Present
  BY <1>1, <1>3 DEF DocumentsInv, DocumentsTypeOK, Live
<1>5. upload'[u] = s /\ \A v \in Uploads : v # u => upload'[v] = upload[v]
  BY <1>1 DEF DocumentsInv, DocumentsTypeOK
<1>6. Closings' /\ Present' = Present /\ \A q \in Present : LongClosed(q)' = LongClosed(q)
  BY <1>1 DEF DocumentsInv, Closings, Present, LongClosed
<1> QED BY <1>1, <1>3, <1>4, <1>5, <1>6, QuietSessions

LEMMA WriteReviewKeeps ==
  ASSUME DocumentsInv, NEW u \in Uploads, WriteReview(u) PROVE DocumentsInv'
<1> DEFINE r == upload[u].row
           d == [ documents[r] EXCEPT !.review = upload[u].verdict ]
<1>1. /\ upload[u].pc = "reviewing" /\ documents' = [ documents EXCEPT ![r] = d ] /\ Done(u)
      /\ UNCHANGED << store, matters, answers, evidence, sweep, lostSweeps >>
  BY DEF WriteReview, Write
<1>2. r \in Present /\ upload[u].verdict \in OrNone(Verdicts)
  BY <1>1 DEF DocumentsInv, Uploading, DocumentsTypeOK, Session, OrNone
<1>3. /\ upload' \in [ Uploads -> Session ] /\ upload'[u].pc = "idle"
      /\ \A v \in Uploads : v # u => upload'[v] = upload[v]
  BY <1>1, WasDone DEF DocumentsInv
<1> HIDE DEF r
<1>4. d \in Document /\ documents[r] \in Document
  BY <1>2, PresentTyped, DocumentEdits DEF DocumentsInv
<1>5. d.old = documents[r].old /\ d.matter = documents[r].matter
      /\ d.deleted = documents[r].deleted /\ d.status = documents[r].status
  BY <1>4 DEF Document
<1> HIDE DEF d
<1>6. /\ documents' \in [ Rows -> Document \cup {None} ] /\ Present' = Present
      /\ documents'[r] = d /\ \A q \in Rows : q # r => documents'[q] = documents[q]
  BY <1>1, <1>2, <1>4, Written DEF DocumentsInv
<1>7. DocumentsTypeOK' /\ Closings'
  BY <1>1, <1>3, <1>6 DEF DocumentsInv, DocumentsTypeOK, Closings
<1>8. \A q \in Present : /\ LongClosed(q)' = LongClosed(q) /\ documents'[q].old = documents[q].old
                         /\ documents'[q].deleted = documents[q].deleted
                         /\ documents'[q].status \in {documents[q].status, "Rejected"}
  BY <1>1, <1>5, <1>6 DEF Present, LongClosed
<1> QED BY <1>1, <1>3, <1>6, <1>7, <1>8, QuietSessions

\* What is done to the rows and to the applications between the sessions.
LEMMA QuietMatters ==
  ASSUME DocumentsInv, DocumentsTypeOK', Closings', UNCHANGED << store, evidence, upload, sweep, lostSweeps >>,
         Present' = Present,
         \A r \in Present : /\ documents'[r].deleted = documents[r].deleted
                            /\ documents'[r].status \in {documents[r].status, "Rejected"}
                            /\ documents[r].old => documents'[r].old
                            /\ LongClosed(r) => LongClosed(r)'
  PROVE  DocumentsInv'
<1>1. CASE Uploads = {}
  <2>1. Sweeping' /\ Kept' /\ Evidenced'
    BY <1>1, Quiet
  <2>2. Uploading'
    BY <1>1 DEF Uploading
  <2> QED BY <2>1, <2>2 DEF DocumentsInv
<1>2. CASE Uploads # {}
  <2>1. PICK u \in Uploads : TRUE
    BY <1>2
  <2>2. \A v \in Uploads : upload'[v] = upload[v]
    OBVIOUS
  <2> QED BY <2>1, <2>2, QuietSessions
<1> QED BY <1>1, <1>2

\* Rows that are there are changed each on its own.
LEMMA Rewritten ==
  ASSUME DocumentsTypeOK, NEW rows \in SUBSET Present, documents' = [ r \in Rows |-> documents'[r] ],
         \A r \in rows : documents'[r] \in Document,
         \A r \in Rows \ rows : documents'[r] = documents[r]
  PROVE  documents' \in [ Rows -> Document \cup {None} ] /\ Present' = Present
<1>1. \A r \in rows : r \in Rows /\ documents[r] # None /\ documents'[r] # None
  BY NoNullDocument DEF Present
<1>2. \A r \in Rows : documents'[r] \in Document \cup {None}
  BY DEF DocumentsTypeOK
<1>3. \A r \in Rows : documents'[r] # None <=> documents[r] # None
  BY <1>1
<1> QED BY <1>2, <1>3 DEF Present

LEMMA SetArchivedKeeps ==
  ASSUME DocumentsInv, NEW by, NEW file, NEW archived \in BOOLEAN, SetArchived(by, file, archived)
  PROVE  DocumentsInv'
<1> DEFINE copies == { r \in Live : /\ documents[r].by = by /\ documents[r].file = file
                                   /\ documents[r].archived # archived }
           Edit(r) == [ documents[r] EXCEPT !.archived = archived ]
<1>1. /\ documents' = [ r \in Rows |-> IF r \in copies THEN Edit(r) ELSE documents[r] ]
      /\ UNCHANGED << store, matters, answers, evidence, upload, sweep, lostSweeps >>
  BY DEF SetArchived
<1>2. copies \in SUBSET Present
  BY DEF Live
<1>3. \A r \in copies : documents[r] \in Document /\ Edit(r) \in Document
  BY <1>2, PresentTyped, DocumentEdits DEF DocumentsInv
<1>4. \A r \in copies : /\ Edit(r).old = documents[r].old /\ Edit(r).matter = documents[r].matter
                        /\ Edit(r).deleted = documents[r].deleted /\ Edit(r).status = documents[r].status
  BY <1>3 DEF Document
<1> HIDE DEF copies, Edit
<1>5. /\ documents' \in [ Rows -> Document \cup {None} ] /\ Present' = Present
      /\ \A r \in copies : documents'[r] = Edit(r)
      /\ \A r \in Rows \ copies : documents'[r] = documents[r]
  <2>1. /\ \A r \in copies : r \in Rows /\ documents'[r] = Edit(r)
        /\ \A r \in Rows \ copies : documents'[r] = documents[r]
        /\ documents' = [ r \in Rows |-> documents'[r] ]
    BY <1>1, <1>2 DEF Present
  <2> QED BY <1>2, <1>3, <2>1, Rewritten DEF DocumentsInv
<1>6. DocumentsTypeOK' /\ Closings'
  BY <1>1, <1>5 DEF DocumentsInv, DocumentsTypeOK, Closings
<1>7. \A q \in Present : /\ LongClosed(q)' = LongClosed(q) /\ documents'[q].old = documents[q].old
                         /\ documents'[q].deleted = documents[q].deleted
                         /\ documents'[q].status \in {documents[q].status, "Rejected"}
  BY <1>1, <1>4, <1>5 DEF Present, LongClosed
<1> QED BY <1>1, <1>5, <1>6, <1>7, QuietMatters

LEMMA AttachKeeps ==
  ASSUME DocumentsAssumption, DocumentsInv, NEW m \in Matters, NEW by \in Citizens, NEW rows \in SUBSET Rows,
         NEW phase \in {"draft", "open"}, Attach(m, by, rows, phase)
  PROVE  DocumentsInv'
<1> DEFINE Edit(r) == [ documents[r] EXCEPT !.matter = m ]
           k == [ matters[m] EXCEPT !.phase = phase ]
<1>1. /\ rows \subseteq Attachable(by)
      /\ matters' = [ matters EXCEPT ![m] = k ]
      /\ documents' = [ r \in Rows |-> IF r \in rows THEN Edit(r) ELSE documents[r] ]
      /\ UNCHANGED << store, answers, evidence, upload, sweep, lostSweeps >>
  BY DEF Attach
<1>2. rows \in SUBSET Present /\ \A r \in rows : documents[r].matter = None
  BY <1>1 DEF Attachable, Live
<1>3. \A r \in rows : documents[r] \in Document /\ Edit(r) \in Document
  BY <1>2, PresentTyped, DocumentEdits DEF DocumentsInv, OrNone
<1>4. \A r \in rows : /\ Edit(r).old = documents[r].old
                      /\ Edit(r).deleted = documents[r].deleted /\ Edit(r).status = documents[r].status
  BY <1>3 DEF Document
<1>5. k \in Matter /\ k.phase = phase /\ k.closings = matters[m].closings
  <2>1. matters[m] \in Matter
    BY DEF DocumentsInv, DocumentsTypeOK
  <2> QED BY <2>1 DEF Matter
<1> HIDE DEF Edit, k
<1>6. /\ documents' \in [ Rows -> Document \cup {None} ] /\ Present' = Present
      /\ \A r \in rows : documents'[r] = Edit(r)
      /\ \A r \in Rows \ rows : documents'[r] = documents[r]
  <2>1. /\ \A r \in rows : r \in Rows /\ documents'[r] = Edit(r)
        /\ \A r \in Rows \ rows : documents'[r] = documents[r]
        /\ documents' = [ r \in Rows |-> documents'[r] ]
    BY <1>1, <1>2 DEF Present
  <2> QED BY <1>2, <1>3, <2>1, Rewritten DEF DocumentsInv
<1>7. matters' \in [ Matters -> Matter ] /\ \A x \in Matters : matters'[x].closings = matters[x].closings
      /\ (x # m => matters'[x] = matters[x])
  BY <1>1, <1>5 DEF DocumentsInv, DocumentsTypeOK
<1>8. matters'[m].phase = phase
  BY <1>1, <1>5 DEF DocumentsInv, DocumentsTypeOK
<1>9. Closings'
  BY <1>7, <1>8 DEF DocumentsInv, Closings
<1>10. DocumentsTypeOK'
  BY <1>1, <1>6, <1>7 DEF DocumentsInv, DocumentsTypeOK
<1>11. \A q \in Present : LongClosed(q) => LongClosed(q)'
  <2> SUFFICES ASSUME NEW q \in Present, LongClosed(q) PROVE LongClosed(q)'
    OBVIOUS
  <2>1. q \notin rows /\ q \in Rows
    BY <1>2 DEF LongClosed, Present
  <2>2. documents'[q] = documents[q] /\ documents[q].matter \in Matters
    BY <1>6, <2>1, PresentTyped DEF LongClosed, Document, OrNone, DocumentsInv
  <2> QED BY <1>7, <2>2 DEF LongClosed
<1>12. \A q \in Present : /\ documents'[q].old = documents[q].old
                          /\ documents'[q].deleted = documents[q].deleted
                          /\ documents'[q].status \in {documents[q].status, "Rejected"}
  BY <1>4, <1>6 DEF Present
<1> QED BY <1>1, <1>6, <1>9, <1>10, <1>11, <1>12, QuietMatters

LEMMA MoveKeeps ==
  ASSUME DocumentsInv, NEW m \in Matters, NEW phase \in {"open", "closed"}, Move(m, phase) PROVE DocumentsInv'
<1> DEFINE closings == IF phase = "closed" THEN matters[m].closings \cup {"recent"} ELSE matters[m].closings
           k == [ matters[m] EXCEPT !.phase = phase, !.closings = closings ]
<1>1. /\ matters' = [ matters EXCEPT ![m] = k ] /\ matters[m] \in Matter
      /\ UNCHANGED << documents, store, answers, evidence, upload, sweep, lostSweeps >>
  BY DEF Move, DocumentsInv, DocumentsTypeOK
<1>2. closings \in SUBSET {"recent", "long ago"}
  BY <1>1 DEF Matter
<1>3. matters[m].closings \subseteq closings /\ (phase = "closed" => closings # {})
  OBVIOUS
<1> HIDE DEF closings
<1>4. k \in Matter /\ k.phase = phase /\ k.closings = closings
  BY <1>1, <1>2 DEF Matter
<1> HIDE DEF k
<1>5. /\ matters' \in [ Matters -> Matter ] /\ \A x \in Matters : matters[x].closings \subseteq matters'[x].closings
      /\ matters'[m] = k /\ \A x \in Matters : x # m => matters'[x] = matters[x]
  BY <1>1, <1>3, <1>4 DEF DocumentsInv, DocumentsTypeOK
<1>6. Closings' /\ DocumentsTypeOK'
  BY <1>1, <1>3, <1>4, <1>5 DEF DocumentsInv, Closings, DocumentsTypeOK
<1>7. \A q \in Present : LongClosed(q) => LongClosed(q)'
  BY <1>1, <1>5, PresentTyped DEF LongClosed, Document, OrNone, DocumentsInv
<1>8. Present' = Present
  BY <1>1 DEF Present
<1> QED BY <1>1, <1>6, <1>7, <1>8, QuietMatters

LEMMA PeriodPassesKeeps ==
  ASSUME DocumentsInv, PeriodPasses PROVE DocumentsInv'
<1> DEFINE Edit(r) == [ documents[r] EXCEPT !.old = TRUE ]
           closings(m) == IF matters[m].closings = {} THEN {} ELSE {"long ago"}
           k(m) == [ matters[m] EXCEPT !.closings = closings(m) ]
<1>1. /\ documents' = [ r \in Rows |-> IF r \in Present THEN Edit(r) ELSE None ]
      /\ matters' = [ m \in Matters |-> k(m) ]
      /\ UNCHANGED << store, answers, evidence, upload, sweep, lostSweeps >>
  BY DEF PeriodPasses
<1>2. \A r \in Present : documents[r] \in Document /\ Edit(r) \in Document
  BY PresentTyped, DocumentEdits DEF DocumentsInv
<1>3. \A r \in Present : /\ Edit(r).old /\ Edit(r).matter = documents[r].matter
                         /\ Edit(r).deleted = documents[r].deleted /\ Edit(r).status = documents[r].status
  BY <1>2 DEF Document
<1>4. documents' = [ r \in Rows |-> IF r \in Present THEN Edit(r) ELSE documents[r] ]
  BY <1>1 DEF Present
<1>5. \A m \in Matters : /\ k(m) \in Matter /\ k(m).phase = matters[m].phase
                         /\ k(m).closings = closings(m)
  <2> TAKE m \in Matters
  <2>1. matters[m] \in Matter
    BY DEF DocumentsInv, DocumentsTypeOK
  <2>2. closings(m) \in SUBSET {"recent", "long ago"}
    OBVIOUS
  <2> HIDE DEF closings
  <2> QED BY <2>1, <2>2 DEF Matter
<1>6. \A m \in Matters : /\ closings(m) = {} => matters[m].closings = {}
                         /\ "long ago" \in matters[m].closings => "long ago" \in closings(m)
  OBVIOUS
<1> HIDE DEF Edit, closings, k
<1>7. /\ documents' \in [ Rows -> Document \cup {None} ] /\ Present' = Present
      /\ \A r \in Present : documents'[r] = Edit(r)
  <2>1. /\ \A r \in Present : documents'[r] = Edit(r)
        /\ \A r \in Rows \ Present : documents'[r] = documents[r]
        /\ documents' = [ r \in Rows |-> documents'[r] ]
    BY <1>4 DEF Present
  <2> QED BY <1>2, <2>1, Rewritten DEF DocumentsInv
<1>8. matters' \in [ Matters -> Matter ] /\ \A m \in Matters : matters'[m] = k(m)
  BY <1>1, <1>5
<1>9. Closings' /\ DocumentsTypeOK'
  BY <1>1, <1>5, <1>6, <1>7, <1>8 DEF DocumentsInv, Closings, DocumentsTypeOK
<1>10. \A q \in Present : LongClosed(q) => LongClosed(q)'
  <2> SUFFICES ASSUME NEW q \in Present, LongClosed(q) PROVE LongClosed(q)'
    OBVIOUS
  <2>1. documents'[q].matter = documents[q].matter /\ documents[q].matter \in Matters
    BY <1>3, <1>7, PresentTyped DEF LongClosed, Document, OrNone, DocumentsInv
  <2>2. "long ago" \in matters'[documents[q].matter].closings
    BY <1>5, <1>6, <1>8, <2>1 DEF LongClosed
  <2> QED BY <2>1, <2>2 DEF LongClosed
<1> QED BY <1>1, <1>3, <1>7, <1>9, <1>10, QuietMatters

-----------------------------------------------------------------------------
\* The retention run.

LEMMA NothingAtRest ==
  ASSUME DocumentsInv
  PROVE  /\ sweep.at = "idle" => sweep.row = None
         /\ sweep.row = None => ~sweep.gone
         /\ sweep.row # None => sweep.row \in Present
BY DEF DocumentsInv, Sweeping, Due

\* The run takes a list, of a phase, or ends: it holds no row.
LEMMA TakesKeeps ==
  ASSUME DocumentsAssumption, DocumentsInv, SweepClosed \/ SweepAbandoned \/ SweepEnds PROVE DocumentsInv'
<1>1. UNCHANGED << documents, store, matters, answers, evidence, upload, lostSweeps >> /\ sweep.row = None
  BY NothingAtRest DEF SweepClosed, SweepAbandoned, SweepEnds
<1>2. /\ sweep' \in Sweep /\ sweep'.row = None /\ ~sweep'.gone
      /\ \/ sweep'.at = "closed" /\ sweep'.todo = Eligible
         \/ sweep'.at = "abandoned" /\ sweep'.todo = Abandoned
         \/ sweep'.at = "idle" /\ sweep'.todo = {}
  <2>1. Eligible \in SUBSET Rows /\ Abandoned \in SUBSET Rows
    BY DEF Eligible, Abandoned, Live, Present
  <2> HIDE DEF Eligible, Abandoned
  <2>2. CASE SweepClosed
    BY <2>1, <2>2 DEF SweepClosed, NoSweep, Sweep, OrNone
  <2>3. CASE SweepAbandoned
    BY <2>1, <2>3 DEF SweepAbandoned, NoSweep, Sweep, OrNone
  <2>4. CASE SweepEnds
    BY <2>4 DEF SweepEnds, NoSweep, Sweep, OrNone
  <2> QED BY <2>2, <2>3, <2>4
<1>3. Present' = Present /\ Live' = Live /\ (\A q \in Present : LongClosed(q)' = LongClosed(q))
      /\ \A q \in Live : q \in Present /\ q \in Rows
  BY <1>1 DEF Present, Live, LongClosed
<1>4. \A q \in Eligible : q \in Live /\ LongClosed(q)
  <2> SUFFICES ASSUME NEW q \in Eligible PROVE q \in Live /\ LongClosed(q)
    OBVIOUS
  <2> DEFINE m == documents[q].matter
  <2>1. q \in Live /\ m # None /\ matters[m].phase = "closed" /\ "recent" \notin matters[m].closings
    BY DEF Eligible
  <2>2. m \in Matters
    BY <1>3, <2>1, PresentTyped DEF Document, OrNone, DocumentsInv
  <2> HIDE DEF m
  <2>3. matters[m].closings # {} /\ matters[m].closings \subseteq {"recent", "long ago"}
    BY <2>1, <2>2 DEF DocumentsInv, Closings, DocumentsTypeOK, Matter
  <2>4. "long ago" \in matters[m].closings
    BY <2>1, <2>3
  <2> QED BY <2>1, <2>4 DEF LongClosed, m
<1>5. \A q \in Abandoned : q \in Live /\ documents[q].old
  BY DEF Abandoned
<1>6. Sweeping'
  <2>1. \A q \in sweep'.todo : q \in Live' /\ Due(q)' /\ q # sweep'.row
    BY <1>1, <1>2, <1>3, <1>4, <1>5 DEF Due, DocumentsAssumption
  <2> QED BY <1>2, <2>1 DEF Sweeping
<1>7. Uploading'
  BY <1>1, <1>3 DEF DocumentsInv, Uploading, SameRow
<1>8. Kept'
  BY <1>1, <1>2, <1>3 DEF DocumentsInv, Kept, Unkept, Uncleared
<1>9. Evidenced'
  <2>1. ~sweep.gone /\ Unevidenced' = Unevidenced
    BY <1>1, <1>3, NothingAtRest DEF Unevidenced
  <2> QED BY <1>1, <1>2, <1>3, <2>1 DEF DocumentsInv, Evidenced
<1>10. Closings' /\ DocumentsTypeOK'
  BY <1>1, <1>2 DEF DocumentsInv, Closings, DocumentsTypeOK
<1> QED BY <1>6, <1>7, <1>8, <1>9, <1>10 DEF DocumentsInv

LEMMA SweepDiesKeeps ==
  ASSUME DocumentsAssumption, DocumentsInv, SweepDies PROVE DocumentsInv'
<1>1. UNCHANGED << documents, store, matters, answers, evidence, upload >> /\ lostSweeps' = lostSweeps + 1
  BY DEF SweepDies
<1>2. sweep' \in Sweep /\ sweep'.row = None /\ ~sweep'.gone /\ sweep'.todo = {}
  BY DEF SweepDies, NoSweep, Sweep, OrNone
<1>3. lostSweeps \in Nat
  BY DEF DocumentsInv, DocumentsTypeOK
<1>4. Present' = Present /\ Live' = Live /\ (\A q \in Present : LongClosed(q)' = LongClosed(q))
      /\ \A q \in Live : q \in Present /\ q \in Rows
  BY <1>1 DEF Present, Live, LongClosed
<1>5. Sweeping'
  BY <1>2 DEF Sweeping
<1>6. Uploading'
  BY <1>1, <1>4 DEF DocumentsInv, Uploading, SameRow
<1>7. Kept'
  BY <1>1, <1>3, <1>4 DEF DocumentsInv, Kept, Unkept, Uncleared
<1>8. Evidenced'
  <2>1. Unevidenced' = Unevidenced
    BY <1>1, <1>4 DEF Unevidenced
  <2>2. IsFiniteSet(Unevidenced)
    <3>1. Unevidenced \subseteq Rows
      BY DEF Unevidenced, Present
    <3> QED BY <3>1, FS_Subset DEF DocumentsAssumption
  <2>3. Cardinality(Unevidenced) \in Nat
    BY <2>2, FS_CardinalityType
  <2>4. Cardinality(Unevidenced) <= lostSweeps + (IF sweep.gone THEN 1 ELSE 0)
    BY DEF DocumentsInv, Evidenced
  <2>5. Cardinality(Unevidenced) <= lostSweeps + 1
    BY <1>3, <2>3, <2>4
  <2>6. Cardinality(Unevidenced') <= lostSweeps' + (IF sweep'.gone THEN 1 ELSE 0)
    BY <1>1, <1>2, <1>3, <2>1, <2>3, <2>5
  <2>7. \A r \in evidence' : r \in Present' /\ documents'[r].deleted
    BY <1>1, <1>4 DEF DocumentsInv, Evidenced
  <2> QED BY <2>6, <2>7 DEF Evidenced
<1>9. Closings' /\ DocumentsTypeOK'
  BY <1>1, <1>2, <1>3 DEF DocumentsInv, Closings, DocumentsTypeOK
<1> QED BY <1>5, <1>6, <1>7, <1>8, <1>9 DEF DocumentsInv

LEMMA DeleteBytesKeeps ==
  ASSUME DocumentsAssumption, DocumentsInv, NEW r \in Rows, DeleteBytes(r) PROVE DocumentsInv'
<1>1. /\ r \in sweep.todo /\ sweep.row = None /\ store' = store \ {r}
      /\ UNCHANGED << documents, matters, answers, evidence, upload, lostSweeps >>
  BY DEF DeleteBytes
<1>2. sweep \in Sweep
  BY DEF DocumentsInv, DocumentsTypeOK
<1>3. sweep' \in Sweep /\ sweep'.at = sweep.at /\ sweep'.todo = sweep.todo \ {r} /\ sweep'.row = r
      /\ sweep'.gone = sweep.gone
  BY <1>2 DEF DeleteBytes, Sweep, OrNone
<1>4. Present' = Present /\ Live' = Live /\ (\A q \in Present : LongClosed(q)' = LongClosed(q))
      /\ \A q \in Live : q \in Present /\ q \in Rows
  BY <1>1 DEF Present, Live, LongClosed
<1>5. Due(r) /\ r \in Live /\ ~sweep.gone /\ r # None
  BY <1>1, NothingAtRest DEF DocumentsInv, Sweeping, DocumentsAssumption
<1>6. \A q \in Present : Due(q) => Due(q)'
  BY <1>1, <1>3, <1>4 DEF Due
<1>7. r \notin evidence /\ ~documents[r].deleted
  BY <1>5 DEF DocumentsInv, Evidenced, Live
<1>8. Sweeping'
  <2>1. documents'[sweep'.row].deleted = sweep'.gone
    <3>1. documents[r].deleted \in BOOLEAN /\ sweep.gone \in BOOLEAN
      BY <1>2, <1>4, <1>5, PresentTyped DEF Document, Sweep, DocumentsInv
    <3> QED BY <1>1, <1>3, <1>5, <1>7, <3>1
  <2>2. \A q \in sweep'.todo : Due(q)' /\ q \in Live' /\ q # sweep'.row
    BY <1>3, <1>4, <1>6 DEF DocumentsInv, Sweeping
  <2>3. Due(sweep.row)' /\ sweep'.row \notin evidence' /\ sweep'.row # None
    BY <1>1, <1>3, <1>4, <1>5, <1>6, <1>7
  <2> QED BY <2>1, <2>2, <2>3 DEF Sweeping
<1>9. Uploading'
  <2>1. \A v \in Uploads : upload'[v].pc = "stored" => upload'[v].row \in store' \ Present'
    BY <1>1, <1>4, <1>5 DEF DocumentsInv, Uploading
  <2> QED BY <1>1, <1>4, <2>1 DEF DocumentsInv, Uploading, SameRow
<1>10. documents[r].old \/ LongClosed(r)
  BY <1>2, <1>5 DEF Due, Sweep
<1>11. Kept'
  BY <1>1, <1>3, <1>4, <1>10 DEF DocumentsInv, Kept, Unkept, Uncleared
<1>12. Evidenced'
  <2>1. Unevidenced' = Unevidenced
    BY <1>1, <1>4 DEF Unevidenced
  <2> QED BY <1>1, <1>3, <1>4, <2>1 DEF DocumentsInv, Evidenced
<1>13. Closings' /\ DocumentsTypeOK'
  BY <1>1, <1>3 DEF DocumentsInv, Closings, DocumentsTypeOK
<1> QED BY <1>8, <1>9, <1>11, <1>12, <1>13 DEF DocumentsInv

LEMMA MarkDeletedKeeps ==
  ASSUME DocumentsAssumption, DocumentsInv, MarkDeleted PROVE DocumentsInv'
<1> DEFINE r == sweep.row
           d == [ documents[r] EXCEPT !.deleted = TRUE ]
<1>1. /\ r # None /\ ~sweep.gone /\ documents' = [ documents EXCEPT ![r] = d ]
      /\ UNCHANGED << store, matters, answers, evidence, upload, lostSweeps >>
  BY DEF MarkDeleted, Write
<1>2. sweep \in Sweep /\ lostSweeps \in Nat
  BY DEF DocumentsInv, DocumentsTypeOK
<1>3. sweep' \in Sweep /\ sweep'.at = sweep.at /\ sweep'.todo = sweep.todo /\ sweep'.row = r /\ sweep'.gone
  BY <1>2 DEF MarkDeleted, Sweep
<1>4. Due(r) /\ r \in Present /\ r \notin evidence /\ r \notin sweep.todo
  BY <1>1 DEF DocumentsInv, Sweeping, Due
<1>5. documents[r].old \/ LongClosed(r)
  BY <1>2, <1>4 DEF Due, Sweep
<1> HIDE DEF r
<1>6. documents[r] \in Document /\ d \in Document
  BY <1>4, PresentTyped, DocumentEdits DEF DocumentsInv
<1>7. d.deleted /\ d.old = documents[r].old /\ d.matter = documents[r].matter /\ d.status = documents[r].status
  BY <1>6 DEF Document
<1> HIDE DEF d
<1>8. /\ documents' \in [ Rows -> Document \cup {None} ] /\ Present' = Present
      /\ documents'[r] = d /\ \A q \in Rows : q # r => documents'[q] = documents[q]
  BY <1>1, <1>4, <1>6, Written DEF DocumentsInv
<1>9. \A q \in Present : /\ q \in Rows /\ LongClosed(q)' = LongClosed(q) /\ documents'[q].old = documents[q].old
                         /\ documents'[q].status = documents[q].status
                         /\ q # r => documents'[q] = documents[q]
  BY <1>1, <1>7, <1>8 DEF Present, LongClosed
<1>10. Live' = Live \ {r} /\ \A q \in Live : q \in Present
  BY <1>7, <1>8, <1>9 DEF Live
<1>11. \A q \in Present : Due(q) => Due(q)'
  BY <1>3, <1>8, <1>9 DEF Due
<1>12. Sweeping'
  <2>1. \A q \in sweep'.todo : Due(q)' /\ q \in Live' /\ q # sweep'.row
    BY <1>3, <1>4, <1>10, <1>11 DEF DocumentsInv, Sweeping
  <2>2. sweep'.row # None => Due(sweep.row)' /\ sweep'.row \notin evidence'
    BY <1>1, <1>3, <1>4, <1>11
  <2>3. documents'[sweep'.row].deleted = sweep'.gone
    <3>1. documents'[r].deleted \in BOOLEAN
      BY <1>6, <1>8 DEF Document
    <3> QED BY <1>3, <1>7, <1>8, <3>1
  <2> QED BY <1>1, <1>3, <2>1, <2>2, <2>3 DEF Sweeping
<1>13. Uploading'
  <2>1. \A v \in Uploads : upload'[v].pc = "stored" => upload'[v].row \in store' \ Present'
    BY <1>1, <1>8 DEF DocumentsInv, Uploading
  <2>2. \A v \in Uploads : upload'[v].pc = "inserted" => documents'[upload'[v].row].status # "Approved"
    BY <1>1, <1>9 DEF DocumentsInv, Uploading
  <2> QED BY <1>1, <1>8, <2>1, <2>2 DEF DocumentsInv, Uploading, SameRow
<1>14. Kept'
  <2>1. \A q \in Present : Uncleared(q) => Uncleared(q)'
    BY <1>1, <1>9 DEF Uncleared
  <2>2. \A q \in Present : Unkept(q)' => Unkept(q) \/ q = r
    BY <1>1, <1>9 DEF Unkept
  <2>3. \A q \in Present' : Unkept(q)' => documents'[q].old \/ LongClosed(q)' \/ Uncleared(q)'
    BY <1>5, <1>8, <1>9, <2>1, <2>2 DEF DocumentsInv, Kept
  <2>4. \A q \in Live' : q \notin store' => q = sweep'.row \/ lostSweeps' > 0 \/ Uncleared(q)'
    BY <1>1, <1>3, <1>10, <2>1 DEF DocumentsInv, Kept, r
  <2> QED BY <2>3, <2>4 DEF Kept
<1>15. Evidenced'
  <2>1. Unevidenced' = Unevidenced \cup {r}
    BY <1>1, <1>4, <1>7, <1>8, <1>9 DEF Unevidenced
  <2>2. IsFiniteSet(Unevidenced)
    <3>1. Unevidenced \subseteq Rows
      BY DEF Unevidenced, Present
    <3> QED BY <3>1, FS_Subset DEF DocumentsAssumption
  <2>3. Cardinality(Unevidenced) \in Nat /\ Cardinality(Unevidenced \cup {r}) <= Cardinality(Unevidenced) + 1
    <3>1. Cardinality(Unevidenced) \in Nat
      BY <2>2, FS_CardinalityType
    <3>2. \/ Cardinality(Unevidenced \cup {r}) = Cardinality(Unevidenced)
          \/ Cardinality(Unevidenced \cup {r}) = Cardinality(Unevidenced) + 1
      BY <2>2, FS_AddElement
    <3> QED BY <3>1, <3>2
  <2>4. Cardinality(Unevidenced \cup {r}) \in Nat
    BY <2>2, FS_CardinalityType, FS_AddElement
  <2>5. Cardinality(Unevidenced) <= lostSweeps
    BY <1>1, <1>2 DEF DocumentsInv, Evidenced
  <2>6. Cardinality(Unevidenced') <= lostSweeps' + (IF sweep'.gone THEN 1 ELSE 0)
    BY <1>1, <1>2, <1>3, <2>1, <2>3, <2>4, <2>5
  <2>7. \A q \in evidence' : q \in Present' /\ documents'[q].deleted
    BY <1>1, <1>4, <1>8, <1>9 DEF DocumentsInv, Evidenced
  <2> QED BY <2>6, <2>7 DEF Evidenced
<1>16. Closings' /\ DocumentsTypeOK'
  BY <1>1, <1>3, <1>8 DEF DocumentsInv, Closings, DocumentsTypeOK
<1> QED BY <1>12, <1>13, <1>14, <1>15, <1>16 DEF DocumentsInv

LEMMA DeletionAuditedKeeps ==
  ASSUME DocumentsAssumption, DocumentsInv, DeletionAudited PROVE DocumentsInv'
<1> DEFINE r == sweep.row
<1>1. /\ sweep.gone /\ evidence' = evidence \cup {r}
      /\ UNCHANGED << documents, store, matters, answers, upload, lostSweeps >>
  BY DEF DeletionAudited
<1>2. sweep \in Sweep /\ lostSweeps \in Nat
  BY DEF DocumentsInv, DocumentsTypeOK
<1>3. sweep' \in Sweep /\ sweep'.at = sweep.at /\ sweep'.todo = sweep.todo /\ sweep'.row = None /\ ~sweep'.gone
  BY <1>2 DEF DeletionAudited, Sweep, OrNone
<1>4. r \in Present /\ documents[r].deleted /\ r \notin evidence /\ r \in Rows
  BY <1>1 DEF DocumentsInv, Sweeping, Due, Present
<1>5. Present' = Present /\ Live' = Live /\ (\A q \in Present : LongClosed(q)' = LongClosed(q))
      /\ \A q \in Live : q \in Present /\ q \in Rows
  BY <1>1 DEF Present, Live, LongClosed
<1>6. \A q \in Present : Due(q) => Due(q)'
  BY <1>1, <1>3, <1>5 DEF Due
<1>7. Sweeping'
  BY <1>3, <1>5, <1>6 DEF DocumentsInv, Sweeping, DocumentsAssumption
<1>8. Uploading'
  BY <1>1, <1>5 DEF DocumentsInv, Uploading, SameRow
<1>9. r \notin Live
  BY <1>4 DEF Live
<1>10. Kept'
  BY <1>1, <1>5, <1>9 DEF DocumentsInv, Kept, Unkept, Uncleared
<1>11. Evidenced'
  <2>1. Unevidenced' = Unevidenced \ {r} /\ r \in Unevidenced
    BY <1>1, <1>4, <1>5 DEF Unevidenced
  <2>2. IsFiniteSet(Unevidenced)
    <3>1. Unevidenced \subseteq Rows
      BY DEF Unevidenced, Present
    <3> QED BY <3>1, FS_Subset DEF DocumentsAssumption
  <2>3. Cardinality(Unevidenced) \in Nat /\ Cardinality(Unevidenced \ {r}) = Cardinality(Unevidenced) - 1
    BY <2>1, <2>2, FS_CardinalityType, FS_RemoveElement
  <2>4. Cardinality(Unevidenced) <= lostSweeps + 1
    BY <1>1 DEF DocumentsInv, Evidenced
  <2>5. Cardinality(Unevidenced') <= lostSweeps' + (IF sweep'.gone THEN 1 ELSE 0)
    BY <1>1, <1>2, <1>3, <2>1, <2>3, <2>4
  <2>6. \A q \in evidence' : q \in Present' /\ documents'[q].deleted
    BY <1>1, <1>4, <1>5 DEF DocumentsInv, Evidenced
  <2> QED BY <2>5, <2>6 DEF Evidenced
<1>12. Closings' /\ DocumentsTypeOK'
  BY <1>1, <1>3, <1>4 DEF DocumentsInv, Closings, DocumentsTypeOK
<1> QED BY <1>7, <1>8, <1>10, <1>11, <1>12 DEF DocumentsInv

-----------------------------------------------------------------------------
LEMMA DocumentsStart ==
  ASSUME DocumentsAssumption, DocumentsInit PROVE DocumentsInv
<1>1. Present = {} /\ Live = {} /\ Unevidenced = {}
  BY DEF DocumentsInit, Present, Live, Unevidenced
<1>2. Idle \in Session /\ Idle.pc = "idle"
  BY DEF Idle, Session, OrNone, Verdicts
<1>3. \A u \in Uploads : upload[u].pc = "idle"
  BY <1>2 DEF DocumentsInit
<1>4. NoSweep \in Sweep /\ sweep = NoSweep /\ sweep.todo = {} /\ sweep.row = None /\ ~sweep.gone
  BY DEF NoSweep, Sweep, OrNone, DocumentsInit
<1>5. [ phase |-> "absent", closings |-> {} ] \in Matter
  BY DEF Matter
<1>6. \A m \in Matters : matters[m].phase = "absent"
  BY DEF DocumentsInit
<1>7. DocumentsTypeOK
  BY <1>2, <1>4, <1>5 DEF DocumentsInit, DocumentsTypeOK
<1>8. Uploading
  BY <1>3 DEF Uploading, SameRow, Writing
<1>9. Sweeping /\ Closings
  BY <1>4, <1>6 DEF Sweeping, Closings
<1>10. Kept
  BY <1>1 DEF Kept
<1>11. Evidenced
  <2>1. Cardinality(Unevidenced) = 0
    BY <1>1, FS_EmptySet
  <2>2. evidence = {} /\ lostSweeps = 0
    BY DEF DocumentsInit
  <2> QED BY <1>4, <2>1, <2>2 DEF Evidenced
<1> QED BY <1>7, <1>8, <1>9, <1>10, <1>11 DEF DocumentsInv

LEMMA DocumentsStep ==
  ASSUME DocumentsAssumption, DocumentsInv, [DocumentsNext]_documentsVars PROVE DocumentsInv'
<1>1. ASSUME NEW u \in Uploads, UploadStep(u) PROVE DocumentsInv'
  BY <1>1, BeginUploadKeeps, BeginResubmitKeeps, MovesOnKeeps, StoreBytesKeeps, InsertRowKeeps,
     ScanCleanKeeps, ScanInfectedKeeps, QuarantineKeeps DEF UploadStep, ResubmitStep
<1>2. ASSUME NEW u \in Uploads, ReviewStep(u) PROVE DocumentsInv'
  BY <1>2, BeginReviewKeeps, WriteReviewKeeps DEF ReviewStep
<1>3. CASE LibraryStep
  BY <1>3, SetArchivedKeeps DEF LibraryStep
<1>4. CASE MatterStep
  BY <1>4, AttachKeeps, MoveKeeps DEF MatterStep
<1>5. CASE RetentionStep
  BY <1>5, TakesKeeps, SweepDiesKeeps, DeleteBytesKeeps, MarkDeletedKeeps, DeletionAuditedKeeps DEF RetentionStep
<1>6. CASE UNCHANGED documentsVars
  <2>1. UNCHANGED << documents, store, matters, answers, evidence, upload, sweep, lostSweeps >>
    BY <1>6 DEF documentsVars
  <2>2. Present' = Present /\ \A q \in Present : LongClosed(q)' = LongClosed(q)
    BY <2>1 DEF Present, LongClosed
  <2>3. DocumentsTypeOK' /\ Closings'
    BY <2>1 DEF DocumentsInv, DocumentsTypeOK, Closings
  <2> QED BY <2>1, <2>2, <2>3, QuietMatters
<1> QED BY <1>1, <1>2, <1>3, <1>4, <1>5, <1>6, PeriodPassesKeeps DEF DocumentsNext

LEMMA DocumentsShow ==
  ASSUME DocumentsAssumption, DocumentsInv PROVE FilesAreKept
<1>1. ASSUME NEW m \in OrNone(Matters), NEW entry \in documentsOf(m), entry.cleared, ~Opens(entry.id)
      PROVE  entry.id = sweep.row \/ lostSweeps > 0
  <2>1. PICK r \in Live : entry = [ id |-> r, review |-> documents[r].review, by |-> LiveReplacementsOf(r),
                                   cleared |-> cleared(r), quarantined |-> documents[r].status = "Rejected" ]
    BY <1>1 DEF documentsOf
  <2>2. entry.id = r /\ entry.cleared = cleared(r)
    BY <2>1
  <2>3. documents[r].status = "Approved" /\ r \notin store
    BY <1>1, <2>2 DEF cleared, Opens, LinkGiven
  <2>4. ~Uncleared(r)
    BY <2>3 DEF Uncleared
  <2> QED BY <2>2, <2>3, <2>4 DEF DocumentsInv, Kept
<1>2. \A r \in Present : (r \notin store \/ documents[r].deleted) =>
        documents[r].status # "Approved" \/ documents[r].old \/ LongClosed(r)
  BY DEF DocumentsInv, Kept, Unkept, Uncleared
<1>3. sweep.at = "closed" => \A r \in sweep.todo \cup ({sweep.row} \ {None}) : LongClosed(r)
  BY DEF DocumentsInv, Sweeping, Due
<1>4. Cardinality({ r \in Present : documents[r].deleted /\ r \notin evidence })
        <= lostSweeps + (IF sweep.gone THEN 1 ELSE 0)
  BY DEF DocumentsInv, Evidenced, Unevidenced
<1> QED BY <1>1, <1>2, <1>3, <1>4 DEF FilesAreKept

\* No race of uploads, filing, reopening and a retention run that picked its
\* list before throws away what the office must keep, and what was deleted as
\* required can be evidenced: however many sessions, documents and applications
\* there are, and wherever a run dies.
THEOREM FilesAlwaysKept == DocumentsSpec => []FilesAreKept
<1>1. DocumentsInit => DocumentsInv
  BY DocumentsStart, DocumentsAssumption
<1>2. DocumentsInv /\ [DocumentsNext]_documentsVars => DocumentsInv'
  BY DocumentsStep, DocumentsAssumption
<1>3. DocumentsInv => FilesAreKept
  BY DocumentsShow, DocumentsAssumption
<1> QED BY <1>1, <1>2, <1>3, PTL DEF DocumentsSpec

-----------------------------------------------------------------------------
(*****************************************************************************)
(* Workflow: the configured workflow.                                        *)
(*                                                                           *)
(* A replacement that has counted promises a way on under a table not yet    *)
(* in force; so the count is carried for every request that has counted.     *)
(* As long as none overlapped, each compares with the table in force and     *)
(* has deleted all of it; and what it names are gains, because a move that   *)
(* waits for less, lets the owner in or asks a scope lower in NARROWNESS     *)
(* admits somebody it did not.                                               *)
(*****************************************************************************)

Replaces(o) == editing[o].at \in {"asked", "counted", "deleted"}

\* The requests hold tables that were submitted, and lists of documents.
EditingTyped ==
  /\ editing = [ o \in Officials |-> editing[o] ]
  /\ \A o \in Officials : Replaces(o) =>
       editing[o].table \in Tables /\ editing[o].before \in TableOver(Places \X Places)
  /\ \A o \in Officials : Listing(o) => editing[o].docs \subseteq Enclosures

\* Where an application stands, a move of this table leads out.
WalksOn(f, t) ==
  folders[f] # Nowhere /\ ~folders[f].archived /\ folders[f].place \notin FinalPlaces =>
    folders[f].place \in Leaving(t)

\* What a replacement counted is still true of the applications it saw.
Counts ==
  \A f \in Folders \ slipped :
    /\ WalksOn(f, table)
    /\ \A o \in Officials : Counted(o) => WalksOn(f, editing[o].table)

Told(n) == IF n = 0 THEN FirstTable ELSE replaced[n].after

\* Unless replacements overlapped, a request compares with the table in force and
\* deletes all of it, and a list is left with what is submitted.
Untangled ==
  /\ "table" \notin tangled =>
       /\ table = Told(Len(replaced))
       /\ \A n \in DOMAIN replaced :
            /\ replaced[n].before = Told(n - 1)
            /\ replaced[n].givenUp = controlsGivenUp(Told(n - 1), Told(n))
       /\ \A o \in Officials : Replaces(o) => editing[o].before = table
       /\ \A o \in Officials : editing[o].at = "deleted" => editing[o].seen = Len(replaced)
  /\ "list" \notin tangled =>
       /\ listed = published
       /\ \A o \in Officials : Listing(o) => editing[o].dropped = listed \ editing[o].docs

WorkflowInv == WorkflowTypeOK /\ EditingTyped /\ Counts /\ Untangled

-----------------------------------------------------------------------------
LEMMA ATable ==
  ASSUME NEW t
  PROVE  t \in TableOver(Places \X Places) <=>
           /\ t = [ move \in DOMAIN t |-> t[move] ] /\ DOMAIN t \subseteq Places \X Places
           /\ \A move \in DOMAIN t : t[move] \in MoveRules
<1>1. ASSUME t \in TableOver(Places \X Places)
      PROVE  /\ t = [ move \in DOMAIN t |-> t[move] ] /\ DOMAIN t \subseteq Places \X Places
             /\ \A move \in DOMAIN t : t[move] \in MoveRules
  <2>1. PICK moves \in SUBSET (Places \X Places) : t \in [ moves -> MoveRules ]
    BY <1>1 DEF TableOver
  <2> QED BY <2>1
<1>2. ASSUME t = [ move \in DOMAIN t |-> t[move] ], DOMAIN t \subseteq Places \X Places,
             \A move \in DOMAIN t : t[move] \in MoveRules
      PROVE  t \in TableOver(Places \X Places)
  <2>1. t \in [ DOMAIN t -> MoveRules ]
    BY <1>2
  <2> QED BY <1>2, <2>1 DEF TableOver
<1> QED BY <1>1, <1>2

\* What officers may submit are tables.
LEMMA SubmittedTyped ==
  ASSUME WorkflowAssumption PROVE Tables \subseteq TableOver(Places \X Places) /\ FirstTable \in Tables
BY DEF WorkflowAssumption, TableOver

\* A move that the comparison names was gained by somebody: by anybody if it is
\* new, by who holds nothing but its scope, by who meets nothing but its
\* conditions, or by an applicant.
LEMMA NamedIsGained ==
  ASSUME NEW was \in TableOver(Places \X Places), NEW now \in TableOver(Places \X Places),
         NEW move \in controlsGivenUp(was, now)
  PROVE  \E try \in MoveAttempt : GainedBy(was, now, move, try)
<1>1. /\ move \in DOMAIN now /\ now[move] \in MoveRules
      /\ move \in DOMAIN was => was[move] \in MoveRules
  BY ATable DEF controlsGivenUp
<1>2. /\ now[move].scope \in Scopes /\ now[move].preconditions \subseteq Conditions
      /\ now[move].actors # {} /\ now[move].actors \subseteq {"applicant", "staff"}
  BY <1>1 DEF MoveRules
<1>3. PICK who \in now[move].actors : "applicant" \in now[move].actors \ was[move].actors => who = "applicant"
  BY <1>2
<1> DEFINE try == [ who |-> who, scopes |-> {now[move].scope}, met |-> now[move].preconditions ]
<1>4. /\ try \in MoveAttempt /\ try.who = who /\ try.scopes = {now[move].scope}
      /\ try.met = now[move].preconditions
  BY <1>2, <1>3 DEF MoveAttempt
<1> HIDE DEF try
<1>5. Admits(now[move], try)
  BY <1>4 DEF Admits
<1>6. CASE move \notin DOMAIN was
  BY <1>4, <1>5, <1>6 DEF GainedBy
<1>7. CASE StandsLower(was[move].scope, now[move].scope)
  <2>1. was[move].scope # now[move].scope
    BY <1>7 DEF StandsLower, NARROWNESS
  <2> QED
    BY <1>4, <1>5, <2>1 DEF GainedBy, Admits
<1>8. CASE was[move].preconditions \ now[move].preconditions # {}
  <2>1. ~(was[move].preconditions \subseteq try.met)
    BY <1>4, <1>8
  <2> QED
    BY <1>4, <1>5, <2>1 DEF GainedBy, Admits
<1>9. CASE "applicant" \in now[move].actors \ was[move].actors
  <2>1. try.who \notin was[move].actors
    BY <1>3, <1>4, <1>9
  <2> QED
    BY <1>4, <1>5, <2>1 DEF GainedBy, Admits
<1> QED
  BY <1>6, <1>7, <1>8, <1>9 DEF controlsGivenUp

\* Whoever gains a move that the comparison does not name had its conditions met
\* and was no applicant kept out: it was the scope, or that officers were none
\* of its actors.
LEMMA GainedIsNamed ==
  ASSUME NEW was \in TableOver(Places \X Places), NEW now \in TableOver(Places \X Places),
         NEW move \in DOMAIN now \ controlsGivenUp(was, now), NEW try \in MoveAttempt,
         GainedBy(was, now, move, try)
  PROVE  move \in DOMAIN was /\ Unwarned(was[move], now[move], try)
<1>1. /\ move \in DOMAIN was /\ ~StandsLower(was[move].scope, now[move].scope)
      /\ was[move].preconditions \ now[move].preconditions = {}
      /\ "applicant" \notin now[move].actors \ was[move].actors
  BY DEF controlsGivenUp
<1>2. Admits(now[move], try) /\ ~Admits(was[move], try)
  BY <1>1 DEF GainedBy
<1>3. was[move].preconditions \subseteq try.met
  BY <1>1, <1>2 DEF Admits
<1>4. try.who \notin was[move].actors \/ was[move].scope \notin try.scopes
  BY <1>2, <1>3 DEF Admits
<1>5. try.who \in now[move].actors /\ try.who \in {"applicant", "staff"}
  BY <1>2 DEF Admits, MoveAttempt
<1>6. CASE try.who \notin was[move].actors
  <2>1. try.who = "staff"
    BY <1>1, <1>5, <1>6
  <2> QED
    BY <1>1, <1>6, <2>1 DEF Unwarned
<1>7. CASE was[move].scope \notin try.scopes
  BY <1>1, <1>7 DEF Unwarned
<1> QED
  BY <1>4, <1>6, <1>7

\* So the entry of a replacement, which names what the comparison finds, tells
\* what was given up, whichever tables it compares.
LEMMA ComparisonTells ==
  ASSUME NEW was \in TableOver(Places \X Places), NEW now \in TableOver(Places \X Places)
  PROVE  TellsWhatWasGiven(controlsGivenUp(was, now), was, now)
<1>1. \A move \in controlsGivenUp(was, now) :
        move \in DOMAIN now /\ \E try \in MoveAttempt : GainedBy(was, now, move, try)
  BY NamedIsGained DEF controlsGivenUp
<1>2. \A move \in DOMAIN now \ controlsGivenUp(was, now), try \in MoveAttempt :
        GainedBy(was, now, move, try) => move \in DOMAIN was /\ Unwarned(was[move], now[move], try)
  BY GainedIsNamed
<1> QED
  BY <1>1, <1>2 DEF TellsWhatWasGiven

LEMMA TableRowsTyped ==
  ASSUME NEW new \in TableOver(Places \X Places), NEW kept \in BOOLEAN, table \in TableOver(Places \X Places)
  PROVE  /\ RowsAfter(new, kept) \in TableOver(Places \X Places)
         /\ Leaving(new) \subseteq Leaving(RowsAfter(new, kept))
         /\ ~kept => RowsAfter(new, kept) = new
<1> DEFINE t == RowsAfter(new, kept)
<1>1. /\ new = [ move \in DOMAIN new |-> new[move] ] /\ DOMAIN new \subseteq Places \X Places
      /\ \A move \in DOMAIN new : new[move] \in MoveRules
  BY ATable
<1>2. /\ DOMAIN table \subseteq Places \X Places
      /\ \A move \in DOMAIN table : table[move] \in MoveRules
  BY ATable
<1>3. /\ DOMAIN t = DOMAIN new \cup (IF kept THEN DOMAIN table ELSE {})
      /\ t = [ move \in DOMAIN t |-> t[move] ]
      /\ \A move \in DOMAIN t : t[move] = IF move \in DOMAIN new THEN new[move] ELSE table[move]
  BY DEF RowsAfter
<1> HIDE DEF t
<1>4. DOMAIN t \subseteq Places \X Places /\ \A move \in DOMAIN t : t[move] \in MoveRules
  BY <1>1, <1>2, <1>3
<1>5. t \in TableOver(Places \X Places)
  BY <1>3, <1>4, ATable
<1>6. Leaving(new) \subseteq Leaving(t)
  BY <1>3 DEF Leaving
<1>7. ~kept => t = new
  BY <1>1, <1>3
<1> QED BY <1>5, <1>6, <1>7 DEF t

\* A step that leaves the tables, the applications and what is published alone.
LEMMA EditingOnly ==
  ASSUME WorkflowInv, UNCHANGED << table, folders, replaced, listed, published, slipped, tangled >>,
         NEW o \in Officials, NEW what, Becomes(o, what),
         \/ what.at = "none"
         \/ /\ what.at \in {"asked", "counted", "deleted"} /\ what.table \in Tables
            /\ what.before \in TableOver(Places \X Places)
            /\ "table" \notin tangled => what.before = table
            /\ what.at = "deleted" => what.seen = Len(replaced)
            /\ what.at # "asked" => \A f \in Folders \ slipped : WalksOn(f, what.table)
         \/ what.at = "listing" /\ what.docs \subseteq Enclosures /\ what.dropped = listed \ what.docs
  PROVE  WorkflowInv'
<1>1. /\ editing' = [ p \in Officials |-> editing'[p] ] /\ editing'[o] = what
      /\ \A p \in Officials : p # o => editing'[p] = editing[p]
  BY DEF WorkflowInv, EditingTyped, Becomes
<1>2. WorkflowTypeOK'
  BY DEF WorkflowInv, WorkflowTypeOK
<1>3. EditingTyped'
  BY <1>1 DEF WorkflowInv, EditingTyped, Replaces, Listing
<1>4. Counts'
  BY <1>1 DEF WorkflowInv, Counts, Counted, WalksOn
<1>5. Untangled'
  <2>1. ASSUME "table" \notin tangled
        PROVE  /\ \A p \in Officials : Replaces(p)' => editing'[p].before = table
               /\ \A p \in Officials : editing'[p].at = "deleted" => editing'[p].seen = Len(replaced)
    BY <1>1, <2>1 DEF WorkflowInv, Untangled, Replaces
  <2>2. ASSUME "list" \notin tangled
        PROVE  \A p \in Officials : Listing(p)' => editing'[p].dropped = listed \ editing'[p].docs
    BY <1>1, <2>2 DEF WorkflowInv, Untangled, Listing
  <2> QED BY <2>1, <2>2 DEF WorkflowInv, Untangled, Told
<1> QED BY <1>2, <1>3, <1>4, <1>5 DEF WorkflowInv

LEMMA StrandsNone ==
  ASSUME WorkflowInv, NEW t, ~StrandsLive(t) PROVE \A f \in Folders : WalksOn(f, t)
BY DEF StrandsLive, WalksOn

LEMMA TableStepsKeep ==
  ASSUME WorkflowAssumption, WorkflowInv, NEW o \in Officials, TableStep(o) PROVE WorkflowInv'
<1>1. ASSUME NEW t \in Tables, AskTable(o, t) PROVE WorkflowInv'
  <2> DEFINE what == [ at |-> "asked", table |-> t, before |-> table ]
  <2>1. Becomes(o, what) /\ UNCHANGED << table, folders, replaced, listed, published, slipped, tangled >>
    BY <1>1 DEF AskTable
  <2>2. what.at = "asked" /\ what.table \in Tables /\ what.before = table
    OBVIOUS
  <2>3. table \in TableOver(Places \X Places)
    BY DEF WorkflowInv, WorkflowTypeOK
  <2> HIDE DEF what
  <2> QED BY <2>1, <2>2, <2>3, EditingOnly
<1>2. CASE CountLive(o)
  <2> DEFINE what == [ at |-> "counted", table |-> editing[o].table, before |-> editing[o].before ]
  <2>1. Becomes(o, what) /\ UNCHANGED << table, folders, replaced, listed, published, slipped, tangled >>
        /\ editing[o].at = "asked" /\ ~StrandsLive(editing[o].table)
    BY <1>2 DEF CountLive
  <2>2. what.at = "counted" /\ what.table = editing[o].table /\ what.before = editing[o].before
    OBVIOUS
  <2>3. editing[o].table \in Tables /\ editing[o].before \in TableOver(Places \X Places)
        /\ ("table" \notin tangled => editing[o].before = table)
    BY <2>1 DEF WorkflowInv, EditingTyped, Replaces, Untangled
  <2> HIDE DEF what
  <2> QED BY <2>1, <2>2, <2>3, StrandsNone, EditingOnly
<1>3. CASE DeleteRows(o)
  <2> DEFINE what == [ at |-> "deleted", table |-> editing[o].table, before |-> editing[o].before,
                       seen |-> Len(replaced) ]
  <2>1. Becomes(o, what) /\ UNCHANGED << table, folders, replaced, listed, published, slipped, tangled >>
        /\ editing[o].at = "counted"
    BY <1>3 DEF DeleteRows
  <2>2. what.at = "deleted" /\ what.table = editing[o].table /\ what.before = editing[o].before
        /\ what.seen = Len(replaced)
    OBVIOUS
  <2>3. editing[o].table \in Tables /\ editing[o].before \in TableOver(Places \X Places)
        /\ ("table" \notin tangled => editing[o].before = table)
    BY <2>1 DEF WorkflowInv, EditingTyped, Replaces, Untangled
  <2>4. \A f \in Folders \ slipped : WalksOn(f, editing[o].table)
    BY <2>1 DEF WorkflowInv, Counts, Counted
  <2> HIDE DEF what
  <2> QED BY <2>1, <2>2, <2>3, <2>4, EditingOnly
<1>4. CASE EditingEnds(o)
  <2>1. Becomes(o, NoEditing) /\ NoEditing.at = "none"
        /\ UNCHANGED << table, folders, replaced, listed, published, slipped, tangled >>
    BY <1>4 DEF EditingEnds, NoEditing
  <2> HIDE DEF NoEditing
  <2> QED BY <2>1, EditingOnly
<1>5. CASE CommitReplace(o)
  <2> DEFINE e == editing[o]
             kept == e.seen # Len(replaced)
             t == RowsAfter(e.table, kept)
             entry == [ before |-> e.before, after |-> e.table, givenUp |-> controlsGivenUp(e.before, e.table) ]
             alone == \A p \in Officials \ {o} : ~Replaces(p)
  <2>1. /\ e.at = "deleted" /\ table' = t /\ replaced' = Append(replaced, entry) /\ Becomes(o, NoEditing)
        /\ tangled' = (IF alone THEN tangled ELSE tangled \cup {"table"})
        /\ UNCHANGED << folders, listed, published, slipped >>
    BY <1>5 DEF CommitReplace, Replaces
  <2>2. e.table \in Tables /\ e.before \in TableOver(Places \X Places) /\ e.table \in TableOver(Places \X Places)
    BY <2>1, SubmittedTyped DEF WorkflowInv, EditingTyped, Replaces
  <2>3. replaced \in Seq(ReplacementOver(Places \X Places)) /\ table \in TableOver(Places \X Places)
    BY DEF WorkflowInv, WorkflowTypeOK
  <2>4. controlsGivenUp(e.before, e.table) \in SUBSET (Places \X Places)
    <3>1. DOMAIN e.table \subseteq Places \X Places
      BY <2>2, ATable
    <3> QED BY <3>1 DEF controlsGivenUp
  <2>5. entry \in ReplacementOver(Places \X Places)
    BY <2>2, <2>4 DEF ReplacementOver
  <2>6. entry.before = e.before /\ entry.after = e.table /\ entry.givenUp = controlsGivenUp(e.before, e.table)
    OBVIOUS
  <2>7. kept \in BOOLEAN
    OBVIOUS
  <2>8. t \in TableOver(Places \X Places) /\ Leaving(e.table) \subseteq Leaving(t) /\ (~kept => t = e.table)
    BY <2>2, <2>3, <2>7, TableRowsTyped
  <2>9. /\ editing' = [ p \in Officials |-> editing'[p] ] /\ editing'[o].at = "none"
        /\ \A p \in Officials : p # o => editing'[p] = editing[p]
    BY <2>1 DEF WorkflowInv, EditingTyped, Becomes, NoEditing
  <2>10. \A f \in Folders \ slipped : WalksOn(f, e.table)
    BY <2>1 DEF WorkflowInv, Counts, Counted
  <2> HIDE DEF e, t, entry
  <2>11. replaced' \in Seq(ReplacementOver(Places \X Places)) /\ Len(replaced') = Len(replaced) + 1 /\ Len(replaced) \in Nat
         /\ replaced'[Len(replaced) + 1] = entry
         /\ (\A n \in 1..Len(replaced) : replaced'[n] = replaced[n])
         /\ DOMAIN replaced = 1..Len(replaced) /\ DOMAIN replaced' = 1..(Len(replaced) + 1)
    BY <2>1, <2>3, <2>5
  <2>12. WorkflowTypeOK'
    BY <2>1, <2>8, <2>11 DEF WorkflowInv, WorkflowTypeOK
  <2>13. EditingTyped'
    BY <2>9 DEF WorkflowInv, EditingTyped, Replaces, Listing
  <2>14. Counts'
    BY <2>1, <2>8, <2>9, <2>10 DEF WorkflowInv, Counts, Counted, WalksOn
  <2>15. Untangled'
    <3>1. ASSUME "list" \notin tangled'
          PROVE  listed' = published' /\ \A p \in Officials : Listing(p)' => editing'[p].dropped = listed' \ editing'[p].docs
      <4>1. "list" \notin tangled
        BY <2>1, <3>1
      <4> QED BY <2>1, <2>9, <4>1 DEF WorkflowInv, Untangled, Listing
    <3>2. ASSUME "table" \notin tangled'
          PROVE  /\ table' = Told(Len(replaced))'
                 /\ \A n \in DOMAIN replaced' :
                      /\ replaced'[n].before = Told(n - 1)'
                      /\ replaced'[n].givenUp = controlsGivenUp(Told(n - 1)', Told(n)')
                 /\ \A p \in Officials : ~Replaces(p)'
      <4>1. alone /\ "table" \notin tangled
        BY <2>1, <3>2
      <4>2. e.before = table /\ ~kept /\ table = Told(Len(replaced))
        BY <2>1, <4>1 DEF WorkflowInv, Untangled, Replaces, e
      <4>3. t = e.table
        BY <2>8, <4>2
      <4>4. \A n \in 0..Len(replaced) : Told(n)' = Told(n)
        BY <2>11 DEF Told
      <4>5. \A n \in Nat : n = Len(replaced) + 1 => Told(n)' = e.table
        BY <2>6, <2>11 DEF Told
      <4>6. table' = Told(Len(replaced))'
        BY <2>1, <2>6, <2>11, <4>3 DEF Told
      <4>7. ASSUME NEW n \in DOMAIN replaced'
            PROVE  /\ replaced'[n].before = Told(n - 1)'
                   /\ replaced'[n].givenUp = controlsGivenUp(Told(n - 1)', Told(n)')
        <5>1. CASE n = Len(replaced) + 1
          <6>0. n - 1 = Len(replaced) /\ n - 1 \in 0..Len(replaced) /\ n \in Nat
            BY <2>11, <5>1
          <6>1. Told(n - 1)' = table /\ Told(n)' = e.table /\ replaced'[n] = entry
            BY <2>11, <4>2, <4>4, <4>5, <5>1, <6>0
          <6> QED BY <2>6, <4>2, <6>1
        <5>2. CASE n # Len(replaced) + 1
          <6>1. n \in 1..Len(replaced) /\ n - 1 \in 0..Len(replaced) /\ n \in 0..Len(replaced) /\ n \in DOMAIN replaced
            BY <2>11, <5>2
          <6>2. replaced'[n] = replaced[n] /\ Told(n - 1)' = Told(n - 1) /\ Told(n)' = Told(n)
            BY <2>11, <4>4, <6>1
          <6> QED BY <4>1, <6>1, <6>2 DEF WorkflowInv, Untangled
        <5> QED BY <5>1, <5>2
      <4>8. \A p \in Officials : ~Replaces(p)'
        BY <2>9, <4>1 DEF Replaces
      <4> QED BY <4>6, <4>7, <4>8
    <3>3. ASSUME "table" \notin tangled'
          PROVE  \A n \in DOMAIN replaced' : replaced'[n].givenUp = controlsGivenUp(Told(n - 1), Told(n))'
      BY <3>2, <3>3 DEF controlsGivenUp
    <3> QED BY <3>1, <3>2, <3>3 DEF Untangled, Replaces
  <2> QED BY <2>12, <2>13, <2>14, <2>15 DEF WorkflowInv
<1> QED BY <1>1, <1>2, <1>3, <1>4, <1>5 DEF TableStep

\* An application comes to a place: it is among those nobody counted, or a move
\* leads out of it.
LEMMA FolderStepsKeep ==
  ASSUME WorkflowAssumption, WorkflowInv, FolderStep PROVE WorkflowInv'
<1>1. PICK f \in Folders : \/ \E place \in Places : FileFolder(f, place) \/ MoveFolder(f, place)
                           \/ ArchiveFolder(f) \/ RestoreFolder(f)
  BY DEF FolderStep
<1>2. UNCHANGED << table, replaced, listed, published, editing, tangled >>
  BY <1>1 DEF FileFolder, MoveFolder, ArchiveFolder, RestoreFolder
<1>3. EditingTyped'
  BY <1>2 DEF WorkflowInv, EditingTyped, Replaces, Listing
<1>4. Untangled'
  BY <1>2 DEF WorkflowInv, Untangled, Told, Replaces, Listing
<1>5. folders \in [ Folders -> Folder \cup {Nowhere} ]
  BY DEF WorkflowInv, WorkflowTypeOK
<1>6. \E row \in Folder : /\ folders' = [ folders EXCEPT ![f] = row ]
                          /\ \/ Comes(f, row.place)
                             \/ row.archived /\ slipped' = slipped
  <2>1. ASSUME NEW place \in Places, FileFolder(f, place)
        PROVE  \E row \in Folder : folders' = [ folders EXCEPT ![f] = row ] /\ Comes(f, row.place)
    <3> DEFINE row == [ place |-> place, archived |-> FALSE ]
    <3>1. folders' = [ folders EXCEPT ![f] = row ] /\ Comes(f, place)
      BY <2>1 DEF FileFolder
    <3>2. row \in Folder /\ row.place = place
      BY DEF Folder
    <3> HIDE DEF row
    <3> QED BY <3>1, <3>2
  <2>2. ASSUME NEW place \in Places, MoveFolder(f, place)
        PROVE  \E row \in Folder : folders' = [ folders EXCEPT ![f] = row ] /\ Comes(f, row.place)
    <3> DEFINE row == [ folders[f] EXCEPT !.place = place ]
    <3>1. folders' = [ folders EXCEPT ![f] = row ] /\ Comes(f, place) /\ folders[f] # Nowhere
      BY <2>2 DEF MoveFolder
    <3>2. folders[f] \in Folder
      BY <1>5, <3>1
    <3>3. row \in Folder /\ row.place = place
      BY <3>2 DEF Folder
    <3> HIDE DEF row
    <3> QED BY <3>1, <3>3
  <2>3. CASE ArchiveFolder(f)
    <3> DEFINE row == [ folders[f] EXCEPT !.archived = TRUE ]
    <3>1. folders' = [ folders EXCEPT ![f] = row ] /\ slipped' = slipped /\ folders[f] # Nowhere
      BY <2>3 DEF ArchiveFolder
    <3>2. folders[f] \in Folder
      BY <1>5, <3>1
    <3>3. row \in Folder /\ row.archived
      BY <3>2 DEF Folder
    <3> HIDE DEF row
    <3> QED BY <3>1, <3>3
  <2>4. CASE RestoreFolder(f)
    <3> DEFINE row == [ folders[f] EXCEPT !.archived = FALSE ]
    <3>1. folders' = [ folders EXCEPT ![f] = row ] /\ Comes(f, folders[f].place) /\ folders[f] # Nowhere
      BY <2>4 DEF RestoreFolder
    <3>2. folders[f] \in Folder
      BY <1>5, <3>1
    <3>3. row \in Folder /\ row.place = folders[f].place
      BY <3>2 DEF Folder
    <3> HIDE DEF row
    <3> QED BY <3>1, <3>3
  <2> QED BY <1>1, <2>1, <2>2, <2>3, <2>4
<1>7. PICK row \in Folder : /\ folders' = [ folders EXCEPT ![f] = row ]
                           /\ \/ Comes(f, row.place)
                              \/ row.archived /\ slipped' = slipped
  BY <1>6
<1>8. folders'[f] = row /\ \A g \in Folders : g # f => folders'[g] = folders[g]
  BY <1>5, <1>7
<1>9. slipped' \subseteq slipped \cup {f} /\ slipped \subseteq slipped' \cup {f}
  BY <1>7 DEF Comes
<1>10. WorkflowTypeOK'
  BY <1>2, <1>5, <1>7, <1>9 DEF WorkflowInv, WorkflowTypeOK
<1>11. Counts'
  <2> SUFFICES ASSUME NEW g \in Folders \ slipped'
               PROVE  /\ WalksOn(g, table)'
                      /\ \A o \in Officials : Counted(o)' => WalksOn(g, editing[o].table)'
    BY DEF Counts
  <2>1. CASE g # f
    <3>1. g \notin slipped /\ folders'[g] = folders[g]
      BY <1>8, <1>9, <2>1
    <3> QED BY <1>2, <3>1 DEF WorkflowInv, Counts, WalksOn, Counted
  <2>2. CASE g = f /\ row.archived
    BY <1>8, <2>2 DEF WalksOn
  <2>3. CASE g = f /\ Comes(f, row.place)
    <3>1. (\A o \in Officials : ~Counted(o)) /\ row.place \in Leaving(table)
      BY <2>3 DEF Comes
    <3> QED BY <1>2, <1>8, <2>3, <3>1 DEF WalksOn, Counted
  <2> QED BY <1>7, <2>1, <2>2, <2>3
<1> QED BY <1>3, <1>4, <1>10, <1>11 DEF WorkflowInv

LEMMA ListStepsKeep ==
  ASSUME WorkflowInv, ListStep PROVE WorkflowInv'
<1>0. listed \subseteq Enclosures
  BY DEF WorkflowInv, WorkflowTypeOK
<1>1. ASSUME NEW o \in Officials, NEW docs \in SUBSET Enclosures, ArchiveRest(o, docs) PROVE WorkflowInv'
  <2> DEFINE what == [ at |-> "listing", docs |-> docs, dropped |-> listed \ docs ]
  <2>1. Becomes(o, what) /\ UNCHANGED << table, folders, replaced, listed, published, slipped, tangled >>
    BY <1>1 DEF ArchiveRest
  <2>2. what.at = "listing" /\ what.docs = docs /\ what.dropped = listed \ docs
    OBVIOUS
  <2> HIDE DEF what
  <2> QED BY <2>1, <2>2, EditingOnly
<1>2. ASSUME NEW o \in Officials, CommitList(o) PROVE WorkflowInv'
  <2>1. /\ Listing(o) /\ Becomes(o, NoEditing)
        /\ listed' = (listed \ editing[o].dropped) \cup editing[o].docs /\ published' = editing[o].docs
        /\ tangled' = (IF \E p \in Officials \ {o} : Listing(p) THEN tangled \cup {"list"} ELSE tangled)
        /\ UNCHANGED << table, folders, replaced, slipped >>
    BY <1>2 DEF CommitList
  <2>2. /\ editing' = [ p \in Officials |-> editing'[p] ] /\ editing'[o].at = "none"
        /\ \A p \in Officials : p # o => editing'[p] = editing[p]
    BY <2>1 DEF WorkflowInv, EditingTyped, Becomes, NoEditing
  <2>3. editing[o].docs \subseteq Enclosures
    BY <2>1 DEF WorkflowInv, EditingTyped
  <2>4. WorkflowTypeOK'
    BY <1>0, <2>1, <2>3 DEF WorkflowInv, WorkflowTypeOK
  <2>5. EditingTyped'
    BY <2>2 DEF WorkflowInv, EditingTyped, Replaces, Listing
  <2>6. Counts'
    BY <2>1, <2>2 DEF WorkflowInv, Counts, Counted, WalksOn
  <2>7. Untangled'
    <3>1. ASSUME "list" \notin tangled'
          PROVE  listed' = published' /\ \A p \in Officials : ~Listing(p)'
      <4>1. "list" \notin tangled /\ \A p \in Officials \ {o} : ~Listing(p)
        BY <2>1, <3>1
      <4>2. editing[o].dropped = listed \ editing[o].docs
        BY <2>1, <4>1 DEF WorkflowInv, Untangled
      <4>3. listed' = published'
        BY <2>1, <4>2
      <4> QED BY <2>2, <4>1, <4>3 DEF Listing
    <3>2. "table" \notin tangled' => "table" \notin tangled
      BY <2>1
    <3> QED BY <2>1, <2>2, <3>1, <3>2 DEF WorkflowInv, Untangled, Told, Replaces
  <2> QED BY <2>4, <2>5, <2>6, <2>7 DEF WorkflowInv
<1>3. ASSUME NEW doc \in Enclosures, RestoreEnclosure(doc) PROVE WorkflowInv'
  <2>1. /\ listed' = listed \cup {doc} /\ published' = published \cup {doc}
        /\ tangled' = (IF \E o \in Officials : Listing(o) THEN tangled \cup {"list"} ELSE tangled)
        /\ UNCHANGED << table, folders, replaced, editing, slipped >>
    BY <1>3 DEF RestoreEnclosure
  <2>2. WorkflowTypeOK'
    BY <1>0, <2>1 DEF WorkflowInv, WorkflowTypeOK
  <2>3. EditingTyped'
    BY <2>1 DEF WorkflowInv, EditingTyped, Replaces, Listing
  <2>4. Counts'
    BY <2>1 DEF WorkflowInv, Counts, Counted, WalksOn
  <2>5. Untangled'
    <3>1. ASSUME "list" \notin tangled'
          PROVE  listed' = published' /\ \A p \in Officials : ~Listing(p)'
      BY <2>1, <3>1 DEF WorkflowInv, Untangled, Listing
    <3>2. "table" \notin tangled' => "table" \notin tangled
      BY <2>1
    <3> QED BY <2>1, <3>1, <3>2 DEF WorkflowInv, Untangled, Told, Replaces
  <2> QED BY <2>2, <2>3, <2>4, <2>5 DEF WorkflowInv
<1> QED BY <1>1, <1>2, <1>3 DEF ListStep

LEMMA WorkflowStarts ==
  ASSUME WorkflowAssumption, WorkflowInit PROVE WorkflowInv
<1>1. /\ table = FirstTable /\ replaced = << >> /\ Len(replaced) = 0 /\ listed = published
      /\ editing = [ o \in Officials |-> NoEditing ] /\ (\A f \in Folders : folders[f] = Nowhere)
  BY DEF WorkflowInit
<1>2. \A o \in Officials : editing[o].at = "none"
  BY <1>1 DEF NoEditing
<1>3. WorkflowTypeOK
  <2>1. table \in TableOver(Places \X Places)
    BY <1>1, SubmittedTyped
  <2>2. replaced \in Seq(ReplacementOver(Places \X Places))
    BY <1>1
  <2>3. folders \in [ Folders -> Folder \cup {Nowhere} ]
    BY DEF WorkflowInit
  <2>4. listed \subseteq Enclosures /\ published \subseteq Enclosures /\ slipped = {} /\ tangled = {}
    BY DEF WorkflowInit
  <2> QED BY <2>1, <2>2, <2>3, <2>4 DEF WorkflowTypeOK
<1>4. EditingTyped
  BY <1>1, <1>2 DEF EditingTyped, Replaces, Listing
<1>5. Counts
  BY <1>1, <1>2 DEF Counts, Counted, WalksOn
<1>6. Untangled
  BY <1>1, <1>2 DEF Untangled, Told, Replaces, Listing
<1> QED BY <1>3, <1>4, <1>5, <1>6 DEF WorkflowInv

LEMMA WorkflowKept ==
  ASSUME WorkflowAssumption, WorkflowInv, [WorkflowNext]_workflowVars PROVE WorkflowInv'
<1>1. CASE UNCHANGED workflowVars
  <2>1. UNCHANGED << table, folders, replaced, listed, published, editing, slipped, tangled >>
    BY <1>1 DEF workflowVars
  <2> QED BY <2>1 DEF WorkflowInv, WorkflowTypeOK, EditingTyped, Counts, Untangled, Told, Replaces, Listing,
                     Counted, WalksOn
<1> QED BY <1>1, TableStepsKeep, FolderStepsKeep, ListStepsKeep DEF WorkflowNext

\* Whatever tables are put in force, by however many officers at once, an
\* application in the working list that is not over has a move out of its status,
\* unless it came there behind the back of a replacement that had counted.
THEOREM NobodyEverStranded == WorkflowSpec => []NobodyStranded
<1>1. WorkflowInit => WorkflowInv
  BY WorkflowStarts, WorkflowAssumption
<1>2. WorkflowInv /\ [WorkflowNext]_workflowVars => WorkflowInv'
  BY WorkflowKept, WorkflowAssumption
<1>3. WorkflowInv => NobodyStranded
  BY DEF WorkflowInv, Counts, WalksOn, NobodyStranded
<1> QED BY <1>1, <1>2, <1>3, PTL DEF WorkflowSpec

\* What a replacement put in force was submitted, and is a table.
LEMMA ToldIsATable ==
  ASSUME WorkflowAssumption, WorkflowInv, NEW n \in 0..Len(replaced)
  PROVE  Told(n) \in TableOver(Places \X Places)
<1>1. CASE n = 0
  BY <1>1, SubmittedTyped DEF Told
<1>2. CASE n # 0
  <2>1. replaced \in Seq(ReplacementOver(Places \X Places)) /\ Len(replaced) \in Nat
    BY DEF WorkflowInv, WorkflowTypeOK
  <2>2. n \in 1..Len(replaced)
    BY <1>2, <2>1
  <2>3. replaced[n] \in ReplacementOver(Places \X Places)
    BY <2>1, <2>2
  <2>4. replaced[n].after \in Tables
    BY <2>3 DEF ReplacementOver
  <2> QED
    BY <1>2, <2>4, SubmittedTyped DEF Told
<1> QED
  BY <1>1, <1>2

LEMMA PublishedWhole ==
  ASSUME WorkflowAssumption, WorkflowInv PROVE PublishedAsAWhole
<1>1. DOMAIN replaced = 1..Len(replaced) /\ Len(replaced) \in Nat
  BY DEF WorkflowInv, WorkflowTypeOK
<1>2. ASSUME "table" \notin tangled, NEW n \in DOMAIN replaced
      PROVE  TellsWhatWasGiven(replaced[n].givenUp, Told(n - 1), Told(n))
  <2>1. n \in 0..Len(replaced) /\ n - 1 \in 0..Len(replaced)
    BY <1>1
  <2>2. Told(n) \in TableOver(Places \X Places) /\ Told(n - 1) \in TableOver(Places \X Places)
    BY <2>1, ToldIsATable
  <2>3. replaced[n].givenUp = controlsGivenUp(Told(n - 1), Told(n))
    BY <1>2 DEF WorkflowInv, Untangled
  <2> QED
    BY <2>2, <2>3, ComparisonTells
<1>3. ASSUME "table" \notin tangled
      PROVE  table = Told(Len(replaced)) /\ \A n \in DOMAIN replaced : replaced[n].before = Told(n - 1)
  BY <1>3 DEF WorkflowInv, Untangled
<1>4. "list" \notin tangled => listed = published
  BY DEF WorkflowInv, Untangled
<1> QED
  BY <1>2, <1>3, <1>4 DEF PublishedAsAWhole, Told

\* A table, and a checklist, is replaced as a whole and its entry says from what
\* to what, and names every move that somebody gained by it, but for a scope that
\* the list does not place lower and for a move newly opened to officers - unless
\* two replacements overlapped.  For any number of replacements, whatever tables
\* are submitted.
THEOREM AlwaysPublishedWhole == WorkflowSpec => []PublishedAsAWhole
<1>1. WorkflowInit => WorkflowInv
  BY WorkflowStarts, WorkflowAssumption
<1>2. WorkflowInv /\ [WorkflowNext]_workflowVars => WorkflowInv'
  BY WorkflowKept, WorkflowAssumption
<1>3. WorkflowInv => PublishedAsAWhole
  BY PublishedWhole, WorkflowAssumption
<1> QED BY <1>1, <1>2, <1>3, PTL DEF WorkflowSpec

\* Every variable has its type; what is in force is a table of moves even where
\* two replacements mixed theirs.
THEOREM WorkflowTyped == WorkflowSpec => []WorkflowTypeOK
<1>1. WorkflowInit => WorkflowInv
  BY WorkflowStarts, WorkflowAssumption
<1>2. WorkflowInv /\ [WorkflowNext]_workflowVars => WorkflowInv'
  BY WorkflowKept, WorkflowAssumption
<1>3. WorkflowInv => WorkflowTypeOK
  BY DEF WorkflowInv
<1> QED BY <1>1, <1>2, <1>3, PTL DEF WorkflowSpec

-----------------------------------------------------------------------------
(*****************************************************************************)
(* Records: registrations, closures and corrections.                         *)
(*                                                                           *)
(* Between a correction's write and its entry the trail is one behind.  The  *)
(* request that wrote is then alone at its business and knows what the       *)
(* entry will say; a second one there is the crossing that the property      *)
(* excepts.                                                                  *)
(*****************************************************************************)

Pending(v) == Visiting(v, {"owner", "office"})

\* A business is relied on while an application is filed under it, and every
\* application is under one that is registered; so is every request.
UnderRegistered ==
  /\ \A f \in Firms : relied[f] # Missing <=> filedUnder(f)
  /\ \A c \in OnFile : cases[c].firm \in OrMissing(Registered)
  /\ \A v \in Visits : visit[v] # Missing => visit[v].firm \in Registered

\* What a request about the facts of a business knows.
Asking(f) ==
  /\ \A v \in CorrectingFirm(f) : ~visit[v].written =>
       /\ visit[v].before = firms[f].facts
       /\ visit[v].kind = "owner" => visit[v].facts = firms[f].facts
  /\ \A v, w \in CorrectingFirm(f) : visit[v].written /\ visit[w].written => v = w
  /\ \A v \in CorrectingFirm(f) : visit[v].written =>
       /\ visit[v].kind = "office" /\ visit[v].facts = firms[f].facts
       /\ Says(f, Len(trail) + 1, visit[v].before)

\* A business whose corrections follow one another.
Accounted(f) ==
  /\ Asking(f)
  /\ (\A v \in CorrectingFirm(f) : ~visit[v].written) => Says(f, Len(trail) + 1, firms[f].facts)
  /\ \A n \in Corrections(f) : Says(f, n, trail[n].before)

\* No reliance begins after the next entry of the trail.
Dated == \A f \in Firms : relied[f] # Missing => relied[f].since <= Len(trail) + 1

RecordsInv ==
  /\ RecordsTypeOK /\ UnderRegistered /\ Dated
  /\ \A f \in Firms : relied[f] # Missing /\ f \notin crossed => Accounted(f)

-----------------------------------------------------------------------------
LEMMA RecordEdits ==
  /\ \A x \in Firm : /\ x # Missing /\ x.facts \in Facts
                     /\ \A facts \in Facts : [ x EXCEPT !.facts = facts ] \in Firm
                     /\ \A b \in BOOLEAN : [ x EXCEPT !.active = b ] \in Firm /\ [ x EXCEPT !.archived = b ] \in Firm
  /\ \A x \in Case : /\ x # Missing
                     /\ \A s \in Standings : [ x EXCEPT !.status = s ] \in Case
                     /\ \A f \in OrMissing(Firms) : [ x EXCEPT !.firm = f ] \in Case
                     /\ \A b \in BOOLEAN : [ x EXCEPT !.archived = b ] \in Case
                     /\ \A o, p \in BOOLEAN : [ x EXCEPT !.order = o, !.permit = p ] \in Case
  /\ \A x \in Correcting : x # Missing /\ [ x EXCEPT !.written = TRUE ] \in Correcting
  /\ \A x \in Closure \cup Reliance : x # Missing
<1>1. \A x \in Firm : x # Missing /\ x.facts \in Facts
  BY NoNullRecord DEF Firm
<1>2. \A x \in Firm : \A facts \in Facts : [ x EXCEPT !.facts = facts ] \in Firm
  BY DEF Firm
<1>3. \A x \in Firm : \A b \in BOOLEAN : [ x EXCEPT !.active = b ] \in Firm /\ [ x EXCEPT !.archived = b ] \in Firm
  BY DEF Firm
<1>4. \A x \in Case : \A s \in Standings : [ x EXCEPT !.status = s ] \in Case
  BY DEF Case
<1>5. \A x \in Case : \A f \in OrMissing(Firms) : [ x EXCEPT !.firm = f ] \in Case
  BY DEF Case
<1>6. \A x \in Case : \A b \in BOOLEAN : [ x EXCEPT !.archived = b ] \in Case
  BY DEF Case
<1>7. \A x \in Case : \A o, p \in BOOLEAN : [ x EXCEPT !.order = o, !.permit = p ] \in Case
  BY DEF Case
<1>8. \A x \in Correcting : [ x EXCEPT !.written = TRUE ] \in Correcting
  BY DEF Correcting
<1>9. \A x \in Case \cup Correcting \cup Closure \cup Reliance : x # Missing
  BY NoNullRecord
<1> QED BY <1>1, <1>2, <1>3, <1>4, <1>5, <1>6, <1>7, <1>8, <1>9

LEMMA VisitTyped ==
  ASSUME RecordsTypeOK, NEW v \in Visits
  PROVE  /\ Pending(v) => visit[v] \in Correcting
         /\ visit[v] # Missing => visit[v].firm \in Firms
         /\ \A f : v \in CorrectingFirm(f) <=> Pending(v) /\ visit[v].firm = f
BY DEF RecordsTypeOK, Pending, Visiting, Correcting, Closure, OrMissing, CorrectingFirm

LEMMA RowTyped ==
  ASSUME RecordsTypeOK
  PROVE  /\ \A f \in Registered : f \in Firms /\ firms[f] \in Firm
         /\ \A c \in OnFile : c \in Cases /\ cases[c] \in Case
BY DEF RecordsTypeOK, Registered, OnFile, OrMissing

LEMMA Left ==
  ASSUME RecordsTypeOK, NEW v \in Visits, Departs(v)
  PROVE  /\ visit' \in [ Visits -> OrMissing(Correcting \cup Closure) ] /\ visit'[v] = Missing
         /\ \A w \in Visits : w # v => visit'[w] = visit[w]
         /\ \A f : CorrectingFirm(f)' = CorrectingFirm(f) \ {v}
<1>1. /\ visit' \in [ Visits -> OrMissing(Correcting \cup Closure) ] /\ visit'[v] = Missing
      /\ \A w \in Visits : w # v => visit'[w] = visit[w]
  BY DEF Departs, RecordsTypeOK, OrMissing
<1> QED BY <1>1 DEF CorrectingFirm, Visiting

LEMMA ReliedRegistered ==
  ASSUME RecordsInv, NEW f \in Firms, relied[f] # Missing PROVE f \in Registered
<1>1. filedUnder(f)
  BY DEF RecordsInv, UnderRegistered
<1>2. PICK c \in OnFile : cases[c].firm = f
  BY <1>1 DEF filedUnder, CasesUnder
<1>3. f # Missing
  BY RecordsAssumption DEF RecordsAssumption
<1> QED BY <1>2, <1>3 DEF RecordsInv, UnderRegistered, OrMissing

\* Businesses are changed but for their facts, and requests that are not about
\* facts come and go.
LEMMA FactsRest ==
  ASSUME RecordsInv, RecordsTypeOK', UNCHANGED << cases, trail, relied, crossed >>,
         \A f \in Registered : f \in Registered' /\ firms'[f].facts = firms[f].facts,
         \A f \in Firms : CorrectingFirm(f)' = CorrectingFirm(f),
         \A v \in Visits : Pending(v) => visit'[v] = visit[v],
         \A v \in Visits : visit'[v] # Missing => visit'[v].firm \in Registered'
  PROVE  RecordsInv'
<1>1. OnFile' = OnFile /\ \A f : filedUnder(f)' = filedUnder(f)
  BY DEF OnFile, filedUnder, CasesUnder
<1>2. UnderRegistered'
  BY <1>1 DEF RecordsInv, UnderRegistered, OrMissing
<1>3. ASSUME NEW f \in Firms, relied'[f] # Missing, f \notin crossed' PROVE Accounted(f)'
  <2>1. Accounted(f)
    BY <1>3 DEF RecordsInv
  <2>2. f \in Registered
    BY <1>3, ReliedRegistered
  <2>3. firms'[f].facts = firms[f].facts /\ CorrectingFirm(f)' = CorrectingFirm(f)
        /\ \A v \in CorrectingFirm(f) : visit'[v] = visit[v]
    BY <2>2 DEF CorrectingFirm, Pending
  <2>4. Corrections(f)' = Corrections(f) /\ \A n, facts : Says(f, n, facts)' = Says(f, n, facts)
    BY DEF Corrections, Says
  <2>5. Asking(f)'
    BY <2>1, <2>3, <2>4 DEF Accounted, Asking
  <2> QED BY <2>1, <2>3, <2>4, <2>5 DEF Accounted
<1>4. Dated'
  BY DEF RecordsInv, Dated
<1> QED BY <1>2, <1>3, <1>4 DEF RecordsInv

LEMMA FirmStepsRest ==
  ASSUME RecordsInv,
         \/ \E f \in Firms : Reactivate(f) \/ RestoreFirm(f) \/ \E facts \in Facts : RegisterFirm(f, facts)
         \/ \E v \in Visits : Deactivate(v) \/ ArchiveFirm(v)
  PROVE  RecordsInv'
<1>0. RecordsTypeOK
  BY DEF RecordsInv
<1>1. UNCHANGED << cases, trail, relied, crossed >>
  BY DEF Reactivate, RestoreFirm, RegisterFirm, Deactivate, ArchiveFirm
<1>2. \E f \in Firms, row \in Firm :
        /\ firms' = [ firms EXCEPT ![f] = row ] /\ (f \in Registered => row.facts = firms[f].facts)
        /\ \/ visit' = visit
           \/ \E v \in Visits : visit[v] # Missing /\ ~Pending(v) /\ Departs(v)
  <2>1. ASSUME NEW f \in Registered, firms' = [ firms EXCEPT ![f].active = FALSE ] \/ firms' = [ firms EXCEPT ![f].active = TRUE ]
                 \/ firms' = [ firms EXCEPT ![f].archived = FALSE ] \/ firms' = [ firms EXCEPT ![f].archived = TRUE ]
        PROVE  \E row \in Firm : firms' = [ firms EXCEPT ![f] = row ] /\ row.facts = firms[f].facts
    <3>1. firms[f] \in Firm
      BY <1>0, RowTyped
    <3>2. \A b \in BOOLEAN : /\ [ firms[f] EXCEPT !.active = b ].facts = firms[f].facts
                             /\ [ firms[f] EXCEPT !.archived = b ].facts = firms[f].facts
      BY <3>1 DEF Firm
    <3>3. \A b \in BOOLEAN : /\ [ firms[f] EXCEPT !.active = b ] \in Firm
                             /\ [ firms[f] EXCEPT !.archived = b ] \in Firm
      BY <3>1, RecordEdits
    <3>4. \E b \in BOOLEAN : \/ firms' = [ firms EXCEPT ![f] = [ firms[f] EXCEPT !.active = b ] ]
                             \/ firms' = [ firms EXCEPT ![f] = [ firms[f] EXCEPT !.archived = b ] ]
      BY <2>1
    <3> QED BY <3>2, <3>3, <3>4
  <2>2. ASSUME NEW f \in Firms, Reactivate(f) \/ RestoreFirm(f)
        PROVE  f \in Registered /\ visit' = visit /\ \E row \in Firm : firms' = [ firms EXCEPT ![f] = row ] /\ row.facts = firms[f].facts
    BY <2>1, <2>2 DEF Reactivate, RestoreFirm
  <2>3. ASSUME NEW v \in Visits, Deactivate(v) \/ ArchiveFirm(v)
        PROVE  /\ visit[v] # Missing /\ ~Pending(v) /\ Departs(v) /\ visit[v].firm \in Firms
               /\ \E row \in Firm : /\ firms' = [ firms EXCEPT ![visit[v].firm] = row ]
                                    /\ row.facts = firms[visit[v].firm].facts
    <3>1. visit[v] # Missing /\ ~Pending(v) /\ Departs(v)
      BY <2>3 DEF Deactivate, ArchiveFirm, Visiting, Pending
    <3>2. visit[v].firm \in Registered /\ visit[v].firm \in Firms
      BY <1>0, <3>1, RowTyped DEF RecordsInv, UnderRegistered
    <3> QED BY <2>1, <2>3, <3>1, <3>2 DEF Deactivate, ArchiveFirm
  <2>4. ASSUME NEW f \in Firms, NEW facts \in Facts, RegisterFirm(f, facts)
        PROVE  /\ f \notin Registered /\ visit' = visit
               /\ \E row \in Firm : firms' = [ firms EXCEPT ![f] = row ]
    <3> DEFINE row == [ facts |-> facts, active |-> TRUE, archived |-> FALSE ]
    <3>1. row \in Firm
      BY DEF Firm
    <3>2. firms[f] = Missing /\ visit' = visit /\ firms' = [ firms EXCEPT ![f] = row ]
      BY <2>4 DEF RegisterFirm
    <3> HIDE DEF row
    <3> QED BY <3>1, <3>2 DEF Registered
  <2>5. CASE \E f \in Firms : Reactivate(f) \/ RestoreFirm(f)
    <3>1. PICK f \in Firms : Reactivate(f) \/ RestoreFirm(f)
      BY <2>5
    <3>2. PICK row \in Firm : firms' = [ firms EXCEPT ![f] = row ] /\ row.facts = firms[f].facts
      BY <2>2, <3>1
    <3>3. visit' = visit
      BY <2>2, <3>1
    <3> QED BY <3>2, <3>3
  <2>6. CASE \E v \in Visits : Deactivate(v) \/ ArchiveFirm(v)
    <3>1. PICK v \in Visits : Deactivate(v) \/ ArchiveFirm(v)
      BY <2>6
    <3>2. /\ visit[v] # Missing /\ ~Pending(v) /\ Departs(v) /\ visit[v].firm \in Firms
      BY <2>3, <3>1
    <3>3. PICK row \in Firm : firms' = [ firms EXCEPT ![visit[v].firm] = row ] /\ row.facts = firms[visit[v].firm].facts
      BY <2>3, <3>1
    <3> QED BY <3>2, <3>3
  <2>7. CASE \E f \in Firms, facts \in Facts : RegisterFirm(f, facts)
    <3>1. PICK f \in Firms, facts \in Facts : RegisterFirm(f, facts)
      BY <2>7
    <3>2. PICK row \in Firm : firms' = [ firms EXCEPT ![f] = row ]
      BY <2>4, <3>1
    <3>3. visit' = visit /\ f \notin Registered
      BY <2>4, <3>1
    <3> QED BY <3>2, <3>3
  <2> QED BY <2>5, <2>6, <2>7
<1>3. PICK f \in Firms, row \in Firm :
        /\ firms' = [ firms EXCEPT ![f] = row ] /\ (f \in Registered => row.facts = firms[f].facts)
        /\ \/ visit' = visit
           \/ \E v \in Visits : visit[v] # Missing /\ ~Pending(v) /\ Departs(v)
  BY <1>2
<1>4. firms' \in [ Firms -> OrMissing(Firm) ] /\ firms'[f] = row /\ \A g \in Firms : g # f => firms'[g] = firms[g]
  BY <1>0, <1>3 DEF RecordsTypeOK, OrMissing
<1>5. row # Missing
  BY RecordEdits
<1>6. \A g \in Registered : g \in Registered' /\ firms'[g].facts = firms[g].facts
  BY <1>3, <1>4, <1>5 DEF Registered
<1>7. /\ visit' \in [ Visits -> OrMissing(Correcting \cup Closure) ]
      /\ \A v \in Visits : visit'[v] = visit[v] \/ visit'[v] = Missing
      /\ \A v \in Visits : Pending(v) => visit'[v] = visit[v]
      /\ \A g \in Firms : CorrectingFirm(g)' = CorrectingFirm(g)
  <2>1. CASE visit' = visit
    BY <1>0, <2>1 DEF RecordsTypeOK, CorrectingFirm, Visiting
  <2>2. ASSUME NEW v \in Visits, visit[v] # Missing, ~Pending(v), Departs(v)
        PROVE  /\ visit' \in [ Visits -> OrMissing(Correcting \cup Closure) ]
               /\ \A w \in Visits : visit'[w] = visit[w] \/ visit'[w] = Missing
               /\ \A w \in Visits : Pending(w) => visit'[w] = visit[w]
               /\ \A g \in Firms : CorrectingFirm(g)' = CorrectingFirm(g)
    <3>1. \A g : v \notin CorrectingFirm(g)
      BY <1>0, <2>2, VisitTyped
    <3> QED BY <1>0, <2>2, <3>1, Left
  <2> QED BY <1>3, <2>1, <2>2
<1>8. RecordsTypeOK'
  BY <1>0, <1>1, <1>4, <1>7 DEF RecordsTypeOK
<1>9. \A v \in Visits : visit'[v] # Missing => visit'[v].firm \in Registered'
  BY <1>6, <1>7 DEF RecordsInv, UnderRegistered
<1> QED BY <1>1, <1>6, <1>7, <1>8, <1>9, FactsRest

LEMMA AskClosureKeeps ==
  ASSUME RecordsInv, NEW v \in Visits, NEW f \in Registered, AskDeactivate(v, f) \/ AskArchive(v, f) PROVE RecordsInv'
<1>0. RecordsTypeOK /\ f \in Firms
  BY RowTyped DEF RecordsInv
<1>1. PICK how \in {"deactivate", "archive"} : AskClosure(v, how, f)
  BY DEF AskDeactivate, AskArchive
<1> DEFINE row == [ kind |-> how, firm |-> f ]
<1>2. visit[v] = Missing /\ visit' = [ visit EXCEPT ![v] = row ] /\ UNCHANGED << firms, cases, trail, relied, crossed >>
  BY <1>1 DEF AskClosure
<1>3. row \in Closure /\ row.kind = how /\ row.firm = f
  BY <1>0 DEF Closure
<1> HIDE DEF row
<1>4. /\ visit' \in [ Visits -> OrMissing(Correcting \cup Closure) ] /\ visit'[v] = row
      /\ \A w \in Visits : w # v => visit'[w] = visit[w]
  BY <1>0, <1>2, <1>3 DEF RecordsTypeOK, OrMissing
<1>5. RecordsTypeOK'
  BY <1>0, <1>2, <1>4 DEF RecordsTypeOK
<1>6. Registered' = Registered
  BY <1>2 DEF Registered
<1>7. \A g \in Firms : CorrectingFirm(g)' = CorrectingFirm(g)
  BY <1>2, <1>3, <1>4 DEF CorrectingFirm, Visiting
<1>8. \A w \in Visits : Pending(w) => visit'[w] = visit[w]
  BY <1>2, <1>4 DEF Pending, Visiting
<1>9. \A w \in Visits : visit'[w] # Missing => visit'[w].firm \in Registered'
  BY <1>3, <1>4, <1>6 DEF RecordsInv, UnderRegistered
<1> QED BY <1>2, <1>5, <1>6, <1>7, <1>8, <1>9, FactsRest

-----------------------------------------------------------------------------
\* An officer or the owner asks: what it is told is what the business says.
LEMMA AskCorrectionKeeps ==
  ASSUME RecordsInv, NEW v \in Visits, NEW kind \in {"owner", "office"}, NEW f \in Firms, NEW facts \in Facts,
         AskCorrection(v, kind, f, facts)
  PROVE  RecordsInv'
<1>0. RecordsTypeOK
  BY DEF RecordsInv
<1> DEFINE row == [ kind |-> kind, firm |-> f, before |-> firms[f].facts, facts |-> facts, written |-> FALSE ]
<1>1. /\ visit[v] = Missing /\ f \in Registered /\ visit' = [ visit EXCEPT ![v] = row ]
      /\ kind = "owner" => (facts # firms[f].facts => ~filedUnder(f))
      /\ UNCHANGED << firms, cases, trail, relied, crossed >>
  BY DEF AskCorrection, CorrectsOwn
<1>2. firms[f].facts \in Facts
  BY <1>0, <1>1, RowTyped, RecordEdits
<1>3. /\ row \in Correcting /\ row.kind = kind /\ row.firm = f /\ row.before = firms[f].facts /\ row.facts = facts
      /\ ~row.written
  BY <1>2 DEF Correcting
<1> HIDE DEF row
<1>4. /\ visit' \in [ Visits -> OrMissing(Correcting \cup Closure) ] /\ visit'[v] = row
      /\ \A w \in Visits : w # v => visit'[w] = visit[w]
  BY <1>0, <1>1, <1>3 DEF RecordsTypeOK, OrMissing
<1>5. RecordsTypeOK'
  BY <1>0, <1>1, <1>4 DEF RecordsTypeOK
<1>6. Registered' = Registered /\ OnFile' = OnFile /\ \A g : filedUnder(g)' = filedUnder(g)
  BY <1>1 DEF Registered, OnFile, filedUnder, CasesUnder
<1>7. UnderRegistered'
  BY <1>1, <1>3, <1>4, <1>6 DEF RecordsInv, UnderRegistered
<1>8. row # Missing
  BY <1>3, RecordEdits
<1>9. \A g \in Firms : CorrectingFirm(g)' = (IF g = f THEN CorrectingFirm(g) \cup {v} ELSE CorrectingFirm(g))
  BY <1>1, <1>3, <1>4, <1>8 DEF CorrectingFirm, Visiting
<1>10. \A g : v \notin CorrectingFirm(g)
  BY <1>1 DEF CorrectingFirm, Visiting
<1>11. ASSUME NEW g \in Firms, relied'[g] # Missing, g \notin crossed' PROVE Accounted(g)'
  <2>1. Accounted(g)
    BY <1>1, <1>11 DEF RecordsInv
  <2>2. Corrections(g)' = Corrections(g) /\ (\A n, told : Says(g, n, told)' = Says(g, n, told)) /\ trail' = trail
        /\ firms' = firms
    BY <1>1 DEF Corrections, Says
  <2>3. \A w \in CorrectingFirm(g)' : (w \in CorrectingFirm(g) /\ w # v /\ visit'[w] = visit[w]) \/ (w = v /\ g = f)
    <3>1. \A w \in CorrectingFirm(g) : w \in Visits
      BY DEF CorrectingFirm
    <3> QED BY <1>4, <1>9, <1>10, <3>1
  <2>4. g = f => (kind = "owner" => facts = firms[f].facts)
    BY <1>1, <1>11 DEF RecordsInv, UnderRegistered
  <2>5. Asking(g)'
    BY <1>3, <1>4, <2>1, <2>2, <2>3, <2>4 DEF Accounted, Asking
  <2>6. (\A w \in CorrectingFirm(g)' : ~visit'[w].written) => \A w \in CorrectingFirm(g) : ~visit[w].written
    BY <1>4, <1>9, <1>10 DEF CorrectingFirm
  <2> QED BY <2>1, <2>2, <2>5, <2>6 DEF Accounted
<1>12. Dated'
  BY <1>1 DEF RecordsInv, Dated
<1> QED BY <1>5, <1>7, <1>11, <1>12 DEF RecordsInv

\* The update.  Whoever writes while nobody else asks writes over what it was
\* told; whoever does not is remembered.
LEMMA WriteCorrectionKeeps ==
  ASSUME RecordsInv, NEW v \in Visits, WriteCorrection(v) PROVE RecordsInv'
<1>0. RecordsTypeOK
  BY DEF RecordsInv
<1> DEFINE f == visit[v].firm
           row == [ firms[f] EXCEPT !.facts = visit[v].facts ]
           after == [ visit[v] EXCEPT !.written = TRUE ]
           silent == visit[v].kind = "owner" \/ visit[v].before = visit[v].facts
           alone == CorrectingFirm(f) = {v}
<1>1. /\ Pending(v) /\ ~visit[v].written /\ firms' = [ firms EXCEPT ![f] = row ]
      /\ silent => Departs(v)
      /\ ~silent => visit' = [ visit EXCEPT ![v] = after ]
      /\ crossed' = (IF alone THEN crossed ELSE crossed \cup {f})
      /\ UNCHANGED << cases, trail, relied >>
  <2>1. Visiting(v, {"owner", "office"}) /\ ~visit[v].written /\ firms' = [ firms EXCEPT ![f].facts = visit[v].facts ]
        /\ UNCHANGED << cases, trail, relied >>
    BY DEF WriteCorrection
  <2>2. IF silent THEN Departs(v) ELSE visit' = [ visit EXCEPT ![v].written = TRUE ]
    BY DEF WriteCorrection
  <2>3. crossed' = (IF CorrectingFirm(f) # {v} THEN crossed \cup {f} ELSE crossed)
    BY DEF WriteCorrection
  <2> QED BY <2>1, <2>2, <2>3 DEF Pending
<1>2. visit[v] \in Correcting /\ visit[v] # Missing
  BY <1>0, <1>1, VisitTyped, RecordEdits
<1>3. f \in Registered /\ f \in Firms /\ firms[f] \in Firm
  BY <1>0, <1>2, RowTyped DEF RecordsInv, UnderRegistered
<1>4. visit[v].facts \in Facts /\ visit[v].kind \in {"owner", "office"}
  BY <1>2 DEF Correcting
<1>5. row \in Firm /\ row # Missing
  BY <1>3, <1>4, RecordEdits
<1>6. row.facts = visit[v].facts
  BY <1>3 DEF Firm
<1>7. after \in Correcting /\ after # Missing
  BY <1>2, RecordEdits
<1>8. after.kind = visit[v].kind /\ after.firm = f /\ after.before = visit[v].before /\ after.facts = visit[v].facts
      /\ after.written
  BY <1>2 DEF Correcting
<1>9. v \in CorrectingFirm(f) /\ \A g : g # f => v \notin CorrectingFirm(g)
  BY <1>0, <1>1, VisitTyped
<1> HIDE DEF f, row, after, silent
<1>10. firms' \in [ Firms -> OrMissing(Firm) ] /\ firms'[f] = row /\ \A g \in Firms : g # f => firms'[g] = firms[g]
  BY <1>0, <1>1, <1>3, <1>5 DEF RecordsTypeOK, OrMissing
<1>11. /\ visit' \in [ Visits -> OrMissing(Correcting \cup Closure) ]
       /\ visit'[v] = (IF silent THEN Missing ELSE after)
       /\ \A w \in Visits : w # v => visit'[w] = visit[w]
  <2>1. CASE silent
    BY <1>0, <1>1, <2>1, Left
  <2>2. CASE ~silent
    BY <1>0, <1>1, <1>7, <2>2 DEF RecordsTypeOK, OrMissing
  <2> QED BY <2>1, <2>2
<1>12. RecordsTypeOK'
  BY <1>0, <1>1, <1>3, <1>10, <1>11 DEF RecordsTypeOK
<1>13. Registered' = Registered /\ OnFile' = OnFile /\ \A g : filedUnder(g)' = filedUnder(g)
  BY <1>1, <1>3, <1>5, <1>10 DEF Registered, OnFile, filedUnder, CasesUnder
<1>14. UnderRegistered'
  BY <1>1, <1>3, <1>8, <1>11, <1>13 DEF RecordsInv, UnderRegistered
<1>15. \A g \in Firms : /\ g # f => CorrectingFirm(g)' = CorrectingFirm(g)
                        /\ g = f => CorrectingFirm(g)' = (IF silent THEN CorrectingFirm(g) \ {v} ELSE CorrectingFirm(g))
  BY <1>1, <1>4, <1>7, <1>8, <1>9, <1>11 DEF CorrectingFirm, Visiting, Pending
<1>16. ASSUME NEW g \in Firms, relied'[g] # Missing, g \notin crossed' PROVE Accounted(g)'
  <2>1. Accounted(g)
    BY <1>1, <1>16 DEF RecordsInv
  <2>2. Corrections(g)' = Corrections(g) /\ (\A n, told : Says(g, n, told)' = Says(g, n, told)) /\ trail' = trail
    BY <1>1 DEF Corrections, Says
  <2>3. CASE g # f
    <3>1. firms'[g] = firms[g] /\ CorrectingFirm(g)' = CorrectingFirm(g)
          /\ \A w \in CorrectingFirm(g) : visit'[w] = visit[w]
      BY <1>9, <1>10, <1>11, <1>15, <2>3 DEF CorrectingFirm
    <3>2. Asking(g)'
      BY <2>1, <2>2, <3>1 DEF Accounted, Asking
    <3> QED BY <2>1, <2>2, <3>1, <3>2 DEF Accounted
  <2>4. CASE g = f
    <3>1. CorrectingFirm(g) = {v}
      BY <1>1, <1>16, <2>4
    <3>2. /\ visit[v].before = firms[g].facts /\ Says(g, Len(trail) + 1, firms[g].facts)
          /\ visit[v].kind = "owner" => visit[v].facts = firms[g].facts
      BY <1>1, <2>1, <3>1 DEF Accounted, Asking
    <3>3. firms'[g].facts = visit[v].facts
      BY <1>6, <1>10, <2>4
    <3>4. CASE silent
      <4>1. CorrectingFirm(g)' = {} /\ firms'[g].facts = firms[g].facts
        BY <1>15, <2>4, <3>1, <3>2, <3>3, <3>4 DEF silent
      <4>2. Asking(g)'
        BY <4>1 DEF Asking
      <4> QED BY <2>1, <2>2, <3>2, <4>1, <4>2 DEF Accounted
    <3>5. CASE ~silent
      <4>1. CorrectingFirm(g)' = {v} /\ visit'[v] = after /\ visit[v].kind = "office"
        BY <1>4, <1>11, <1>15, <2>4, <3>1, <3>5 DEF silent
      <4>2. Asking(g)'
        BY <1>8, <2>2, <3>2, <3>3, <4>1 DEF Asking
      <4> QED BY <1>8, <2>1, <2>2, <4>1, <4>2 DEF Accounted
    <3> QED BY <3>4, <3>5
  <2> QED BY <2>3, <2>4
<1>17. Dated'
  BY <1>1 DEF RecordsInv, Dated
<1> QED BY <1>12, <1>14, <1>16, <1>17 DEF RecordsInv

LEMMA RecordCorrectionKeeps ==
  ASSUME RecordsInv, NEW v \in Visits, RecordCorrection(v) PROVE RecordsInv'
<1>0. RecordsTypeOK
  BY DEF RecordsInv
<1> DEFINE f == visit[v].firm
           entry == [ firm |-> f, before |-> visit[v].before, after |-> visit[v].facts ]
           end == Len(trail) + 1
<1>1. /\ Visiting(v, {"office"}) /\ visit[v].written /\ trail' = Append(trail, entry) /\ Departs(v)
      /\ UNCHANGED << firms, cases, relied, crossed >>
  BY DEF RecordCorrection
<1>2. Pending(v) /\ visit[v] \in Correcting
  BY <1>0, <1>1, VisitTyped DEF Pending, Visiting
<1>3. entry \in Correction /\ entry.firm = f /\ entry.before = visit[v].before /\ entry.after = visit[v].facts
  BY <1>2 DEF Correcting, Correction
<1>4. v \in CorrectingFirm(f) /\ \A g : g # f => v \notin CorrectingFirm(g)
  BY <1>0, <1>2, VisitTyped
<1> HIDE DEF f, entry
<1>5. /\ trail' \in Seq(Correction) /\ Len(trail') = end /\ Len(trail) \in Nat /\ trail'[end] = entry
      /\ \A n \in 1..Len(trail) : trail'[n] = trail[n]
      /\ DOMAIN trail = 1..Len(trail) /\ DOMAIN trail' = 1..end
  BY <1>0, <1>1, <1>3 DEF RecordsTypeOK
<1>6. /\ visit' \in [ Visits -> OrMissing(Correcting \cup Closure) ] /\ visit'[v] = Missing
      /\ \A w \in Visits : w # v => visit'[w] = visit[w]
      /\ \A g : CorrectingFirm(g)' = CorrectingFirm(g) \ {v}
  BY <1>0, <1>1, Left
<1>7. RecordsTypeOK'
  BY <1>0, <1>1, <1>5, <1>6 DEF RecordsTypeOK
<1>8. Registered' = Registered /\ OnFile' = OnFile /\ \A g : filedUnder(g)' = filedUnder(g)
  BY <1>1 DEF Registered, OnFile, filedUnder, CasesUnder
<1>9. UnderRegistered'
  BY <1>1, <1>6, <1>8 DEF RecordsInv, UnderRegistered
<1>10. ASSUME NEW g \in Firms, relied'[g] # Missing, g \notin crossed' PROVE Accounted(g)'
  <2>1. Accounted(g) /\ relied[g] \in Reliance
    BY <1>0, <1>1, <1>10 DEF RecordsInv, RecordsTypeOK, OrMissing
  <2>2. relied[g].since \in Nat
    BY <2>1 DEF Reliance
  <2>3. \A n \in Corrections(g) : n \in 1..Len(trail)
    BY <1>5 DEF Corrections
  <2>4. CASE g # f
    <3>1. Corrections(g)' = Corrections(g)
      BY <1>1, <1>3, <1>5, <2>4 DEF Corrections
    <3>2. \A n, told : Says(g, n, told)' = Says(g, n, told)
      BY <1>1, <1>5, <2>3, <3>1 DEF Says
    <3>3. \A told : Says(g, end, told) => Says(g, end + 1, told)
      BY <1>5, <2>3 DEF Says
    <3>4. /\ firms'[g] = firms[g] /\ CorrectingFirm(g)' = CorrectingFirm(g)
          /\ \A w \in CorrectingFirm(g) : visit'[w] = visit[w]
      <4>1. \A w \in CorrectingFirm(g) : w \in Visits /\ w # v
        BY <1>4, <2>4 DEF CorrectingFirm
      <4>2. CorrectingFirm(g) \ {v} = CorrectingFirm(g)
        BY <4>1
      <4> QED BY <1>1, <1>6, <4>1, <4>2
    <3>5. \A n \in Corrections(g) : trail'[n] = trail[n]
      BY <1>5, <2>3
    <3>6. \A told : Says(g, end, told) => Says(g, Len(trail) + 1, told)'
      <4>1. Len(trail') + 1 = end + 1
        BY <1>5
      <4>2. \A n, told : n = Len(trail') + 1 /\ Says(g, n, told) => Says(g, n, told)'
        BY <3>2
      <4> QED BY <3>3, <4>1, <4>2
    <3>7. Asking(g)'
      BY <2>1, <3>4, <3>6 DEF Accounted, Asking
    <3>8. (\A w \in CorrectingFirm(g)' : ~visit'[w].written) => Says(g, Len(trail) + 1, firms[g].facts)'
      BY <2>1, <3>4, <3>6 DEF Accounted
    <3>9. \A n \in Corrections(g)' : Says(g, n, trail[n].before)'
      BY <2>1, <3>1, <3>2, <3>5 DEF Accounted
    <3> QED BY <3>7, <3>8, <3>9 DEF Accounted
  <2>5. CASE g = f
    <3>1. /\ visit[v].facts = firms[g].facts /\ Says(g, end, visit[v].before)
          /\ \A w \in CorrectingFirm(g) : w # v => ~visit[w].written
      BY <1>1, <1>4, <2>1, <2>5 DEF Accounted, Asking
    <3>2. relied[g].since <= end
      BY <1>1, <1>10 DEF RecordsInv, Dated
    <3>3. Corrections(g)' = Corrections(g) \cup {end}
      <4>1. \A n : n \in Corrections(g)' <=> n \in Corrections(g) \/ n = end
        BY <1>1, <1>3, <1>5, <2>2, <2>5, <3>2 DEF Corrections
      <4> QED BY <4>1
    <3>4. \A n, told : n \in 1..end => (Says(g, n, told) => Says(g, n, told)')
      <4> SUFFICES ASSUME NEW n \in 1..end, NEW told, Says(g, n, told) PROVE Says(g, n, told)'
        OBVIOUS
      <4>1. CASE told = relied[g].facts /\ \A m \in Corrections(g) : m >= n
        <5>1. \A m \in Corrections(g)' : m >= n
          BY <1>5, <3>3, <4>1
        <5> QED BY <1>1, <4>1, <5>1 DEF Says
      <4>2. ASSUME NEW m \in Corrections(g), m < n, told = trail[m].after,
                   \A k \in Corrections(g) : k <= m \/ k >= n
            PROVE  Says(g, n, told)'
        <5>1. m \in Corrections(g)' /\ told = trail'[m].after
          BY <1>5, <2>3, <3>3, <4>2
        <5>2. \A k \in Corrections(g)' : k <= m \/ k >= n
          BY <1>5, <3>3, <4>2
        <5>3. \E q \in Corrections(g)' : /\ q < n /\ told = trail'[q].after
                                        /\ \A k \in Corrections(g)' : k <= q \/ k >= n
          BY <4>2, <5>1, <5>2
        <5> QED BY <5>3 DEF Says
      <4> QED BY <4>1, <4>2 DEF Says
    <3>5. \A n : n = end + 1 => Says(g, n, firms[g].facts)'
      <4> SUFFICES ASSUME NEW n, n = end + 1 PROVE Says(g, n, firms[g].facts)'
        OBVIOUS
      <4>1. end \in Corrections(g)' /\ end < n /\ firms'[g].facts = trail'[end].after
        BY <1>1, <1>3, <1>5, <3>1, <3>3
      <4>2. \A k \in Corrections(g)' : k <= end \/ k >= n
        BY <1>5, <2>3, <3>3
      <4> QED BY <4>1, <4>2 DEF Says
    <3>6. \A w \in CorrectingFirm(g)' : w \in CorrectingFirm(g) /\ visit'[w] = visit[w] /\ ~visit[w].written
      BY <1>6, <3>1 DEF CorrectingFirm
    <3>7. Asking(g)'
      BY <1>1, <2>1, <3>6 DEF Accounted, Asking
    <3>8. Says(g, Len(trail) + 1, firms[g].facts)'
      BY <1>5, <3>5
    <3>9. ASSUME NEW n \in Corrections(g)' PROVE Says(g, n, trail[n].before)'
      <4>1. CASE n = end
        BY <1>3, <1>5, <2>5, <3>1, <3>4, <4>1
      <4>2. CASE n \in Corrections(g)
        <5>1. Says(g, n, trail[n].before) /\ n \in 1..end /\ trail'[n] = trail[n]
          BY <1>5, <2>1, <2>3, <4>2 DEF Accounted
        <5>2. \A told : told = trail[n].before => Says(g, n, told)'
          BY <3>4, <5>1
        <5> QED BY <5>1, <5>2
      <4> QED BY <3>3, <4>1, <4>2
    <3> QED BY <3>7, <3>8, <3>9 DEF Accounted
  <2> QED BY <2>4, <2>5
<1>11. Dated'
  <2>1. \A g \in Firms : relied[g] # Missing => relied[g].since \in Nat
    BY <1>0, RecordEdits DEF RecordsTypeOK, OrMissing, Reliance
  <2> QED BY <1>1, <1>5, <2>1 DEF RecordsInv, Dated
<1> QED BY <1>7, <1>9, <1>10, <1>11 DEF RecordsInv

LEMMA VisitEndsKeeps ==
  ASSUME RecordsInv, NEW v \in Visits, VisitEnds(v) PROVE RecordsInv'
<1>0. RecordsTypeOK
  BY DEF RecordsInv
<1> DEFINE f == visit[v].firm
           unsaid == Visiting(v, {"office"}) /\ visit[v].written
<1>1. /\ visit[v] # Missing /\ Departs(v) /\ crossed' = (IF unsaid THEN crossed \cup {f} ELSE crossed)
      /\ UNCHANGED << firms, cases, trail, relied >>
  BY DEF VisitEnds
<1>2. f \in Firms
  BY <1>0, <1>1, VisitTyped
<1>3. \A g : v \in CorrectingFirm(g) <=> Pending(v) /\ f = g
  BY <1>0, VisitTyped
<1>4. unsaid <=> Visiting(v, {"office"}) /\ visit[v].written
  OBVIOUS
<1> HIDE DEF f, unsaid
<1>5. /\ visit' \in [ Visits -> OrMissing(Correcting \cup Closure) ] /\ visit'[v] = Missing
      /\ \A w \in Visits : w # v => visit'[w] = visit[w]
      /\ \A g : CorrectingFirm(g)' = CorrectingFirm(g) \ {v}
  BY <1>0, <1>1, Left
<1>6. RecordsTypeOK'
  BY <1>0, <1>1, <1>2, <1>5 DEF RecordsTypeOK
<1>7. Registered' = Registered /\ OnFile' = OnFile /\ \A g : filedUnder(g)' = filedUnder(g)
  BY <1>1 DEF Registered, OnFile, filedUnder, CasesUnder
<1>8. UnderRegistered' /\ Dated'
  BY <1>1, <1>5, <1>7 DEF RecordsInv, UnderRegistered, Dated
<1>9. ASSUME NEW g \in Firms, relied'[g] # Missing, g \notin crossed' PROVE Accounted(g)'
  <2>1. Accounted(g)
    BY <1>1, <1>9 DEF RecordsInv
  <2>2. Corrections(g)' = Corrections(g) /\ (\A n, told : Says(g, n, told)' = Says(g, n, told)) /\ trail' = trail
        /\ firms' = firms
    BY <1>1 DEF Corrections, Says
  <2>3. v \in CorrectingFirm(g) => ~visit[v].written
    <3>1. v \in CorrectingFirm(g) => f = g
      BY <1>3
    <3>2. v \in CorrectingFirm(g) => ~unsaid
      BY <1>1, <1>9, <3>1
    <3>3. v \in CorrectingFirm(g) /\ visit[v].written => visit[v].kind = "office"
      BY <2>1 DEF Accounted, Asking
    <3> QED BY <1>1, <1>4, <3>2, <3>3 DEF Visiting
  <2>4. \A w \in CorrectingFirm(g)' : w \in CorrectingFirm(g) /\ visit'[w] = visit[w]
    BY <1>5 DEF CorrectingFirm
  <2>5. Asking(g)'
    BY <2>1, <2>2, <2>4 DEF Accounted, Asking
  <2>6. \A w \in CorrectingFirm(g) : w # v => w \in CorrectingFirm(g)'
    BY <1>5
  <2>7. (\A w \in CorrectingFirm(g)' : ~visit'[w].written) => \A w \in CorrectingFirm(g) : ~visit[w].written
    BY <2>3, <2>4, <2>6
  <2> QED BY <2>1, <2>2, <2>5, <2>7 DEF Accounted
<1> QED BY <1>6, <1>8, <1>9 DEF RecordsInv

-----------------------------------------------------------------------------
\* Applications change, none of them its business or whether it is filed.
LEMMA CasesRest ==
  ASSUME RecordsInv, cases' \in [ Cases -> OrMissing(Case) ], UNCHANGED << firms, trail, visit, relied, crossed >>,
         OnFile' = OnFile,
         \A c \in OnFile : cases'[c].firm = cases[c].firm /\ cases'[c].status = cases[c].status
  PROVE  RecordsInv'
<1>1. RecordsTypeOK'
  BY DEF RecordsInv, RecordsTypeOK
<1>2. Registered' = Registered /\ \A f : filedUnder(f)' = filedUnder(f)
  <2>1. \A f : CasesUnder(f)' = CasesUnder(f)
    BY DEF CasesUnder
  <2>2. \A f : \A c \in CasesUnder(f) : cases'[c].status = cases[c].status
    BY DEF CasesUnder
  <2> QED BY <2>1, <2>2 DEF filedUnder, Registered
<1>3. UnderRegistered' /\ Dated'
  BY <1>2 DEF RecordsInv, UnderRegistered, Dated
<1>4. \A f \in Firms : Accounted(f)' = Accounted(f)
  BY DEF Accounted, Asking, Says, Corrections, CorrectingFirm, Visiting
<1> QED BY <1>1, <1>3, <1>4 DEF RecordsInv

LEMMA CaseRowsRest ==
  ASSUME RecordsInv,
         \/ \E c \in Cases : GoOn(c) \/ BringBack(c)
         \/ \E batch \in SUBSET Cases : PutAway(batch)
  PROVE  RecordsInv'
<1>0. RecordsTypeOK
  BY DEF RecordsInv
<1>1. ASSUME NEW c \in OnFile, NEW row \in Case, row.firm = cases[c].firm, row.status = cases[c].status,
             cases' = [ cases EXCEPT ![c] = row ], UNCHANGED << firms, trail, visit, relied, crossed >>
      PROVE  RecordsInv'
  <2>1. c \in Cases /\ row # Missing
    BY RecordEdits DEF OnFile
  <2>2. cases' \in [ Cases -> OrMissing(Case) ] /\ cases'[c] = row /\ \A d \in Cases : d # c => cases'[d] = cases[d]
    BY <1>0, <1>1, <2>1 DEF RecordsTypeOK, OrMissing
  <2>3. OnFile' = OnFile
    BY <2>1, <2>2 DEF OnFile
  <2>4. \A d \in OnFile : cases'[d].firm = cases[d].firm /\ cases'[d].status = cases[d].status
    BY <1>1, <2>2 DEF OnFile
  <2> QED BY <1>1, <2>2, <2>3, <2>4, CasesRest
<1>2. ASSUME NEW c \in Cases, GoOn(c) PROVE RecordsInv'
  <2> DEFINE row == [ cases[c] EXCEPT !.order = TRUE, !.permit = cases[c].order ]
  <2>1. c \in OnFile /\ cases' = [ cases EXCEPT ![c] = row ] /\ UNCHANGED << firms, trail, visit, relied, crossed >>
    BY <1>2 DEF GoOn
  <2>2. cases[c] \in Case
    BY <1>0, <2>1, RowTyped
  <2>3. cases[c].order \in BOOLEAN
    BY <2>2 DEF Case
  <2>4. row \in Case
    BY <2>2, <2>3, RecordEdits
  <2>5. row.firm = cases[c].firm /\ row.status = cases[c].status
    BY <2>2 DEF Case
  <2> HIDE DEF row
  <2> QED BY <1>1, <2>1, <2>4, <2>5
<1>3. ASSUME NEW c \in Cases, BringBack(c) PROVE RecordsInv'
  <2> DEFINE row == [ cases[c] EXCEPT !.archived = FALSE ]
  <2>1. c \in OnFile /\ cases' = [ cases EXCEPT ![c] = row ] /\ UNCHANGED << firms, trail, visit, relied, crossed >>
    BY <1>3 DEF BringBack
  <2>2. cases[c] \in Case
    BY <1>0, <2>1, RowTyped
  <2>3. row \in Case
    BY <2>2, RecordEdits
  <2>4. row.firm = cases[c].firm /\ row.status = cases[c].status
    BY <2>2 DEF Case
  <2> HIDE DEF row
  <2> QED BY <1>1, <2>1, <2>3, <2>4
<1>4. ASSUME NEW batch \in SUBSET Cases, PutAway(batch) PROVE RecordsInv'
  <2>1. /\ batch \subseteq OnFile /\ UNCHANGED << firms, trail, visit, relied, crossed >>
        /\ cases' = [ c \in Cases |-> IF c \in batch THEN [ cases[c] EXCEPT !.archived = TRUE ] ELSE cases[c] ]
    BY <1>4 DEF PutAway
  <2>2. \A c \in OnFile : cases[c] \in Case
    BY <1>0, RowTyped
  <2>3. \A x \in Case : /\ [ x EXCEPT !.archived = TRUE ] \in Case /\ [ x EXCEPT !.archived = TRUE ] # Missing
                        /\ [ x EXCEPT !.archived = TRUE ].firm = x.firm
                        /\ [ x EXCEPT !.archived = TRUE ].status = x.status
    <3>1. \A x \in Case : [ x EXCEPT !.archived = TRUE ] \in Case
      BY RecordEdits
    <3>2. \A x \in Case : [ x EXCEPT !.archived = TRUE ].firm = x.firm /\ [ x EXCEPT !.archived = TRUE ].status = x.status
      BY DEF Case
    <3> QED BY <3>1, <3>2, RecordEdits
  <2>4. \A c \in Cases : cases'[c] = (IF c \in batch THEN [ cases[c] EXCEPT !.archived = TRUE ] ELSE cases[c])
    BY <2>1
  <2>5. \A c \in batch : cases[c] \in Case /\ c \in OnFile
    BY <2>1, <2>2
  <2>6. \A c \in Cases : cases'[c] \in OrMissing(Case)
    BY <1>0, <2>3, <2>4, <2>5, ZenonT(60) DEF RecordsTypeOK, OrMissing
  <2>7. cases' \in [ Cases -> OrMissing(Case) ]
    BY <2>1, <2>6
  <2>8. OnFile' = OnFile
    <3>1. \A c \in batch : cases[c] # Missing
      BY <2>5 DEF OnFile
    <3>2. \A c \in Cases : (cases'[c] # Missing) = (cases[c] # Missing)
      BY <2>3, <2>4, <2>5, <3>1
    <3> QED BY <3>2 DEF OnFile
  <2>9. \A c \in OnFile : cases'[c].firm = cases[c].firm /\ cases'[c].status = cases[c].status
    BY <2>3, <2>4, <2>5 DEF OnFile
  <2> QED BY <2>1, <2>7, <2>8, <2>9, CasesRest
<1> QED BY <1>2, <1>3, <1>4

\* An application comes under a business, or leaves it, or its status changes:
\* the office relies on the facts it finds if nobody is correcting them.
LEMMA ReliancesKeep ==
  ASSUME RecordsInv, NEW c \in Cases, NEW row \in Case, row.firm \in OrMissing(Registered),
         cases' = [ cases EXCEPT ![c] = row ], Reliances, UNCHANGED << firms, trail, visit >>
  PROVE  RecordsInv'
<1>0. RecordsTypeOK
  BY DEF RecordsInv
<1>1. cases' \in [ Cases -> OrMissing(Case) ] /\ cases'[c] = row /\ \A d \in Cases : d # c => cases'[d] = cases[d]
  BY <1>0 DEF RecordsTypeOK, OrMissing
<1>2. Registered' = Registered
  BY DEF Registered
<1>3. \A d \in OnFile' : cases'[d].firm \in OrMissing(Registered)
  BY <1>1 DEF OnFile, RecordsInv, UnderRegistered
<1>4. \A f \in Firms : filedUnder(f)' => f \in Registered
  <2> SUFFICES ASSUME NEW f \in Firms, filedUnder(f)' PROVE f \in Registered
    OBVIOUS
  <2>1. PICK d \in OnFile' : cases'[d].firm = f
    BY DEF filedUnder, CasesUnder
  <2>2. f # Missing
    BY RecordsAssumption DEF RecordsAssumption
  <2> QED BY <1>3, <2>1, <2>2 DEF OrMissing
<1>5. \A f \in Firms : /\ ~filedUnder(f)' => relied'[f] = Missing
                       /\ filedUnder(f)' /\ relied[f] # Missing => relied'[f] = relied[f]
                       /\ filedUnder(f)' /\ relied[f] = Missing =>
                            relied'[f] = [ facts |-> firms[f].facts, since |-> Len(trail) + 1 ]
  BY DEF Reliances
<1>6. \A f \in Firms : f \notin crossed' => f \notin crossed /\ (relied[f] = Missing /\ filedUnder(f)' => CorrectingFirm(f) = {})
  BY DEF Reliances
<1>7. Len(trail) + 1 \in Nat
  BY <1>0 DEF RecordsTypeOK
<1>8. \A f \in Registered : [ facts |-> firms[f].facts, since |-> Len(trail) + 1 ] \in Reliance
  <2>1. \A f \in Registered : firms[f].facts \in Facts
    BY <1>0, RowTyped, RecordEdits
  <2> QED BY <1>7, <2>1 DEF Reliance
<1>9. \A x \in Reliance : x # Missing
  BY RecordEdits
<1>10. \A f \in Firms : relied'[f] \in OrMissing(Reliance)
  BY <1>0, <1>4, <1>5, <1>8 DEF RecordsTypeOK, OrMissing
<1>11. relied' \in [ Firms -> OrMissing(Reliance) ] /\ crossed' \subseteq Firms
  BY <1>0, <1>10 DEF Reliances, RecordsTypeOK
<1>12. RecordsTypeOK'
  BY <1>0, <1>1, <1>11 DEF RecordsTypeOK
<1>13. \A f \in Firms : relied'[f] # Missing <=> filedUnder(f)'
  BY <1>4, <1>5, <1>8, <1>9
<1>14. UnderRegistered'
  BY <1>2, <1>3, <1>13 DEF RecordsInv, UnderRegistered, OrMissing
<1>15. Dated'
  <2> SUFFICES ASSUME NEW f \in Firms, relied'[f] # Missing PROVE relied'[f].since <= Len(trail) + 1
    BY DEF Dated
  <2>1. CASE relied[f] # Missing
    BY <1>5, <1>13, <2>1 DEF RecordsInv, Dated
  <2>2. CASE relied[f] = Missing
    <3>1. relied'[f] = [ facts |-> firms[f].facts, since |-> Len(trail) + 1 ]
      BY <1>5, <1>13, <2>2
    <3>2. relied'[f].since = Len(trail) + 1
      BY <3>1
    <3> QED BY <1>7, <3>2
  <2> QED BY <2>1, <2>2
<1>16. ASSUME NEW f \in Firms, relied'[f] # Missing, f \notin crossed' PROVE Accounted(f)'
  <2>1. firms' = firms /\ visit' = visit /\ trail' = trail /\ CorrectingFirm(f)' = CorrectingFirm(f)
    BY DEF CorrectingFirm, Visiting
  <2>2. CASE relied[f] # Missing
    <3>1. Accounted(f) /\ relied'[f] = relied[f]
      BY <1>5, <1>6, <1>13, <1>16, <2>2 DEF RecordsInv
    <3>2. Corrections(f)' = Corrections(f) /\ \A n, told : Says(f, n, told)' = Says(f, n, told)
      BY <2>1, <3>1 DEF Corrections, Says
    <3>3. Asking(f)'
      BY <2>1, <3>1, <3>2 DEF Accounted, Asking
    <3> QED BY <2>1, <3>1, <3>2, <3>3 DEF Accounted
  <2>3. CASE relied[f] = Missing
    <3>1. CorrectingFirm(f)' = {} /\ relied'[f].since = Len(trail) + 1 /\ relied'[f].facts = firms[f].facts
      <4>1. filedUnder(f)'
        BY <1>13, <1>16
      <4>2. relied'[f] = [ facts |-> firms[f].facts, since |-> Len(trail) + 1 ]
        BY <1>5, <2>3, <4>1
      <4>3. relied'[f].since = Len(trail) + 1 /\ relied'[f].facts = firms[f].facts
        BY <4>2
      <4> QED BY <1>6, <1>16, <2>1, <2>3, <4>1, <4>3
    <3>2. \A n : n \notin Corrections(f)'
      <4>1. DOMAIN trail = 1..Len(trail) /\ Len(trail) \in Nat
        BY <1>0 DEF RecordsTypeOK
      <4> QED BY <2>1, <3>1, <4>1 DEF Corrections
    <3>3. Says(f, Len(trail) + 1, firms[f].facts)'
      BY <2>1, <3>1, <3>2 DEF Says
    <3>4. Asking(f)'
      BY <3>1 DEF Asking
    <3> QED BY <3>2, <3>3, <3>4 DEF Accounted
  <2> QED BY <2>2, <2>3
<1> QED BY <1>12, <1>14, <1>15, <1>16 DEF RecordsInv

LEMMA CaseMovesKeep ==
  ASSUME RecordsInv, NEW c \in Cases,
         \/ \E f \in OrMissing(Firms) : EditRecord(c, f) \/ \E status \in Standings : FileUnder(c, f, status)
         \/ \E to \in Standings : MoveOn(c, to)
  PROVE  RecordsInv'
<1>0. RecordsTypeOK
  BY DEF RecordsInv
<1>1. \A d \in OnFile : d \in Cases /\ cases[d] \in Case /\ cases[d].firm \in OrMissing(Registered)
  BY <1>0, RowTyped DEF RecordsInv, UnderRegistered
<1>2. OrMissing(Registered) \subseteq OrMissing(Firms)
  BY DEF OrMissing, Registered
<1>3. ASSUME NEW f \in OrMissing(Firms), EditRecord(c, f) PROVE RecordsInv'
  <2> DEFINE row == [ cases[c] EXCEPT !.firm = f ]
  <2>1. /\ c \in OnFile /\ f \in OrMissing(Registered) /\ cases' = [ cases EXCEPT ![c] = row ]
        /\ Reliances /\ UNCHANGED << firms, trail, visit >>
    BY <1>3 DEF EditRecord
  <2>2. row \in Case
    BY <1>1, <2>1, RecordEdits
  <2>3. row.firm = f
    BY <1>1, <2>1 DEF Case
  <2> HIDE DEF row
  <2> QED BY <2>1, <2>2, <2>3, ReliancesKeep
<1>4. ASSUME NEW f \in OrMissing(Firms), NEW status \in Standings, FileUnder(c, f, status) PROVE RecordsInv'
  <2> DEFINE row == [ status |-> status, firm |-> f, order |-> FALSE, permit |-> FALSE, archived |-> FALSE ]
  <2>1. /\ f \in OrMissing(Registered) /\ cases' = [ cases EXCEPT ![c] = row ]
        /\ Reliances /\ UNCHANGED << firms, trail, visit >>
    BY <1>4 DEF FileUnder
  <2>2. row \in Case /\ row.firm = f
    BY DEF Case
  <2> HIDE DEF row
  <2> QED BY <2>1, <2>2, ReliancesKeep
<1>5. ASSUME NEW to \in Standings, MoveOn(c, to) PROVE RecordsInv'
  <2> DEFINE row == [ cases[c] EXCEPT !.status = to ]
  <2>1. /\ c \in OnFile /\ cases' = [ cases EXCEPT ![c] = row ]
        /\ Reliances /\ UNCHANGED << firms, trail, visit >>
    BY <1>5 DEF MoveOn
  <2>2. row \in Case
    BY <1>1, <2>1, RecordEdits
  <2>3. row.firm = cases[c].firm
    BY <1>1, <2>1 DEF Case
  <2> HIDE DEF row
  <2> QED BY <1>1, <2>1, <2>2, <2>3, ReliancesKeep
<1> QED BY <1>3, <1>4, <1>5

\* While an application is filed under a business and no two requests have
\* crossed there, what the business says today is what it said when the office
\* came to rely on it, and every change between is on the trail.
THEOREM RegistrationAlwaysAccounted == RecordsSpec => []RegistrationIsAccountedFor
<1>1. RecordsInit => RecordsInv
  <2> SUFFICES ASSUME RecordsInit PROVE RecordsInv
    OBVIOUS
  <2>1. RecordsTypeOK
    BY DEF RecordsInit, RecordsTypeOK, OrMissing
  <2>2. OnFile = {} /\ \A f \in Firms : relied[f] = Missing
    BY DEF RecordsInit, OnFile
  <2>3. \A v \in Visits : visit[v] = Missing
    BY DEF RecordsInit
  <2>4. \A f \in Firms : ~filedUnder(f)
    BY <2>2 DEF filedUnder, CasesUnder
  <2> QED BY <2>1, <2>2, <2>3, <2>4 DEF RecordsInv, UnderRegistered, Dated
<1>2. RecordsInv /\ [RecordsNext]_recordsVars => RecordsInv'
  <2> SUFFICES ASSUME RecordsInv, [RecordsNext]_recordsVars PROVE RecordsInv'
    OBVIOUS
  <2>1. CASE FirmStep
    <3>1. \A f \in Firms, facts \in Facts : RegisterFirm(f, facts) => RecordsInv'
      BY FirmStepsRest
    <3>2. \A f \in Firms : Reactivate(f) \/ RestoreFirm(f) => RecordsInv'
      BY FirmStepsRest
    <3>3. \A v \in Visits : Deactivate(v) \/ ArchiveFirm(v) => RecordsInv'
      BY FirmStepsRest
    <3>4. \A v \in Visits, kind \in {"owner", "office"}, f \in Firms, facts \in Facts :
            AskCorrection(v, kind, f, facts) => RecordsInv'
      BY AskCorrectionKeeps
    <3>5. \A v \in Visits : WriteCorrection(v) \/ RecordCorrection(v) \/ VisitEnds(v) => RecordsInv'
      BY WriteCorrectionKeeps, RecordCorrectionKeeps, VisitEndsKeeps
    <3>6. \A v \in Visits, f \in Registered : AskDeactivate(v, f) \/ AskArchive(v, f) => RecordsInv'
      BY AskClosureKeeps
    <3> QED BY <2>1, <3>1, <3>2, <3>3, <3>4, <3>5, <3>6 DEF FirmStep
  <2>2. CASE CaseStep
    BY <2>2, CaseRowsRest, CaseMovesKeep DEF CaseStep
  <2>3. CASE UNCHANGED recordsVars
    <3>1. /\ cases' = cases /\ cases \in [ Cases -> OrMissing(Case) ]
          /\ UNCHANGED << firms, trail, visit, relied, crossed >>
      BY <2>3 DEF recordsVars, RecordsInv, RecordsTypeOK
    <3>2. OnFile' = OnFile
      BY <3>1 DEF OnFile
    <3> QED BY <3>1, <3>2, CasesRest
  <2> QED BY <2>1, <2>2, <2>3 DEF RecordsNext
<1>3. RecordsInv => RegistrationIsAccountedFor
  <2> SUFFICES ASSUME RecordsInv, NEW f \in Firms, relied[f] # Missing, f \notin crossed, CorrectingFirm(f) = {}
               PROVE  Says(f, Len(trail) + 1, firms[f].facts) /\ \A n \in Corrections(f) : Says(f, n, trail[n].before)
    BY DEF RegistrationIsAccountedFor
  <2> QED BY DEF RecordsInv, Accounted
<1> QED BY <1>1, <1>2, <1>3, PTL DEF RecordsSpec

-----------------------------------------------------------------------------
(*****************************************************************************)
(* FeeBook: schedules, order sheets and requests for payment.                *)
(*                                                                           *)
(* A publication closes only a schedule that began before its own does, so   *)
(* every day keeps one.  The figures an Order bills pass through four        *)
(* requests, and each shows what was signed as long as no late line was      *)
(* written.                                                                  *)
(*****************************************************************************)

Requests == Publishing \cup Closing \cup Drafting \cup Editing \cup Signing \cup Billing \cup {TillFree}

\* What a request has read still holds, or the history says why not.
Fits(r) ==
  /\ r \in Requests
  /\ r.kind = "publish" =>
       (r.replaced # Unset => r.replaced \in Published /\ schedules[r.replaced].from < r.from)
  /\ r.kind = "close" => (~lateClosing => open \ {r.method} # {})
  /\ r.kind \in {"draft", "insert"} => r.version \in Published
  /\ r.kind = "edit" => r.seen = "Draft"
  /\ r.kind \in {"edit", "submit", "approve", "issue", "supersede", "mark"} => r.sheet \in Opened
  /\ r.kind \in {"approve", "issue", "supersede", "mark"} =>
       (~lateEdit => sheets[r.sheet].status # "Draft" /\ r.shown = sheets[r.sheet].lines)
  /\ r.kind \in {"issue", "supersede", "mark"} => (~lateEdit => r.shown = sheets[r.sheet].signed)

\* An assessment that was signed says what was signed.
SheetStands(d) ==
  /\ LawfulApprover(sheets[d])
  /\ ~lateEdit =>
       /\ sheets[d].status \in {"Approved", "Issued"} => sheets[d].signed # Unset
       /\ sheets[d].signed # Unset => sheets[d].status # "Draft" /\ sheets[d].signed = sheets[d].lines

\* The Order bills it.
BillStands(bill) ==
  bill # Unset => /\ bill \in Bill /\ bill.sheet \in Opened
                  /\ ~lateEdit => bill.lines = sheets[bill.sheet].signed /\ bill.lines = sheets[bill.sheet].lines

FeeBookInv ==
  /\ FeeBookTypeOK /\ IsFiniteSet(Published)
  /\ \A day \in Nat : inForce(day) # {}
  /\ ~lateClosing => open # {}
  /\ \A t \in Tills : Fits(till[t])
  /\ \A d \in Opened : SheetStands(d)
  /\ BillStands(order)

-----------------------------------------------------------------------------
LEMMA RequestsTyped ==
  ASSUME NEW r \in Requests
  PROVE  /\ r.kind = "publish" => r \in Publishing
         /\ r.kind = "close" => r \in Closing
         /\ r.kind \in {"draft", "insert"} => r \in Drafting
         /\ r.kind = "edit" => r \in Editing
         /\ r.kind \in {"submit", "approve"} => r \in Signing
         /\ r.kind \in {"issue", "supersede", "mark"} => r \in Billing
BY DEF Requests, Publishing, Closing, Drafting, Editing, Signing, Billing, TillFree

LEMMA BookTyped ==
  ASSUME FeeBookTypeOK
  PROVE  /\ \A v \in Published : v \in Versions /\ schedules[v] \in Schedule
         /\ \A d \in Opened : d \in Drafts /\ sheets[d] \in Sheet
         /\ Unset \notin Schedule /\ Unset \notin Sheet /\ Unset \notin SheetLines /\ Unset \notin Bill
BY NoNullInBook DEF FeeBookTypeOK, Published, Opened, OrUnset

LEMMA SheetEdits ==
  ASSUME NEW x \in Sheet
  PROVE  /\ \A who \in Assessors : [ x EXCEPT !.status = "Submitted", !.submitter = who ] \in Sheet
         /\ \A who \in Assessors, lines \in SheetLines :
              [ x EXCEPT !.status = "Approved", !.approver = who, !.signed = lines ] \in Sheet
         /\ [ x EXCEPT !.status = "Issued" ] \in Sheet
<1>1. \A who \in Assessors : [ x EXCEPT !.status = "Submitted", !.submitter = who ] \in Sheet
  BY DEF Sheet, OrUnset
<1>2. \A who \in Assessors, lines \in SheetLines :
        [ x EXCEPT !.status = "Approved", !.approver = who, !.signed = lines ] \in Sheet
  BY DEF Sheet, OrUnset
<1>3. [ x EXCEPT !.status = "Issued" ] \in Sheet
  BY DEF Sheet, OrUnset
<1> QED BY <1>1, <1>2, <1>3

LEMMA LineEdits ==
  ASSUME NEW x \in Sheet, NEW l \in Lines, NEW line \in Line, NEW y,
         y = [ x EXCEPT !.lines = [ x.lines EXCEPT ![l] = line ] ]
  PROVE  /\ y \in Sheet /\ y.status = x.status /\ y.creator = x.creator /\ y.submitter = x.submitter
         /\ y.approver = x.approver /\ y.signed = x.signed
<1>1. x.lines \in [ Lines -> Line ]
  BY DEF Sheet, SheetLines
<1>2. [ x.lines EXCEPT ![l] = line ] \in SheetLines
  BY <1>1 DEF SheetLines
<1> QED BY <1>2 DEF Sheet

-----------------------------------------------------------------------------
\* A request is begun, goes on or is over, and nothing else changes.
LEMMA BookRests ==
  ASSUME FeeBookInv, NEW t \in Tills, NEW r, Fits(r), till' = [ till EXCEPT ![t] = r ],
         UNCHANGED << schedules, open, sheets, order, lateEdit, lateClosing >>, today' \in Nat
  PROVE  FeeBookInv'
<1>1. /\ Published' = Published /\ Opened' = Opened
      /\ \A day : inForce(day)' = inForce(day)
  BY DEF Published, Opened, inForce, Covers
<1>2. \A q : Fits(q)' <=> Fits(q)
  BY <1>1 DEF Fits
<1>3. \A q : Fits(q) => q \in Requests
  BY DEF Fits
<1>4. till' \in [ Tills -> Requests ] /\ \A o \in Tills : till'[o] = r \/ till'[o] = till[o]
  BY <1>3 DEF FeeBookInv, FeeBookTypeOK, Requests
<1>5. FeeBookTypeOK'
  BY <1>4 DEF FeeBookInv, FeeBookTypeOK, Requests
<1>6. \A o \in Tills : Fits(till[o])'
  <2>1. \A o \in Tills : Fits(till'[o])
    BY <1>4 DEF FeeBookInv
  <2>2. \A o \in Tills : \A q : q = till'[o] /\ Fits(q)' => Fits(till[o])'
    OBVIOUS
  <2> QED BY <1>2, <2>1, <2>2
<1>7. \A d \in Opened' : SheetStands(d)'
  BY <1>1 DEF FeeBookInv, SheetStands, LawfulApprover
<1>8. BillStands(order)'
  BY <1>1 DEF FeeBookInv, BillStands
<1> QED BY <1>1, <1>5, <1>6, <1>7, <1>8 DEF FeeBookInv

LEMMA RequestsBegin ==
  ASSUME FeeBookInv, NEW t \in Tills,
         \/ \E v \in Versions, from \in 0..MaxDay, entries \in [ Lines -> Amounts ] : BeginPublish(t, v, from, entries)
         \/ \E m \in Methods : BeginClosing(t, m)
         \/ \E officer \in Assessors : BeginDraft(t, officer)
         \/ \E revision \in BOOLEAN : CheckDraft(t, revision)
         \/ \E d \in Drafts, l \in Lines, amount \in Amounts, included \in BOOLEAN :
              BeginEdit(t, d, l, amount, included)
         \/ \E d \in Drafts, officer \in Assessors : BeginSubmitting(t, d, officer) \/ BeginApproving(t, d, officer)
         \/ \E d \in Drafts : BeginIssue(t, d) \/ BeginSupersede(t, d)
         \/ TillDies(t)
  PROVE  FeeBookInv'
<1>0. FeeBookTypeOK
  BY DEF FeeBookInv
<1>1. ASSUME NEW r, Fits(r), till' = [ till EXCEPT ![t] = r ],
             UNCHANGED << today, schedules, open, sheets, order, lateEdit, lateClosing >>
      PROVE  FeeBookInv'
  BY <1>0, <1>1, BookRests DEF FeeBookTypeOK
<1>2. Fits(TillFree)
  BY DEF Fits, TillFree, Requests
<1>3. ASSUME NEW v \in Versions, NEW from \in 0..MaxDay, NEW entries \in [ Lines -> Amounts ],
             BeginPublish(t, v, from, entries)
      PROVE  FeeBookInv'
  <2>1. PICK old \in OrUnset(Versions) :
          /\ old # Unset => old \in Replaceable(from)
          /\ Asks(t, [ kind |-> "publish", version |-> v, from |-> from, entries |-> entries, replaced |-> old ])
    BY <1>3 DEF BeginPublish
  <2> DEFINE r == [ kind |-> "publish", version |-> v, from |-> from, entries |-> entries, replaced |-> old ]
  <2>2. r \in Requests /\ r.kind = "publish" /\ r.replaced = old /\ r.from = from
    BY FeeBookAssumption DEF Requests, Publishing, FeeBookAssumption
  <2>3. till' = [ till EXCEPT ![t] = r ]
        /\ UNCHANGED << today, schedules, open, sheets, order, lateEdit, lateClosing >>
    BY <1>3, <2>1 DEF Asks, BeginPublish
  <2> HIDE DEF r
  <2>4. Fits(r)
    BY <2>1, <2>2 DEF Fits, Replaceable
  <2> QED BY <1>1, <2>3, <2>4
<1>4. ASSUME NEW m \in Methods, BeginClosing(t, m) PROVE FeeBookInv'
  <2> DEFINE r == [ kind |-> "close", method |-> m ]
  <2>1. r \in Requests /\ r.kind = "close" /\ r.method = m
    BY DEF Requests, Closing
  <2>2. /\ till' = [ till EXCEPT ![t] = r ] /\ open \ {m} # {}
        /\ UNCHANGED << today, schedules, open, sheets, order, lateEdit, lateClosing >>
    BY <1>4 DEF Asks, BeginClosing, NotTheLast
  <2> HIDE DEF r
  <2>3. Fits(r)
    BY <2>1, <2>2 DEF Fits
  <2> QED BY <1>1, <2>2, <2>3
<1>5. ASSUME NEW officer \in Assessors, BeginDraft(t, officer) PROVE FeeBookInv'
  <2>1. PICK v \in inForce(today) : Asks(t, [ kind |-> "draft", who |-> officer, version |-> v ])
    BY <1>5 DEF BeginDraft
  <2> DEFINE r == [ kind |-> "draft", who |-> officer, version |-> v ]
  <2>2. v \in Published /\ v \in Versions
    BY <1>0, BookTyped DEF inForce
  <2>3. r \in Requests /\ r.kind = "draft" /\ r.version = v
    BY <2>2 DEF Requests, Drafting
  <2>4. till' = [ till EXCEPT ![t] = r ]
        /\ UNCHANGED << today, schedules, open, sheets, order, lateEdit, lateClosing >>
    BY <1>5, <2>1 DEF Asks, BeginDraft
  <2> HIDE DEF r
  <2>5. Fits(r)
    BY <2>2, <2>3 DEF Fits
  <2> QED BY <1>1, <2>4, <2>5
<1>6. ASSUME NEW revision \in BOOLEAN, CheckDraft(t, revision) PROVE FeeBookInv'
  <2> DEFINE r == [ till[t] EXCEPT !.kind = "insert" ]
  <2>1. till[t] \in Requests /\ till[t].kind = "draft" /\ till[t].version \in Published
    BY <1>6 DEF FeeBookInv, Fits, CheckDraft, Doing
  <2>2. till[t] \in Drafting
    BY <2>1, RequestsTyped
  <2>3. r \in Drafting /\ r.kind = "insert" /\ r.version = till[t].version
    BY <2>2 DEF Drafting
  <2>4. till' = [ till EXCEPT ![t] = r ]
        /\ UNCHANGED << today, schedules, open, sheets, order, lateEdit, lateClosing >>
    BY <1>6 DEF CheckDraft
  <2> HIDE DEF r
  <2>5. Fits(r)
    BY <2>1, <2>3 DEF Fits, Requests
  <2> QED BY <1>1, <2>4, <2>5
<1>7. ASSUME NEW d \in Drafts, NEW l \in Lines, NEW amount \in Amounts, NEW included \in BOOLEAN,
             BeginEdit(t, d, l, amount, included)
      PROVE  FeeBookInv'
  <2> DEFINE r == [ kind |-> "edit", sheet |-> d, seen |-> sheets[d].status, line |-> l,
                    amount |-> amount, included |-> included ]
  <2>1. /\ till' = [ till EXCEPT ![t] = r ] /\ d \in Opened /\ sheets[d].status = "Draft"
        /\ UNCHANGED << today, schedules, open, sheets, order, lateEdit, lateClosing >>
    BY <1>7 DEF BeginEdit, Asks, Editable
  <2>2. r \in Requests /\ r.kind = "edit" /\ r.sheet = d /\ r.seen = "Draft"
    BY <2>1 DEF Requests, Editing
  <2> HIDE DEF r
  <2>3. Fits(r)
    BY <2>1, <2>2 DEF Fits
  <2> QED BY <1>1, <2>1, <2>3
<1>8. ASSUME NEW d \in Drafts, NEW officer \in Assessors,
             BeginSubmitting(t, d, officer) \/ BeginApproving(t, d, officer)
      PROVE  FeeBookInv'
  <2>1. PICK kind \in {"submit", "approve"} :
          /\ Asks(t, [ kind |-> kind, sheet |-> d, who |-> officer, shown |-> sheets[d].lines ])
          /\ d \in Opened /\ (kind = "approve" => sheets[d].status = "Submitted")
          /\ UNCHANGED << today, schedules, open, sheets, order, lateEdit, lateClosing >>
    BY <1>8 DEF BeginSubmitting, BeginApproving
  <2> DEFINE r == [ kind |-> kind, sheet |-> d, who |-> officer, shown |-> sheets[d].lines ]
  <2>2. sheets[d].lines \in SheetLines
    BY <1>0, <2>1, BookTyped DEF Sheet
  <2>3. r \in Signing /\ r.kind = kind /\ r.sheet = d /\ r.shown = sheets[d].lines
    BY <2>2 DEF Signing
  <2>4. till' = [ till EXCEPT ![t] = r ]
    BY <2>1 DEF Asks
  <2> HIDE DEF r
  <2>5. Fits(r)
    BY <2>1, <2>3 DEF Fits, Requests
  <2> QED BY <1>1, <2>1, <2>4, <2>5
<1>9. ASSUME NEW d \in Drafts, BeginIssue(t, d) \/ BeginSupersede(t, d) PROVE FeeBookInv'
  <2>1. /\ d \in Opened /\ sheets[d].status = "Approved"
        /\ UNCHANGED << today, schedules, open, sheets, order, lateEdit, lateClosing >>
    BY <1>9 DEF BeginIssue, BeginSupersede
  <2>2. sheets[d] \in Sheet /\ sheets[d].lines \in SheetLines /\ sheets[d].version \in Versions
    BY <1>0, <2>1, BookTyped DEF Sheet
  <2>3. \E kind \in {"issue", "supersede"}, v \in Versions, n \in Nat :
          Asks(t, [ kind |-> kind, sheet |-> d, shown |-> sheets[d].lines, version |-> v, replaces |-> n ])
    <3>1. CASE BeginIssue(t, d)
      <4>1. PICK v \in inForce(today) : Asks(t, [ kind |-> "issue", sheet |-> d, shown |-> sheets[d].lines,
                                                  version |-> v, replaces |-> 0 ])
        BY <3>1 DEF BeginIssue
      <4>2. v \in Versions
        BY <1>0, BookTyped DEF inForce
      <4> QED BY <4>1, <4>2
    <3>2. CASE BeginSupersede(t, d)
      <4>1. order.number \in Nat
        BY <3>2 DEF FeeBookInv, BillStands, Bill, BeginSupersede
      <4> QED BY <2>2, <3>2, <4>1 DEF BeginSupersede
    <3> QED BY <1>9, <3>1, <3>2
  <2>4. PICK kind \in {"issue", "supersede"}, v \in Versions, n \in Nat :
          Asks(t, [ kind |-> kind, sheet |-> d, shown |-> sheets[d].lines, version |-> v, replaces |-> n ])
    BY <2>3
  <2> DEFINE r == [ kind |-> kind, sheet |-> d, shown |-> sheets[d].lines, version |-> v, replaces |-> n ]
  <2>5. r \in Billing /\ r.kind = kind /\ r.sheet = d /\ r.shown = sheets[d].lines
    BY <2>2 DEF Billing
  <2>6. till' = [ till EXCEPT ![t] = r ]
    BY <2>4 DEF Asks
  <2> HIDE DEF r
  <2>7. ~lateEdit => sheets[d].signed = sheets[d].lines
    BY <2>1 DEF FeeBookInv, SheetStands
  <2>8. Fits(r)
    BY <2>1, <2>5, <2>7 DEF Fits, Requests
  <2> QED BY <1>1, <2>1, <2>6, <2>8
<1>10. TillDies(t) => FeeBookInv'
  BY <1>1, <1>2 DEF TillDies, Leaves
<1> QED BY <1>3, <1>4, <1>5, <1>6, <1>7, <1>8, <1>9, <1>10

-----------------------------------------------------------------------------
\* An assessment is written: whatever it says of having been signed stands.
LEMMA SheetWrites ==
  ASSUME FeeBookInv, NEW t \in Tills, NEW d \in Opened, NEW sheet \in Sheet, NEW bill, LawfulApprover(sheet),
         sheets' = [ sheets EXCEPT ![d] = sheet ], Leaves(t),
         UNCHANGED << today, schedules, open, lateClosing >>,
         ~lateEdit' => ~lateEdit,
         ~lateEdit' => \/ sheets[d].status = "Draft" /\ sheet.status = "Draft" /\ sheet.signed = sheets[d].signed
                       \/ /\ sheet.lines = sheets[d].lines /\ sheet.status # "Draft"
                          /\ \/ sheet.signed = sheet.lines
                             \/ sheet.signed = Unset /\ sheets[d].signed = Unset /\ sheet.status = "Submitted",
         lateEdit' \in BOOLEAN, order' = bill, BillStands(bill)
  PROVE  FeeBookInv'
<1>0. FeeBookTypeOK
  BY DEF FeeBookInv
<1>1. d \in Drafts /\ sheets[d] \in Sheet /\ sheet # Unset
  BY <1>0, BookTyped
<1>2. /\ sheets' \in [ Drafts -> OrUnset(Sheet) ] /\ sheets'[d] = sheet
      /\ \A e \in Drafts : e # d => sheets'[e] = sheets[e]
  BY <1>0, <1>1 DEF FeeBookTypeOK, OrUnset
<1>3. Opened' = Opened
  BY <1>1, <1>2 DEF Opened
<1>4. Published' = Published /\ \A day : inForce(day)' = inForce(day)
  BY DEF Published, inForce, Covers
<1>5. till' \in [ Tills -> Requests ] /\ \A o \in Tills : till'[o] = TillFree \/ till'[o] = till[o]
  BY <1>0 DEF Leaves, FeeBookTypeOK, Requests
<1>6. bill \in OrUnset(Bill)
  BY DEF BillStands, OrUnset
<1>7. FeeBookTypeOK'
  BY <1>0, <1>2, <1>5, <1>6 DEF FeeBookTypeOK, Requests
<1>8. Unset \notin SheetLines
  BY <1>0, BookTyped
<1>9. \A e \in Opened : e \in Drafts /\ e # d => sheets'[e] = sheets[e]
  BY <1>2
<1>14. sheets[d].status = "Draft" /\ ~lateEdit => sheets[d].signed = Unset
  BY DEF FeeBookInv, SheetStands
<1>10. ASSUME NEW r, Fits(r) PROVE Fits(r)'
  <2>1. r \in Requests
    BY <1>10 DEF Fits
  <2>2. \/ r.kind \notin {"edit", "submit", "approve", "issue", "supersede", "mark"}
        \/ r.sheet \in Opened /\ r.sheet \in Drafts
    BY <1>10 DEF Fits, Opened
  <2>3. r.kind \in {"approve", "issue", "supersede", "mark"} /\ ~lateEdit' =>
          sheets'[r.sheet].status # "Draft" /\ r.shown = sheets'[r.sheet].lines
    BY <1>2, <1>10, <2>2 DEF Fits
  <2>4. r.kind \in {"issue", "supersede", "mark"} /\ ~lateEdit' => r.shown = sheets'[r.sheet].signed
    <3> SUFFICES ASSUME r.kind \in {"issue", "supersede", "mark"}, ~lateEdit' PROVE r.shown = sheets'[r.sheet].signed
      OBVIOUS
    <3>1. r.shown = sheets[r.sheet].signed /\ r.shown = sheets[r.sheet].lines /\ r.sheet \in Drafts
      BY <1>10, <2>2 DEF Fits
    <3>2. CASE r.sheet = d
      <4>1. sheets[d].lines \in SheetLines
        BY <1>1 DEF Sheet
      <4> QED BY <1>2, <1>8, <3>1, <3>2, <4>1
    <3> QED BY <1>2, <3>1, <3>2
  <2> QED BY <1>3, <1>4, <1>10, <2>1, <2>2, <2>3, <2>4 DEF Fits
<1>11. \A o \in Tills : Fits(till[o])'
  <2>1. \A o \in Tills : Fits(till'[o])
    <3>1. Fits(TillFree)
      BY DEF Fits, TillFree, Requests
    <3> QED BY <1>5, <3>1 DEF FeeBookInv
  <2>2. \A o \in Tills : \A q : q = till'[o] /\ Fits(q)' => Fits(till[o])'
    OBVIOUS
  <2> QED BY <1>10, <2>1, <2>2
<1>12. \A e \in Opened' : SheetStands(e)'
  <2> SUFFICES ASSUME NEW e \in Opened PROVE SheetStands(e)'
    BY <1>3
  <2>1. CASE e # d
    BY <1>9, <2>1, <1>3 DEF FeeBookInv, SheetStands, LawfulApprover, Opened
  <2>2. CASE e = d
    <3>1. LawfulApprover(sheets[e])'
      BY <1>2, <2>2 DEF LawfulApprover
    <3>2. sheet.lines \in SheetLines
      BY DEF Sheet
    <3> QED BY <1>2, <1>8, <1>14, <2>2, <3>1, <3>2 DEF SheetStands
  <2> QED BY <2>1, <2>2
<1>13. BillStands(order)'
  <2> SUFFICES ASSUME bill # Unset PROVE BillStands(order)'
    BY DEF BillStands
  <2>1. bill \in Bill /\ bill.sheet \in Opened /\ bill.sheet \in Drafts
    BY DEF BillStands, Opened
  <2>2. ~lateEdit' => bill.lines = sheets'[bill.sheet].signed /\ bill.lines = sheets'[bill.sheet].lines
    <3> SUFFICES ASSUME ~lateEdit' PROVE bill.lines = sheets'[bill.sheet].signed /\ bill.lines = sheets'[bill.sheet].lines
      OBVIOUS
    <3>1. ~lateEdit /\ bill.lines = sheets[bill.sheet].signed /\ bill.lines = sheets[bill.sheet].lines
      BY DEF BillStands
    <3>2. bill.lines \in SheetLines
      BY <2>1 DEF Bill
    <3> QED BY <1>2, <1>8, <1>14, <2>1, <3>1, <3>2
  <2> QED BY <1>3, <2>1, <2>2 DEF BillStands
<1> QED BY <1>4, <1>7, <1>11, <1>12, <1>13 DEF FeeBookInv

LEMMA AssessmentsKeep ==
  ASSUME FeeBookInv, NEW t \in Tills, Submit(t) \/ ApproveSheet(t) \/ MarkSheetIssued(t) \/ Supersede(t) \/ SetLine(t)
  PROVE  FeeBookInv'
<1>0. FeeBookTypeOK /\ Fits(till[t])
  BY DEF FeeBookInv
<1> DEFINE w == till[t]
           d == w.sheet
<1>1. w \in Requests /\ Fits(w) /\ w.kind \in {"edit", "submit", "approve", "supersede", "mark"}
  BY <1>0 DEF Fits, Submit, ApproveSheet, MarkSheetIssued, Supersede, SetLine, Doing
<1>2. d \in Opened /\ d \in Drafts /\ sheets[d] \in Sheet
  BY <1>0, <1>1, BookTyped DEF Fits
<1>3. sheets[d].lines \in SheetLines /\ (~lateEdit => SheetStands(d)) /\ BillStands(order)
  BY <1>2 DEF FeeBookInv, Sheet
<1>4. CASE Submit(t)
  <2> DEFINE sheet == [ sheets[d] EXCEPT !.status = "Submitted", !.submitter = w.who ]
  <2>1. w \in Signing
    BY <1>1, <1>4, RequestsTyped DEF Submit, Doing
  <2>2. sheet \in Sheet
    BY <1>2, <2>1, SheetEdits DEF Signing
  <2>3. sheet.status = "Submitted" /\ sheet.lines = sheets[d].lines /\ sheet.signed = sheets[d].signed
    BY <1>2 DEF Sheet
  <2>4. /\ LawfulApprover(sheet) /\ sheets' = [ sheets EXCEPT ![d] = sheet ] /\ Leaves(t) /\ order' = order
        /\ UNCHANGED << today, schedules, open, lateClosing, lateEdit >>
    BY <1>4 DEF Submit, SaveSheet
  <2> HIDE DEF sheet, w, d
  <2>5. ~lateEdit => sheet.signed = sheet.lines \/ (sheet.signed = Unset /\ sheets[d].signed = Unset)
    BY <1>3, <2>3 DEF SheetStands
  <2>6. lateEdit' \in BOOLEAN
    BY <1>0, <2>4 DEF FeeBookTypeOK
  <2> QED BY <1>2, <1>3, <2>2, <2>3, <2>4, <2>5, <2>6, SheetWrites
<1>5. CASE ApproveSheet(t)
  <2> DEFINE sheet == [ sheets[d] EXCEPT !.status = "Approved", !.approver = w.who, !.signed = w.shown ]
  <2>1. w \in Signing /\ w.kind = "approve"
    BY <1>1, <1>5, RequestsTyped DEF ApproveSheet, Doing
  <2>2. sheet \in Sheet
    BY <1>2, <2>1, SheetEdits DEF Signing
  <2>3. sheet.status = "Approved" /\ sheet.lines = sheets[d].lines /\ sheet.signed = w.shown
    BY <1>2 DEF Sheet
  <2>4. /\ LawfulApprover(sheet) /\ sheets' = [ sheets EXCEPT ![d] = sheet ] /\ Leaves(t) /\ order' = order
        /\ UNCHANGED << today, schedules, open, lateClosing, lateEdit >>
    BY <1>5 DEF ApproveSheet, SaveSheet
  <2>5. ~lateEdit => sheet.signed = sheet.lines
    BY <1>1, <2>1, <2>3 DEF Fits
  <2> HIDE DEF sheet, w, d
  <2>6. lateEdit' \in BOOLEAN
    BY <1>0, <2>4 DEF FeeBookTypeOK
  <2> QED BY <1>2, <1>3, <2>2, <2>3, <2>4, <2>5, <2>6, SheetWrites
<1>6. CASE MarkSheetIssued(t) \/ Supersede(t)
  <2> DEFINE sheet == [ sheets[d] EXCEPT !.status = "Issued" ]
             bill == IF Supersede(t) THEN BillOf(w, order.number + 1) ELSE order
  <2>1. w \in Billing /\ w.kind \in {"supersede", "mark"}
    BY <1>1, <1>6, RequestsTyped DEF MarkSheetIssued, Supersede, Doing
  <2>2. sheet \in Sheet
    BY <1>2, SheetEdits
  <2>3. sheet.status = "Issued" /\ sheet.lines = sheets[d].lines /\ sheet.signed = sheets[d].signed
    BY <1>2 DEF Sheet
  <2>4. /\ LawfulApprover(sheet) /\ sheets' = [ sheets EXCEPT ![d] = sheet ] /\ Leaves(t)
        /\ UNCHANGED << today, schedules, open, lateClosing, lateEdit >>
    BY <1>6 DEF MarkSheetIssued, Supersede, SaveSheet
  <2>5. ~lateEdit => sheets[d].signed = sheets[d].lines /\ w.shown = sheets[d].signed
    BY <1>1, <2>1 DEF Fits
  <2>6. \E b : order' = b /\ BillStands(b)
    <3>1. CASE MarkSheetIssued(t)
      BY <1>3, <3>1 DEF MarkSheetIssued
    <3>2. CASE Supersede(t)
      <4> DEFINE b == BillOf(w, order.number + 1)
      <4>1. order' = b /\ order.number = w.replaces
        BY <3>2 DEF Supersede
      <4>2. order.number + 1 \in Nat
        BY <2>1, <4>1 DEF Billing
      <4>3. b \in Bill /\ b.sheet = d /\ b.lines = w.shown
        BY <1>2, <2>1, <4>2 DEF Bill, BillOf, Billing
      <4> HIDE DEF b, w, d
      <4>4. BillStands(b)
        BY <1>2, <2>5, <4>3 DEF BillStands
      <4> QED BY <4>1, <4>4
    <3> QED BY <1>6, <3>1, <3>2
  <2>7. PICK b : order' = b /\ BillStands(b)
    BY <2>6
  <2> HIDE DEF sheet, w, d
  <2>8. lateEdit' \in BOOLEAN
    BY <1>0, <2>4 DEF FeeBookTypeOK
  <2> QED BY <1>2, <2>2, <2>3, <2>4, <2>5, <2>7, <2>8, SheetWrites
<1>7. CASE SetLine(t)
  <2>1. w \in Editing /\ w.seen = "Draft"
    BY <1>1, <1>7, RequestsTyped DEF SetLine, Doing, Fits
  <2>2. w.line \in Lines /\ w.amount \in Amounts /\ w.included \in BOOLEAN
    BY <2>1 DEF Editing
  <2> DEFINE sheet == [ sheets[d] EXCEPT !.lines[w.line] = [ @ EXCEPT !.amount = w.amount, !.included = w.included ] ]
  <2>3. /\ sheet \in Sheet /\ sheet.status = sheets[d].status /\ sheet.creator = sheets[d].creator
        /\ sheet.submitter = sheets[d].submitter /\ sheet.approver = sheets[d].approver
        /\ sheet.signed = sheets[d].signed
    <3> DEFINE x == sheets[d]  l == w.line
               line == [ x.lines[l] EXCEPT !.amount = w.amount, !.included = w.included ]
    <3>1. sheet = [ x EXCEPT !.lines = [ x.lines EXCEPT ![l] = line ] ]
      OBVIOUS
    <3>2. x \in Sheet /\ l \in Lines
      BY <1>2, <2>2
    <3>3. x.lines[l] \in Line
      BY <3>2 DEF Sheet, SheetLines
    <3>4. line \in Line
      BY <2>2, <3>3 DEF Line
    <3> HIDE DEF sheet, x, l, line
    <3>5. /\ sheet \in Sheet /\ sheet.status = x.status /\ sheet.creator = x.creator
          /\ sheet.submitter = x.submitter /\ sheet.approver = x.approver /\ sheet.signed = x.signed
      BY <3>1, <3>2, <3>4, LineEdits
    <3> QED BY <3>5 DEF x
  <2>4. /\ sheets' = [ sheets EXCEPT ![d] = sheet ] /\ Leaves(t) /\ order' = order
        /\ lateEdit' = (lateEdit \/ (w.seen = "Draft" /\ sheets[d].status # "Draft"))
        /\ UNCHANGED << today, schedules, open, lateClosing >>
    BY <1>7 DEF SetLine
  <2> HIDE DEF sheet, w, d
  <2>5. LawfulApprover(sheet)
    BY <1>2, <2>3 DEF FeeBookInv, SheetStands, LawfulApprover
  <2>6. lateEdit' \in BOOLEAN /\ (~lateEdit' => ~lateEdit /\ sheets[d].status = "Draft")
    <3>1. lateEdit \in BOOLEAN
      BY <1>0 DEF FeeBookTypeOK
    <3> QED BY <2>1, <2>4, <3>1
  <2> QED BY <1>2, <1>3, <2>3, <2>4, <2>5, <2>6, SheetWrites
<1> QED BY <1>4, <1>5, <1>6, <1>7

LEMMA InsertDraftKeeps ==
  ASSUME FeeBookInv, NEW t \in Tills, NEW d \in Drafts, InsertDraft(t, d) PROVE FeeBookInv'
<1>0. FeeBookTypeOK
  BY DEF FeeBookInv
<1> DEFINE w == till[t]
           entry(l) == schedules[w.version].entries[l]
           lines == [ l \in Lines |-> [ computed |-> entry(l), amount |-> entry(l), included |-> TRUE ] ]
           sheet == [ status |-> "Draft", version |-> w.version, creator |-> w.who, submitter |-> Unset,
                      approver |-> Unset, signed |-> Unset, lines |-> lines ]
<1>1. /\ w.kind = "insert" /\ d \notin Opened /\ sheets' = [ sheets EXCEPT ![d] = sheet ] /\ Leaves(t)
      /\ UNCHANGED << today, schedules, open, order, lateEdit, lateClosing >>
  BY DEF InsertDraft, Doing
<1>2. w \in Drafting /\ w.version \in Published
  BY <1>1, RequestsTyped DEF FeeBookInv, Fits
<1>3. schedules[w.version].entries \in [ Lines -> Amounts ]
  BY <1>0, <1>2, BookTyped DEF Schedule
<1>4. lines \in SheetLines
  BY <1>3 DEF SheetLines, Line
<1> HIDE DEF lines
<1>5. sheet \in Sheet /\ sheet.status = "Draft" /\ sheet.approver = Unset /\ sheet.signed = Unset
  BY <1>2, <1>4 DEF Drafting, Sheet, OrUnset
<1> HIDE DEF sheet, w
<1>6. /\ sheets' \in [ Drafts -> OrUnset(Sheet) ] /\ sheets'[d] = sheet
      /\ \A e \in Drafts : e # d => sheets'[e] = sheets[e]
  BY <1>0, <1>1, <1>5 DEF FeeBookTypeOK, OrUnset
<1>7. sheet # Unset
  BY <1>0, <1>5, BookTyped
<1>8. /\ \A e \in Opened : e \in Opened' /\ e # d /\ sheets'[e] = sheets[e]
      /\ \A e \in Opened' : e \in Opened \/ e = d
  BY <1>1, <1>6, <1>7 DEF Opened
<1>9. Published' = Published /\ \A day : inForce(day)' = inForce(day)
  BY <1>1 DEF Published, inForce, Covers
<1>10. till' \in [ Tills -> Requests ] /\ \A o \in Tills : till'[o] = TillFree \/ till'[o] = till[o]
  BY <1>0, <1>1 DEF Leaves, FeeBookTypeOK, Requests
<1>11. FeeBookTypeOK'
  BY <1>0, <1>1, <1>6, <1>10 DEF FeeBookTypeOK, Requests
<1>12. ASSUME NEW r, Fits(r) PROVE Fits(r)'
  BY <1>1, <1>8, <1>9, <1>12 DEF Fits
<1>13. \A o \in Tills : Fits(till[o])'
  <2>1. \A o \in Tills : Fits(till'[o])
    <3>1. Fits(TillFree)
      BY DEF Fits, TillFree, Requests
    <3> QED BY <1>10, <3>1 DEF FeeBookInv
  <2>2. \A o \in Tills : \A q : q = till'[o] /\ Fits(q)' => Fits(till[o])'
    OBVIOUS
  <2> QED BY <1>12, <2>1, <2>2
<1>14. ASSUME NEW e \in Opened' PROVE SheetStands(e)'
  <2>1. CASE e = d
    BY <1>5, <1>6, <2>1 DEF SheetStands, LawfulApprover, OrUnset
  <2>2. CASE e \in Opened
    BY <1>1, <1>8, <2>2 DEF FeeBookInv, SheetStands, LawfulApprover
  <2> QED BY <1>8, <2>1, <2>2
<1>15. BillStands(order)'
  BY <1>1, <1>8 DEF FeeBookInv, BillStands
<1> QED BY <1>1, <1>9, <1>11, <1>13, <1>14, <1>15 DEF FeeBookInv

LEMMA InsertOrderKeeps ==
  ASSUME FeeBookInv, NEW t \in Tills, InsertOrder(t) PROVE FeeBookInv'
<1>0. FeeBookTypeOK
  BY DEF FeeBookInv
<1> DEFINE w == till[t]
           r == [ w EXCEPT !.kind = "mark" ]
           bill == BillOf(w, 1)
<1>1. /\ w.kind = "issue" /\ order' = bill /\ till' = [ till EXCEPT ![t] = r ]
      /\ UNCHANGED << today, schedules, open, sheets, lateEdit, lateClosing >>
  BY DEF InsertOrder, Doing
<1>2. w \in Billing /\ Fits(w)
  BY <1>1, RequestsTyped DEF FeeBookInv, Fits
<1>3. r \in Billing /\ r.kind = "mark" /\ r.sheet = w.sheet /\ r.shown = w.shown
  BY <1>2 DEF Billing
<1>4. bill \in Bill /\ bill.sheet = w.sheet /\ bill.lines = w.shown
  BY <1>2 DEF Billing, Bill, BillOf
<1> HIDE DEF r, bill
<1>5. Fits(r)
  BY <1>1, <1>2, <1>3 DEF Fits, Requests
<1>6. BillStands(bill)
  BY <1>1, <1>2, <1>4 DEF Fits, BillStands
<1>7. /\ Published' = Published /\ Opened' = Opened /\ \A day : inForce(day)' = inForce(day)
  BY <1>1 DEF Published, Opened, inForce, Covers
<1>8. till' \in [ Tills -> Requests ] /\ \A o \in Tills : till'[o] = r \/ till'[o] = till[o]
  BY <1>0, <1>1, <1>3 DEF FeeBookTypeOK, Requests
<1>9. FeeBookTypeOK'
  BY <1>0, <1>1, <1>4, <1>8 DEF FeeBookTypeOK, Requests, OrUnset
<1>10. \A o \in Tills : Fits(till[o])'
  <2>1. \A q : Fits(q)' <=> Fits(q)
    BY <1>1, <1>7 DEF Fits
  <2>2. \A o \in Tills : Fits(till'[o])
    BY <1>5, <1>8 DEF FeeBookInv
  <2>3. \A o \in Tills : \A q : q = till'[o] /\ Fits(q)' => Fits(till[o])'
    OBVIOUS
  <2> QED BY <2>1, <2>2, <2>3
<1>11. \A d \in Opened' : SheetStands(d)'
  BY <1>1, <1>7 DEF FeeBookInv, SheetStands, LawfulApprover
<1>12. BillStands(order)'
  BY <1>1, <1>6, <1>7 DEF BillStands
<1> QED BY <1>1, <1>7, <1>9, <1>10, <1>11, <1>12 DEF FeeBookInv

-----------------------------------------------------------------------------
LEMMA MethodsKeep ==
  ASSUME FeeBookInv, NEW t \in Tills, CloseMethod(t) \/ \E m \in Methods : OpenMethod(m) PROVE FeeBookInv'
<1>0. FeeBookTypeOK
  BY DEF FeeBookInv
<1>1. UNCHANGED << today, schedules, sheets, order, lateEdit >>
  BY DEF CloseMethod, OpenMethod
<1>2. /\ Published' = Published /\ Opened' = Opened /\ \A day : inForce(day)' = inForce(day)
  BY <1>1 DEF Published, Opened, inForce, Covers
<1>3. (\A d \in Opened' : SheetStands(d)') /\ BillStands(order)'
  BY <1>1, <1>2 DEF FeeBookInv, SheetStands, LawfulApprover, BillStands
<1>4. CASE \E m \in Methods : OpenMethod(m)
  <2>1. PICK m \in Methods : open' = open \cup {m} /\ UNCHANGED << till, lateClosing >>
    BY <1>4 DEF OpenMethod
  <2>2. FeeBookTypeOK'
    BY <1>0, <1>1, <2>1 DEF FeeBookTypeOK
  <2>3. \A r : Fits(r) => Fits(r)'
    BY <1>1, <1>2, <2>1 DEF Fits
  <2>4. \A o \in Tills : Fits(till[o])'
    BY <2>1, <2>3 DEF FeeBookInv
  <2> QED BY <1>2, <1>3, <2>1, <2>2, <2>4 DEF FeeBookInv
<1>5. CASE CloseMethod(t)
  <2>1. /\ till[t].kind = "close" /\ open' = open \ {till[t].method} /\ Leaves(t)
        /\ lateClosing' = (lateClosing \/ \E o \in Tills \ {t} : till[o].kind = "close")
    BY <1>5 DEF CloseMethod, Doing
  <2>2. lateClosing \in BOOLEAN
    BY <1>0 DEF FeeBookTypeOK
  <2>3. /\ lateClosing' \in BOOLEAN
        /\ ~lateClosing' => ~lateClosing /\ \A o \in Tills \ {t} : till[o].kind # "close"
    BY <2>1, <2>2
  <2>4. till' \in [ Tills -> Requests ] /\ \A o \in Tills : till'[o] = TillFree \/ (o # t /\ till'[o] = till[o])
    BY <1>0, <2>1 DEF Leaves, FeeBookTypeOK, Requests
  <2>5. FeeBookTypeOK'
    BY <1>0, <1>1, <2>1, <2>3, <2>4 DEF FeeBookTypeOK, Requests
  <2>6. ~lateClosing' => open' # {}
    BY <2>1, <2>3 DEF FeeBookInv, Fits
  <2>7. \A r : Fits(r) /\ (r.kind = "close" => lateClosing') => Fits(r)'
    BY <1>1, <1>2 DEF Fits
  <2>8. \A o \in Tills : Fits(till[o])'
    <3>1. \A o \in Tills : Fits(till'[o]) /\ (till'[o].kind = "close" => lateClosing')
      <4>1. Fits(TillFree) /\ TillFree.kind # "close"
        BY DEF Fits, TillFree, Requests
      <4> QED BY <2>3, <2>4, <4>1 DEF FeeBookInv
    <3>2. \A o \in Tills : \A q : q = till'[o] /\ Fits(q)' => Fits(till[o])'
      OBVIOUS
    <3> QED BY <2>7, <3>1, <3>2
  <2> QED BY <1>2, <1>3, <2>5, <2>6, <2>8 DEF FeeBookInv
<1> QED BY <1>4, <1>5

\* A schedule is published.  On a day from its own it covers, and is the last if
\* the one it closes was; before, the one it closes covers what it did and more.
LEMMA PublishKeeps ==
  ASSUME FeeBookInv, NEW t \in Tills, PublishSchedule(t) PROVE FeeBookInv'
<1>0. FeeBookTypeOK /\ IsFiniteSet(Published)
  BY DEF FeeBookInv
<1> DEFINE p == till[t]
           n == Cardinality(Published) + 1
           new == [ from |-> p.from, to |-> Unset, published |-> n, entries |-> p.entries ]
           closed == [ schedules[p.replaced] EXCEPT !.to = p.from ]
<1>1. /\ p.kind = "publish" /\ p.version \notin Published /\ Leaves(t)
      /\ UNCHANGED << today, open, sheets, order, lateEdit, lateClosing >>
      /\ schedules' = [ v \in Versions |->
           IF v = p.version THEN new
           ELSE IF v = p.replaced THEN [ schedules[v] EXCEPT !.to = p.from ] ELSE schedules[v] ]
  BY DEF PublishSchedule, Doing, ClosedOn
<1>2. p \in Publishing /\ (p.replaced # Unset => p.replaced \in Published /\ schedules[p.replaced].from < p.from)
  BY <1>1, RequestsTyped DEF FeeBookInv, Fits
<1>3. p.version \in Versions /\ p.from \in Nat /\ p.entries \in [ Lines -> Amounts ]
  BY <1>2 DEF Publishing
<1>4. n \in Nat
  BY <1>0, FS_CardinalityType
<1>5. new \in Schedule /\ new # Unset /\ new.from = p.from /\ new.to = Unset
  <2>1. new \in Schedule
    BY <1>3, <1>4 DEF Schedule, OrUnset
  <2> QED BY <1>0, <2>1, BookTyped
<1>6. Unset \notin Versions
  BY FeeBookAssumption DEF FeeBookAssumption
<1>7. ASSUME p.replaced # Unset
      PROVE  /\ closed \in Schedule /\ closed # Unset /\ closed.from = schedules[p.replaced].from
             /\ closed.to = p.from
  <2>1. schedules[p.replaced] \in Schedule
    BY <1>0, <1>2, <1>7, BookTyped
  <2>2. closed \in Schedule
    BY <1>3, <2>1 DEF Schedule, OrUnset
  <2>3. closed.from = schedules[p.replaced].from /\ closed.to = p.from
    BY <2>1 DEF Schedule
  <2> QED BY <1>0, <2>2, <2>3, BookTyped
<1> DEFINE ver == p.version
           rep == p.replaced
           day0 == p.from
<1>8. /\ ver \in Versions /\ ver \notin Published /\ schedules'[ver] = new
      /\ rep # Unset => /\ rep \in Published /\ rep \in Versions /\ rep # ver
                        /\ schedules'[rep] = closed
      /\ \A v \in Versions : v # ver /\ v # rep => schedules'[v] = schedules[v]
  <2>1. rep # Unset => rep \in Published /\ rep \in Versions /\ rep # ver
    BY <1>1, <1>2 DEF Published
  <2> QED BY <1>1, <1>3, <2>1
<1> HIDE DEF new, closed
<1>9. schedules' \in [ Versions -> OrUnset(Schedule) ]
  <2>1. \A v \in Versions : schedules'[v] \in OrUnset(Schedule)
    BY <1>0, <1>5, <1>6, <1>7, <1>8 DEF FeeBookTypeOK, OrUnset
  <2> QED BY <1>1, <2>1
<1>10. Published' = Published \cup {ver}
  <2>1. \A v \in Versions : v \in Published' <=> v \in Published \/ v = ver
    BY <1>5, <1>6, <1>7, <1>8 DEF Published
  <2> QED BY <1>8, <2>1 DEF Published
<1>11. IsFiniteSet(Published')
  BY <1>0, <1>10, FS_AddElement
<1>12. \A v \in Published : v \in Versions /\ schedules'[v].from = schedules[v].from /\ schedules[v].from \in Nat
  <2>1. \A v \in Published : v \in Versions /\ v # ver /\ schedules[v].from \in Nat
    BY <1>0, <1>8, BookTyped DEF Schedule
  <2> QED BY <1>6, <1>7, <1>8, <2>1
<1>13. till' \in [ Tills -> Requests ] /\ \A o \in Tills : till'[o] = TillFree \/ till'[o] = till[o]
  BY <1>0, <1>1 DEF Leaves, FeeBookTypeOK, Requests
<1>14. FeeBookTypeOK'
  BY <1>0, <1>1, <1>9, <1>13 DEF FeeBookTypeOK, Requests
<1>15. Opened' = Opened
  BY <1>1 DEF Opened
<1>16. ASSUME NEW r, Fits(r) PROVE Fits(r)'
  BY <1>1, <1>10, <1>12, <1>15, <1>16 DEF Fits
<1>17. \A o \in Tills : Fits(till[o])'
  <2>1. \A o \in Tills : Fits(till'[o])
    <3>1. Fits(TillFree)
      BY DEF Fits, TillFree, Requests
    <3> QED BY <1>13, <3>1 DEF FeeBookInv
  <2>2. \A o \in Tills : \A q : q = till'[o] /\ Fits(q)' => Fits(till[o])'
    OBVIOUS
  <2> QED BY <1>16, <2>1, <2>2
<1>18. (\A d \in Opened' : SheetStands(d)') /\ BillStands(order)'
  BY <1>1, <1>15 DEF FeeBookInv, SheetStands, LawfulApprover, BillStands
<1>19. ASSUME NEW day \in Nat PROVE inForce(day)' # {}
  <2>1. PICK m \in Published : Covers(m, day) /\ \A w \in Published : Covers(w, day) => schedules[w].from <= schedules[m].from
    BY DEF FeeBookInv, inForce
  <2> DEFINE now == { v \in Published' : Covers(v, day)' }
             was == { v \in Published : Covers(v, day) }
             begins(v) == schedules[v].from
  <2>2. SUFFICES \E b \in now : \A w \in now : schedules'[w].from <= schedules'[b].from
    BY DEF inForce
  <2>3. m \in was /\ \A w \in was : begins(w) <= begins(m)
    BY <2>1
  <2>4. \A v : v \in now <=> /\ v \in Published \cup {ver} /\ schedules'[v].from <= day
                             /\ schedules'[v].to # Unset => day < schedules'[v].to
    BY <1>10 DEF Covers
  <2>5. \A v : v \in was <=> /\ v \in Published /\ schedules[v].from <= day
                             /\ schedules[v].to # Unset => day < schedules[v].to
    BY DEF Covers
  <2>6. ver \in now <=> day0 <= day
    BY <1>5, <1>8, <2>4
  <2>7. \A v \in Published : v # rep => (v \in now <=> v \in was)
    BY <1>8, <1>12, <2>4, <2>5
  <2>8. rep # Unset => (rep \in now <=> begins(rep) <= day /\ day < day0)
    <3>1. day0 # Unset
      BY <1>3, FeeBookAssumption DEF FeeBookAssumption
    <3> QED BY <1>7, <1>8, <2>4, <3>1
  <2>9. schedules'[ver].from = day0 /\ ver # Unset /\ day0 \in Nat
        /\ \A v \in Published : v # Unset /\ schedules'[v].from = begins(v) /\ begins(v) \in Nat
    BY <1>3, <1>5, <1>6, <1>8, <1>12
  <2>10. \A v \in now : v \in Published \/ v = ver
    BY <2>4
  <2>11. m \in Published /\ \A v \in was : v \in Published
    OBVIOUS
  <2>12. rep # Unset => rep \in Published /\ begins(rep) < day0
    BY <1>2
  <2> HIDE DEF now, was, begins
  <2>13. CASE day0 <= day
    <3>1. rep # Unset => rep \notin now
      BY <2>8, <2>9, <2>13
    <3>2. \A v \in now : v = ver \/ (v \in was /\ v # rep)
      BY <2>7, <2>9, <2>10, <3>1
    <3>3. CASE begins(m) <= day0
      <4>1. \A w \in now : schedules'[w].from <= schedules'[ver].from
        BY <2>3, <2>9, <2>11, <3>2, <3>3
      <4> QED BY <2>6, <2>13, <4>1
    <3>4. CASE begins(m) > day0
      <4>1. m # rep
        BY <2>9, <2>11, <2>12, <3>4
      <4>2. m \in now
        BY <2>3, <2>7, <2>11, <4>1
      <4>3. \A w \in now : schedules'[w].from <= schedules'[m].from
        BY <2>3, <2>9, <2>11, <3>2, <3>4
      <4> QED BY <4>2, <4>3
    <3> QED BY <2>9, <2>11, <3>3, <3>4
  <2>14. CASE day < day0
    <3>1. ver \notin now
      BY <2>6, <2>9, <2>14
    <3>2. m \in now
      <4>1. begins(m) <= day
        BY <2>3, <2>5 DEF begins
      <4> QED BY <2>3, <2>7, <2>8, <2>9, <2>11, <2>14, <4>1
    <3>3. \A v \in now : v \in was \/ (v = rep /\ rep # Unset)
      BY <2>7, <2>9, <2>10, <3>1
    <3>4. CASE rep \in now /\ rep # Unset /\ begins(rep) > begins(m)
      <4>1. \A w \in now : schedules'[w].from <= schedules'[rep].from
        BY <2>3, <2>9, <2>11, <2>12, <3>3, <3>4
      <4> QED BY <3>4, <4>1
    <3>5. CASE ~(rep \in now /\ rep # Unset /\ begins(rep) > begins(m))
      <4>1. \A w \in now : schedules'[w].from <= schedules'[m].from
        BY <2>3, <2>9, <2>11, <2>12, <3>3, <3>5
      <4> QED BY <3>2, <4>1
    <3> QED BY <3>4, <3>5
  <2> QED BY <2>9, <2>13, <2>14
<1> QED BY <1>1, <1>11, <1>14, <1>17, <1>18, <1>19 DEF FeeBookInv

-----------------------------------------------------------------------------
LEMMA FeeBookInvariance == FeeBookSpec => []FeeBookInv
<1>1. FeeBookInit => FeeBookInv
  <2> SUFFICES ASSUME FeeBookInit PROVE FeeBookInv
    OBVIOUS
  <2>1. PICK v \in Versions, entries \in [ Lines -> Amounts ] : schedules =
          [ w \in Versions |-> IF w = v
              THEN [ from |-> 0, to |-> Unset, published |-> 1, entries |-> entries ] ELSE Unset ]
    BY DEF FeeBookInit
  <2> DEFINE first == [ from |-> 0, to |-> Unset, published |-> 1, entries |-> entries ]
  <2>2. first \in Schedule /\ first.from = 0 /\ first.to = Unset
    BY DEF Schedule, OrUnset
  <2>3. first # Unset
    BY <2>2, NoNullInBook
  <2>4. /\ schedules \in [ Versions -> OrUnset(Schedule) ] /\ schedules[v] = first
        /\ \A w \in Versions : w # v => schedules[w] = Unset
    BY <2>1, <2>2 DEF OrUnset
  <2> HIDE DEF first
  <2>5. Published = {v}
    BY <2>3, <2>4 DEF Published
  <2>6. IsFiniteSet(Published)
    BY <2>5, FS_Singleton
  <2>7. \A day \in Nat : inForce(day) # {}
    <3>1. \A day \in Nat : Covers(v, day)
      BY <2>2, <2>4 DEF Covers
    <3>2. \A day \in Nat : v \in inForce(day)
      BY <2>2, <2>4, <2>5, <3>1 DEF inForce
    <3> QED BY <3>2
  <2>8. /\ today = 0 /\ open \subseteq Methods /\ open # {} /\ sheets = [ d \in Drafts |-> Unset ] /\ order = Unset
        /\ till = [ t \in Tills |-> TillFree ] /\ lateEdit = FALSE /\ lateClosing = FALSE
    <3>1. open \subseteq Methods /\ open # {}
      <4>1. open \in (SUBSET Methods) \ {{}}
        BY DEF FeeBookInit
      <4> QED BY <4>1
    <3>2. /\ today = 0 /\ sheets = [ d \in Drafts |-> Unset ] /\ order = Unset
          /\ till = [ t \in Tills |-> TillFree ] /\ lateEdit = FALSE /\ lateClosing = FALSE
      BY DEF FeeBookInit
    <3> QED BY <3>1, <3>2
  <2>9. FeeBookTypeOK
    BY <2>4, <2>8 DEF FeeBookTypeOK, OrUnset
  <2>10. \A t \in Tills : Fits(till[t])
    <3>1. Fits(TillFree)
      BY DEF Fits, TillFree, Requests
    <3> QED BY <2>8, <3>1
  <2>11. Opened = {} /\ BillStands(order)
    BY <2>8 DEF Opened, BillStands
  <2> QED BY <2>6, <2>7, <2>8, <2>9, <2>10, <2>11 DEF FeeBookInv
<1>2. FeeBookInv /\ [FeeBookNext]_feeBookVars => FeeBookInv'
  <2> SUFFICES ASSUME FeeBookInv, [FeeBookNext]_feeBookVars PROVE FeeBookInv'
    OBVIOUS
  <2>1. ASSUME NEW t \in Tills, ScheduleStep(t) PROVE FeeBookInv'
    <3>1. CASE FeeDayPasses
      <4>1. today' \in Nat
        BY <3>1 DEF FeeDayPasses, FeeBookInv, FeeBookTypeOK
      <4>2. till' = [ till EXCEPT ![t] = till[t] ] /\ Fits(till[t])
            /\ UNCHANGED << schedules, open, sheets, order, lateEdit, lateClosing >>
        BY <3>1 DEF FeeDayPasses, FeeBookInv, FeeBookTypeOK
      <4> QED BY <4>1, <4>2, BookRests
    <3> QED BY <2>1, <3>1, RequestsBegin, PublishKeeps DEF ScheduleStep
  <2>2. ASSUME NEW t \in Tills, MethodStep(t) PROVE FeeBookInv'
    BY <2>2, RequestsBegin, MethodsKeep DEF MethodStep
  <2>3. ASSUME NEW t \in Tills, SheetStep(t) PROVE FeeBookInv'
    <3>1. ASSUME NEW d \in Drafts, NEW officer \in Assessors,
                 BeginSubmitting(t, d, officer) \/ BeginApproving(t, d, officer)
          PROVE  FeeBookInv'
      BY <3>1, RequestsBegin
    <3>2. ASSUME NEW d \in Drafts, NEW l \in Lines, NEW amount \in Amounts, NEW included \in BOOLEAN,
                 BeginEdit(t, d, l, amount, included)
          PROVE  FeeBookInv'
      BY <3>2, RequestsBegin
    <3>3. ASSUME NEW d \in Drafts, InsertDraft(t, d) \/ BeginIssue(t, d) \/ BeginSupersede(t, d) PROVE FeeBookInv'
      BY <3>3, RequestsBegin, InsertDraftKeeps
    <3>4. ASSUME \/ \E officer \in Assessors : BeginDraft(t, officer)
                 \/ \E revision \in BOOLEAN : CheckDraft(t, revision)
          PROVE  FeeBookInv'
      BY <3>4, RequestsBegin
    <3> QED BY <2>3, <3>1, <3>2, <3>3, <3>4, AssessmentsKeep, InsertOrderKeeps DEF SheetStep
  <2>4. ASSUME NEW t \in Tills, TillDies(t) PROVE FeeBookInv'
    BY <2>4, RequestsBegin
  <2>5. CASE UNCHANGED feeBookVars
    <3>1. /\ UNCHANGED << today, schedules, open, sheets, order, till, lateEdit, lateClosing >>
      BY <2>5 DEF feeBookVars
    <3>2. /\ Published' = Published /\ Opened' = Opened /\ \A day : inForce(day)' = inForce(day)
      BY <3>1 DEF Published, Opened, inForce, Covers
    <3>3. \A t \in Tills : Fits(till[t])'
      BY <3>1, <3>2 DEF FeeBookInv, Fits
    <3>4. FeeBookTypeOK'
      BY <3>1 DEF FeeBookInv, FeeBookTypeOK
    <3>5. (\A d \in Opened' : SheetStands(d)') /\ BillStands(order)'
      BY <3>1, <3>2 DEF FeeBookInv, SheetStands, LawfulApprover, BillStands
    <3> QED BY <3>1, <3>2, <3>3, <3>4, <3>5 DEF FeeBookInv
  <2> QED BY <2>1, <2>2, <2>3, <2>4, <2>5 DEF FeeBookNext
<1> QED BY <1>1, <1>2, PTL DEF FeeBookSpec

\* The office can always charge and the applicant always pay.
THEOREM FeesEveryDay == FeeBookSpec => []NoDayWithoutFees
<1>1. FeeBookInv => NoDayWithoutFees
  <2> SUFFICES ASSUME FeeBookInv PROVE NoDayWithoutFees
    OBVIOUS
  <2>1. \A day \in today..MaxDay : day \in Nat
    BY FeeBookAssumption DEF FeeBookInv, FeeBookTypeOK, FeeBookAssumption
  <2> QED BY <2>1 DEF FeeBookInv, NoDayWithoutFees
<1> QED BY <1>1, FeeBookInvariance, PTL

\* The Order bills the figures a second officer approved.
THEOREM AlwaysBilledAsApproved == FeeBookSpec => []BilledAsApproved
<1>1. FeeBookInv => BilledAsApproved
  <2> SUFFICES ASSUME FeeBookInv PROVE BilledAsApproved
    OBVIOUS
  <2>1. ASSUME NEW d \in Opened, sheets[d].approver \notin SuperOnes \cup {Unset}
        PROVE  sheets[d].approver \notin {sheets[d].creator, sheets[d].submitter}
    BY <2>1 DEF FeeBookInv, SheetStands, LawfulApprover, OrUnset
  <2>2. ~lateEdit /\ order # Unset => order.lines = sheets[order.sheet].signed
    BY DEF FeeBookInv, BillStands
  <2> QED BY <2>1, <2>2 DEF BilledAsApproved
<1> QED BY <1>1, FeeBookInvariance, PTL

-----------------------------------------------------------------------------
(*****************************************************************************)
(* PageCache, Notices and PublicContent: what the portal shows.              *)
(*                                                                           *)
(* A copy is good while its tag is the page's, and the answer under way may  *)
(* still become a good one: both must say what is served.  A tag is a nonce  *)
(* of the process and a version of the page, and was the page's up to now    *)
(* at some time, so that a renewed tag is one that no copy has.              *)
(*****************************************************************************)

\* A tag that was the page's at some time up to now.
Taken(page, tag) ==
  \E b, n \in Nat : tag = << b, n >> /\ b <= boot /\ (b = boot => n <= version[page])

Copy(c) == c = [ tag |-> c.tag, has |-> c.has ] /\ c.has = [ x \in DOMAIN c.has |-> c.has[x] ]

CacheInv ==
  /\ boot \in Nat /\ version \in [ Pages -> Nat ]
  /\ reading = [ p \in Pages |-> reading[p] ] /\ held = [ p \in Pages |-> held[p] ]
  /\ \A p \in Pages : reading[p] # Unseen => Copy(reading[p]) /\ Taken(p, reading[p].tag)
  /\ \A p \in Pages : held[p] # Unseen => Copy(held[p]) /\ Taken(p, held[p].tag)

\* The answer under way would still be good, and the copy is.
Good(page) == reading[page] # Unseen /\ reading[page].tag = etagFor(page)

-----------------------------------------------------------------------------
LEMMA CacheKeeps ==
  ASSUME CacheInv, NEW page \in Pages, UNCHANGED << boot, version >>,
         reading' = [ p \in Pages |-> reading'[p] ], held' = [ p \in Pages |-> held'[p] ],
         \A p \in Pages : p # page => reading'[p] = reading[p] /\ held'[p] = held[p],
         reading'[page] # Unseen => Copy(reading'[page]) /\ Taken(page, reading'[page].tag),
         held'[page] # Unseen => Copy(held'[page]) /\ Taken(page, held'[page].tag)
  PROVE  CacheInv' /\ \A p \in Pages : etagFor(p)' = etagFor(p)
<1>1. \A p, tag : Taken(p, tag) => Taken(p, tag)'
  BY DEF Taken
<1>2. ASSUME NEW p \in Pages PROVE reading'[p] # Unseen => Copy(reading[p])' /\ Taken(p, reading[p].tag)'
  <2>1. reading'[p] # Unseen => Copy(reading'[p]) /\ Taken(p, reading'[p].tag)
    BY DEF CacheInv
  <2>2. \A tag : tag = reading'[p].tag /\ Taken(p, tag)' => Taken(p, reading[p].tag)'
    OBVIOUS
  <2> QED BY <1>1, <2>1, <2>2 DEF Copy
<1>3. ASSUME NEW p \in Pages PROVE held'[p] # Unseen => Copy(held[p])' /\ Taken(p, held[p].tag)'
  <2>1. held'[p] # Unseen => Copy(held'[p]) /\ Taken(p, held'[p].tag)
    BY DEF CacheInv
  <2>2. \A tag : tag = held'[p].tag /\ Taken(p, tag)' => Taken(p, held[p].tag)'
    OBVIOUS
  <2> QED BY <1>1, <2>1, <2>2 DEF Copy
<1>4. \A p \in Pages : etagFor(p)' = etagFor(p)
  BY DEF etagFor
<1> QED BY <1>2, <1>3, <1>4 DEF CacheInv

LEMMA CacheAsks ==
  ASSUME CacheInv, NEW page \in Pages, AskPage(page)
  PROVE  /\ CacheInv' /\ \A p \in Pages : etagFor(p)' = etagFor(p)
         /\ held' = held /\ DOMAIN reading'[page].has = {}
         /\ \A p \in Pages : p # page => reading'[p] = reading[p]
<1> DEFINE c == [ tag |-> etagFor(page), has |-> << >> ]
<1>1. reading' = [ reading EXCEPT ![page] = c ] /\ UNCHANGED << boot, version, held >>
  BY DEF AskPage
<1>2. /\ reading' = [ p \in Pages |-> reading'[p] ] /\ reading'[page] = c
      /\ \A p \in Pages : p # page => reading'[p] = reading[p]
  BY <1>1 DEF CacheInv
<1>3. c.tag = etagFor(page) /\ c.has = << >> /\ c = [ tag |-> c.tag, has |-> c.has ]
  OBVIOUS
<1>4. c.has = [ x \in DOMAIN c.has |-> c.has[x] ] /\ DOMAIN c.has = {}
  BY <1>3
<1> HIDE DEF c
<1>5. Taken(page, c.tag)
  <2>1. boot \in Nat /\ version[page] \in Nat /\ c.tag = << boot, version[page] >>
    BY <1>3 DEF CacheInv, etagFor
  <2> QED BY <2>1 DEF Taken
<1>6. Copy(reading'[page]) /\ Taken(page, reading'[page].tag)
  BY <1>2, <1>3, <1>4, <1>5 DEF Copy
<1>7. held' = [ p \in Pages |-> held'[p] ] /\ (held'[page] # Unseen => Copy(held'[page]) /\ Taken(page, held'[page].tag))
  BY <1>1 DEF CacheInv
<1>8. CacheInv' /\ \A p \in Pages : etagFor(p)' = etagFor(p)
  BY <1>1, <1>2, <1>6, <1>7, CacheKeeps
<1> QED BY <1>1, <1>2, <1>4, <1>8

LEMMA CacheQueries ==
  ASSUME CacheInv, NEW page \in Pages, NEW part, Query(page, part)
  PROVE  /\ CacheInv' /\ \A p \in Pages : etagFor(p)' = etagFor(p)
         /\ held' = held /\ reading[page] # Unseen /\ reading'[page].tag = reading[page].tag
         /\ DOMAIN reading'[page].has = DOMAIN reading[page].has \cup DOMAIN part
         /\ \A x \in DOMAIN part : reading'[page].has[x] = part[x]
         /\ \A x \in DOMAIN reading[page].has \ DOMAIN part : reading'[page].has[x] = reading[page].has[x]
         /\ \A p \in Pages : p # page => reading'[p] = reading[p]
<1> DEFINE all == DOMAIN reading[page].has \cup DOMAIN part
           has == [ x \in all |-> IF x \in DOMAIN part THEN part[x] ELSE reading[page].has[x] ]
           c == [ tag |-> reading[page].tag, has |-> has ]
<1>1. /\ reading[page] # Unseen /\ UNCHANGED << boot, version, held >>
      /\ reading' = [ reading EXCEPT ![page].has =
           [ x \in DOMAIN @ \cup DOMAIN part |-> IF x \in DOMAIN part THEN part[x] ELSE @[x] ] ]
  BY DEF Query
<1>2. reading' = [ reading EXCEPT ![page] = [ reading[page] EXCEPT !.has = has ] ]
  BY <1>1
<1>3. Copy(reading[page]) /\ Taken(page, reading[page].tag)
  BY <1>1 DEF CacheInv
<1>4. DOMAIN has = all /\ has = [ x \in DOMAIN has |-> has[x] ]
      /\ \A x \in all : has[x] = IF x \in DOMAIN part THEN part[x] ELSE reading[page].has[x]
  OBVIOUS
<1> HIDE DEF has
<1>5. [ reading[page] EXCEPT !.has = has ] = c
  <2> DEFINE t == reading[page].tag  h == reading[page].has
  <2>1. reading[page] = [ tag |-> t, has |-> h ]
    BY <1>3 DEF Copy
  <2> HIDE DEF t, h
  <2>2. [ [ tag |-> t, has |-> h ] EXCEPT !.has = has ] = [ tag |-> t, has |-> has ]
    OBVIOUS
  <2> QED BY <2>1, <2>2 DEF t
<1>6. c.tag = reading[page].tag /\ c.has = has /\ c = [ tag |-> c.tag, has |-> c.has ]
  OBVIOUS
<1> HIDE DEF c
<1>7. /\ reading' = [ p \in Pages |-> reading'[p] ] /\ reading'[page] = c
      /\ \A p \in Pages : p # page => reading'[p] = reading[p]
  BY <1>2, <1>5 DEF CacheInv
<1>8. Copy(reading'[page]) /\ Taken(page, reading'[page].tag)
  BY <1>3, <1>4, <1>6, <1>7 DEF Copy
<1>9. held' = [ p \in Pages |-> held'[p] ] /\ (held'[page] # Unseen => Copy(held'[page]) /\ Taken(page, held'[page].tag))
  BY <1>1 DEF CacheInv
<1>10. CacheInv' /\ \A p \in Pages : etagFor(p)' = etagFor(p)
  BY <1>1, <1>7, <1>8, <1>9, CacheKeeps
<1>11. \A x \in DOMAIN part : has[x] = part[x]
  BY <1>4
<1>12. \A x \in DOMAIN reading[page].has \ DOMAIN part : has[x] = reading[page].has[x]
  BY <1>4
<1> QED BY <1>1, <1>4, <1>6, <1>7, <1>10, <1>11, <1>12

LEMMA CacheDelivers ==
  ASSUME CacheInv, NEW page \in Pages, NEW parts, Deliver(page, parts)
  PROVE  /\ CacheInv' /\ \A p \in Pages : etagFor(p)' = etagFor(p)
         /\ reading'[page] = Unseen /\ reading[page] # Unseen
         /\ DOMAIN reading[page].has = parts /\ reading[page].has = [ x \in parts |-> reading[page].has[x] ]
         /\ \A p \in Pages : p # page => reading'[p] = reading[p] /\ held'[p] = held[p]
         /\ \/ held' = held
            \/ held'[page].tag = reading[page].tag /\ held'[page].has = reading[page].has
<1> DEFINE c == [ tag |-> reading[page].tag, has |-> reading[page].has ]
<1>1. /\ reading[page] # Unseen /\ reading' = [ reading EXCEPT ![page] = Unseen ]
      /\ (held' = [ held EXCEPT ![page] = c ] \/ held' = held)
      /\ UNCHANGED << boot, version >> /\ DOMAIN reading[page].has = parts
  BY DEF Deliver, TagOf
<1>2. Copy(reading[page]) /\ Taken(page, reading[page].tag)
  BY <1>1 DEF CacheInv
<1>3. c.tag = reading[page].tag /\ c.has = reading[page].has /\ c = [ tag |-> c.tag, has |-> c.has ]
  OBVIOUS
<1>4. c.has = [ x \in DOMAIN c.has |-> c.has[x] ]
  BY <1>2, <1>3 DEF Copy
<1> HIDE DEF c
<1>5. /\ reading' = [ p \in Pages |-> reading'[p] ] /\ reading'[page] = Unseen
      /\ held' = [ p \in Pages |-> held'[p] ] /\ (held'[page] = c \/ held' = held)
      /\ \A p \in Pages : p # page => reading'[p] = reading[p] /\ held'[p] = held[p]
  BY <1>1 DEF CacheInv
<1>6. held'[page] # Unseen => Copy(held'[page]) /\ Taken(page, held'[page].tag)
  <2>1. Copy(c) /\ Taken(page, c.tag)
    BY <1>2, <1>3, <1>4 DEF Copy
  <2> QED BY <1>5, <2>1 DEF CacheInv
<1>7. CacheInv' /\ \A p \in Pages : etagFor(p)' = etagFor(p)
  BY <1>1, <1>5, <1>6, CacheKeeps
<1> QED BY <1>1, <1>3, <1>4, <1>5, <1>7

\* The pages a change expires have no good copy, and no good answer under way.
LEMMA CacheBumps ==
  ASSUME CacheInv, NEW pages, bump(pages), UNCHANGED << boot, reading, held >>
  PROVE  /\ CacheInv'
         /\ \A p \in Pages : p \notin pages => etagFor(p)' = etagFor(p)
         /\ \A p \in Pages : p \in pages => ~Good(p)' /\ ~Unchanged(p)'
<1>1. /\ version' \in [ Pages -> Nat ]
      /\ \A p \in Pages : version'[p] = version[p] + (IF p \in pages THEN 1 ELSE 0)
  BY DEF bump, CacheInv
<1>2. \A p \in Pages : \A tag : Taken(p, tag) => Taken(p, tag)'
  BY <1>1 DEF Taken, CacheInv
<1>3. CacheInv'
  BY <1>1, <1>2 DEF CacheInv, Copy
<1>4. ASSUME NEW p \in Pages, p \in pages, NEW tag, Taken(p, tag) PROVE tag # << boot', version'[p] >>
  <2>1. PICK b, n \in Nat : tag = << b, n >> /\ b <= boot /\ (b = boot => n <= version[p])
    BY <1>4 DEF Taken
  <2>2. version'[p] = version[p] + 1 /\ version[p] \in Nat
    BY <1>1, <1>4 DEF CacheInv
  <2> QED BY <2>1, <2>2
<1>5. \A p \in Pages : p \in pages => ~Good(p)' /\ ~Unchanged(p)'
  BY <1>4 DEF Good, Unchanged, etagFor, CacheInv
<1>6. \A p \in Pages : p \notin pages => etagFor(p)' = etagFor(p)
  BY <1>1 DEF etagFor, CacheInv
<1> QED BY <1>3, <1>5, <1>6

LEMMA CacheReboots ==
  ASSUME CacheInv, Reboot PROVE CacheInv' /\ \A p \in Pages : ~Good(p)' /\ ~Unchanged(p)'
<1>1. /\ boot' = boot + 1 /\ version' \in [ Pages -> Nat ] /\ held' = held
      /\ reading' = [ p \in Pages |-> Unseen ] /\ boot \in Nat
  BY DEF Reboot, CacheInv
<1>2. \A p \in Pages : \A tag : Taken(p, tag) => Taken(p, tag)' /\ tag # << boot', version'[p] >>
  <2> SUFFICES ASSUME NEW p \in Pages, NEW tag, Taken(p, tag) PROVE Taken(p, tag)' /\ tag # << boot', version'[p] >>
    OBVIOUS
  <2>1. PICK b, n \in Nat : tag = << b, n >> /\ b <= boot
    BY DEF Taken
  <2>2. b <= boot' /\ b # boot'
    BY <1>1, <2>1
  <2> QED BY <2>1, <2>2 DEF Taken
<1>3. CacheInv'
  BY <1>1, <1>2 DEF CacheInv, Copy
<1> QED BY <1>1, <1>2, <1>3 DEF Good, Unchanged, etagFor, CacheInv

-----------------------------------------------------------------------------
\* Announcements.  A notice that is taken down is in no good copy of the list, and
\* in no answer under way that would be one.
Cautious(s) ==
  TakenDown(s) =>
    /\ Good(NoticeList) => (s \in DOMAIN reading[NoticeList].has => reading[NoticeList].has[s] = FALSE)
    /\ Unchanged(NoticeList) => held[NoticeList].has[s] = FALSE

NoticesInv ==
  /\ CacheInv
  /\ notices = [ s \in Slugs |-> notices[s] ] /\ hand = [ h \in Hands |-> hand[h] ]
  /\ \A h \in Hands : hand[h] = [ at |-> hand[h].at, slug |-> hand[h].slug, doing |-> hand[h].doing ]
  /\ \A s \in Slugs : notices[s] = [ status |-> notices[s].status, from |-> notices[s].from, until |-> notices[s].until ]
  /\ unbumped \in BOOLEAN
  /\ \A s \in Slugs : Cautious(s)

\* Nothing of the cache changes, and no notice comes to be taken down.
LEMMA NoticesRest ==
  ASSUME NoticesInv, UNCHANGED cacheVars,
         notices' = [ s \in Slugs |-> notices'[s] ], hand' = [ h \in Hands |-> hand'[h] ],
         \A h \in Hands : hand'[h] = [ at |-> hand'[h].at, slug |-> hand'[h].slug, doing |-> hand'[h].doing ],
         \A s \in Slugs : notices'[s] = [ status |-> notices'[s].status, from |-> notices'[s].from, until |-> notices'[s].until ],
         unbumped' \in BOOLEAN,
         \A s \in Slugs : TakenDown(s)' => TakenDown(s)
  PROVE  NoticesInv'
<1>1. /\ boot' = boot /\ version' = version /\ reading' = reading /\ held' = held
  BY DEF cacheVars
<1>2. CacheInv'
  BY <1>1 DEF NoticesInv, CacheInv, Copy, Taken
<1>3. Good(NoticeList)' = Good(NoticeList) /\ Unchanged(NoticeList)' = Unchanged(NoticeList)
  BY <1>1 DEF Good, Unchanged, etagFor
<1>4. \A s \in Slugs : Cautious(s)'
  BY <1>1, <1>3 DEF NoticesInv, Cautious
<1> QED BY <1>2, <1>4 DEF NoticesInv

\* A hand takes a notice, which it writes or has only looked at.
TakesNotice(h, s, to, doing, row) ==
  /\ hand[h] = Free /\ hand' = [ hand EXCEPT ![h] = [ at |-> to, slug |-> s, doing |-> doing ] ]
  /\ notices' = [ notices EXCEPT ![s] = row ]
  /\ row = [ status |-> row.status, from |-> row.from, until |-> row.until ]
  /\ row.status = "withdrawn" => notices[s].status = "withdrawn"
  /\ UNCHANGED << cacheVars, unbumped >>

LEMMA HandsKeep ==
  ASSUME NoticesInv, NEW h \in Hands, NEW s \in Slugs,
         \/ Draft(h, s) \/ AskWithdrawNotice(h, s)
         \/ \E from \in Hours, until \in Hours \cup {Never} : Publish(h, s, from, until)
  PROVE  NoticesInv'
<1>0. \E to, doing, row : TakesNotice(h, s, to, doing, row)
  <2>1. CASE Draft(h, s)
    <3> DEFINE row == [ notices[s] EXCEPT !.status = "draft" ]
    <3>1. row = [ status |-> row.status, from |-> row.from, until |-> row.until ] /\ row.status = "draft"
      BY <2>1 DEF Draft, NoNotice
    <3>2. /\ hand[h] = Free /\ hand' = [ hand EXCEPT ![h] = [ at |-> "row", slug |-> s, doing |-> "created" ] ]
          /\ notices' = [ notices EXCEPT ![s] = row ] /\ UNCHANGED << cacheVars, unbumped >>
      BY <2>1 DEF Draft
    <3> HIDE DEF row
    <3>3. row.status # "withdrawn"
      BY <3>1
    <3>4. \E to, doing : TakesNotice(h, s, to, doing, row)
      BY <3>1, <3>2, <3>3 DEF TakesNotice
    <3> QED BY <3>4
  <2>2. CASE AskWithdrawNotice(h, s)
    <3> DEFINE row == notices[s]
    <3>1. row = [ status |-> row.status, from |-> row.from, until |-> row.until ]
      BY DEF NoticesInv
    <3>2. /\ hand[h] = Free /\ hand' = [ hand EXCEPT ![h] = [ at |-> "found", slug |-> s, doing |-> "withdrawn" ] ]
          /\ UNCHANGED << cacheVars, unbumped >> /\ notices' = notices
      BY <2>2 DEF AskWithdrawNotice
    <3>3. notices' = [ notices EXCEPT ![s] = row ]
      BY <3>2 DEF NoticesInv
    <3> HIDE DEF row
    <3>4. row.status = notices[s].status
      BY DEF row
    <3>5. \E to, doing : TakesNotice(h, s, to, doing, row)
      BY <3>1, <3>2, <3>3, <3>4 DEF TakesNotice
    <3> QED BY <3>5
  <2>3. ASSUME NEW from \in Hours, NEW until \in Hours \cup {Never}, Publish(h, s, from, until)
        PROVE  \E to, doing, row : TakesNotice(h, s, to, doing, row)
    <3> DEFINE row == [ status |-> "published", from |-> from, until |-> until ]
    <3>1. row = [ status |-> row.status, from |-> row.from, until |-> row.until ] /\ row.status = "published"
      OBVIOUS
    <3>2. /\ hand[h] = Free /\ hand' = [ hand EXCEPT ![h] = [ at |-> "row", slug |-> s, doing |-> "published" ] ]
          /\ notices' = [ notices EXCEPT ![s] = row ] /\ UNCHANGED << cacheVars, unbumped >>
      BY <2>3 DEF Publish
    <3> HIDE DEF row
    <3>3. row.status # "withdrawn"
      BY <3>1
    <3>4. \E to, doing : TakesNotice(h, s, to, doing, row)
      BY <3>1, <3>2, <3>3 DEF TakesNotice
    <3> QED BY <3>4
  <2> QED BY <2>1, <2>2, <2>3
<1>1. PICK to, doing, row : TakesNotice(h, s, to, doing, row)
  BY <1>0
<1> DEFINE ask == [ at |-> to, slug |-> s, doing |-> doing ]
<1>2. ask.at = to /\ ask.slug = s /\ ask.doing = doing /\ ask = [ at |-> ask.at, slug |-> ask.slug, doing |-> ask.doing ]
  OBVIOUS
<1> HIDE DEF ask
<1>3. /\ hand' = [ k \in Hands |-> hand'[k] ] /\ hand'[h] = ask /\ \A k \in Hands : k # h => hand'[k] = hand[k]
      /\ notices' = [ q \in Slugs |-> notices'[q] ] /\ notices'[s] = row
      /\ \A q \in Slugs : q # s => notices'[q] = notices[q]
  BY <1>1 DEF NoticesInv, ask, TakesNotice
<1>4. hand[h].at = "nothing"
  BY <1>1 DEF Free, TakesNotice
<1>5. \A q \in Slugs : TakenDown(q)' => TakenDown(q)
  BY <1>1, <1>2, <1>3, <1>4 DEF TakenDown, TakesNotice
<1>6. \A k \in Hands : hand'[k] = [ at |-> hand'[k].at, slug |-> hand'[k].slug, doing |-> hand'[k].doing ]
  BY <1>2, <1>3 DEF NoticesInv
<1>7. \A q \in Slugs : notices'[q] = [ status |-> notices'[q].status, from |-> notices'[q].from, until |-> notices'[q].until ]
  BY <1>1, <1>3 DEF NoticesInv, TakesNotice
<1>8. unbumped' \in BOOLEAN /\ UNCHANGED cacheVars
  BY <1>1 DEF NoticesInv, TakesNotice
<1> QED BY <1>3, <1>5, <1>6, <1>7, <1>8, NoticesRest

LEMMA HandsGoOn ==
  ASSUME NoticesInv, NEW h \in Hands,
         Record(h) \/ Audit(h) \/ WithdrawNotice(h) \/ NoticeFails(h)
  PROVE  NoticesInv'
<1> DEFINE was == hand[h]
<1>1. /\ notices' = [ s \in Slugs |-> notices'[s] ]
      /\ \A s \in Slugs : notices'[s] = [ status |-> notices'[s].status, from |-> notices'[s].from, until |-> notices'[s].until ]
      /\ \A s \in Slugs : notices'[s] = notices[s] \/ (WithdrawNotice(h) /\ s = was.slug)
      /\ UNCHANGED cacheVars
  <2>1. CASE notices' = notices /\ UNCHANGED cacheVars
    BY <2>1 DEF NoticesInv
  <2>2. CASE WithdrawNotice(h)
    <3>1. notices' = [ notices EXCEPT ![was.slug] = [ notices[was.slug] EXCEPT !.status = "withdrawn" ] ] /\ UNCHANGED cacheVars
      BY <2>2 DEF WithdrawNotice
    <3> DEFINE row(s) == [ notices[s] EXCEPT !.status = "withdrawn" ]
    <3>2. \A s \in Slugs : row(s) = [ status |-> row(s).status, from |-> row(s).from, until |-> row(s).until ]
      <4> SUFFICES ASSUME NEW s \in Slugs PROVE row(s) = [ status |-> row(s).status, from |-> row(s).from, until |-> row(s).until ]
        OBVIOUS
      <4> DEFINE st == notices[s].status  f == notices[s].from  u == notices[s].until
      <4>1. notices[s] = [ status |-> st, from |-> f, until |-> u ]
        BY DEF NoticesInv
      <4> HIDE DEF st, f, u
      <4> QED BY <4>1
    <3>3. \A s \in Slugs : notices'[s] = IF s = was.slug THEN row(s) ELSE notices[s]
      BY <3>1 DEF NoticesInv
    <3>4. notices' = [ s \in Slugs |-> notices'[s] ]
      BY <3>1 DEF NoticesInv
    <3> HIDE DEF row
    <3>5. \A s \in Slugs : notices'[s] = [ status |-> notices'[s].status, from |-> notices'[s].from, until |-> notices'[s].until ]
      BY <3>2, <3>3 DEF NoticesInv
    <3> QED BY <2>2, <3>1, <3>3, <3>4, <3>5
  <2> QED BY <2>1, <2>2 DEF Record, Audit, NoticeFails
<1>2. PICK at : hand' = [ hand EXCEPT ![h] = [ was EXCEPT !.at = at ] ] \/ hand' = [ hand EXCEPT ![h] = Free ]
  BY DEF Record, Audit, WithdrawNotice, NoticeFails
<1>3. /\ hand' = [ k \in Hands |-> hand'[k] ] /\ \A k \in Hands : k # h => hand'[k] = hand[k]
      /\ hand'[h] = [ was EXCEPT !.at = at ] \/ hand'[h] = Free
  BY <1>2 DEF NoticesInv
<1>4. hand'[h] = [ at |-> hand'[h].at, slug |-> hand'[h].slug, doing |-> hand'[h].doing ]
      /\ (hand'[h] = Free \/ hand'[h].slug = was.slug)
  <2> DEFINE a == was.at  sl == was.slug  d == was.doing
  <2>1. was = [ at |-> a, slug |-> sl, doing |-> d ]
    BY DEF NoticesInv
  <2> HIDE DEF a, sl, d, was
  <2>2. [ was EXCEPT !.at = at ] = [ at |-> at, slug |-> sl, doing |-> d ]
    BY <2>1
  <2>3. CASE hand'[h] = [ at |-> at, slug |-> sl, doing |-> d ]
    BY <2>3 DEF sl
  <2>4. CASE hand'[h] = Free
    BY <2>4 DEF Free
  <2> QED BY <1>3, <2>2, <2>3, <2>4
<1>5. \A k \in Hands : hand'[k] = [ at |-> hand'[k].at, slug |-> hand'[k].slug, doing |-> hand'[k].doing ]
  BY <1>3, <1>4 DEF NoticesInv
<1>6. unbumped' \in BOOLEAN /\ (~unbumped' => ~unbumped)
  <2>1. unbumped \in BOOLEAN
    BY DEF NoticesInv
  <2>2. unbumped' = unbumped \/ unbumped' = (unbumped \/ hand[h].at = "done")
    BY DEF Record, Audit, WithdrawNotice, NoticeFails
  <2> QED BY <2>1, <2>2
<1>7. ~unbumped' => was.at # "done"
  <2>1. CASE NoticeFails(h)
    BY <2>1 DEF NoticeFails
  <2> QED BY <2>1 DEF Record, Audit, WithdrawNotice
<1>8. WithdrawNotice(h) => hand'[h].at = "done" /\ hand'[h].slug = was.slug
  <2> SUFFICES ASSUME WithdrawNotice(h) PROVE hand'[h].at = "done" /\ hand'[h].slug = was.slug
    OBVIOUS
  <2> DEFINE a == was.at  sl == was.slug  d == was.doing
  <2>1. was = [ at |-> a, slug |-> sl, doing |-> d ]
    BY DEF NoticesInv
  <2>2. hand'[h] = [ was EXCEPT !.at = "done" ]
    BY DEF WithdrawNotice, NoticesInv
  <2> HIDE DEF a, sl, d, was
  <2> QED BY <2>1, <2>2 DEF sl
<1>9. ASSUME NEW s \in Slugs, TakenDown(s)' PROVE TakenDown(s)
  <2>1. ~unbumped /\ was.at # "done"
    BY <1>6, <1>7, <1>9 DEF TakenDown
  <2>2. notices'[s] = notices[s]
    BY <1>1, <1>8, <1>9 DEF TakenDown
  <2> QED BY <1>3, <1>9, <2>1, <2>2 DEF TakenDown
<1> QED BY <1>1, <1>3, <1>5, <1>6, <1>9, NoticesRest

LEMMA NoticeListBumps ==
  ASSUME NoticesInv, (NoticeRestart \/ \E h \in Hands : BumpNotices(h)) PROVE NoticesInv'
<1>1. CacheInv' /\ ~Good(NoticeList)' /\ ~Unchanged(NoticeList)'
  <2>1. CASE NoticeRestart
    BY <2>1, CacheReboots, NoticesHavePages DEF NoticeRestart, NoticesInv
  <2>2. ASSUME NEW h \in Hands, BumpNotices(h) PROVE CacheInv' /\ ~Good(NoticeList)' /\ ~Unchanged(NoticeList)'
    <3>1. bump(Bumped) /\ UNCHANGED << boot, reading, held >> /\ NoticeList \in Bumped
      BY <2>2 DEF BumpNotices, Bumped
    <3> QED BY <3>1, CacheBumps, NoticesHavePages DEF NoticesInv
  <2> QED BY <2>1, <2>2
<1>2. Free = [ at |-> Free.at, slug |-> Free.slug, doing |-> Free.doing ]
  BY DEF Free
<1>3. /\ notices' = notices /\ unbumped' \in BOOLEAN /\ hand' = [ h \in Hands |-> hand'[h] ]
      /\ \A h \in Hands : hand'[h] = Free \/ hand'[h] = hand[h]
  BY DEF NoticeRestart, BumpNotices, NoticesInv
<1>4. \A h \in Hands : hand'[h] = [ at |-> hand'[h].at, slug |-> hand'[h].slug, doing |-> hand'[h].doing ]
  BY <1>2, <1>3 DEF NoticesInv
<1>5. \A s \in Slugs : Cautious(s)'
  BY <1>1 DEF Cautious
<1> QED BY <1>1, <1>3, <1>4, <1>5 DEF NoticesInv

LEMMA NoticesRead ==
  ASSUME NoticesInv, ReadNotices PROVE NoticesInv'
<1>0. CacheInv
  BY DEF NoticesInv
<1>1. /\ notices' = notices /\ hand' = hand /\ unbumped' = unbumped
  BY DEF ReadNotices, noticeOwnVars
<1>2. \A s \in Slugs : TakenDown(s)' = TakenDown(s)
  BY <1>1 DEF TakenDown
<1>3. \A s \in Slugs : NoticePage(s) \in Pages /\ NoticePage(s) # NoticeList
  BY NoticesHavePages DEF NoticePage, NoticeList
<1>4. NoticeList \in Pages
  BY NoticesHavePages
<1> DEFINE list == NoticeList
           Hidden(has, s) == s \in DOMAIN has => has[s] = FALSE
<1>5. /\ CacheInv'
      /\ \A s \in Slugs : TakenDown(s) =>
           /\ Good(list)' => Hidden(reading'[list].has, s)
           /\ Unchanged(list)' => held'[list].has[s] = FALSE
  <2>1. CASE AskPage(list)
    <3>1. /\ CacheInv' /\ etagFor(list)' = etagFor(list) /\ held' = held /\ DOMAIN reading'[list].has = {}
      BY <1>0, <1>4, <2>1, CacheAsks
    <3>2. Unchanged(list)' = Unchanged(list)
      BY <3>1 DEF Unchanged
    <3> QED BY <3>1, <3>2 DEF NoticesInv, Cautious
  <2>2. CASE Query(list, [ s \in Slugs |-> InList(s) ])
    <3> DEFINE part == [ s \in Slugs |-> InList(s) ]
    <3>1. \A s \in Slugs : TakenDown(s) => part[s] = FALSE
      BY DEF TakenDown, InList, stateOf
    <3>2. DOMAIN part = Slugs
      OBVIOUS
    <3>3. Query(list, part)
      BY <2>2
    <3> HIDE DEF part
    <3>4. /\ CacheInv' /\ etagFor(list)' = etagFor(list) /\ held' = held
          /\ \A s \in Slugs : reading'[list].has[s] = part[s]
      BY <1>0, <1>4, <3>2, <3>3, CacheQueries
    <3>5. Unchanged(list)' = Unchanged(list)
      BY <3>4 DEF Unchanged
    <3> QED BY <3>1, <3>4, <3>5 DEF NoticesInv, Cautious
  <2>3. CASE Deliver(list, Slugs)
    <3>1. /\ CacheInv' /\ etagFor(list)' = etagFor(list) /\ reading'[list] = Unseen /\ reading[list] # Unseen
          /\ DOMAIN reading[list].has = Slugs
          /\ \/ held' = held
             \/ held'[list].tag = reading[list].tag /\ held'[list].has = reading[list].has
      BY <1>0, <1>4, <2>3, CacheDelivers
    <3>2. ~Good(list)'
      BY <3>1 DEF Good
    <3>3. CASE held' = held
      <4>1. Unchanged(list)' = Unchanged(list)
        BY <3>1, <3>3 DEF Unchanged
      <4> QED BY <3>1, <3>2, <3>3, <4>1 DEF NoticesInv, Cautious
    <3>4. CASE held'[list].tag = reading[list].tag /\ held'[list].has = reading[list].has
      <4>1. Unchanged(list)' => Good(list)
        BY <3>1, <3>4 DEF Unchanged, Good
      <4> QED BY <3>1, <3>2, <3>4, <4>1 DEF NoticesInv, Cautious
    <3> QED BY <3>1, <3>3, <3>4
  <2>4. ASSUME NEW p \in Slugs, \/ AskPage(NoticePage(p))
                                \/ Query(NoticePage(p), [ x \in {p} |-> OnPage(x) ])
                                \/ Deliver(NoticePage(p), {p})
        PROVE  /\ CacheInv'
               /\ \A s \in Slugs : TakenDown(s) =>
                    /\ Good(list)' => Hidden(reading'[list].has, s)
                    /\ Unchanged(list)' => held'[list].has[s] = FALSE
    <3>1. CacheInv' /\ etagFor(list)' = etagFor(list) /\ reading'[list] = reading[list] /\ held'[list] = held[list]
      <4>1. NoticePage(p) \in Pages /\ NoticePage(p) # list
        BY <1>3
      <4>2. CASE AskPage(NoticePage(p))
        BY <1>0, <1>4, <4>1, <4>2, CacheAsks
      <4>3. CASE Deliver(NoticePage(p), {p})
        BY <1>0, <1>4, <4>1, <4>3, CacheDelivers
      <4>4. ASSUME NEW part, Query(NoticePage(p), part)
            PROVE  CacheInv' /\ etagFor(list)' = etagFor(list) /\ reading'[list] = reading[list] /\ held'[list] = held[list]
        BY <1>0, <1>4, <4>1, <4>4, CacheQueries
      <4> QED BY <2>4, <4>2, <4>3, <4>4
    <3>2. Unchanged(list)' = Unchanged(list) /\ Good(list)' = Good(list)
      BY <3>1 DEF Unchanged, Good
    <3> QED BY <3>1, <3>2 DEF NoticesInv, Cautious
  <2> QED BY <2>1, <2>2, <2>3, <2>4 DEF ReadNotices
<1>6. \A s \in Slugs : Cautious(s)'
  BY <1>2, <1>5 DEF Cautious
<1> QED BY <1>1, <1>5, <1>6 DEF NoticesInv

\* No reader is told that its copy of the list is still good while it shows a
\* notice that was taken down.
THEOREM TakenDownStaysOffTheList == NoticesSpec => []TakenDownIsOffTheList
<1>1. InitCache /\ InitNotices => NoticesInv
  <2> SUFFICES ASSUME InitCache, InitNotices PROVE NoticesInv
    OBVIOUS
  <2>1. CacheInv
    BY DEF InitCache, CacheInv
  <2>2. /\ notices = [ s \in Slugs |-> NoNotice ] /\ hand = [ h \in Hands |-> Free ] /\ unbumped = FALSE
    BY DEF InitNotices
  <2>3. /\ Free = [ at |-> Free.at, slug |-> Free.slug, doing |-> Free.doing ]
        /\ NoNotice = [ status |-> NoNotice.status, from |-> NoNotice.from, until |-> NoNotice.until ]
        /\ NoNotice.status = "none"
    BY DEF Free, NoNotice
  <2>4. \A s \in Slugs : Cautious(s)
    BY <2>2, <2>3 DEF Cautious, TakenDown
  <2> QED BY <2>1, <2>2, <2>3, <2>4 DEF NoticesInv
<1>2. NoticesInv /\ [NoticeStep]_noticeVars => NoticesInv'
  <2> SUFFICES ASSUME NoticesInv, [NoticeStep]_noticeVars PROVE NoticesInv'
    OBVIOUS
  <2>1. CASE UNCHANGED << cacheVars, notices, hand, unbumped >>
    BY <2>1, NoticesRest DEF NoticesInv, TakenDown
  <2>2. CASE HourPasses \/ UNCHANGED noticeVars
    BY <2>1, <2>2 DEF HourPasses, noticeVars, noticeOwnVars
  <2> QED BY <2>2, HandsKeep, HandsGoOn, NoticeListBumps, NoticesRead DEF NoticeStep
<1>3. NoticesInv => TakenDownIsOffTheList
  BY DEF NoticesInv, Cautious, TakenDownIsOffTheList
<1> QED BY <1>1, <1>2, <1>3, PTL DEF NoticesSpec

-----------------------------------------------------------------------------
\* The municipality's pages.  A copy that is still good says what the page says,
\* and so does an answer under way that would be, of the fields it has read.
Current(page) ==
  page \notin Expiring =>
    /\ Good(page) => \A f \in DOMAIN reading[page].has : f \in FieldsOn(page) /\ reading[page].has[f] = Served(f)
    /\ Unchanged(page) => held[page].has = [ f \in FieldsOn(page) |-> Served(f) ]

EditTyped(x) ==
  /\ x = [ at |-> x.at, field |-> x.field, proposal |-> x.proposal, by |-> x.by, text |-> x.text, was |-> x.was ]
  /\ x.at = "replacing" => x.field[1] = "page"

ContentInv ==
  /\ CacheInv
  /\ stored = [ f \in Fields |-> stored[f] ] /\ state = [ f \in Fields |-> state[f] ]
  /\ edit = [ e \in Edits |-> edit[e] ] /\ \A e \in Edits : EditTyped(edit[e])
  /\ \A page \in ContentPages : Current(page)

LEMMA ExpiringIs ==
  \A page : page \in Expiring <=>
    \/ page \in unexpired
    \/ \E e \in Edits : edit[e].at = "committed" /\ page \in Expires(edit[e].field)
BY DEF Expiring

\* invalidateFor reaches every page that shows the field.
LEMMA ExpiresWhereShown ==
  \A page, f : f \in FieldsOn(page) => page \in Expires(f)
<1> SUFFICES ASSUME NEW page, NEW f, f \in FieldsOn(page) PROVE page \in Expires(f)
  OBVIOUS
<1>1. CASE f[1] = "office"
  BY <1>1 DEF FieldsOn, Expires
<1>2. CASE f[1] = "official"
  BY <1>2 DEF FieldsOn, Expires
<1>3. CASE f[1] = "permit"
  BY <1>3 DEF FieldsOn, Expires
<1>4. CASE f[1] = "page"
  BY <1>4 DEF FieldsOn, Expires
<1>5. CASE f[1] = "profile"
  BY <1>5 DEF FieldsOn, Expires
<1> QED BY <1>1, <1>2, <1>3, <1>4, <1>5 DEF FieldsOn

\* Nothing of the cache changes, and what a page says only where its expiry is due.
LEMMA ContentRest ==
  ASSUME ContentInv, UNCHANGED cacheVars,
         stored' = [ f \in Fields |-> stored'[f] ], state' = [ f \in Fields |-> state'[f] ],
         edit' = [ e \in Edits |-> edit'[e] ], \A e \in Edits : EditTyped(edit'[e]),
         \A page \in ContentPages : page \notin Expiring' =>
           page \notin Expiring /\ \A f \in FieldsOn(page) : Served(f)' = Served(f)
  PROVE  ContentInv'
<1>1. /\ boot' = boot /\ version' = version /\ reading' = reading /\ held' = held
  BY DEF cacheVars
<1>2. CacheInv'
  BY <1>1 DEF ContentInv, CacheInv, Copy, Taken
<1>3. \A page : Good(page)' = Good(page) /\ Unchanged(page)' = Unchanged(page)
  BY <1>1 DEF Good, Unchanged, etagFor
<1>4. ASSUME NEW page \in ContentPages PROVE Current(page)'
  <2> SUFFICES ASSUME page \notin Expiring'
               PROVE  /\ Good(page) => \A f \in DOMAIN reading[page].has :
                           f \in FieldsOn(page) /\ reading[page].has[f] = Served(f)'
                      /\ Unchanged(page) => held[page].has = [ f \in FieldsOn(page) |-> Served(f)' ]
    BY <1>1, <1>3 DEF Current, FieldsOn
  <2>1. page \notin Expiring /\ \A f \in FieldsOn(page) : Served(f)' = Served(f)
    OBVIOUS
  <2>2. [ f \in FieldsOn(page) |-> Served(f)' ] = [ f \in FieldsOn(page) |-> Served(f) ]
    BY <2>1
  <2> QED BY <2>1, <2>2 DEF ContentInv, Current
<1>5. \A e \in Edits : EditTyped(edit[e])'
  BY DEF EditTyped
<1>6. \A page \in ContentPages' : Current(page)'
  BY <1>4 DEF ContentPages, FieldsOn
<1> QED BY <1>2, <1>5, <1>6 DEF ContentInv

\* A session that committed nothing yet asks or gives up; a change is proposed.
LEMMA SessionsRest ==
  ASSUME ContentInv, NEW e \in Edits, NEW r, EditTyped(r), edit[e].at # "committed", r.at # "committed",
         edit' = [ edit EXCEPT ![e] = r ], UNCHANGED << cacheVars, stored, state, unexpired >>
  PROVE  ContentInv'
<1>1. edit' = [ x \in Edits |-> edit'[x] ] /\ edit'[e] = r /\ \A x \in Edits : x # e => edit'[x] = edit[x]
  BY DEF ContentInv
<1>2. \A x \in Edits : EditTyped(edit'[x])
  BY <1>1 DEF ContentInv
<1>3. \A page : page \in Expiring' <=> page \in Expiring
  <2>1. \A page : page \in Expiring' <=>
          \/ page \in unexpired' \/ \E x \in Edits : edit'[x].at = "committed" /\ page \in Expires(edit'[x].field)
    BY DEF Expiring, Expires
  <2> QED BY <1>1, <2>1, ExpiringIs
<1>4. \A f : Served(f)' = Served(f)
  BY DEF Served, Confirmed
<1> QED BY <1>1, <1>2, <1>3, <1>4, ContentRest DEF ContentInv

Said(a, f, q, b, t, w) == [ at |-> a, field |-> f, proposal |-> q, by |-> b, text |-> t, was |-> w ]

LEMMA SaidIsSession ==
  \A a, f, q, b, t, w : /\ Said(a, f, q, b, t, w).at = a /\ Said(a, f, q, b, t, w).field = f
                        /\ (a = "replacing" => f[1] = "page") => EditTyped(Said(a, f, q, b, t, w))
BY DEF Said, EditTyped

LEMMA NoEditFields == EditTyped(NoEdit) /\ NoEdit.at = "nothing"
BY DEF NoEdit, EditTyped

\* What a session asks, one field after the other.
LEMMA SaidConfirming ==
  ASSUME NEW f, NEW p, NEW by
  PROVE  [ NoEdit EXCEPT !.at = "confirming", !.proposal = p, !.by = by, !.field = f ]
           = Said("confirming", f, p, by, Blank, Blank)
<1> DEFINE aa == [ NoEdit EXCEPT !.at = "confirming" ]
           bb == [ aa EXCEPT !.proposal = p ]
           cc == [ bb EXCEPT !.by = by ]
           dd == [ cc EXCEPT !.field = f ]
<1>1. [ NoEdit EXCEPT !.at = "confirming", !.proposal = p, !.by = by, !.field = f ] = dd
  OBVIOUS
<1>2. aa = Said("confirming", Blank, Blank, Blank, Blank, Blank)
  BY DEF NoEdit, Said
<1> HIDE DEF aa
<1>3. bb = Said("confirming", Blank, p, Blank, Blank, Blank)
  BY <1>2 DEF Said
<1> HIDE DEF bb
<1>4. cc = Said("confirming", Blank, p, by, Blank, Blank)
  BY <1>3 DEF Said
<1> HIDE DEF cc
<1>5. dd = Said("confirming", f, p, by, Blank, Blank)
  BY <1>4 DEF Said
<1> QED BY <1>1, <1>5

LEMMA SaidReverting ==
  ASSUME NEW f, NEW by
  PROVE  [ NoEdit EXCEPT !.at = "reverting", !.field = f, !.by = by ] = Said("reverting", f, Blank, by, Blank, Blank)
<1> DEFINE aa == [ NoEdit EXCEPT !.at = "reverting" ]
           bb == [ aa EXCEPT !.field = f ]
           cc == [ bb EXCEPT !.by = by ]
<1>1. [ NoEdit EXCEPT !.at = "reverting", !.field = f, !.by = by ] = cc
  OBVIOUS
<1>2. aa = Said("reverting", Blank, Blank, Blank, Blank, Blank)
  BY DEF NoEdit, Said
<1> HIDE DEF aa
<1>3. bb = Said("reverting", f, Blank, Blank, Blank, Blank)
  BY <1>2 DEF Said
<1> HIDE DEF bb
<1>4. cc = Said("reverting", f, Blank, by, Blank, Blank)
  BY <1>3 DEF Said
<1> QED BY <1>1, <1>4

LEMMA SaidReplacing ==
  ASSUME NEW f, NEW by, NEW t, NEW w
  PROVE  [ NoEdit EXCEPT !.at = "replacing", !.field = f, !.text = t, !.was = w, !.by = by ]
           = Said("replacing", f, Blank, by, t, w)
<1> DEFINE aa == [ NoEdit EXCEPT !.at = "replacing" ]
           bb == [ aa EXCEPT !.field = f ]
           cc == [ bb EXCEPT !.text = t ]
           dd == [ cc EXCEPT !.was = w ]
           gg == [ dd EXCEPT !.by = by ]
<1>1. [ NoEdit EXCEPT !.at = "replacing", !.field = f, !.text = t, !.was = w, !.by = by ] = gg
  OBVIOUS
<1>2. aa = Said("replacing", Blank, Blank, Blank, Blank, Blank)
  BY DEF NoEdit, Said
<1> HIDE DEF aa
<1>3. bb = Said("replacing", f, Blank, Blank, Blank, Blank)
  BY <1>2 DEF Said
<1> HIDE DEF bb
<1>4. cc = Said("replacing", f, Blank, Blank, t, Blank)
  BY <1>3 DEF Said
<1> HIDE DEF cc
<1>5. dd = Said("replacing", f, Blank, Blank, t, w)
  BY <1>4 DEF Said
<1> HIDE DEF dd
<1>6. gg = Said("replacing", f, Blank, by, t, w)
  BY <1>5 DEF Said
<1> QED BY <1>1, <1>6

LEMMA SessionsBegin ==
  ASSUME ContentInv, NEW e \in Edits,
         \/ \E p \in Proposals, by \in Editors : AskConfirm(e, p, by)
         \/ \E f \in Fields, by \in Editors : AskRevert(e, f, by)
         \/ \E f \in Fields, text \in Texts, by \in Editors : AskNewText(e, f, text, by)
         \/ LoseTheRace(e) \/ EditFails(e)
  PROVE  ContentInv'
<1>1. ASSUME NEW r, EditTyped(r), edit[e].at # "committed", r.at # "committed",
             edit' = [ edit EXCEPT ![e] = r ], UNCHANGED << cacheVars, stored, state, unexpired >>
      PROVE  ContentInv'
  BY <1>1, SessionsRest
<1>2. edit[e] = NoEdit => edit[e].at # "committed"
  BY NoEditFields
<1>3. ASSUME NEW p \in Proposals, NEW by \in Editors, AskConfirm(e, p, by) PROVE ContentInv'
  <2> DEFINE f == proposals[p].field
             r == [ NoEdit EXCEPT !.at = "confirming", !.proposal = p, !.by = by, !.field = f ]
  <2>0. r = Said("confirming", f, p, by, Blank, Blank)
    BY SaidConfirming
  <2>1. EditTyped(r) /\ r.at # "committed"
    BY <2>0, SaidIsSession
  <2>2. edit[e] = NoEdit /\ edit' = [ edit EXCEPT ![e] = r ] /\ UNCHANGED << cacheVars, stored, state, unexpired >>
    BY <1>3 DEF AskConfirm
  <2> HIDE DEF r
  <2> QED BY <1>1, <1>2, <2>1, <2>2
<1>4. ASSUME NEW f \in Fields, NEW by \in Editors, AskRevert(e, f, by) PROVE ContentInv'
  <2> DEFINE r == [ NoEdit EXCEPT !.at = "reverting", !.field = f, !.by = by ]
  <2>0. r = Said("reverting", f, Blank, by, Blank, Blank)
    BY SaidReverting
  <2>1. EditTyped(r) /\ r.at # "committed"
    BY <2>0, SaidIsSession
  <2>2. edit[e] = NoEdit /\ edit' = [ edit EXCEPT ![e] = r ] /\ UNCHANGED << cacheVars, stored, state, unexpired >>
    BY <1>4 DEF AskRevert
  <2> HIDE DEF r
  <2> QED BY <1>1, <1>2, <2>1, <2>2
<1>5. ASSUME NEW f \in Fields, NEW text \in Texts, NEW by \in Editors, AskNewText(e, f, text, by) PROVE ContentInv'
  <2> DEFINE w == stored[f]
  <2> HIDE DEF w
  <2> DEFINE r == [ NoEdit EXCEPT !.at = "replacing", !.field = f, !.text = text, !.was = w, !.by = by ]
  <2>0. r = Said("replacing", f, Blank, by, text, w)
    <3>1. \A z : [ NoEdit EXCEPT !.at = "replacing", !.field = f, !.text = text, !.was = z, !.by = by ]
                  = Said("replacing", f, Blank, by, text, z)
      BY SaidReplacing, ZenonT(60)
    <3> QED BY <3>1
  <2>1. r.at # "committed" /\ (f[1] = "page" => EditTyped(r))
    BY <2>0, SaidIsSession
  <2>2. /\ edit[e] = NoEdit /\ f[1] = "page" /\ edit' = [ edit EXCEPT ![e] = r ]
        /\ UNCHANGED << cacheVars, stored, state, unexpired >>
    BY <1>5 DEF AskNewText, w
  <2>3. EditTyped(r) /\ edit[e].at # "committed"
    BY <1>2, <2>1, <2>2
  <2> HIDE DEF r
  <2> QED BY <1>1, <2>1, <2>2, <2>3
<1>6. CASE LoseTheRace(e) \/ EditFails(e)
  <2>1. /\ edit[e].at # "committed" /\ edit' = [ edit EXCEPT ![e] = NoEdit ]
        /\ UNCHANGED << cacheVars, stored, state, unexpired >>
    BY <1>6 DEF LoseTheRace, EditFails
  <2> QED BY <1>1, <2>1, NoEditFields
<1> QED BY <1>3, <1>4, <1>5, <1>6

\* A change commits: what it changes is shown where its expiry is due.
LEMMA ChangesCommit ==
  ASSUME ContentInv, NEW e \in Edits, Confirm(e) \/ Revert(e) \/ ReplacePage(e) PROVE ContentInv'
<1> DEFINE x == edit[e]  f == x.field  r == [ x EXCEPT !.at = "committed" ]
<1>1. /\ edit' = [ edit EXCEPT ![e] = r ] /\ UNCHANGED << cacheVars, unexpired >> /\ x.at # "committed"
  BY DEF Confirm, Revert, ReplacePage
<1>2. EditTyped(r) /\ r.at = "committed" /\ r.field = f
  <2> DEFINE fi == x.field  pr == x.proposal  b == x.by  t == x.text  w == x.was  a == x.at
  <2>1. x = [ at |-> a, field |-> fi, proposal |-> pr, by |-> b, text |-> t, was |-> w ]
    BY DEF ContentInv, EditTyped
  <2> HIDE DEF x, fi, pr, b, t, w, a
  <2>2. r = [ at |-> "committed", field |-> fi, proposal |-> pr, by |-> b, text |-> t, was |-> w ] /\ f = fi
    BY <2>1
  <2> QED BY <2>2 DEF EditTyped
<1>3. /\ stored' = [ g \in Fields |-> stored'[g] ] /\ state' = [ g \in Fields |-> state'[g] ]
      /\ \A g \in Fields : g # f => state'[g] = state[g] /\ stored'[g] = stored[g]
      /\ stored' = stored \/ f[1] = "page"
  <2>1. CASE Confirm(e) \/ Revert(e)
    BY <2>1 DEF Confirm, Revert, ContentInv
  <2>2. CASE ReplacePage(e)
    <3>1. f[1] = "page"
      BY <2>2 DEF ReplacePage, ContentInv, EditTyped
    <3> QED BY <2>2, <3>1 DEF ReplacePage, ContentInv
  <2> QED BY <2>1, <2>2
<1> HIDE DEF f, r
<1>4. edit' = [ k \in Edits |-> edit'[k] ] /\ edit'[e] = r /\ \A k \in Edits : k # e => edit'[k] = edit[k]
  BY <1>1 DEF ContentInv
<1>5. \A k \in Edits : EditTyped(edit'[k])
  BY <1>2, <1>4 DEF ContentInv
<1>6. \A page : page \in Expiring' <=> page \in Expiring \/ page \in Expires(f)
  <2>1. \A page : page \in Expiring' <=>
          \/ page \in unexpired' \/ \E k \in Edits : edit'[k].at = "committed" /\ page \in Expires(edit'[k].field)
    BY DEF Expiring, Expires
  <2> QED BY <1>1, <1>2, <1>4, <2>1, ExpiringIs
<1>7. \A g \in Fields : g # f => Served(g)' = Served(g)
  <2> SUFFICES ASSUME NEW g \in Fields, g # f PROVE Served(g)' = Served(g)
    OBVIOUS
  <2>1. stored'[Holder(g)] = stored[Holder(g)]
    <3>1. CASE Holder(g) = g
      BY <1>3, <3>1
    <3>2. CASE Holder(g) # g
      <4>1. Holder(g) = << "official", HeadOf[g[2]], "name" >> /\ g[1] = "office" /\ g[3] = "head" /\ HeadOf[g[2]] # Blank
        BY <3>2 DEF Holder
      <4>2. Holder(g) \in Fields
        BY <4>1, PublicContentAssumption DEF PublicContentAssumption
      <4>3. f[1] = "page" => Holder(g) # f
        BY <4>1
      <4> QED BY <1>3, <4>2, <4>3
    <3> QED BY <3>1, <3>2
  <2>2. state'[g] = state[g]
    BY <1>3
  <2> QED BY <2>1, <2>2 DEF Served, Confirmed, Holder
<1>8. ASSUME NEW page \in ContentPages, page \notin Expiring'
      PROVE  page \notin Expiring /\ \A g \in FieldsOn(page) : Served(g)' = Served(g)
  BY <1>6, <1>7, <1>8, ExpiresWhereShown DEF FieldsOn
<1> QED BY <1>1, <1>3, <1>4, <1>5, <1>8, ContentRest

\* The expiry fails, and the pages are not covered; a proposal changes no page.
LEMMA OthersRest ==
  ASSUME ContentInv,
         \/ \E e \in Edits : InvalidateFails(e)
         \/ \E p \in Proposals, f \in Fields, text \in Texts, by \in Editors : Propose(p, f, text, by)
  PROVE  ContentInv'
<1>1. /\ UNCHANGED << cacheVars, stored, state >>
      /\ \/ UNCHANGED << edit, unexpired >>
         \/ \E e \in Edits : /\ unexpired' = unexpired \cup Expires(edit[e].field)
                             /\ edit' = [ edit EXCEPT ![e] = NoEdit ]
  BY DEF InvalidateFails, Propose
<1>2. \A f : Served(f)' = Served(f)
  BY <1>1 DEF Served, Confirmed
<1>3. \A page : page \in Expiring' <=>
        \/ page \in unexpired' \/ \E k \in Edits : edit'[k].at = "committed" /\ page \in Expires(edit'[k].field)
  BY DEF Expiring, Expires
<1>4. CASE UNCHANGED << edit, unexpired >>
  BY <1>1, <1>2, <1>3, <1>4, ExpiringIs, ContentRest DEF ContentInv
<1>5. ASSUME NEW e \in Edits, unexpired' = unexpired \cup Expires(edit[e].field), edit' = [ edit EXCEPT ![e] = NoEdit ]
      PROVE  ContentInv'
  <2>1. edit' = [ k \in Edits |-> edit'[k] ] /\ edit'[e] = NoEdit /\ \A k \in Edits : k # e => edit'[k] = edit[k]
    BY <1>5 DEF ContentInv
  <2>2. \A k \in Edits : EditTyped(edit'[k])
    BY <2>1, NoEditFields DEF ContentInv
  <2>3. \A page : page \notin Expiring' => page \notin Expiring
    BY <1>3, <1>5, <2>1, ExpiringIs
  <2> QED BY <1>1, <1>2, <2>1, <2>2, <2>3, ContentRest DEF ContentInv
<1> QED BY <1>1, <1>4, <1>5

LEMMA PagesExpire ==
  ASSUME ContentInv, ContentRestart \/ \E e \in Edits : Invalidate(e) PROVE ContentInv'
<1>0. CacheInv
  BY DEF ContentInv
<1>1. UNCHANGED << stored, state >>
  BY DEF ContentRestart, Invalidate
<1>2. /\ \A f : Served(f)' = Served(f) /\ ContentPages' = ContentPages
      /\ \A page \in ContentPages : page \in Pages
  BY <1>1 DEF Served, Confirmed, ContentPages, FieldsOn
<1>3. \A page : page \in Expiring' <=>
        \/ page \in unexpired' \/ \E k \in Edits : edit'[k].at = "committed" /\ page \in Expires(edit'[k].field)
  BY DEF Expiring, Expires
<1>4. CASE ContentRestart
  <2>1. CacheInv' /\ \A p \in Pages : ~Good(p)' /\ ~Unchanged(p)'
    BY <1>0, <1>4, CacheReboots DEF ContentRestart
  <2>2. edit' = [ e \in Edits |-> NoEdit ]
    BY <1>4 DEF ContentRestart
  <2>3. edit' = [ e \in Edits |-> edit'[e] ] /\ \A e \in Edits : EditTyped(edit[e])'
    BY <2>2, NoEditFields DEF EditTyped
  <2>4. \A page \in ContentPages' : Current(page)'
    BY <1>2, <2>1 DEF Current
  <2> QED BY <1>1, <2>1, <2>3, <2>4 DEF ContentInv
<1>5. ASSUME NEW e \in Edits, Invalidate(e) PROVE ContentInv'
  <2> DEFINE pages == Expires(edit[e].field)
  <2>1. /\ edit[e].at = "committed" /\ bump(pages) /\ UNCHANGED << boot, reading, held, unexpired >>
        /\ edit' = [ edit EXCEPT ![e] = NoEdit ]
    BY <1>5 DEF Invalidate
  <2>2. edit' = [ k \in Edits |-> edit'[k] ] /\ edit'[e] = NoEdit /\ \A k \in Edits : k # e => edit'[k] = edit[k]
    BY <2>1 DEF ContentInv
  <2>30. \A k \in Edits : EditTyped(edit'[k])
    BY <2>2, NoEditFields DEF ContentInv
  <2>3. \A k \in Edits : EditTyped(edit[k])'
    BY <2>30 DEF EditTyped
  <2>4. \A page : page \in Expiring => page \in Expiring' \/ page \in pages
    BY <1>3, <2>1, <2>2, ExpiringIs
  <2> HIDE DEF pages
  <2>5. /\ CacheInv'
        /\ \A p \in Pages : p \notin pages => etagFor(p)' = etagFor(p)
        /\ \A p \in Pages : p \in pages => ~Good(p)' /\ ~Unchanged(p)'
    BY <1>0, <2>1, CacheBumps
  <2>6. ASSUME NEW page \in ContentPages PROVE Current(page)'
    <3>1. CASE page \in pages
      BY <1>2, <2>5, <3>1 DEF Current
    <3>2. CASE page \notin pages
      <4>1. Good(page)' = Good(page) /\ Unchanged(page)' = Unchanged(page)
        BY <1>2, <2>1, <2>5, <3>2 DEF Good, Unchanged
      <4>2. page \in Expiring => page \in Expiring'
        BY <2>4, <3>2
      <4>3. [ f \in FieldsOn(page) |-> Served(f)' ] = [ f \in FieldsOn(page) |-> Served(f) ]
        BY <1>2
      <4> QED BY <1>2, <2>1, <4>1, <4>2, <4>3 DEF ContentInv, Current, FieldsOn
    <3> QED BY <3>1, <3>2
  <2> QED BY <1>1, <1>2, <2>2, <2>3, <2>5, <2>6 DEF ContentInv
<1> QED BY <1>4, <1>5

LEMMA ContentReads ==
  ASSUME ContentInv, ReadContent PROVE ContentInv'
<1>0. CacheInv
  BY DEF ContentInv
<1>1. /\ stored' = stored /\ state' = state /\ edit' = edit /\ unexpired' = unexpired
  BY DEF ReadContent, contentOwnVars
<1>2. /\ \A f : Served(f)' = Served(f)
      /\ \A p : FieldsOn(p)' = FieldsOn(p)
      /\ ContentPages' = ContentPages /\ Expiring' = Expiring
  BY <1>1 DEF Served, Confirmed, ContentPages, FieldsOn, Expiring, Expires
<1>3. PICK page \in ContentPages :
        \/ AskPage(page)
        \/ \E f \in FieldsOn(page) : Query(page, [ g \in {f} |-> Served(g) ])
        \/ Deliver(page, FieldsOn(page))
  BY DEF ReadContent
<1>4. page \in Pages /\ \A p \in ContentPages : p \in Pages
  BY DEF ContentPages
<1> DEFINE Truly(has) == \A f \in DOMAIN has : f \in FieldsOn(page) /\ has[f] = Served(f)
           all == [ f \in FieldsOn(page) |-> Served(f) ]
<1>5. page \notin Expiring => (Good(page) => Truly(reading[page].has)) /\ (Unchanged(page) => held[page].has = all)
  BY DEF ContentInv, Current
<1>6. /\ CacheInv' /\ \A p \in Pages : etagFor(p)' = etagFor(p)
      /\ \A p \in Pages : p # page => reading'[p] = reading[p] /\ held'[p] = held[p]
      /\ page \notin Expiring => /\ Good(page)' => Truly(reading'[page].has)
                                 /\ Unchanged(page)' => held'[page].has = all
  <2>1. CASE AskPage(page)
    <3>1. /\ CacheInv' /\ (\A p \in Pages : etagFor(p)' = etagFor(p)) /\ held' = held
          /\ DOMAIN reading'[page].has = {}
          /\ \A p \in Pages : p # page => reading'[p] = reading[p]
      BY <1>0, <1>4, <2>1, CacheAsks
    <3>2. Unchanged(page)' = Unchanged(page)
      BY <1>4, <3>1 DEF Unchanged
    <3> QED BY <1>5, <3>1, <3>2
  <2>2. ASSUME NEW f \in FieldsOn(page), Query(page, [ g \in {f} |-> Served(g) ])
        PROVE  /\ CacheInv' /\ \A p \in Pages : etagFor(p)' = etagFor(p)
               /\ \A p \in Pages : p # page => reading'[p] = reading[p] /\ held'[p] = held[p]
               /\ page \notin Expiring => /\ Good(page)' => Truly(reading'[page].has)
                                          /\ Unchanged(page)' => held'[page].has = all
    <3> DEFINE part == [ g \in {f} |-> Served(g) ]
    <3>1. DOMAIN part = {f} /\ part[f] = Served(f)
      OBVIOUS
    <3>2. Query(page, part)
      BY <2>2
    <3> HIDE DEF part
    <3>3. /\ CacheInv' /\ (\A p \in Pages : etagFor(p)' = etagFor(p)) /\ held' = held
          /\ reading[page] # Unseen /\ reading'[page].tag = reading[page].tag
          /\ DOMAIN reading'[page].has = DOMAIN reading[page].has \cup {f}
          /\ reading'[page].has[f] = Served(f)
          /\ \A x \in DOMAIN reading[page].has \ {f} : reading'[page].has[x] = reading[page].has[x]
          /\ \A p \in Pages : p # page => reading'[p] = reading[p]
      BY <1>0, <1>4, <3>1, <3>2, CacheQueries
    <3>4. /\ Unchanged(page)' = Unchanged(page)
          /\ Good(page)' => Good(page)
      BY <1>4, <3>3 DEF Unchanged, Good
    <3>5. Truly(reading[page].has) => Truly(reading'[page].has)
      BY <3>3
    <3> HIDE DEF Truly, all
    <3> QED BY <1>5, <3>3, <3>4, <3>5
  <2>3. CASE Deliver(page, FieldsOn(page))
    <3> DEFINE has == reading[page].has
    <3>1. /\ CacheInv' /\ (\A p \in Pages : etagFor(p)' = etagFor(p))
          /\ reading'[page] = Unseen /\ reading[page] # Unseen
          /\ DOMAIN has = FieldsOn(page) /\ has = [ x \in FieldsOn(page) |-> has[x] ]
          /\ \A p \in Pages : p # page => reading'[p] = reading[p] /\ held'[p] = held[p]
          /\ \/ held' = held
             \/ held'[page].tag = reading[page].tag /\ held'[page].has = has
      BY <1>0, <1>4, <2>3, CacheDelivers
    <3>2. ~Good(page)'
      BY <3>1 DEF Good
    <3>3. CASE held' = held
      <4>1. Unchanged(page)' = Unchanged(page)
        BY <1>4, <3>1, <3>3 DEF Unchanged
      <4> QED BY <1>5, <3>1, <3>2, <3>3, <4>1
    <3>4. CASE held'[page].tag = reading[page].tag /\ held'[page].has = has
      <4>1. Unchanged(page)' => Good(page)
        BY <1>4, <3>1, <3>4 DEF Unchanged, Good
      <4>2. Truly(has) => has = all
        BY <3>1
      <4> HIDE DEF Truly, all, has
      <4> QED BY <1>5, <3>1, <3>2, <3>4, <4>1, <4>2 DEF has
    <3> QED BY <3>1, <3>3, <3>4
  <2> QED BY <1>3, <2>1, <2>2, <2>3
<1>7. \A p \in ContentPages : Current(p)'
  <2> SUFFICES ASSUME NEW p \in ContentPages PROVE Current(p)'
    OBVIOUS
  <2>1. [ f \in FieldsOn(p) |-> Served(f) ]' = [ f \in FieldsOn(p) |-> Served(f) ]
    BY <1>2
  <2>2. CASE p = page
    BY <1>2, <1>6, <2>1, <2>2 DEF Current
  <2>3. CASE p # page
    <3>1. Good(p)' = Good(p) /\ Unchanged(p)' = Unchanged(p)
      BY <1>4, <1>6, <2>3 DEF Good, Unchanged
    <3> QED BY <1>2, <1>4, <1>6, <2>1, <2>3, <3>1 DEF Current, ContentInv
  <2> QED BY <2>2, <2>3
<1>8. \A e \in Edits : EditTyped(edit[e])'
  BY <1>1 DEF ContentInv, EditTyped
<1> QED BY <1>1, <1>2, <1>6, <1>7, <1>8 DEF ContentInv

\* A copy the portal would call unchanged says what the page says now, unless a
\* change of it is on its way to its expiry or that expiry failed.
THEOREM UnchangedStaysCurrent == ContentSpec => []UnchangedIsCurrent
<1>1. InitCache /\ InitContent => ContentInv
  <2> SUFFICES ASSUME InitCache, InitContent PROVE ContentInv
    OBVIOUS
  <2>1. CacheInv /\ \A p \in Pages : ~Good(p) /\ ~Unchanged(p)
    BY DEF InitCache, CacheInv, Good, Unchanged
  <2>2. /\ stored = [ f \in Fields |-> stored[f] ] /\ state = [ f \in Fields |-> state[f] ]
        /\ edit = [ e \in Edits |-> edit[e] ] /\ \A e \in Edits : edit[e] = NoEdit
    BY DEF InitContent
  <2>3. \A page \in ContentPages : Current(page)
    BY <2>1 DEF Current, ContentPages
  <2> QED BY <2>1, <2>2, <2>3, NoEditFields DEF ContentInv
<1>2. ContentInv /\ [ContentStep]_contentVars => ContentInv'
  <2> SUFFICES ASSUME ContentInv, [ContentStep]_contentVars PROVE ContentInv'
    OBVIOUS
  <2>1. CASE UNCHANGED contentVars
    <3>1. /\ UNCHANGED << cacheVars, stored, state, edit, unexpired >>
      BY <2>1 DEF contentVars, contentOwnVars
    <3>2. (\A f : Served(f)' = Served(f)) /\ Expiring' = Expiring
      BY <3>1 DEF Served, Confirmed, Expiring, Expires
    <3> QED BY <3>1, <3>2, ContentRest DEF ContentInv
  <2>2. ASSUME NEW e \in Edits, EditStep(e) PROVE ContentInv'
    <3>1. CASE Confirm(e) \/ Revert(e) \/ ReplacePage(e)
      BY <3>1, ChangesCommit
    <3>2. CASE Invalidate(e) \/ InvalidateFails(e)
      BY <3>2, PagesExpire, OthersRest
    <3> QED BY <2>2, <3>1, <3>2, SessionsBegin DEF EditStep
  <2> QED BY <2>1, <2>2, OthersRest, ContentReads, PagesExpire DEF ContentStep
<1>3. ContentInv => UnchangedIsCurrent
  BY DEF ContentInv, Current, UnchangedIsCurrent
<1> QED BY <1>1, <1>2, <1>3, PTL DEF ContentSpec
=============================================================================
