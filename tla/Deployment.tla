----------------------------- MODULE Deployment -----------------------------
(***************************************************************************)
(* How a build comes to serve and stops: scripts/migrate.ts and            *)
(* migrator.ts (forward-only, checksummed, one transaction a migration),   *)
(* schema-state.ts, the readiness probe of the database in                 *)
(* persistence.module.ts and shutdown.ts, with the load balancer that asks *)
(* /ready of each replica.  No replica migrates; a pipeline does, and two  *)
(* of its runs may meet.                                                   *)
(***************************************************************************)
EXTENDS Naturals, FiniteSets

CONSTANTS
  Numbered,      \* versions of migrations, numbers
  Contents,      \* what a migration file may say
  NoFile,        \* no such version
  Builds,        \* images that may be deployed
  Carries,       \* the migrations each build contains
  Pipelines,     \* runs of the migrator
  Replicas,      \* processes
  MaxServed      \* bound on the requests a replica has in hand

OrNoFile(set) == set \cup {NoFile}

ASSUME DeploymentAssumption ==
  /\ Numbered \subseteq Nat /\ IsFiniteSet(Numbered) /\ NoFile \notin Contents
  /\ Builds # {} /\ Carries \in [ Builds -> [ Numbered -> OrNoFile(Contents) ] ] /\ MaxServed \in Nat

VARIABLES
  ledger,        \* schema_migrations: the content each version was applied with
  pipeline,      \* the runs: build, and the versions left to apply
  replica,       \* build, phase, requests in hand, checks since it was told to stop
  balancer,      \* what it holds of each replica: in rotation, checks missed, last verdict
  turnedAway     \* requests that met a closed door or a schema the build does not know

deploymentVars == << ledger, pipeline, replica, balancer, turnedAway >>

SchemaVerdicts == {"current", "behind", "divergent", "ahead", "unread"}
Run == [ build : Builds, left : SUBSET Numbered ]
Replica == [ build : Builds, phase : {"off", "up", "draining", "closing"}, inHand : Nat,
             checks : Nat ]
Target == [ routed : BOOLEAN, missed : 0..2, verdict : SchemaVerdicts ]
NewTarget == [ routed |-> FALSE, missed |-> 0, verdict |-> "unread" ]

\* A slot where nothing runs yet names any build.
SomeBuild == CHOOSE b \in Builds : TRUE

DeploymentInit ==
  /\ ledger = [ v \in Numbered |-> NoFile ]
  /\ pipeline = [ m \in Pipelines |-> [ build |-> SomeBuild, left |-> {} ] ]
  /\ replica = [ i \in Replicas |->
       [ build |-> SomeBuild, phase |-> "off", inHand |-> 0, checks |-> 0 ] ]
  /\ balancer = [ i \in Replicas |-> NewTarget ] /\ turnedAway = {}

-----------------------------------------------------------------------------
\* compareSchema: by version and checksum, the worst first.
Divergent(b) ==
  \E v \in Numbered : ledger[v] # NoFile /\ Carries[b][v] \notin {NoFile, ledger[v]}
Behind(b) == \E v \in Numbered : ledger[v] = NoFile /\ Carries[b][v] # NoFile
Ahead(b) == \E v \in Numbered : ledger[v] # NoFile /\ Carries[b][v] = NoFile

\* Mutant: the counts are compared, as the check it replaces did.
compareCounts(b) ==
  LET expected == Cardinality({ v \in Numbered : Carries[b][v] # NoFile })
      found == Cardinality({ v \in Numbered : ledger[v] # NoFile })
  IN IF found < expected THEN "behind" ELSE "current"

compareSchema(b) ==
  IF Divergent(b) THEN "divergent" ELSE IF Behind(b) THEN "behind"
  ELSE IF Ahead(b) THEN "ahead" ELSE "current"

servesTraffic(verdict) == verdict \in {"current", "ahead"}

-----------------------------------------------------------------------------
\* migrate: history is verified before anything is applied.
BeginMigrate(m, b) ==
  /\ pipeline[m].left = {} /\ ~Divergent(b) /\ ~Ahead(b)
  /\ pipeline' = [ pipeline EXCEPT ![m] =
       [ build |-> b, left |-> { v \in Numbered : ledger[v] = NoFile /\ Carries[b][v] # NoFile } ] ]
  /\ UNCHANGED << ledger, replica, balancer, turnedAway >>

\* A version another run applied meanwhile fails this one on the key.
ApplyMigration(m) ==
  LET left == pipeline[m].left
      next == CHOOSE v \in left : \A w \in left : v <= w
  IN /\ left # {}
     /\ IF ledger[next] = NoFile
          THEN /\ ledger' = [ ledger EXCEPT ![next] = Carries[pipeline[m].build][next] ]
               /\ pipeline' = [ pipeline EXCEPT ![m].left = @ \ {next} ]
          ELSE pipeline' = [ pipeline EXCEPT ![m].left = {} ] /\ UNCHANGED ledger
     /\ UNCHANGED << replica, balancer, turnedAway >>

\* A statement fails or the run dies: the migration leaves nothing, those
\* before it stay.
MigrationFails(m) ==
  /\ pipeline[m].left # {} /\ pipeline' = [ pipeline EXCEPT ![m].left = {} ]
  /\ UNCHANGED << ledger, replica, balancer, turnedAway >>

-----------------------------------------------------------------------------
\* main listens; the balancer sends nothing before a check passed.
Boot(i, b) ==
  /\ replica[i].phase = "off"
  /\ replica' = [ replica EXCEPT ![i] =
       [ build |-> b, phase |-> "up", inHand |-> 0, checks |-> 0 ] ]
  /\ balancer' = [ balancer EXCEPT ![i] = NewTarget ]
  /\ UNCHANGED << ledger, pipeline, turnedAway >>

\* The probe of the database: draining comes first, then whether it answers,
\* then the verdict; a ledger that cannot be read leaves the answer at "up".
probe(i, database) ==
  IF replica[i].phase # "up" \/ database = "unreachable" THEN "down"
  ELSE IF database = "unread" \/ servesTraffic(compareSchema(replica[i].build)) THEN "up"
  ELSE "down"

\* The balancer asks /ready.  One check puts a replica in rotation, two missed
\* ones take it out.
Check(i, database) ==
  LET up == probe(i, database) = "up"
      missed == IF up THEN 0 ELSE IF balancer[i].missed = 2 THEN 2 ELSE balancer[i].missed + 1
  IN /\ replica[i].phase # "off"
     /\ balancer' = [ balancer EXCEPT ![i] =
          [ routed |-> up \/ (@.routed /\ missed < 2), missed |-> missed,
            verdict |-> IF up /\ database = "reads" THEN compareSchema(replica[i].build)
                        ELSE IF up THEN "unread" ELSE @.verdict ] ]
     /\ replica' = (IF replica[i].phase = "draining" /\ replica[i].checks < 2
                    THEN [ replica EXCEPT ![i].checks = @ + 1 ] ELSE replica)
     /\ UNCHANGED << ledger, pipeline, turnedAway >>

\* A request goes to a replica in rotation.
Arrive(i) ==
  /\ balancer[i].routed
  /\ IF replica[i].phase \in {"up", "draining"} /\ ~Divergent(replica[i].build)
        /\ ~Behind(replica[i].build)
       THEN /\ replica[i].inHand < MaxServed /\ UNCHANGED turnedAway
            /\ replica' = [ replica EXCEPT ![i].inHand = @ + 1 ]
       ELSE /\ turnedAway' = turnedAway \cup {balancer[i].verdict} /\ UNCHANGED replica
  /\ UNCHANGED << ledger, pipeline, balancer >>

Respond(i) ==
  /\ replica[i].inHand > 0 /\ replica' = [ replica EXCEPT ![i].inHand = @ - 1 ]
  /\ UNCHANGED << ledger, pipeline, balancer, turnedAway >>

-----------------------------------------------------------------------------
\* shutdown: not ready first, then the drain, whose length is set above the two
\* checks the balancer needs; then close against the deadline.
Signal(i) ==
  /\ replica[i].phase = "up" /\ replica' = [ replica EXCEPT ![i].phase = "draining" ]
  /\ UNCHANGED << ledger, pipeline, balancer, turnedAway >>

DrainEnds(i) ==
  /\ replica[i].phase = "draining" /\ replica[i].checks = 2
  /\ replica' = [ replica EXCEPT ![i].phase = "closing" ]
  /\ UNCHANGED << ledger, pipeline, balancer, turnedAway >>

\* Closed with nothing in hand, or at the deadline, or close threw.
Exit(i) ==
  /\ replica[i].phase = "closing" /\ replica' = [ replica EXCEPT ![i].phase = "off", ![i].inHand = 0 ]
  /\ UNCHANGED << ledger, pipeline, balancer, turnedAway >>

MigrateStep(m) ==
  ApplyMigration(m) \/ MigrationFails(m) \/ \E b \in Builds : BeginMigrate(m, b)

DeploymentNext ==
  \/ \E m \in Pipelines : MigrateStep(m)
  \/ \E i \in Replicas :
       \/ Arrive(i) \/ Respond(i) \/ Signal(i) \/ DrainEnds(i) \/ Exit(i)
       \/ \E b \in Builds : Boot(i, b)
       \/ \E database \in {"reads", "unread", "unreachable"} : Check(i, database)

DeploymentSpec == DeploymentInit /\ [][DeploymentNext]_deploymentVars

-----------------------------------------------------------------------------
DeploymentTypeOK ==
  /\ ledger \in [ Numbered -> OrNoFile(Contents) ] /\ pipeline \in [ Pipelines -> Run ]
  /\ replica \in [ Replicas -> Replica ] /\ balancer \in [ Replicas -> Target ]
  /\ turnedAway \in SUBSET SchemaVerdicts

\* No request is sent to a replica that has stopped accepting or whose build
\* does not understand the schema, however pipelines, roll-outs, roll-backs and
\* shutdowns interleave (shutdown.ts:11, schema-state.ts:41); but for one whose
\* ledger could not be read, which the probe lets serve.
NoneTurnedAway == turnedAway \subseteq {"unread"}
=============================================================================
