----------------------------- MODULE Lifecycle ------------------------------
(***************************************************************************)
(* One application's life under LifecycleService: concurrent requests to   *)
(* move it, each a database transaction that locks the application's row,  *)
(* reads a snapshot, decides, and writes the move with everything the move *)
(* causes - the timeline row, the audit entry, the applicant's notice, the *)
(* Letter of Instruction and the idempotency key.  Around it: the          *)
(* applicant answering a letter, the Archive, and the evidence (documents, *)
(* Order, payments, permit) that the other modules change.                 *)
(*                                                                         *)
(* The key is looked up before the row is locked, as the source does, and  *)
(* the snapshot is read before the row is written: each is a step of its   *)
(* own, so that other requests come between.                               *)
(***************************************************************************)
EXTENDS LifecycleRules, Sequences, FiniteSets

CONSTANTS
  Owner,          \* the applicant's account
  Officers,       \* staff accounts
  Scopes,         \* the scopes each officer's roles grant
  FormAccess,     \* officers whose forms allow-list has this permit type
  StageHolder,    \* officers holding the stage, by status
  Requests,       \* request slots of the API
  Keys, NoKey,    \* Idempotency-Key values, and none
  NoRequest,      \* nobody holds the row lock
  InitialStatus,  \* the status the application is inserted with
  Given,          \* evidence true at the start
  Changing,       \* evidence that comes and goes in this instance
  Asked,          \* the moves, as <<from, to>>, that clients ask for
  MaxVersion,     \* bound on the number of moves
  MaxArchivings   \* bound on the times it is archived

Callers == {Owner} \cup Officers

\* Facts of the fee, the permit and the evaluation, set once and never unset.
Permanent ==
  { "order-of-payment-issued", "payment-proof-submitted", "payment-verified",
    "evaluations-complete", "permit-generated", "permit-released" }

Evidence == Preconditions \ {"all-instructions-resolved"}

ASSUME LifecycleAssumption ==
  /\ Owner \notin Officers
  /\ Scopes \in [Officers -> SUBSET Scope]
  /\ FormAccess \subseteq Officers
  /\ StageHolder \in
       [{"Document Verification", "Under Evaluation"} -> SUBSET Officers]
  /\ NoKey \notin Keys
  /\ NoRequest \notin Requests
  /\ InitialStatus \in {"Draft", "Submitted"}
  /\ Given \subseteq Evidence /\ Changing \subseteq Evidence \ Permanent
  /\ Asked \subseteq LifecycleStatuses \X LifecycleStatuses
  /\ MaxVersion \in Nat \ {0} /\ MaxArchivings \in Nat

VARIABLES
  app,       \* the applications row
  timeline,  \* application_transitions
  audit,     \* the entries of audit_events about this application
  inbox,     \* notifications: the statuses announced to the applicant
  letters,   \* letters_of_instruction, each with its one instruction_item
  keys,      \* idempotency_keys, operation application.transition
  evidence,  \* the facts SNAPSHOT_SQL reads from other tables
  lock,      \* the request whose transaction holds the row, or NoRequest
  pc,        \* where each request is
  call,      \* what each request asks
  snap,      \* the snapshot each request decided on
  answer     \* what each request was answered

vars == << app, timeline, audit, inbox, letters, keys, evidence, lock,
           pc, call, snap, answer >>
world == << app, timeline, audit, inbox, letters, keys >>

-----------------------------------------------------------------------------
Move == [ from : LifecycleStatuses \cup {"none"}, to : LifecycleStatuses,
          by : Callers, key : Keys \cup {NoKey} ]

AuditEntry == [ action : { "application.transitioned", "instruction.responded",
                           "application.archived", "application.restored" },
                to : LifecycleStatuses, by : Callers ]

Letter == [ closed : BOOLEAN, resolved : BOOLEAN ]

Remembered == [ by : Callers, key : Keys, digest : LifecycleStatuses,
                status : LifecycleStatuses, version : Nat ]

Call == [ by : Callers, to : LifecycleStatuses, key : Keys \cup {NoKey},
          expected : Nat, answering : BOOLEAN, letter : BOOLEAN ]

Snapshot == [ status : LifecycleStatuses, version : Nat ]

AnswerKind ==
  { "none", "ok", "stale-version", "illegal-transition", "not-permitted",
    "precondition-unmet", "reused", "nothing-open", "error" }

Answer == [ kind : AnswerKind, status : LifecycleStatuses, version : Nat ]

Application == [ status : LifecycleStatuses, version : Nat, filedAt : Nat,
                 reference : Nat, suspended : BOOLEAN, archived : BOOLEAN ]

PC == {"idle", "respond", "sent", "fresh", "deciding", "done"}

NoCall == [ by |-> Owner, to |-> "Draft", key |-> NoKey,
            expected |-> Unchecked, answering |-> FALSE, letter |-> FALSE ]
NoSnap == [ status |-> "Draft", version |-> 0 ]
NoAnswer == [ kind |-> "none", status |-> "Draft", version |-> 0 ]

\* 0 stands for a DRAFT- label, n for the n-th official number it was issued.
TakesNumber(status, reference) ==
  IF status = "Submitted" /\ reference = 0 THEN 1 ELSE reference

Init ==
  /\ app = [ status |-> InitialStatus, version |-> 1,
             filedAt |-> IF InitialStatus = "Draft" THEN 0 ELSE 1,
             reference |-> TakesNumber(InitialStatus, 0),
             suspended |-> FALSE, archived |-> FALSE ]
  /\ timeline = << [ from |-> "none", to |-> InitialStatus, by |-> Owner,
                     key |-> NoKey ] >>
  /\ audit = <<>> /\ inbox = <<>> /\ letters = <<>>
  /\ keys = {}
  /\ evidence = Given
  /\ lock = NoRequest
  /\ pc = [r \in Requests |-> "idle"]
  /\ call = [r \in Requests |-> NoCall]
  /\ snap = [r \in Requests |-> NoSnap]
  /\ answer = [r \in Requests |-> NoAnswer]

-----------------------------------------------------------------------------
\* Reading the database.

Seen(c) == { k \in keys : k.by = c.by /\ k.key = c.key }

OpenItems == { l \in DOMAIN letters : ~letters[l].resolved }

CallerOf(account) ==
  IF account = Owner
    THEN [ kind |-> "applicant", owner |-> TRUE,
           scopes |-> {"applications:write", "payments:write"} ]
    ELSE [ kind |-> "staff", owner |-> FALSE, scopes |-> Scopes[account] ]

\* Sending the application back is itself the answer to its open letter.
Answering(c, status) == c.answering /\ status = "Revision Required"

SnapshotOf(c) ==
  [ status |-> app.status, version |-> app.version,
    met |-> evidence \cup
              IF OpenItems = {} \/ Answering(c, app.status)
                THEN {"all-instructions-resolved"} ELSE {} ]

\* The stage assignment, asked of moves that need staff:evaluate.  With every
\* stage passed there is no next stage, and nobody is refused for it.
HoldsStage(account) ==
  CASE app.status = "Document Verification" ->
         account \in StageHolder["Document Verification"]
    [] app.status = "Under Evaluation" /\ "evaluations-complete" \notin evidence ->
         account \in StageHolder["Under Evaluation"]
    [] OTHER -> TRUE

\* What the transaction answers, in the order of its early returns.
Verdict(c) ==
  LET staff == c.by \in Officers
      evaluates == \E r \in RuleFor(app.status, c.to) :
                      r.requires = "staff:evaluate"
  IN  IF \/ staff /\ c.by \notin FormAccess
         \/ staff /\ evaluates /\ ~HoldsStage(c.by)
        THEN "not-permitted"
        ELSE decide(SnapshotOf(c), CallerOf(c.by), c.to, c.expected)

-----------------------------------------------------------------------------
\* The clients.

Free(r) == pc[r] \in {"idle", "done"}

\* The letter route answers the letter before it asks for the move.
Send(r, c) ==
  /\ pc' = [pc EXCEPT ![r] = IF c.letter THEN "respond" ELSE "sent"]
  /\ call' = [call EXCEPT ![r] = c]
  /\ answer' = [answer EXCEPT ![r] = NoAnswer]
  /\ UNCHANGED << world, evidence, lock, snap >>

\* A move from the status on the client's screen: a caller's request carries
\* a key, and an officer's the version they saw if their client sends it; a
\* follow-on made by the server itself carries neither.
Ask(r) ==
  /\ Free(r) /\ app.version < MaxVersion
  /\ \E account \in Callers, to \in LifecycleStatuses,
        key \in Keys \cup {NoKey}, expected \in {Unchecked, app.version} :
       /\ << app.status, to >> \in Asked
       /\ expected # Unchecked => account \in Officers /\ key # NoKey
       /\ Send(r, [ by |-> account, to |-> to, key |-> key,
                    expected |-> expected,
                    answering |-> /\ account = Owner /\ key # NoKey
                                  /\ to = "Under Evaluation",
                    letter |-> FALSE ])

\* The applicant answers the letter they were sent, by its id.
AnswerLetter(r) ==
  /\ Free(r) /\ app.version < MaxVersion
  /\ letters # <<>> /\ << "Revision Required", "Under Evaluation" >> \in Asked
  /\ \E key \in Keys :
       Send(r, [ by |-> Owner, to |-> "Under Evaluation", key |-> key,
                 expected |-> Unchecked, answering |-> FALSE,
                 letter |-> TRUE ])

\* The same click again, with the same key: the response was lost, or is late.
Retry(r, q) ==
  /\ Free(r) /\ pc[q] # "idle" /\ call[q].key # NoKey
  /\ Send(r, call[q])

-----------------------------------------------------------------------------
\* The server.

Reply(r, kind, status, version) ==
  /\ pc' = [pc EXCEPT ![r] = "done"]
  /\ snap' = [snap EXCEPT ![r] = NoSnap]
  /\ answer' = [answer EXCEPT ![r] =
                  [ kind |-> kind, status |-> status, version |-> version ]]
  /\ UNCHANGED call

Refuse(r, kind) == Reply(r, kind, "Draft", 0)

\* InstructionResponseService.respond, a transaction of its own: every item of
\* the letter answered, the letter closed.  The move is asked for next.
Respond(r) ==
  LET last == Len(letters) IN
  /\ pc[r] = "respond"
  /\ IF letters[last].resolved
       THEN /\ Refuse(r, "nothing-open")
            /\ UNCHANGED << letters, audit >>
       ELSE /\ letters' = [letters EXCEPT ![last] =
                             [ closed |-> TRUE, resolved |-> TRUE ]]
            /\ audit' = Append(audit, [ action |-> "instruction.responded",
                                        to |-> app.status, by |-> Owner ])
            /\ pc' = [pc EXCEPT ![r] = "sent"]
            /\ UNCHANGED << call, snap, answer >>
  /\ UNCHANGED << app, timeline, inbox, keys, evidence, lock >>

\* lookup: has this key already been answered, and for this request?
Lookup(r) ==
  LET c == call[r] IN
  /\ pc[r] = "sent"
  /\ IF Seen(c) = {}
       THEN /\ pc' = [pc EXCEPT ![r] = "fresh"]
            /\ UNCHANGED << call, snap, answer >>
       ELSE \E k \in Seen(c) :
              IF k.digest # c.to THEN Refuse(r, "reused")
                                 ELSE Reply(r, "ok", k.status, k.version)
  /\ UNCHANGED << world, evidence, lock >>

\* select ... for update, the snapshot, and the decision.  A refusal ends the
\* transaction with nothing written.
Lock(r) ==
  LET verdict == Verdict(call[r]) IN
  /\ pc[r] = "fresh" /\ lock = NoRequest
  /\ IF verdict # "ok"
       THEN /\ Refuse(r, verdict)
            /\ UNCHANGED lock
       ELSE /\ lock' = r
            /\ pc' = [pc EXCEPT ![r] = "deciding"]
            /\ snap' = [snap EXCEPT ![r] = [ status |-> app.status,
                                             version |-> app.version ]]
            /\ UNCHANGED << call, answer >>
  /\ UNCHANGED << world, evidence >>

AllResolved == [l \in DOMAIN letters |-> [letters[l] EXCEPT !.resolved = TRUE]]

\* Mutant: the earlier letter is left open.
issueLetterBesideTheOld == Append(letters, [ closed |-> FALSE, resolved |-> FALSE ])

\* A second return supersedes the first: what is still open is closed.
issueLetter ==
  Append([l \in DOMAIN letters |-> [ closed |-> TRUE, resolved |-> TRUE ]],
         [ closed |-> FALSE, resolved |-> FALSE ])

\* What the move does to the letters.
LettersAfter(c, from) ==
  IF Answering(c, from) THEN AllResolved
  ELSE IF c.to = "Revision Required" /\ c.by \in Officers THEN issueLetter
  ELSE letters

Announces(from, to) == \E r \in RuleFor(from, to) : r.notifies

\* Mutant: only the moves the applicant is told of are audited.
recordAnnounced(c, from) ==
  LET told == Announces(from, c.to) IN
  /\ audit' = IF told THEN Append(audit, [ action |-> "application.transitioned",
                                           to |-> c.to, by |-> c.by ])
                      ELSE audit
  /\ inbox' = IF told THEN Append(inbox, c.to) ELSE inbox

\* recordEvents: one audit entry always, one notice when the rule names one.
recordEvents(c, from) ==
  /\ audit' = Append(audit, [ action |-> "application.transitioned",
                              to |-> c.to, by |-> c.by ])
  /\ inbox' = IF Announces(from, c.to) THEN Append(inbox, c.to) ELSE inbox

\* Mutant: the version stored is the one decided on.
rememberOldVersion(c, version) ==
  keys' = IF c.key = NoKey THEN keys
          ELSE keys \cup { [ by |-> c.by, key |-> c.key, digest |-> c.to,
                             status |-> c.to, version |-> version - 1 ] }

\* remember: the key's row, whose primary key (account, key) must be free.
remember(c, version) ==
  keys' = IF c.key = NoKey THEN keys
          ELSE keys \cup { [ by |-> c.by, key |-> c.key, digest |-> c.to,
                             status |-> c.to, version |-> version ] }

\* The update guarded by the version decided on, its trigger (timeline row,
\* version + 1), and every row the move causes, committed together or not at
\* all: a key another attempt has taken meanwhile aborts the transaction.
Commit(r) ==
  LET c == call[r]
      from == snap[r].status
      next == snap[r].version + 1
  IN
  /\ pc[r] = "deciding"
  /\ lock' = NoRequest
  /\ IF app.version # snap[r].version
       THEN Refuse(r, "stale-version") /\ UNCHANGED world
     ELSE IF c.key # NoKey /\ Seen(c) # {}
       THEN Refuse(r, "error") /\ UNCHANGED world
     ELSE /\ app' = [app EXCEPT
                !.status = c.to,
                !.version = @ + 1,
                !.suspended = pledgeSuspended(c.to),
                !.filedAt = IF @ = 0 THEN next ELSE @,
                !.reference = TakesNumber(c.to, @)]
          /\ timeline' = Append(timeline, [ from |-> app.status, to |-> c.to,
                                            by |-> c.by, key |-> c.key ])
          /\ letters' = LettersAfter(c, from)
          /\ recordEvents(c, from)
          /\ remember(c, next)
          /\ Reply(r, "ok", c.to, next)
  /\ UNCHANGED evidence

\* Mutant: a lock that outlives its transaction.
CrashHoldingLock(r) ==
  /\ pc[r] \in {"respond", "sent", "fresh", "deciding"}
  /\ Refuse(r, "none")
  /\ UNCHANGED << world, evidence, lock >>

\* The replica serving the request dies: its transaction is rolled back and
\* the client never hears.
Crash(r) ==
  /\ pc[r] \in {"respond", "sent", "fresh", "deciding"}
  /\ lock' = IF lock = r THEN NoRequest ELSE lock
  /\ Refuse(r, "none")
  /\ UNCHANGED << world, evidence >>

-----------------------------------------------------------------------------
\* Records, and the rest of the system.

Audited(action, account) ==
  audit' = Append(audit, [ action |-> action, to |-> app.status, by |-> account ])

\* RecordsService.archive, which takes the row's lock: only what is finished.
Archive(officer) ==
  /\ Cardinality({i \in DOMAIN audit : audit[i].action = "application.archived"})
       < MaxArchivings
  /\ lock = NoRequest
  /\ isTerminal(app.status) /\ ~app.archived
  /\ app' = [app EXCEPT !.archived = TRUE]
  /\ Audited("application.archived", officer)
  /\ UNCHANGED << timeline, inbox, letters, keys, evidence, lock,
                  pc, call, snap, answer >>

\* ArchiveService.restore, whatever the application's status is by now.
Unarchive(officer) ==
  /\ lock = NoRequest
  /\ app.archived
  /\ app' = [app EXCEPT !.archived = FALSE]
  /\ Audited("application.restored", officer)
  /\ UNCHANGED << timeline, inbox, letters, keys, evidence, lock,
                  pc, call, snap, answer >>

\* Documents are attached, reviewed and replaced while requests are in flight.
EvidenceArrives(p) ==
  /\ p \in Changing \ evidence
  /\ evidence' = evidence \cup {p}
  /\ UNCHANGED << world, lock, pc, call, snap, answer >>

EvidenceLost(p) ==
  /\ p \in Changing \cap evidence
  /\ evidence' = evidence \ {p}
  /\ UNCHANGED << world, lock, pc, call, snap, answer >>

-----------------------------------------------------------------------------
Serve(r) == Respond(r) \/ Lookup(r) \/ Lock(r) \/ Commit(r)

Next ==
  \/ \E r \in Requests :
       \/ Ask(r) \/ AnswerLetter(r) \/ Serve(r) \/ Crash(r)
       \/ \E q \in Requests : Retry(r, q)
  \/ \E o \in Officers : Archive(o) \/ Unarchive(o)
  \/ \E p \in Evidence : EvidenceArrives(p) \/ EvidenceLost(p)

Spec == Init /\ [][Next]_vars

\* Each request is served by code that runs on unless its process dies, and
\* PostgreSQL queues the waiters of a row lock, so a waiter is not passed over
\* for ever.
Fairness ==
  \A r \in Requests :
    /\ WF_vars(Respond(r)) /\ WF_vars(Lookup(r)) /\ WF_vars(Commit(r))
    /\ SF_vars(Lock(r))

FairSpec == Spec /\ Fairness

-----------------------------------------------------------------------------
\* PROPERTIES

TypeOK ==
  /\ app \in Application
  /\ timeline \in Seq(Move) /\ audit \in Seq(AuditEntry)
  /\ inbox \in Seq(LifecycleStatuses) /\ letters \in Seq(Letter)
  /\ keys \subseteq Remembered
  /\ evidence \subseteq Evidence
  /\ lock \in Requests \cup {NoRequest}
  /\ pc \in [Requests -> PC]
  /\ call \in [Requests -> Call]
  /\ snap \in [Requests -> Snapshot]
  /\ answer \in [Requests -> Answer]

Current == timeline[Len(timeline)]

\* However requests interleave, the timeline both clients render is one
\* unbroken walk over the table of legal moves that ends where the application
\* stands, and the version counts it (the row lock, the version guard and the
\* trigger of migration 003 together).
TimelineIsAWalk ==
  /\ app.version = Len(timeline)
  /\ Current.to = app.status
  /\ \A i \in 2..Len(timeline) :
       /\ timeline[i].from = timeline[i - 1].to
       /\ RuleFor(timeline[i].from, timeline[i].to) # {}

\* "A committed transition always notifies and a rolled-back one never does"
\* (lifecycle-engine.ts): the audit entries and the applicant's notices are
\* those of the moves that happened, in their order, aborted attempts included.
Said(i) == [ action |-> "application.transitioned", to |-> timeline[i].to,
             by |-> timeline[i].by ]

\* The place of i among the numbers of S, from 1.
Place(S, i) == Cardinality({j \in S : j <= i})

TransitionsAudited ==
  {i \in DOMAIN audit : audit[i].action = "application.transitioned"}

MovesAnnounced ==
  {i \in 2..Len(timeline) : Announces(timeline[i].from, timeline[i].to)}

MovesAreTold ==
  /\ Cardinality(TransitionsAudited) = Len(timeline) - 1
  /\ \A i \in TransitionsAudited :
       audit[i] = Said(1 + Place(TransitionsAudited, i))
  /\ Len(inbox) = Cardinality(MovesAnnounced)
  /\ \A i \in MovesAnnounced :
       inbox[Place(MovesAnnounced, i)] = timeline[i].to

\* An idempotency key makes one move at most, however often and however
\* concurrently its request is sent, even when the application has come back
\* to a status from which the move is legal again.
OneMovePerKey ==
  \A i, j \in DOMAIN timeline :
    (timeline[i].key # NoKey /\ timeline[i].key = timeline[j].key
       /\ timeline[i].by = timeline[j].by) => i = j

\* A stored answer, which every later retry is told, names a move that this
\* account made with this key and the version that move produced: no key
\* "replays a result nothing produced" (idempotency.ts).
ReplaysAreTrue ==
  \A k \in keys :
    /\ k.version \in 2..Len(timeline)
    /\ LET m == timeline[k.version] IN
         m.by = k.by /\ m.key = k.key /\ m.to = k.status /\ k.digest = k.status

\* Every return by the office has its own letter, and only the newest letter can
\* be waiting for an answer: an application cancelled with a letter open,
\* restored and returned again does not count the old items against it.
OneLetterWaiting ==
  /\ Len(letters) =
       Cardinality({i \in DOMAIN timeline : timeline[i].to = "Revision Required"})
  /\ OpenItems \subseteq {Len(letters)}
  /\ \A l \in DOMAIN letters : l < Len(letters) => letters[l].closed

\* The number and the filing date are what an applicant and a court hold the
\* office to: once set they never change, whatever happens to the application.
FilingIsFixed ==
  [][ /\ app.filedAt # 0 => app'.filedAt = app.filedAt
      /\ app.reference # 0 => app'.reference = app.reference ]_vars

\* Every request that reaches the server is answered or dies with it: no
\* request waits for the row for ever.
EveryRequestEnds ==
  \A r \in Requests : pc[r] \notin {"idle", "done"} ~> pc[r] = "done"

-----------------------------------------------------------------------------
\* What the repository says of this code and the code does not do.

\* applicant-write.controller.ts 526-529: answering the letter and moving the
\* application are one transaction, so an answered letter never leaves the
\* application in Revision Required with nothing under way.
AnsweringIsOneAct ==
  ( /\ app.status = "Revision Required"
    /\ \A r \in Requests : Free(r) ) => ~letters[Len(letters)].closed
=============================================================================
