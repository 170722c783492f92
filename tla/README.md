# The eBPCO permit backend in TLA+

This project models `src/apps/ebpco-api`, the backend of an electronic
building-permit system (TypeScript, NestJS, PostgreSQL), and
`src/apps/castilla-portal`, the municipality's public site beside it; it checks the
models with TLC and proves theorems about them with TLAPS. A citizen files an
application for a permit; the office evaluates, bills, approves and releases it.
Everything is a row in one PostgreSQL database; several replicas of a stateless
server serve requests and run scheduled jobs. What is hard is therefore not one
function, but what two requests, two officers, a retry, a crash or a second replica
do to rows that a first one has read.

## 1. The system

| Part | State | Operations | What makes it correct |
|---|---|---|---|
| Lifecycle table, engine and service | `applications`, `application_transitions`, letters, `idempotency_keys` | `decide`, `transition`, answers to letters | the timeline is a walk over the table; all a move causes is committed with it, once; a key moves once |
| Submission | `applications`, `applicants`, the counter | file, draft, file a draft, file for a walk-in | one filing per key; a series without gaps |
| Documents | `documents`, object store | upload, scan, review, replace, attach, retain | no file of an open application is lost; what a page offers opens |
| Evaluation and teams | `evaluations`, positions, assignments | check, take, assign, review, verdict | a document is accepted where it is checked |
| Workflow and checklists | `workflow_transitions`, requirements | replace as a whole | nothing is stranded; every change is on the trail |
| Fee configuration, assessments, Orders | `fee_schedules`, `payment_methods`, `assessments`, `orders_of_payment` | publish, turn off, edit, submit, approve, issue, supersede | fees on every day; the bill is what a second officer approved; one in force |
| Payments and permits | `payments`, `generated_permits`, `permit_releases` | proof, cash, verify, reject, void, reverse, refund, generate, release | one verified payment; four eyes; what is undone stays so; a permit was earned |
| Records and archive, businesses | `businesses`, `archived_at` | register, correct, deactivate, archive, restore | what was relied on is accounted for |
| Queue, responsibility, pledge clock | none of their own but the calendar | pages, counts, who it waits on, overdue, report | nothing is missed; nobody is accused wrongly |
| Notices to the office | `staff_notifications` | tell, read, sweep | who is waited on is told |
| Notices to citizens and push | `notifications`, `notification_deliveries`, `devices` | plan, send, prune | no notice is lost; what was sent stays sent |
| Data export | `data_export_requests`, object store | request, produce, expire | every request is answered; every file is deleted in time |
| Job runner and scheduler | `scheduled_jobs` | tick, claim, finish, drain | one replica at a time; a job whose replica died runs again |
| Audit chain | `audit_events`, `audit_chain_head` | append, verify | entries are only ever added; the verdict is right |
| Accounts | `accounts`, sessions, refresh tokens, contact proofs | sign in, refresh, recover, correct, prove a number, erase | a number verified was proven; erased stays erased; a token is exchanged once |
| Second factor | `totp_enrolments`, the factor | enrol, activate, re-issue, verify | the factor is one somebody holds |
| Staff accounts | `accounts`, roles, `access_requests` | hire, demote, disable, archive, decide | somebody can still grant the role |
| Deployment | the ledger of migrations | migrate, boot, ready, drain | no request is sent where it is turned away |
| Portal content, notices, page cache | `field_state`, proposals, history, announcements; copies of readers | propose, confirm, revert, replace, publish, withdraw | "unchanged" means current; what is taken down is gone |
| Reconciliation, read models, configuration, HTTP, logging, scripts | none | reads | not modelled, see section 7 |

Parts interact in three ways: through rows (the lifecycle reads the payments, permits,
documents and evaluations of an application as evidence of a move; the retention job
reads whether it is closed), through calls (a payment verified calls `followOn`, which
makes up to three moves, each a transaction of its own; a verdict calls `transition`),
and through outboxes (a move inserts a notice, a job plans and sends it later).

The substrate decides what a step is. `postgres-client.ts` runs at READ COMMITTED: a
single statement is atomic; a transaction sees what others commit between its
statements unless it holds a row lock; a returned refusal commits, a thrown error
rolls back (lines 79-105). So in every module a step is one statement, or the part of
a transaction that no other transaction can see into, and the reads that the code
makes before its write or outside its lock are steps of their own. Unique indexes,
checks and triggers of the migrations are guards with names of their own.

## 2. Modules

| Module | Models | Code it stands for |
|---|---|---|
| `LifecycleRules` | the table of moves, `ruleFor`, `isTerminal`, `decide` | `lifecycle.ts`, `lifecycle-engine.ts` |
| `Lifecycle` (extends it) | one application, concurrent requests | `lifecycle.service.ts`, `instruction-response.service.ts`, `idempotency.ts`, routes, archive |
| `FeeCase` (extends `LifecycleRules`) | the fee of one application from assessment to released permit, and the follow-on moves | `assessment*.service.ts`, `payment.service.ts`, `permit.service.ts`, `staff-payments.controller.ts` |
| `JobRunner` | the rows of `scheduled_jobs`, ticks, leases, drains, deaths | `job-runner.ts`, `scheduler.ts`, `shutdown.ts` |
| `Outbox` (extends `JobRunner`) | notices of one citizen, their plans and pushes, the dispatch job | `notification.service.ts`, `push-delivery.service.ts`, `delivery.ts`, `fcm-sender.ts` |
| `DataExport` (extends `JobRunner`) | requests for a copy of one's data, the files, the jobs that produce and expire them | `data-export.service.ts`, `jobs.ts`, migration 013 |
| `Documents` | files from upload to retention | `document.service.ts`, the retention job |
| `AuditLog`, `AuditChain` | what the trail promises; the chained table that keeps it | `audit.service.ts`, `audit-chain.ts` |
| `CitizenAccount` | one account: number, photo, sessions, recovery, erasure | `identity.service.ts`, `contact-verification.service.ts`, `rectification.service.ts`, `erasure.service.ts` and their controllers |
| `Filing` | filings, drafts, walk-ins, registration, the counter | `submission.service.ts`, `resolve-renewal.ts`, `auth.controller.ts` |
| `Evaluation` | the technical evaluation of one application | `evaluation.service.ts`, `step-guard.ts`, `team.service.ts`, reviews |
| `StaffOffice` | staff accounts and requests for access | `staff-directory.service.ts`, `access-request.service.ts`, `super-admin-floor.ts` |
| `FeeBook` | schedules, methods of payment, assessments up to the Order | `fee-config.service.ts`, `assessment-workflow.service.ts`, `assessment.service.ts` |
| `Records` | businesses, corrections, the archive | `businesses.controller.ts`, `staff-business*`, `records.service.ts`, `archive.service.ts` |
| `Workflow` | the table of moves and a checklist, replaced while in use | `workflow-config.service.ts`, `requirements.service.ts` |
| `Authority` | roles, scopes, what statuses they see | `account.ts`, `visibility.ts` |
| `StaffQueue` (extends `Authority`) | pages of the queue, whom an application waits on | `staff-queue.service.ts`, `responsibility.ts`, `teams.ts`, `form-access.ts` |
| `Worklist` (extends `Authority`) | notices to the office, the sweep of overdue Orders | `staff-notification.service.ts`, `staff-recipients.ts`, `jobs.ts` |
| `PledgeClock` | working days, the pledge, its uses, the cached calendar | `pledge-clock.ts`, `calendar.repository.ts`, `compliance-report.ts` |
| `SecondFactor` | the authenticator of one staff account | `totp.service.ts`, sign-in |
| `Deployment` | pipelines that migrate, replicas that boot and drain, the balancer | `migrate.ts`, `migrator.ts`, `schema-state.ts`, `shutdown.ts` |
| `PageCache` | versions, tags, copies of readers | portal `http/cache.ts`, `cache.interceptor.ts` |
| `PublicContent`, `Notices` (extend `PageCache`) | proposals, confirmation, reverts, pages; announcements | portal `confirmation.service.ts`, `pages.service.ts`, `invalidation.ts`; `announcements.*` |
| `MCOffice` | composes all from `Documents` down, for TLC | |
| `MCLifecycle`, `MCFeeCase`, `MCFeeWindows`, `MCOutbox`, `MCDataExport`, `MCNotices` | instances for TLC | |
| `LifecycleProofs`, `FeeCaseProofs`, `JobRunnerProofs`, `OutboxProofs`, `DataExportProofs` | the theorems of the module they are named after; those of `LifecycleRules` are with `FeeCase` | |
| `AccountsProofs`, `OfficeProofs`, `QueueProofs` | the theorems of the desks, a section for each component (section 4) | |

**Lifecycle.** A request goes through `pc`: *idle*, (*respond*), *sent* (the key is
looked up), *fresh* (it waits for the row), *deciding* (it holds the row, with the
snapshot it decided on), *done*. `Lock` is `select ... for update`, the snapshot and
the decision; `Commit` is the guarded update with its trigger, the letters, the audit
entry, the notice and the key, all or nothing. Clients `Ask`, `Retry` with the same key
(also while the first attempt runs), answer letters by their route; a request may
`Crash` at any step. Documents come and go as *evidence* meanwhile.

**FeeCase.** A session is a client's act. *checked* is what it read before its write;
*inserted* and *rejected* are the points between two autocommitted statements of
`issue` and `reject`; *written* is before `followOn` reads the status; *hopping* is
between hops. A statement that breaks an index or check `Raises`. A lifecycle
transition is one step here, which is what `Lifecycle` establishes about the row lock.

**JobRunner.** `Claim` is the one `update ... where` that takes a job; `Finish` releases
it *by name*, whoever holds it by then. Instead of clocks the module keeps the ages that
the code compares: `started`, how long ago a job was started, and `left`, how much of
`locked_until` is to come. `Time` moves them all by one. `late` remembers that some run
outlived its lease. A replica may be told to drain, exit at its deadline or die at any
step, and a release may be lost; `MaxTrouble` bounds these. The clocks of the replicas
agree: a clock that runs ahead acts like a shorter lease.

**Outbox, DataExport.** The steps of the dispatch, of `produce` and of the sweep, each
with everything it read kept in `work`, stale or not, when used. Both write rows by id.
Preferences, quiet hours and what FCM answers are inputs of a step.

**Documents.** An upload reads, stores the bytes, inserts the row, has it scanned, writes
the verdict; the process may die after each. `sweep` is the list of a retention run, read
before filings and reopenings it does not see. The scanner's verdict is a choice.

**AuditChain.** A hash is what it commits to: the entries from genesis on. An append
happens under the lock of the head row (`TakeHead`), several may belong to one transaction, and
it commits or aborts as a whole; `Edit` and `Remove` change rows behind the service.
`AuditLog` is the abstract specification, an append-only sequence; `head.hash` is its
refinement mapping.

**CitizenAccount, SecondFactor, StaffOffice.** An act is authenticated by the guard,
reads, and writes by id; it goes on after the account it acts for was disabled or erased.
History variables (`raced`, what a client received) tell the races that the code admits
apart from the rest; they guard nothing.

A Super Admin whose access level is view-only keeps the role and loses the scope
(`account.ts:333-349`): `ViewOnly` are those levels, and only the others `MayAdminister`.

**Filing, FeeBook, Records, Workflow.** A clerk, till, visit or official is one request;
its record keeps what it has read. `Filing` keeps what a returned refusal leaves
committed. `Workflow.TableStep` replaces the rows a statement saw when it began. What a
replacement gave up is found as in the code, a scope by its place in `NARROWNESS`, which
has not every scope; the property compares it with who can make a move by either table.

**Evaluation.** A desk is one request: `check` of the step guard, the reads, the write,
and the transition that a return makes afterwards and may fail to make. A document has
copies: a replacement supersedes one, an upload beside it supersedes none, so that several may
be current, and a stage passes when one of them is accepted. A verdict lands on the copy that
was read. What archiving and retention do to copies is in `Documents`.

**StaffQueue, PledgeClock, Worklist.** Reads are what is modelled: pages with their
cursor (which cuts microseconds), the backlog and responsibility beside what `Evaluation`'s
guard lets an officer do; working days counted as in the code and against what is ever
proclaimed; who was told of what while moves roll back. `Worklist` counts the Orders of an
application: a sweep picks an Order and its payments, and asks whether the *application* was
told, as `jobs.ts` does.

**Deployment.** A replica reads the ledger, compares it with the migrations its build
carries, and answers the probe; the balancer sends by the last answer. Builds may carry a
migration re-cut with another checksum.

**PageCache** and its two extensions. A tag is the nonce of the process and the version of
the page's key; a reader's request takes its tag first, then runs its queries.

Data is reduced to what the properties tell apart: no names, texts, amounts or dates.
Where an amount matters (a line edited after its approval) it is one of two.

## 3. Runs

| Run | Shows | Bounds |
|---|---|---|
| `lifecycle_filing` | filing, withdrawing, restoring: walk, one audit entry and one notice per move, stored answers are true, every request ends | 2 requests, 1 officer, 1 key, 3 moves |
| `lifecycle_revision` | returned, answered by both routes, abandoned, archived, restored, returned again: one letter waits at most | 1 request, 8 moves, 1 archiving |
| `lifecycle_one_act` (violation) | answering a letter and moving the application are two transactions | 1 request |
| `fee_case` | two windows of a fee's life (`MCFeeWindows`): proofs, cash, verification, rejection, void, reversal with retries; and issue, supersede, pay, refund, generate, release, moves by hand | 2 sessions, 2 officers and a Super Admin, 2 keys, 2 payments, 3 Orders |
| `fee_stuck` (violation) | a paid application returned and assessed again has no move left | |
| `fee_undo_permit` (violation) | undo and generate race | |
| `outbox_dispatch` | no notice lost; job and notices get there | 2 replicas, 1 statutory notice, 1 handset, 1 trouble, 2 attempts, lease twice the interval |
| `outbox_overrun` (violation) | of two overlapping runs the later write of an outcome wins | the same |
| `export_answer` | an open window has its file; an answer stands; requests are answered, settled files deleted | 2 replicas, 1 request, 2 files, 1 trouble |
| `export_orphan` (violation) | a file whose row never named it is never deleted | 1 replica |
| `office` | one instance of every other component, 24 properties | two requests at each desk, below |
| `portal_taken_down` (violation) | a reader is told that the page of a withdrawn notice is unchanged | 1 notice |

The property each run checks is stated in words above its definition, with the code
or comment it is about.

**The office.** `MCOffice` composes the components that share no rows. A behaviour works
at one of 35 desks; what belongs to other components rests, so that the state space is the sum
of theirs. A desk chooses who does what (two uploads that replace one another and a
review; a retention run beside filings and reopenings; two officers filing for one walk-in
address whose owner registers meanwhile), and leaves out combinations to keep the run
in minutes. It never changes what a step does: its steps are the component's own.

| Desks | Component | What meets at them |
|---|---|---|
| replacing, retention, library | `Documents` | replacements and reviews; uploads, filing, closing, reopening, a period, a run that dies; drafts and My Documents |
| trail | `AuditChain` | two writers, three entries, one row touched |
| contacts, sessions, purging, password, photo, erasure | `CitizenAccount` | a code, a correction and an erasure; two clients of one token, an officer, the purge; a reset and an erasure; filings while an erasure cancels |
| self, walkin, drafts | `Filing` | two filings under one key or two; two officers and a registration; a draft edited in pieces |
| evaluating, passing, assigning | `Evaluation` | a verdict beside a review, a replacement, a copy uploaded beside another or a move; all stages; taking, giving, handing back |
| floor, requests | `StaffOffice` | super admins demoting, disabling and archiving one another or lowered to sight only; a request for access beside a direct hiring |
| schedules, methods, sheets | `FeeBook` | publications for crossing days; the last two methods; an assessment edited, submitted, approved, issued by two |
| registrations, archive | `Records` | an owner and officers correct a business while it is filed under; archiving beside filing |
| workflow, checklist | `Workflow` | two replacements beside moves, filings and restores |
| paging, waiting | `StaffQueue` | pages among moving rows; one application at every step, one officer in every position |
| pledge | `PledgeClock` | a four-day week of a three-day year, a year completed, a Charter amended, a return |
| arrivals, overdue | `Worklist` | moves that roll back beside reading; two sweeps beside Orders that are superseded and proofs that are sent |
| authenticator | `SecondFactor` | a re-issue beside anything |
| rollout | `Deployment` | two pipelines, an old, a new and a re-cut build |
| reading, confirming, notices | `PublicContent`, `Notices` | one reader, one edit and restarts; two who confirm and revert; publishing beside withdrawing |

Why these are enough. The hazards are races of pairs: two requests for one row, a first
attempt and its retry, two officers, an act and its undoing, a job and a request; two
sessions with a crash anywhere reach them all, and the theorems lift invariants to
any number. Three moves file, withdraw and restore; eight return twice with a cancellation
between; three Orders are a bill and two racing replacements. Where a third matters
it is there: a third token is what the loser of an exchange would hold, a third dossier is
what is lost between two pages, a third version of a schedule is what two publications
leave a gap between. Every `Max` is a
guard of those who ask (clients, operators, time), never of the server. Symmetry is used
only over names, in runs without liveness. Deadlock is not checked: clients may stop asking.

In the runs of jobs, one trouble and one overrun make every pair of overlapping runs: a
lease that ends is not a trouble, time may pass at any step. One notice or request is
enough because runs meet on a row, never across rows; a second file is what a second
producer stores. Intervals, leases and windows are the smallest numbers in the order of
the code's: a lease is at least the interval of the dispatch and of the export and less
than that of the expiry, and a window is longer than a lease. In the pledge clock a week
has four days, a year three and a pledge one or two, enough for a holiday, a weekend and a
suspension to fall on, before and after the due date and across the year's end.

Fairness is assumed in three runs only. `EveryRequestEnds` assumes that a request which
does not crash runs on (weak fairness of its steps) and that PostgreSQL does not pass over
one waiter of a row lock for ever (strong fairness of `Lock`); the server queues them.
Clients, officers, crashes and documents have none. `EveryNoticeSettles`, `DueJobRuns`,
`RequestIsAnswered` and `ProducedIsDeleted` assume that a scheduler's timer ticks and its
pass goes on, that a run which does not throw or die takes its next step, that an instance
told to drain exits by its deadline, that time passes and quiet hours end. All are weak:
each of these steps, once possible, stays so until it is taken. Failures are bounded by
`MaxTrouble`: what is shown is that the system gets there once they stop. At the desks
nothing is assumed: a request there may stop for ever after any step, and the properties are
of safety.

## 4. Theorems

| Module | Proved, for every value of the constants | Along |
|---|---|---|
| `LifecycleProofs` | `TypeOK`, `TimelineIsAWalk`, `OneMovePerKey`, `ReplaysAreTrue`, `FilingIsFixed`, `MovesAreTold`, `OneLetterWaiting` | `DecidingOwnsTheRow`, `KeyedMovesAreRemembered`, `Traces` |
| `FeeCaseProofs` | `TypeOK`, `OneVerifiedPayment`, `SettledByOneUndoneByAnother`, `OnePaymentPerKey`, `OneBillInForce`, `PermitWasEarned`, `InstrumentsBehindStatus`, `UndoneStaysUndone`; of the table, `TableKeepsOrder` | `Carries`, `Tidy`, `Earned`, `Announced`; the 33 rows sorted into pairs of sets |
| `JobRunnerProofs` | `OneInLease` | `Alone`, `Fresh`, `Apart` |
| `OutboxProofs` | `TypeOK`, `NothingLost`, `OneInLease`, `DeferredWaits`, `SentStaysSent` | `Left`, `Held`, and those of the runner |
| `DataExportProofs` | `TypeOK`, `DownloadWorks`, `AnswerStands` | `Named`, `Unshared`, `Swept`, `Answering` |
| `AccountsProofs`: audit chain | `VerdictIsRight`; that the chained table implements `AuditLog` (`ChainIsALog`) | `HeadOK`, `OneHolder`, `Placed`, `Untouched` |
| staff office | `StaffTypeOK`, `FloorHolds` | `Ready`, `Spare` |
| second factor | `FactorIsHeld` | `Offering` |
| citizen account | `VerifiedWasProven`, `ErasedStaysErased`, `OneExchange`, `NoneLeftBehind` | `SentToIt`, `Claims`, `Consumed`, `Pursuit` |
| `OfficeProofs`: deployment | `NoneTurnedAway` | `Rotation`, `Judged` |
| filing | `SeriesHasNoGap` | `Numbering`, `Holding`, `Keyed` |
| documents | `FilesAreKept` | `Uploading`, `Sweeping`, `Kept`, `Evidenced` |
| workflow | `WorkflowTypeOK`, `NobodyStranded`, `PublishedAsAWhole` | `Counts`, `Untangled` |
| records | `RegistrationIsAccountedFor` | `UnderRegistered`, `Accounted`, `Dated` |
| fee book | `NoDayWithoutFees`, `BilledAsApproved` | `Fits`, `SheetStands`, `BillStands` |
| portal | `TakenDownIsOffTheList`, `UnchangedIsCurrent` | `CacheInv`, `Cautious`, `Current` |
| `QueueProofs`: evaluation | `EvaluationTypeOK`, the action property `CheckedByItsStage` | `PapersInTurn`, `ReviewsInTurn` |
| worklist | `TheWaitingAreTold`, `OverdueToldOnce` | `Carried`, `Alone`, `MarkInv` |
| staff queue | `WaitsOnWhoMayAct`, `QueueMissesNothing` | `Walking` |
| pledge clock | `NeverAccusedWrongly` | `Follows` |

Why the invariants alone are not inductive:

- **Lifecycle.** The commit appends the move decided on an earlier snapshot.
  `DecidingOwnsTheRow` says that the decider holds the row and the row is still its
  snapshot, so the walk goes on. A key moves once because every keyed move left its row in
  `keys` (`KeyedMovesAreRemembered`) and the commit asks for it again under the primary key.
- **FeeCase.** `Carries` is what a session has read and still rests on when it writes; what
  it does not cover is asked again by an index or a check of the database. `Earned` ties
  the permit to the status and the status to the payment, over `TableKeepsOrder`.
- **JobRunner.** `finish` releases by name, so the lease alone protects nothing once a run
  was late. Before that a run in its lease is the only run of its job (`Alone`); and in any
  case a job was started no longer ago than the part of the lease that is spent (`Fresh`),
  so a lease shorter than the interval ends before the job is due again (`Apart`).
- **Outbox.** What holds whatever overlaps (`Left`: a held push never goes back to new or
  deferred) gives `DeferredWaits`; what holds while no run was late (`Held`) gives
  `SentStaysSent`.
- **DataExport.** The file of an open window is safe whoever overlaps, because a key is
  drawn once: it is named by one row (`Named`) or held by one producer (`Unshared`), and a
  sweep holds keys of closed windows only (`Swept`). An answer is safe while no run was
  late (`Answering`), given that a window is at least as long as the lease of the export
  (48 hours against ten minutes).
- **What a move leaves (Lifecycle, FeeCase).** `Traces` carries the trail, the notices and
  the letters together with who may ask for a return: a letter is written when an officer's
  commit says so, and the table gives the return to nobody else. The n-th entry is found by
  its place among its kind, so that a commit adds one at the end and moves none
  (`PlaceOfLonger`). `Announced` holds because a permit and a release are never taken back,
  and the table enters their statuses only with them or from one of them.
- **AuditChain.** The refinement holds because whoever appends holds the row of the head
  alone and saw its last value (`OneHolder`), so a commit only adds to what the head commits
  to. The verdict is right because an edit changes an entry but not what its row says of its
  place: hash and previous hash are those the head committed to there (`Placed`), so an
  edited row no longer follows from them and needs no neighbour to be found out. As long as
  nothing was touched, the table is the one the head's history gives (`Untouched`).
- **StaffOffice.** "Somebody is left" says nothing of the removal that has counted and not
  yet written. `Spare` says that whoever a checked removal is about, somebody else is left.
  Only another removal could take that one away, and it is then in flight beside this one,
  which is the race (`raced`) the statement excepts. A request may become a removal only by
  its writing, not by that of another (`Taken`: a removal gives nobody the role).
- **SecondFactor, CitizenAccount.** A request that made an offer still holds its secret when
  it activates it (`Offering`). A living account's outstanding code was sent to the number it
  has (`SentToIt`), because whatever changes the number retires the code in the same
  transaction. A request that won an exchange is alone with its token (`Claims`), and that
  token stays consumed as long as it is kept (`Consumed`), so no later request wins it again.
  What an erased citizen could have withdrawn has an act on its way (`Pursuit`).
- **Deployment.** The ledger only grows, so a build that understood it and had nothing
  missing still does, and every migration it knows is there already: a verdict outlives the
  probe that gave it (`Judged`). A draining replica leaves the balancer within the checks it
  waits for (`Rotation`).
- **Filing.** A number is taken under the lock of the counter's row and the counter moves
  with the commit, so that one request at most holds a number and it is the next (`Holding`).
- **Documents.** What the retention run holds was due when it was picked (`Sweeping`); that
  a row nobody cleared can be without its file, but then nobody will clear it, is the case
  that the property alone forgets (`Kept`, `Uploading`).
- **Workflow.** A replacement that has counted also leads out of where every application
  stands that did not slip past it, not only the table in force (`Counts`). Without overlap
  a replacement compares with the table in force and deletes all of it (`Untangled`). That what
  it names are gains and what it leaves out is no gain but a silent one needs no history: it is
  shown of any two tables, an attempt at a move being who tries, with what scopes and with
  which conditions true.
- **Records.** A request that has read and not yet written still knows what the business
  says, and one that has written and not yet recorded is the only one and bridges the gap on
  the trail (`Accounted`).
- **FeeBook.** No day is left bare because a publication closes only a schedule that began
  before its own does (`Fits`). The Order's figures pass through four requests; each still
  shows what was signed, as long as no late line was written (`Fits`, `SheetStands`).
- **Portal.** A copy is good only if no tag was renewed since it was asked for, and the
  answer under way may still become one, so both must be current (`Cautious`, `Current`); a
  tag was the page's at some time up to now (`Taken`), so a renewed one is new.
- **Evaluation.** The turn of an acceptance is decided before it is written: it has to be
  right in the request too (`ReviewsInTurn`), and on older copies, since a verdict lands on
  the copy that was read (`PapersInTurn`).
- **Worklist.** Between a move's reads and its commit the notice may be held back with it
  (`Carried`). A sweep that is alone has only Orders without a notice before it (`Alone`). A
  payment is marked in the transaction that tells of its Order and marks no other, whatever
  the sweep read before (`MarkInv`).
- **StaffQueue.** Of every application that rested: it was shown once if it is before the
  cursor, never if it is behind it (`Walking`). That the rows are finitely many and can be
  put in order is proved by counting the predecessors of each (`InOrderIs`), without induction.
- **PledgeClock.** The trail of an application is a chain, and only an answer or an end
  leaves a return (`Follows`), so on a plain course one suspension is all there is; and
  the years at both ends of a span bound those between (`YearsInOrder`), so that a calendar
  which vouches for them knows every day that is counted.

The assumptions are those in the modules: names differ, limits are positive naturals,
officers are not the owner, founders are people, no row is the sign for a missing one
(`NoNullRow`, `NoNullDocument`, `NoNullRecord`, `NoNullInBook`, `NoNullCursor`), the pages of
notices are pages of the cache (`NoticesHavePages`). No bound of section 3 occurs in them.
That a hash determines what it commits to is built into `AuditChain`.

## 5. Only model-checked

Every safety property that a run checks is a theorem: the invariants, the refinement
`ChainIsALog` and the action properties `AnswerStands` and `CheckedByItsStage`. Without a
theorem are `EveryRequestEnds`, `DueJobRuns`, `EveryNoticeSettles`, `RequestIsAnswered` and
`ProducedIsDeleted`: liveness under fairness is out of the prover's reach, and so is what
rests on it, that a waiting request, a stalled job or a file comes to its end. The prover
cannot use the library's induction theorems, which take an operator as a parameter; where an
argument over numbers was needed (the clock's days) it goes by the least or the greatest
member of a set of naturals instead, and the order of the queue by counting predecessors. The
type invariants of `Deployment`, `Filing`, `Documents`, `FeeBook`, `Records`, `StaffOffice`,
`SecondFactor` and `Evaluation` are proved as parts of the inductive invariants.
The other way round, `OneMovePerKey`, `FilingIsFixed`, `OnePaymentPerKey`, `OneBillInForce`,
`UndoneStaysUndone`, `OneInLease`, `DeferredWaits` and `SentStaysSent` are proved and belong
to no run.

What the proofs found in the models: the type of a table on the trail was too narrow in
`Workflow` once two replacements had mixed, since the mixture is no table that somebody
submitted; and what `MovesAreTold` and `RegistrationIsAccountedFor` said of whole sequences
is now said of each entry by its place, with the same meaning.

## 6. Where the code does otherwise than the repository says

Six runs end in a violation, each of one statement of the repository:

- `lifecycle_one_act`: the letter of a return is answered and the application moved in two
  transactions; between them the applicant "has answered everything" and has nothing left to
  do (`applicant-write.controller.ts:526-529`, 549). The other route, one transaction, is
  the one the comment describes.
- `fee_stuck`: an application returned after payment and assessed again stays Assessed: a
  second payment is refused, and only a payment moves it on
  (`staff-actions.controller.ts:463-467`, `payment.service.ts:165`).
- `fee_undo_permit`: an undo reads the permit under a lock of the payment, `generate` locks
  the application; both commit (`payment.service.ts:413-415`).
- `outbox_overrun`: of two overlapping dispatches the later write of an outcome wins, so a
  push that was sent goes out again (`job-runner.ts:17-20`).
- `export_orphan`: a file stored before its transaction failed, or its process died, is
  named by no row and deleted by no sweep (`jobs.ts:332-334`).
- `portal_taken_down`: withdrawing a notice renews the list and never the notice's page, so
  a reader who asks again is told nothing changed (`announcements.service.ts:130-132`).

The exceptions that the properties state ("unless two removals raced", "but for a run that
died between") are what the code does otherwise at the desks, and each is reached in its run. The
more important of them, and others met while reading, described here and shown by no run:

*Lifecycle and letters.*
- A retry that waits at the row for its own first attempt is decided against the moved row:
  it is told of a stale version, not the answer of the first (`lifecycle.service.ts:214-222`).
- `Revision Required -> Cancelled` is the applicant's after a bill too, against decision E-4
  (`lifecycle.ts:146`, `applicant-write.controller.ts:581-584`).
- An archived application that the lifecycle restores keeps `archived_at`
  (`records.service.ts:368-370`, 385).

*Fees.*
- `verified_at` outlives a reversal or refund, so a reversed fee counts as paid
  (`payment.service.ts:165`, 388-395). For the same reason the models' `Verified` is "was
  ever verified", and `PermitWasEarned` says no more than that.
- Of two officers who verify one payment at once the second overwrites the verifier and the
  receipt of the first (365-373); `verify` does not ask whether the payment's Order is in
  force; receipt numbers have no unique index (540); a proof sent between a rejection and
  its follow-on moves is returned with the rejected one (597).
- A crash after the Order is inserted leaves its assessment Approved, and a second Order can
  be issued from it once the first is superseded (`assessment.service.ts:193`); an Order
  issued after a schedule change cites the schedule of its issue, not of its lines (183).
- `setMethod` counts before it writes: two requests turn off the last two methods. A line
  written by a request that read a Draft lands on an assessment submitted or approved
  meanwhile (`assessment-workflow.service.ts:251`). A late submission sets an Approved or
  Issued assessment back to Submitted. Nothing writes 'Withdrawn'.
- A payment marked Overdue can still be verified. `FeeCase` leaves the mark
  out: the sweep that sets it is in `Worklist`, and the one act that tells such a payment from
  a pending one, whether another payment is open when one is rejected (599), would pass it over.

*Filing and accounts.*
- Filing with an unknown requirement inserts the application before it is refused; the refusal
  commits (`submission.service.ts:345`). `updateDraft` and `fileOnBehalf` keep what they wrote
  before a refusal likewise (526, 548, 731, 742, 761).
- Two filings at once both count the same unattached documents; the later takes them (243,
  352), against the comment at 240-242.
- A sparse patch of a draft leaves `renews_permit_id` of another form of the draft; so does a
  correction by the records office.
- Registration consumes its proof before the password policy is asked; an officer's filing
  may land on another's profile when the account is bare.
- A correction clears `mobile_verified_at` but leaves the verification row 'Verified'
  (`rectification.service.ts:137-148`).
- A rotation in flight when all sessions are ended leaves a live token; contact requests,
  photos and tickets in flight at an erasure leave rows behind; the cascade after an erasure
  is never resumed when it dies (`erasure.service.ts:323`), and an application returned after
  it is never cancelled. Restoring an archived citizen enables an account that had been
  disabled before (`archive.service.ts:289-297`).
- Two sign-ins in flight with one code both pass, and the later write may move the spent
  step back (`totp.service.ts`, `verifyAtSignIn`), against "what stops a code being used twice
  inside its thirty seconds"; a re-issue that dies after activation leaves a factor that
  nobody holds.
- Two removals of the two super admins both pass `survivesWithout`. The floor counts a super
  admin whose level is view-only, who cannot grant anything (`account.ts:333-349`), and setting
  a level asks for no floor (`staff-access.service.ts:85-115`): one act of the last who could
  grant leaves nobody, against "the ability to administer the service at all"
  (`super-admin-floor.ts:4-11`). `FloorHolds` speaks, as the code does, of the role. An approval overwrites a
  request rejected meanwhile; a demoted officer keeps the scopes of the token for up to
  fifteen minutes.

*Documents and evaluation.*
- An infected upload or replacement makes `required_documents_present` false for good, while
  the applicant's page says "provided"; an infected replacement keeps its slot in the unique
  index (`lifecycle.service.ts:112-118`). A Pending upload is never scanned again.
- A crash between a deletion's mark and its audit entry leaves it without evidence; a retention
  run's list is picked before a filing or a reopening and may delete a file of an open
  application that is older than the period.
- A stage passes as soon as one current copy of each document is accepted; copies uploaded
  beside it, which supersede nothing, may be unread or returned
  (`document.service.ts:188-193`, `evaluation.service.ts:523-536`).
- A crash between the store of an upload and its row leaves bytes that no row names
  (`document.service.ts:160-162`).
- `take` on conflict does nothing and `check` still answers ok: two members both work. At
  Submitted, Received and Revision Required anyone at the step may accept a document; an
  evaluator past `check` may accept one after the move to another stage.

*Office.*
- The queue's cursor carries milliseconds and the column microseconds
  (`staff-queue.service.ts:941`, `evaluation.service.ts:84`, `003_applications.sql:146`):
  untouched rows that share the millisecond of a page's last row are on no page, against
  `staff-queue.spec.ts`. The backlog counts Assessed, which waits on the applicant, and omits
  Released.
- The pledge clock reads only the first suspension; Cancelled and Expired never stop it; the
  charter entry of an application is taken when it is drafted, against
  `submission.service.ts:831-842`; the calendar is read in two statements and a torn read is
  kept for fifteen minutes (`calendar.repository.ts:40-43`).
- A new filing writes no notice of arrival (`lifecycle.service.ts:385` is the only caller);
  no code marks a notice resolved when the act is done (`notification.service.ts:102-105`); the
  overdue sweep does not leave out closed applications.
- The overdue notice is "once per Order" (`jobs.ts:187-193`, 204-207, 239), but the sweep looks
  for a notice of the application (240-242): an Order that supersedes one already told of falls
  due in silence, to the applicant and to the office. `scheduled-jobs.e2e-spec.ts:540-568` tries
  one Order twice and a superseded one, never the Order after it. `OverdueToldOnce` says what
  holds: no Order is told of twice. The sweep also asks only for a Paid payment of the Order
  itself, so an application that paid a superseded Order may be called overdue.
- "A change that widens who can make a move is returned as a WARNING"
  (`workflow-config.service.ts:21-25`) holds of the scopes in `NARROWNESS` only (54-58, 261-263):
  `staff:receive`, `staff:annotate` and `payments:write` are not in it, so opening the two
  receiving moves to every reader, or narrowing to such a scope and widening from it, is
  recorded without a warning; so is a move of the applicant's opened to officers.
  `PublishedAsAWhole` leaves these out by name.
- A replacement of the table of moves counts the live applications by status but not the
  archived, the moves in flight or the filings to come; of two replacements at once the result
  may be a mixture. The same holds for checklists.
- A filing is not refused under an inactive or archived business; an officer's correction of
  a business reads its *before* in another statement than it writes.
- `verifyChain` does not compare the rows with the head: that the last rows are missing is
  seen after the next append only.
- An unreadable ledger leaves the database's probe at "up".

*Portal.*
- A confirmation never writes the proposed value into the table that is served (migration
  003:17-18, `confirmation.service.ts:39`); scheduled notices appear and expire by the clock
  while the version of the list stays (`008_announcements.sql:22-24`); a cache whose renewal
  failed after the commit is stale until a restart; two reverts of one change both succeed;
  draft and publication are statements that commit one by one.

## 7. Not modelled, and why

- **Reconciliation, reports and the read models of the applicant** only read; what they say
  of documents, of dates and of whom an application waits on is in `Documents`,
  `PledgeClock` and `StaffQueue`.
- **Configuration, HTTP, problem documents, logging, scripts, seeds and samples** parse, print
  and load; they have no state of their own.
- **Portal forms, search and staff identity**: static rows and accounts made elsewhere.
- **Which column holds personal data** (`personal-data.ts`) is a list; its own test compares it
  with the schema.

Left out of what is modelled: the pool of connections and its retries; texts, names and
files; the computation of a fee from its schedule, receipt numbers and due dates; the permit's
document and its public verification; the contents of an export; lockout after failed
sign-ins, recovery codes and encryption; delivery of mail and SMS; the purge of keys and
attempts by age; free-text search and the layout of rows; photos and addresses.

`MCOffice` does not put the lifecycle beside the desks: where a component meets a move, the
move is an action of its own there (`MoveFolder`, `Matter...`, `stand`), which changes the status
as the table allows, under the row lock that `Lifecycle` models.

## 8. Plan

1. **Action properties** beside the invariants: an entry of the trail, a receipt of an
   erasure, an issued number and a signed assessment never change once they are there.
2. **Refinement**: `Lifecycle` implements a timeline that grows by single legal moves;
   `Outbox` and `DataExport` implement a queue in which an item is settled once, as long as no
   run was late; `FeeBook` implements a book of schedules that covers every day.
3. **Composition**: `Evaluation` with `Documents` over one set of copies; the purge of keys
   with `Lifecycle`, whose loss lets a late retry move again.
