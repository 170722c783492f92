----------------------------- MODULE DataExport -----------------------------
(***************************************************************************)
(* The portable copy of a citizen's data: the rows of                      *)
(* data_export_requests, the files in the object store, the route that     *)
(* asks for a copy, and the two jobs that produce the files and delete     *)
(* them once their window has closed, run by JobRunner's replicas.         *)
(*                                                                         *)
(* A step is one statement, one transaction or one call of the store,      *)
(* which is the one of production (S3).  Assembling the copy reads many    *)
(* tables and changes none: it is part of the step that stores the file.   *)
(***************************************************************************)
EXTENDS JobRunner, FiniteSets

CONSTANTS
  Accounts,
  Requests,    \* ids of rows, numbered in the order of requested_at
  Files,       \* object keys
  NoRow,       \* of an account or a key: null
  Export,      \* data-export
  Expiry,      \* data-export-expiry
  Batch,       \* rows a run produces
  Window       \* EXPORT_TTL_HOURS

ASSUME DataExportAssumption ==
  /\ Requests \subseteq Nat
  /\ NoRow \notin Accounts \cup Files
  /\ Jobs = {Export, Expiry} /\ Export # Expiry
  /\ {Batch, Window} \subseteq Nat \ {0}
  /\ Lease[Export] <= Window

VARIABLES
  export,  \* data_export_requests
  store,   \* the keys that have an object
  issued,  \* the keys newObjectKey has drawn: 128 random bits, never the same
  work     \* what the run of each replica holds

exports == << export, store, issued, work >>
vars == << runner, export, store, issued, work >>

\* open: of expires_at, Free when past.
Request ==
  [ status : {"none", "queued", "ready", "failed", "expired"},
    account : Accounts \cup {NoRow}, key : Files \cup {NoRow},
    open : Nat \cup {Free} ]

NoRequest == [ status |-> "none", account |-> NoRow, key |-> NoRow, open |-> Free ]

Phases == {"off", "batch", "next", "assembling", "stored", "failing",
           "due", "sweeping", "deleted"}
Work ==
  [ phase : Phases,
    todo : SUBSET Requests,                      \* read and not yet worked off
    at : Requests \cup {NoRow},                  \* the row in hand
    keys : [Requests -> Files \cup {NoRow}] ]    \* produced, or read to be deleted

NoKeys == [n \in Requests |-> NoRow]
AtRest == [ phase |-> "off", todo |-> {}, at |-> NoRow, keys |-> NoKeys ]

Init ==
  /\ RunnerInit
  /\ export = [n \in Requests |-> NoRequest]
  /\ store = {} /\ issued = {}
  /\ work = [i \in Replicas |-> AtRest]

Queued == {n \in Requests : export[n].status = "queued"}
QueuedOf(a) == {n \in Queued : export[n].account = a}

\* Mutant: whatever is ready.
AnyReady == {n \in Requests : export[n].status = "ready" /\ export[n].key # NoRow}

Expired ==
  {n \in Requests : /\ export[n].status = "ready" /\ export[n].open = Free
                    /\ export[n].key # NoRow}

\* order by requested_at limit
Earliest(S, limit) == {n \in S : Cardinality({m \in S : m < n}) < limit}
Unused == {n \in Requests : export[n].status = "none"}

-----------------------------------------------------------------------------
(* The route. *)

\* A row is inserted unless one of the account is queued: the select finds it, and if
\* it came between select and insert one_outstanding_export_per_account raises.
request(a) ==
  /\ QueuedOf(a) = {}
  /\ \E n \in Earliest(Unused, 1) :
       export' = [export EXCEPT ![n] = [NoRequest EXCEPT !.status = "queued",
                                                         !.account = a]]
  /\ UNCHANGED << runner, store, issued, work >>

-----------------------------------------------------------------------------
(* The runs. *)

Begin(i) ==
  /\ Claim(i)
  /\ work' = [work EXCEPT ![i].phase = IF Offered(i) = Export THEN "batch" ELSE "due"]
  /\ UNCHANGED << export, store, issued >>

ReadBatch(i) ==
  /\ work[i].phase = "batch"
  /\ work' = [work EXCEPT ![i].phase = "next", ![i].todo = Earliest(Queued, Batch)]
  /\ UNCHANGED << runner, export, store, issued >>

\* produce begins: is it still queued?
Produce(i, n) ==
  /\ work[i].phase = "next" /\ n \in work[i].todo
  /\ \A m \in work[i].todo : n <= m
  /\ work' = IF n \in Queued THEN [work EXCEPT ![i].phase = "assembling", ![i].at = n]
             ELSE [work EXCEPT ![i].todo = @ \ {n}]
  /\ UNCHANGED << runner, export, store, issued >>

Put(i, key) ==
  /\ work[i].phase = "assembling" /\ key \notin issued
  /\ work' = [work EXCEPT ![i].phase = "stored",
                          ![i].keys = [@ EXCEPT ![work[i].at] = key]]
  /\ store' = store \cup {key}
  /\ issued' = issued \cup {key}
  /\ UNCHANGED << runner, export >>

\* A read fails, a secret is found in the copy, or the store fails, or answers too
\* late.
PutFails(i) ==
  /\ work[i].phase = "assembling" /\ Troubles
  /\ work' = [work EXCEPT ![i].phase = "failing"]
  /\ \/ UNCHANGED << store, issued >>
     \/ \E key \in Files \ issued :
          /\ store' = store \cup {key}
          /\ issued' = issued \cup {key}
  /\ UNCHANGED << row, at, draining, late, export >>

\* The row in hand is done with.
OnToTheNext(i) ==
  work' = [work EXCEPT ![i].phase = "next", ![i].todo = @ \ {work[i].at},
                       ![i].at = NoRow, ![i].keys = NoKeys]

\* The update asks nothing of the row.
Completed(n, key) ==
  [export EXCEPT ![n].status = "ready", ![n].key = key, ![n].open = Window]

Complete(i) ==
  /\ work[i].phase = "stored"
  /\ export' = Completed(work[i].at, work[i].keys[work[i].at])
  /\ OnToTheNext(i)
  /\ UNCHANGED << runner, store, issued >>

\* The transaction is rolled back, or it is committed and its answer is lost.
CompleteFails(i) ==
  /\ work[i].phase = "stored" /\ Troubles
  /\ \/ UNCHANGED export
     \/ export' = Completed(work[i].at, work[i].keys[work[i].at])
  /\ work' = [work EXCEPT ![i].phase = "failing", ![i].keys = NoKeys]
  /\ UNCHANGED << row, at, draining, late, store, issued >>

RecordFailure(i) ==
  /\ work[i].phase = "failing"
  /\ export' = [export EXCEPT ![work[i].at].status = "failed"]
  /\ OnToTheNext(i)
  /\ UNCHANGED << runner, store, issued >>

ReadExpired(i) ==
  /\ work[i].phase = "due"
  /\ work' = [work EXCEPT ![i].phase = "sweeping", ![i].todo = Expired,
                ![i].keys = [n \in Requests |-> IF n \in Expired THEN export[n].key
                                                ELSE NoRow]]
  /\ UNCHANGED << runner, export, store, issued >>

\* Mutant: as the photo of an erased account is deleted, with what fails caught.
DeleteQuietly(i, n) ==
  /\ work[i].phase = "sweeping" /\ n \in work[i].todo
  /\ work' = [work EXCEPT ![i].phase = "deleted", ![i].at = n]
  /\ store' \in {store, store \ {work[i].keys[n]}}
  /\ UNCHANGED << runner, export, issued >>

Delete(i, n) ==
  /\ work[i].phase = "sweeping" /\ n \in work[i].todo
  /\ work' = [work EXCEPT ![i].phase = "deleted", ![i].at = n]
  /\ store' = store \ {work[i].keys[n]}
  /\ UNCHANGED << runner, export, issued >>

Marked(n) == [export EXCEPT ![n].status = "expired", ![n].key = NoRow]

Mark(i) ==
  /\ work[i].phase = "deleted"
  /\ export' = Marked(work[i].at)
  /\ work' = [work EXCEPT ![i].phase = "sweeping", ![i].todo = @ \ {work[i].at},
                          ![i].at = NoRow,
                          ![i].keys = [@ EXCEPT ![work[i].at] = NoRow]]
  /\ UNCHANGED << runner, store, issued >>

WorkedOff(i) == work[i].phase \in {"next", "sweeping"} /\ work[i].todo = {}
GivenUp(i) == work' = [work EXCEPT ![i] = AtRest]

Ends(i) ==
  /\ WorkedOff(i)
  /\ Finish(i, "succeeded") \/ FinishLost(i)
  /\ GivenUp(i)
  /\ UNCHANGED << export, store, issued >>

\* What fails outside produce's try, or in its catch, fails the job.
Throws(i) ==
  /\ work[i].phase \notin {"assembling", "stored"} /\ ~WorkedOff(i)
  /\ Finish(i, "failed") \/ FinishLost(i)
  /\ GivenUp(i)
  /\ UNCHANGED << export, store, issued >>

Dies(i) ==
  /\ Exit(i)
  /\ GivenUp(i)
  /\ UNCHANGED << export, store, issued >>

Scheduling(i) == TickBegins(i) \/ PassOver(i) \/ Drain(i)

\* Windows close as time passes.
Passes ==
  /\ Time
  /\ export' = [n \in Requests |-> [export[n] EXCEPT !.open = Less(@)]]
  /\ UNCHANGED << store, issued, work >>

Runs(i) ==
  \/ Begin(i) \/ ReadBatch(i) \/ (\E n \in Requests : Produce(i, n))
  \/ (\E key \in Files : Put(i, key)) \/ Complete(i) \/ RecordFailure(i)
  \/ ReadExpired(i) \/ (\E n \in Requests : Delete(i, n)) \/ Mark(i)
  \/ Ends(i)

Next ==
  \/ \E a \in Accounts : request(a)
  \/ \E i \in Replicas :
       Runs(i) \/ PutFails(i) \/ CompleteFails(i) \/ Throws(i) \/ Dies(i)
  \/ /\ \/ \E i \in Replicas : Scheduling(i)
        \/ \E j \in Jobs : Switch(j)
     /\ UNCHANGED exports
  \/ Passes

Spec == Init /\ [][Next]_vars

\* The timer ticks, a run goes on, an instance told to drain exits by its deadline.
\* Nothing is assumed of failures, citizens and operators.
Fairness ==
  /\ \A i \in Replicas :
       /\ WF_vars((TickBegins(i) \/ PassOver(i)) /\ UNCHANGED exports)
       /\ WF_vars(Runs(i))
       /\ WF_vars(draining[i] /\ Dies(i))
  /\ WF_vars(Passes)

FairSpec == Spec /\ Fairness

-----------------------------------------------------------------------------
(* Properties. *)

\* Rows and runs keep their types; a row that is ready names a file, one that has
\* expired names none, which "invites a later reader to try to fetch it".
TypeOK ==
  /\ RunnerTypeOK
  /\ export \in [Requests -> Request]
  /\ \A n \in Requests :
       /\ export[n].status = "ready" => export[n].key # NoRow
       /\ export[n].status = "expired" => export[n].key = NoRow
  /\ store \subseteq issued /\ issued \subseteq Files
  /\ work \in [Replicas -> Work]
  /\ \A i \in Replicas : work[i].phase = "off" <=> ~Running(i)

\* What downloadUrl signs a link for exists: whatever sweeps, crashes and runs that
\* outlived their lease, a row that is ready and whose window is open names a file.
DownloadWorks ==
  \A n \in Requests :
    export[n].status = "ready" /\ export[n].open # Free => export[n].key \in store

\* An answer stands: what was told to have failed or expired is not ready again, as
\* long as no run outlives its lease.
AnswerStands ==
  [][~late => \A n \in Requests :
       export[n].status \in {"failed", "expired"} => export'[n].status = export[n].status]_vars

\* "An export that quietly produced nothing is indistinguishable from one the LGU
\* ignored" (013): every request is answered, unless the job is switched off.
RequestIsAnswered ==
  \A n \in Requests :
    n \in Queued ~> n \notin Queued \/ ~row[Export].enabled

\* The file of an answered request is deleted, also by a sweep that follows one that
\* died half-way.
AtWorkOn(n) == \E i \in Replicas : n \in work[i].todo
ProducedIsDeleted ==
  \A n \in Requests, key \in Files :
    export[n].status = "ready" /\ export[n].key = key /\ ~AtWorkOn(n)
      ~> key \notin store \/ ~row[Expiry].enabled

\* "A portable copy of somebody's entire permit history left on storage indefinitely
\* is a standing disclosure, and an expiry nothing enforces is a comment" (jobs.ts):
\* no file stays, the sweep being switched on.
EveryFileIsDeleted ==
  \A key \in Files : key \in store ~> key \notin store \/ ~row[Expiry].enabled
=============================================================================
