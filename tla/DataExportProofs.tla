-------------------------- MODULE DataExportProofs --------------------------
(***************************************************************************)
(* That an open window always has its file, and that an answer stands as   *)
(* long as no run outlives its lease.                                      *)
(*                                                                         *)
(* Both jobs write a row by its id long after they read it.  The file is   *)
(* safe whoever overlaps, because a key is drawn once: it is in the hands  *)
(* of one producer or named by one row (Named, Unshared), and a sweep only *)
(* holds keys whose window is closed (Swept).  The answer is safe while no *)
(* run was late: then JobRunner leaves each job to one replica, so the row *)
(* a producer holds is still queued, or ready for at least as long as the  *)
(* producer's lease, and the rows a sweep holds are past that (Answering). *)
(***************************************************************************)
EXTENDS DataExport, JobRunnerProofs

Typed ==
  /\ export \in [Requests -> Request]
  /\ store \subseteq issued /\ issued \subseteq Files
  /\ work \in [Replicas -> Work]

\* The row in hand is one that was read.
InHand ==
  \A i \in Replicas :
    work[i].phase \in {"assembling", "stored", "failing", "deleted"}
      => work[i].at \in work[i].todo

\* A key is drawn, and named by one row: by every one that is ready, and by none
\* that is new, queued or expired.
Named ==
  /\ \A n \in Requests :
       /\ export[n].key # NoRow => export[n].key \in issued
       /\ export[n].status = "ready" => export[n].key # NoRow
       /\ export[n].status \in {"none", "queued", "expired"} => export[n].key = NoRow
  /\ \A m, n \in Requests :
       export[m].key = export[n].key /\ export[m].key # NoRow => m = n

Holding(i) == work[i].phase = "stored"
Held(i) == work[i].keys[work[i].at]

\* What a producer has stored is there, and nobody else's.
Unshared ==
  \A i \in Replicas : Holding(i) =>
    /\ Held(i) \in store
    /\ \A n \in Requests : export[n].key # Held(i)
    /\ \A k \in Replicas : Holding(k) /\ Held(k) = Held(i) => k = i

\* No open window needs the file, and no producer is about to open one for it.
Closed(file) ==
  /\ file \in issued
  /\ \A n \in Requests : export[n].key = file => export[n].open = Free
  /\ \A i \in Replicas : Holding(i) => Held(i) # file

Swept ==
  \A i \in Replicas : work[i].phase \in {"sweeping", "deleted"} =>
    \A n \in work[i].todo : Closed(work[i].keys[n])

FilesInv == Typed /\ InHand /\ Named /\ Unshared /\ Swept /\ DownloadWorks

Assumptions == JobRunnerAssumption /\ DataExportAssumption

-----------------------------------------------------------------------------
(* The files, whatever overlaps. *)

LEMMA WorkType ==
  ASSUME Typed, NEW i \in Replicas
  PROVE  /\ work[i] \in Work /\ work[i].todo \subseteq Requests
         /\ work[i].at \in Requests \cup {NoRow}
         /\ work[i].keys \in [Requests -> Files \cup {NoRow}]
BY DEF Typed, Work

LEMMA RestType == AtRest \in Work
BY DEF AtRest, Work, Phases, NoKeys

LEMMA FilesStart == ASSUME Assumptions PROVE Init => FilesInv
<1> SUFFICES ASSUME Init PROVE FilesInv
  OBVIOUS
<1>1. NoRequest \in Request
  BY DEF NoRequest, Request, Free
<1>2. Typed
  BY <1>1, RestType DEF Init, Typed
<1>3. InHand /\ Unshared /\ Swept
  BY DEF Init, InHand, Unshared, Swept, Holding, AtRest
<1>4. Named /\ DownloadWorks
  BY DEF Init, Named, DownloadWorks, NoRequest
<1> QED BY <1>2, <1>3, <1>4 DEF FilesInv

\* A step that changes what one run holds, and gives it no stored file.
LEMMA Working ==
  ASSUME FilesInv, NEW i \in Replicas, NEW w \in Work,
         work' = [work EXCEPT ![i] = w], UNCHANGED << export, store, issued >>,
         w.phase # "stored",
         w.phase \in {"assembling", "failing", "deleted"} => w.at \in w.todo,
         w.phase \in {"sweeping", "deleted"} => \A n \in w.todo : Closed(w.keys[n])
  PROVE  FilesInv'
<1>1. work'[i] = w /\ \A k \in Replicas : k # i => work'[k] = work[k]
  BY DEF FilesInv, Typed
<1>2. Typed' /\ Named' /\ DownloadWorks'
  BY DEF FilesInv, Typed, Named, DownloadWorks
<1>3. InHand'
  BY <1>1 DEF FilesInv, InHand
<1>4. \A k \in Replicas : Holding(k)' => k # i /\ Holding(k) /\ Held(k)' = Held(k)
  BY <1>1 DEF Holding, Held
<1>5. Unshared'
  BY <1>4 DEF FilesInv, Unshared
<1>6. \A file \in issued : Closed(file) => Closed(file)'
  BY <1>4 DEF Closed
<1>7. Swept'
  <2> SUFFICES ASSUME NEW k \in Replicas, work'[k].phase \in {"sweeping", "deleted"},
                      NEW n \in work'[k].todo, NEW file, file = work'[k].keys[n]
               PROVE  Closed(file)'
    BY DEF Swept, Closed, Holding, Held
  <2>1. Closed(file)
    BY <1>1 DEF FilesInv, Swept
  <2> QED BY <2>1, <1>6 DEF Closed
<1> QED BY <1>2, <1>3, <1>5, <1>7 DEF FilesInv

LEMMA BeginFiles ==
  ASSUME FilesInv, NEW i \in Replicas, Begin(i) PROVE FilesInv'
<1> DEFINE p == IF Offered(i) = Export THEN "batch" ELSE "due"
           w == [work[i] EXCEPT !.phase = p]
<1>1. w \in Work /\ w.phase \in {"batch", "due"}
  BY DEF FilesInv, Typed, Work, Phases
<1>2. work' = [work EXCEPT ![i] = w] /\ UNCHANGED << export, store, issued >>
  BY DEF Begin
<1> HIDE DEF w
<1> QED BY <1>1, <1>2, Working

LEMMA ReadBatchFiles ==
  ASSUME FilesInv, NEW i \in Replicas, ReadBatch(i) PROVE FilesInv'
<1> DEFINE S == Earliest(Queued, Batch)
           w == [work[i] EXCEPT !.phase = "next", !.todo = S]
<1>1. S \subseteq Requests
  BY DEF Earliest, Queued
<1> HIDE DEF S
<1>2. w \in Work /\ w.phase = "next"
  BY <1>1 DEF FilesInv, Typed, Work, Phases
<1>3. work' = [work EXCEPT ![i] = w] /\ UNCHANGED << export, store, issued >>
  BY DEF ReadBatch, S
<1> HIDE DEF w
<1> QED BY <1>2, <1>3, Working

LEMMA ProduceFiles ==
  ASSUME FilesInv, NEW i \in Replicas, NEW n \in Requests, Produce(i, n)
  PROVE  FilesInv'
<1>1. CASE n \in Queued
  <2> DEFINE w == [work[i] EXCEPT !.phase = "assembling", !.at = n]
  <2>1. w \in Work /\ w.phase = "assembling" /\ w.at = n /\ w.todo = work[i].todo
    BY DEF FilesInv, Typed, Work, Phases
  <2>2. /\ work' = [work EXCEPT ![i] = w] /\ UNCHANGED << export, store, issued >>
        /\ n \in work[i].todo
    BY <1>1 DEF Produce
  <2> HIDE DEF w
  <2> QED BY <2>1, <2>2, Working
<1>2. CASE n \notin Queued
  <2> DEFINE w == [work[i] EXCEPT !.todo = @ \ {n}]
  <2>1. w \in Work /\ w.phase = work[i].phase
    BY DEF FilesInv, Typed, Work, Phases
  <2>2. /\ work' = [work EXCEPT ![i] = w] /\ UNCHANGED << export, store, issued >>
        /\ work[i].phase = "next"
    BY <1>2 DEF Produce
  <2> HIDE DEF w
  <2> QED BY <2>1, <2>2, Working
<1> QED BY <1>1, <1>2

\* An export that is over one way or another.
LEMMA GivenUpFiles ==
  ASSUME FilesInv, NEW i \in Replicas, GivenUp(i), UNCHANGED << export, store, issued >>
  PROVE  FilesInv'
<1>1. work' = [work EXCEPT ![i] = AtRest] /\ AtRest.phase = "off"
  BY DEF GivenUp, AtRest
<1> QED BY <1>1, RestType, Working

LEMMA ReadExpiredFiles ==
  ASSUME Assumptions, FilesInv, NEW i \in Replicas, ReadExpired(i) PROVE FilesInv'
<1> DEFINE keys == [n \in Requests |-> IF n \in Expired THEN export[n].key ELSE NoRow]
           w == [work[i] EXCEPT !.phase = "sweeping", !.todo = Expired, !.keys = keys]
<1>1. Expired \subseteq Requests /\ \A n \in Requests : export[n].key \in Files \cup {NoRow}
  BY DEF Expired, FilesInv, Typed, Request
<1>2. keys \in [Requests -> Files \cup {NoRow}] /\ \A n \in Expired : keys[n] = export[n].key
  BY <1>1
<1> HIDE DEF keys
<1>3. w \in Work /\ w.phase = "sweeping" /\ w.todo = Expired /\ w.keys = keys
  BY <1>1, <1>2 DEF FilesInv, Typed, Work, Phases
<1>4. work' = [work EXCEPT ![i] = w] /\ UNCHANGED << export, store, issued >>
  BY DEF ReadExpired, keys
<1> HIDE DEF w
<1>5. \A n \in w.todo : Closed(w.keys[n])
  <2> SUFFICES ASSUME NEW n \in Expired PROVE Closed(export[n].key)
    BY <1>2, <1>3
  <2>1. export[n].open = Free /\ export[n].key # NoRow /\ n \in Requests
    BY DEF Expired
  <2>2. export[n].key \in issued /\ \A m \in Requests : export[m].key = export[n].key => m = n
    BY <2>1 DEF FilesInv, Named
  <2>3. \A k \in Replicas : Holding(k) => Held(k) # export[n].key
    BY <2>1 DEF FilesInv, Unshared
  <2> QED BY <2>1, <2>2, <2>3 DEF Closed
<1> QED BY <1>3, <1>4, <1>5, Working

\* A file newly stored, or stored and not heard of, is in no row and in no hands.
LEMMA DrawnFiles ==
  ASSUME Assumptions, FilesInv, NEW key \in Files \ issued
  PROVE  /\ \A n \in Requests : export[n].key # key
         /\ \A i \in Replicas : Holding(i) => Held(i) # key
         /\ \A file : Closed(file) => file # key
<1>1. key # NoRow
  BY DEF Assumptions, DataExportAssumption
<1>2. \A n \in Requests : export[n].key \in issued \/ export[n].key = NoRow
  BY DEF FilesInv, Named
<1>3. \A i \in Replicas : Holding(i) => Held(i) \in issued
  BY DEF FilesInv, Typed, Unshared
<1> QED BY <1>1, <1>2, <1>3 DEF Closed

LEMMA PutFiles ==
  ASSUME Assumptions, FilesInv, NEW i \in Replicas, NEW key \in Files, Put(i, key)
  PROVE  FilesInv'
<1> DEFINE n == work[i].at
           w == [work[i] EXCEPT !.phase = "stored", !.keys = [@ EXCEPT ![n] = key]]
<1>1. n \in work[i].todo /\ n \in Requests /\ key \notin issued /\ key # NoRow
  BY WorkType DEF FilesInv, InHand, Put, Assumptions, DataExportAssumption
<1>2. /\ w \in Work /\ w.phase = "stored" /\ w.at = n /\ w.todo = work[i].todo
      /\ w.keys[n] = key
  BY <1>1, WorkType DEF FilesInv, Work, Phases
<1>3. /\ work' = [work EXCEPT ![i] = w]
      /\ store' = store \cup {key} /\ issued' = issued \cup {key}
      /\ export' = export
  BY DEF Put
<1> HIDE DEF w
<1>4. work'[i] = w /\ \A k \in Replicas : k # i => work'[k] = work[k]
  BY <1>3 DEF FilesInv, Typed
<1>5. Typed' /\ InHand'
  BY <1>1, <1>2, <1>3, <1>4 DEF FilesInv, Typed, InHand
<1>6. Named' /\ DownloadWorks'
  BY <1>3 DEF FilesInv, Named, DownloadWorks
<1>7. /\ Holding(i)' /\ Held(i)' = key
      /\ \A k \in Replicas : k # i => Holding(k)' = Holding(k) /\ Held(k)' = Held(k)
  BY <1>2, <1>4 DEF Holding, Held
<1>8. Unshared'
  BY <1>1, <1>3, <1>7, DrawnFiles DEF FilesInv, Unshared
<1>9. \A file : Closed(file) => Closed(file)'
  BY <1>1, <1>3, <1>7, DrawnFiles DEF Closed
<1>10. Swept'
  <2> SUFFICES ASSUME NEW k \in Replicas, work'[k].phase \in {"sweeping", "deleted"},
                      NEW m \in work'[k].todo, NEW file, file = work'[k].keys[m]
               PROVE  Closed(file)'
    BY DEF Swept, Closed, Holding, Held
  <2>1. Closed(file)
    BY <1>2, <1>4 DEF FilesInv, Swept
  <2> QED BY <2>1, <1>9
<1> QED BY <1>5, <1>6, <1>8, <1>10 DEF FilesInv

\* The same when a key is drawn and its file, if any, is in no hands.
LEMMA PutFailsFiles ==
  ASSUME FilesInv, NEW i \in Replicas, PutFails(i) PROVE FilesInv'
<1> DEFINE w == [work[i] EXCEPT !.phase = "failing"]
<1>1. /\ w \in Work /\ w.phase = "failing" /\ w.at = work[i].at
      /\ w.todo = work[i].todo /\ w.at \in w.todo
  BY DEF FilesInv, Typed, Work, Phases, InHand, PutFails
<1>2. work' = [work EXCEPT ![i] = w] /\ export' = export
  BY DEF PutFails
<1> HIDE DEF w
<1>3. CASE UNCHANGED << store, issued >>
  BY <1>1, <1>2, <1>3, Working
<1>4. ASSUME NEW key \in Files \ issued,
             store' = store \cup {key}, issued' = issued \cup {key}
      PROVE  FilesInv'
  <2>1. work'[i] = w /\ \A k \in Replicas : k # i => work'[k] = work[k]
    BY <1>2 DEF FilesInv, Typed
  <2>2. Typed' /\ InHand'
    BY <1>1, <1>2, <1>4, <2>1 DEF FilesInv, Typed, InHand
  <2>3. Named' /\ DownloadWorks'
    BY <1>2, <1>4 DEF FilesInv, Named, DownloadWorks
  <2>4. \A k \in Replicas : Holding(k)' => Holding(k) /\ Held(k)' = Held(k)
    BY <1>1, <2>1 DEF Holding, Held
  <2>5. Unshared'
    BY <1>2, <1>4, <2>4 DEF FilesInv, Unshared
  <2>6. \A file : Closed(file) => Closed(file)'
    BY <1>2, <1>4, <2>4 DEF Closed
  <2>7. Swept'
    <3> SUFFICES ASSUME NEW k \in Replicas, work'[k].phase \in {"sweeping", "deleted"},
                        NEW m \in work'[k].todo, NEW file, file = work'[k].keys[m]
                 PROVE  Closed(file)'
      BY DEF Swept, Closed, Holding, Held
    <3>1. Closed(file)
      BY <1>1, <2>1 DEF FilesInv, Swept
    <3> QED BY <3>1, <2>6
  <2> QED BY <2>2, <2>3, <2>5, <2>7 DEF FilesInv
<1> QED BY <1>3, <1>4 DEF PutFails

\* A row becomes ready, and its producer goes on.
LEMMA CompletedFiles ==
  ASSUME Assumptions, FilesInv, NEW i \in Replicas, Holding(i), NEW w \in Work,
         export' = Completed(work[i].at, Held(i)), UNCHANGED << store, issued >>,
         work' = [work EXCEPT ![i] = w],
         w.phase \in {"next", "failing"}, w.phase = "failing" => w.at \in w.todo
  PROVE  FilesInv'
<1> DEFINE n == work[i].at
           key == Held(i)
<1>1. n \in Requests /\ key \in store /\ key \in Files /\ key # NoRow
  BY WorkType DEF FilesInv, Typed, InHand, Holding, Unshared, Assumptions, DataExportAssumption
<1>2. /\ export'[n].status = "ready" /\ export'[n].key = key /\ export'[n].open = Window
      /\ \A m \in Requests : m # n => export'[m] = export[m]
  BY <1>1 DEF FilesInv, Typed, Request, Completed
<1>3. export' \in [Requests -> Request]
  <2> DEFINE r == [export[n] EXCEPT !.status = "ready", !.key = key, !.open = Window]
  <2>1. Window \in Nat /\ export[n] \in Request
    BY <1>1 DEF FilesInv, Typed, Assumptions, DataExportAssumption
  <2>2. r \in Request
    BY <1>1, <2>1 DEF Request
  <2>3. export' = [export EXCEPT ![n] = r]
    BY <1>1 DEF FilesInv, Typed, Completed
  <2> HIDE DEF r
  <2> QED BY <2>2, <2>3 DEF FilesInv, Typed
<1>4. work'[i] = w /\ \A k \in Replicas : k # i => work'[k] = work[k]
  BY DEF FilesInv, Typed
<1>5. Typed' /\ InHand'
  BY <1>3, <1>4 DEF FilesInv, Typed, InHand
<1>6. \A m \in Requests : export[m].key # key
  BY DEF FilesInv, Unshared
<1> HIDE DEF n, key
<1>7. Named'
  BY <1>1, <1>2, <1>6 DEF FilesInv, Named, Typed
<1>8. DownloadWorks'
  BY <1>1, <1>2 DEF FilesInv, DownloadWorks
<1>9. /\ \A k \in Replicas : Holding(k)' => k # i /\ Holding(k) /\ Held(k)' = Held(k)
      /\ \A k \in Replicas : k # i /\ Holding(k) => Held(k) # key
  BY <1>4 DEF FilesInv, Unshared, Holding, Held, key
<1>10. Unshared'
  BY <1>2, <1>9 DEF FilesInv, Unshared
<1>11. \A file : Closed(file) => Closed(file)'
  BY <1>2, <1>9 DEF Closed, key
<1>12. Swept'
  <2> SUFFICES ASSUME NEW k \in Replicas, work'[k].phase \in {"sweeping", "deleted"},
                      NEW m \in work'[k].todo, NEW file, file = work'[k].keys[m]
               PROVE  Closed(file)'
    BY DEF Swept, Closed, Holding, Held
  <2>1. Closed(file)
    BY <1>4 DEF FilesInv, Swept
  <2> QED BY <2>1, <1>11
<1> QED BY <1>5, <1>7, <1>8, <1>10, <1>12 DEF FilesInv

LEMMA OnTypes ==
  ASSUME FilesInv, NEW i \in Replicas, OnToTheNext(i)
  PROVE  \E w \in Work : work' = [work EXCEPT ![i] = w] /\ w.phase = "next"
<1> DEFINE w == [work[i] EXCEPT !.phase = "next", !.todo = @ \ {work[i].at},
                                !.at = NoRow, !.keys = NoKeys]
<1>1. w \in Work /\ w.phase = "next"
  BY DEF FilesInv, Typed, Work, Phases, NoKeys
<1>2. work' = [work EXCEPT ![i] = w]
  BY DEF OnToTheNext
<1> HIDE DEF w
<1> QED BY <1>1, <1>2

LEMMA CompleteFiles ==
  ASSUME Assumptions, FilesInv, NEW i \in Replicas, Complete(i) PROVE FilesInv'
<1>1. PICK w \in Work : work' = [work EXCEPT ![i] = w] /\ w.phase = "next"
  BY OnTypes DEF Complete
<1> QED BY <1>1, CompletedFiles DEF Complete, Holding, Held

LEMMA CompleteFailsFiles ==
  ASSUME Assumptions, FilesInv, NEW i \in Replicas, CompleteFails(i) PROVE FilesInv'
<1> DEFINE w == [work[i] EXCEPT !.phase = "failing", !.keys = NoKeys]
<1>1. w \in Work /\ w.phase = "failing" /\ w.at \in w.todo
  BY DEF FilesInv, Typed, InHand, Work, Phases, NoKeys, CompleteFails
<1>2. work' = [work EXCEPT ![i] = w] /\ UNCHANGED << store, issued >> /\ Holding(i)
  BY DEF CompleteFails, Holding
<1> HIDE DEF w
<1>3. CASE export' = export
  BY <1>1, <1>2, <1>3, Working
<1>4. CASE export' = Completed(work[i].at, work[i].keys[work[i].at])
  BY <1>1, <1>2, <1>4, CompletedFiles DEF Held
<1> QED BY <1>3, <1>4 DEF CompleteFails

LEMMA RecordFailureFiles ==
  ASSUME FilesInv, NEW i \in Replicas, RecordFailure(i) PROVE FilesInv'
<1> DEFINE n == work[i].at
<1>1. PICK w \in Work : work' = [work EXCEPT ![i] = w] /\ w.phase = "next"
  BY OnTypes DEF RecordFailure
<1>2. work'[i] = w /\ \A k \in Replicas : k # i => work'[k] = work[k]
  BY <1>1 DEF FilesInv, Typed
<1>3. n \in Requests
  BY WorkType DEF FilesInv, InHand, RecordFailure
<1>4. /\ export'[n].status = "failed" /\ export'[n].key = export[n].key
      /\ export'[n].open = export[n].open
      /\ \A m \in Requests : m # n => export'[m] = export[m]
      /\ export' \in [Requests -> Request]
  BY <1>3 DEF RecordFailure, FilesInv, Typed, Request
<1>5. UNCHANGED << store, issued >>
  BY DEF RecordFailure
<1> HIDE DEF n
<1>6. Typed' /\ InHand'
  BY <1>1, <1>2, <1>4, <1>5 DEF FilesInv, Typed, InHand
<1>7. Named' /\ DownloadWorks'
  BY <1>3, <1>4, <1>5 DEF FilesInv, Named, DownloadWorks
<1>8. \A k \in Replicas : Holding(k)' => Holding(k) /\ Held(k)' = Held(k)
  BY <1>1, <1>2 DEF Holding, Held
<1>9. Unshared'
  BY <1>3, <1>4, <1>5, <1>8 DEF FilesInv, Unshared
<1>10. \A file : Closed(file) => Closed(file)'
  BY <1>3, <1>4, <1>5, <1>8 DEF Closed
<1>11. Swept'
  <2> SUFFICES ASSUME NEW k \in Replicas, work'[k].phase \in {"sweeping", "deleted"},
                      NEW m \in work'[k].todo, NEW file, file = work'[k].keys[m]
               PROVE  Closed(file)'
    BY DEF Swept, Closed, Holding, Held
  <2>1. Closed(file)
    BY <1>1, <1>2 DEF FilesInv, Swept
  <2> QED BY <2>1, <1>10
<1> QED BY <1>6, <1>7, <1>9, <1>11 DEF FilesInv

LEMMA DeleteFiles ==
  ASSUME FilesInv, NEW i \in Replicas, NEW n \in Requests, Delete(i, n)
  PROVE  FilesInv'
<1> DEFINE gone == work[i].keys[n]
           w == [work[i] EXCEPT !.phase = "deleted", !.at = n]
<1>1. /\ w \in Work /\ w.phase = "deleted" /\ w.at = n
      /\ w.todo = work[i].todo /\ w.keys = work[i].keys
  BY DEF FilesInv, Typed, Work, Phases
<1>2. /\ work' = [work EXCEPT ![i] = w] /\ store' = store \ {gone}
      /\ UNCHANGED << export, issued >>
      /\ work[i].phase = "sweeping" /\ n \in work[i].todo
  BY DEF Delete
<1>3. Closed(gone)
  BY <1>2 DEF FilesInv, Swept
<1> HIDE DEF w, gone
<1>4. work'[i] = w /\ \A k \in Replicas : k # i => work'[k] = work[k]
  BY <1>2 DEF FilesInv, Typed
<1>5. Typed' /\ InHand' /\ Named'
  BY <1>1, <1>2, <1>4 DEF FilesInv, Typed, InHand, Named
<1>6. DownloadWorks'
  BY <1>2, <1>3 DEF FilesInv, DownloadWorks, Closed
<1>7. \A k \in Replicas : Holding(k)' => Holding(k) /\ Held(k)' = Held(k)
  BY <1>1, <1>4 DEF Holding, Held
<1>8. Unshared'
  BY <1>2, <1>3, <1>7 DEF FilesInv, Unshared, Closed
<1>9. \A file : Closed(file) => Closed(file)'
  BY <1>2, <1>7 DEF Closed
<1>10. Swept'
  <2> SUFFICES ASSUME NEW k \in Replicas, work'[k].phase \in {"sweeping", "deleted"},
                      NEW m \in work'[k].todo, NEW file, file = work'[k].keys[m]
               PROVE  Closed(file)'
    BY DEF Swept, Closed, Holding, Held
  <2>1. Closed(file)
    BY <1>1, <1>2, <1>4 DEF FilesInv, Swept
  <2> QED BY <2>1, <1>9
<1> QED BY <1>5, <1>6, <1>8, <1>10 DEF FilesInv

LEMMA MarkFiles ==
  ASSUME Assumptions, FilesInv, NEW i \in Replicas, Mark(i) PROVE FilesInv'
<1> DEFINE n == work[i].at
           w == [work[i] EXCEPT !.phase = "sweeping", !.todo = @ \ {n}, !.at = NoRow,
                                !.keys = [@ EXCEPT ![n] = NoRow]]
<1>1. n \in Requests /\ work[i].phase = "deleted" /\ NoRow \notin Files
  BY WorkType DEF FilesInv, InHand, Mark, Assumptions, DataExportAssumption
<1>2. /\ w \in Work /\ w.phase = "sweeping" /\ w.todo = work[i].todo \ {n}
      /\ \A m \in Requests : m # n => w.keys[m] = work[i].keys[m]
  BY <1>1, WorkType DEF FilesInv, Work, Phases
<1>3. work' = [work EXCEPT ![i] = w] /\ UNCHANGED << store, issued >>
  BY DEF Mark
<1>4. /\ export'[n].status = "expired" /\ export'[n].key = NoRow
      /\ \A m \in Requests : m # n => export'[m] = export[m]
      /\ export' \in [Requests -> Request]
  BY <1>1 DEF Mark, Marked, FilesInv, Typed, Request
<1> HIDE DEF w, n
<1>5. work'[i] = w /\ \A k \in Replicas : k # i => work'[k] = work[k]
  BY <1>3 DEF FilesInv, Typed
<1>6. Typed' /\ InHand'
  BY <1>2, <1>3, <1>4, <1>5 DEF FilesInv, Typed, InHand
<1>7. Named' /\ DownloadWorks'
  BY <1>3, <1>4 DEF FilesInv, Named, DownloadWorks
<1>8. \A k \in Replicas : Holding(k)' => Holding(k) /\ Held(k)' = Held(k)
  BY <1>2, <1>5 DEF Holding, Held
<1>9. Unshared'
  BY <1>1, <1>3, <1>4, <1>8 DEF FilesInv, Typed, Unshared
<1>10. \A file : Closed(file) => Closed(file)'
  BY <1>1, <1>3, <1>4, <1>8 DEF FilesInv, Typed, Closed
<1>11. Swept'
  <2> SUFFICES ASSUME NEW k \in Replicas, work'[k].phase \in {"sweeping", "deleted"},
                      NEW m \in work'[k].todo, NEW file, file = work'[k].keys[m]
               PROVE  Closed(file)'
    BY DEF Swept, Closed, Holding, Held
  <2>1. Closed(file)
    <3>1. CASE k # i
      BY <3>1, <1>5 DEF FilesInv, Swept
    <3>2. CASE k = i
      <4>1. m \in work[i].todo /\ m # n /\ m \in Requests
        BY <3>2, <1>2, <1>5, WorkType DEF FilesInv
      <4> QED BY <3>2, <4>1, <1>1, <1>2, <1>5 DEF FilesInv, Swept
    <3> QED BY <3>1, <3>2
  <2> QED BY <2>1, <1>10
<1> QED BY <1>6, <1>7, <1>9, <1>11 DEF FilesInv

\* A step that leaves runs and files alone, and of a row neither its file nor
\* whether its window is open; the rows it adds name no file.
LEMMA RowsChange ==
  ASSUME Assumptions, FilesInv, UNCHANGED << work, store, issued >>,
         export' \in [Requests -> Request],
         \A n \in Requests :
           \/ /\ export'[n].status = export[n].status /\ export'[n].key = export[n].key
              /\ export[n].open = Free => export'[n].open = Free
           \/ export'[n].status = "queued" /\ export'[n].key = NoRow
  PROVE  FilesInv'
<1>1. Typed' /\ InHand'
  BY DEF FilesInv, Typed, InHand
<1>2. Named' /\ DownloadWorks'
  BY DEF FilesInv, Named, DownloadWorks
<1>3. NoRow \notin issued /\ NoRow \notin store
  BY DEF FilesInv, Typed, Assumptions, DataExportAssumption
<1>4. Unshared'
  BY <1>3 DEF FilesInv, Unshared, Holding, Held
<1>5. \A file : Closed(file) => Closed(file)'
  BY <1>3 DEF Closed, Holding, Held
<1>6. Swept'
  BY <1>5 DEF FilesInv, Swept
<1> QED BY <1>1, <1>2, <1>4, <1>6 DEF FilesInv

LEMMA RequestFiles ==
  ASSUME Assumptions, FilesInv, NEW a \in Accounts, request(a) PROVE FilesInv'
<1>1. PICK n \in Earliest(Unused, 1) :
        export' = [export EXCEPT ![n] = [NoRequest EXCEPT !.status = "queued",
                                                          !.account = a]]
  BY DEF request
<1> DEFINE new == [NoRequest EXCEPT !.status = "queued", !.account = a]
<1>2. new \in Request /\ new.status = "queued" /\ new.key = NoRow
  BY DEF NoRequest, Request, Free
<1>3. n \in Requests
  BY DEF Earliest, Unused
<1>4. export' = [export EXCEPT ![n] = new] /\ UNCHANGED << work, store, issued >>
  BY <1>1 DEF request
<1> HIDE DEF new
<1>5. /\ export' \in [Requests -> Request] /\ export'[n] = new
      /\ \A m \in Requests : m # n => export'[m] = export[m]
  BY <1>2, <1>3, <1>4 DEF FilesInv, Typed
<1> QED BY <1>2, <1>4, <1>5, RowsChange

LEMMA PassesFiles ==
  ASSUME Assumptions, FilesInv, Passes PROVE FilesInv'
<1>2. \A n \in Requests :
        /\ export'[n].status = export[n].status /\ export'[n].key = export[n].key
        /\ export'[n].open = Less(export[n].open) /\ export'[n] \in Request
  <2> SUFFICES ASSUME NEW n \in Requests
               PROVE  /\ export'[n].status = export[n].status
                      /\ export'[n].key = export[n].key
                      /\ export'[n].open = Less(export[n].open)
                      /\ export'[n] \in Request
    OBVIOUS
  <2> DEFINE open == Less(export[n].open)
  <2>1. export'[n] = [export[n] EXCEPT !.open = open] /\ export[n] \in Request
    BY DEF Passes, FilesInv, Typed
  <2>2. open \in Nat \cup {Free}
    BY <2>1, LessType DEF Request
  <2> HIDE DEF open
  <2>3. /\ export'[n].status = export[n].status /\ export'[n].key = export[n].key
        /\ export'[n].open = open /\ export'[n] \in Request
    BY <2>1, <2>2 DEF Request
  <2> QED BY <2>3 DEF open
<1>3. export' \in [Requests -> Request]
  BY <1>2 DEF Passes
<1> QED BY <1>2, <1>3, RowsChange DEF Passes, Less

LEMMA FilesSteps == ASSUME Assumptions, FilesInv, [Next]_vars PROVE FilesInv'
<1>1. ASSUME NEW i \in Replicas, Runs(i) PROVE FilesInv'
  BY <1>1, BeginFiles, ReadBatchFiles, ProduceFiles, PutFiles, CompleteFiles,
     RecordFailureFiles, ReadExpiredFiles, DeleteFiles, MarkFiles, GivenUpFiles
     DEF Runs, Ends
<1>2. ASSUME NEW i \in Replicas, PutFails(i) \/ CompleteFails(i) PROVE FilesInv'
  BY <1>2, PutFailsFiles, CompleteFailsFiles
<1>3. ASSUME NEW i \in Replicas, Throws(i) \/ Dies(i) PROVE FilesInv'
  BY <1>3, GivenUpFiles DEF Throws, Dies
<1>4. ASSUME UNCHANGED exports PROVE FilesInv'
  <2>1. /\ UNCHANGED << work, store, issued >> /\ export' \in [Requests -> Request]
        /\ export' = export
    BY <1>4 DEF exports, FilesInv, Typed
  <2> QED BY <2>1, RowsChange
<1>5. UNCHANGED vars => UNCHANGED exports
  BY DEF vars, exports
<1> QED BY <1>1, <1>2, <1>3, <1>4, <1>5, RequestFiles, PassesFiles DEF Next
-----------------------------------------------------------------------------
(* The answers, as long as no run was late. *)

Producing == {"batch", "next", "assembling", "stored", "failing"}
Sweeping == {"due", "sweeping", "deleted"}

\* A run works while its job runs, at the work of its job.
OnDuty ==
  \A i \in Replicas :
    /\ work[i].phase = "off" <=> ~Running(i)
    /\ work[i].phase \in Producing => at[i].job = Export
    /\ work[i].phase \in Sweeping => at[i].job = Expiry

\* The rows a run is going to write by their ids.
Writes(i, n) ==
  \/ work[i].phase \in {"assembling", "stored", "failing"} /\ n = work[i].at
  \/ work[i].phase \in {"sweeping", "deleted"} /\ n \in work[i].todo

\* They are as they were read; what was completed, and its answer lost, is open for
\* longer than the run that completed it may take.
Right(i) ==
  /\ work[i].phase \in {"assembling", "stored"} => export[work[i].at].status = "queued"
  /\ work[i].phase = "failing" =>
       \/ export[work[i].at].status = "queued"
       \/ /\ export[work[i].at].status = "ready"
          /\ export[work[i].at].open # Free
          /\ export[work[i].at].open >= at[i].left
  /\ work[i].phase \in {"sweeping", "deleted"} =>
       \A n \in work[i].todo : export[n].status = "ready" /\ export[n].open = Free

Answering == ~late => \A i \in Replicas : Right(i)

IInv == RunnerInv /\ FilesInv /\ OnDuty /\ Answering

LEMMA RunnerKeeps ==
  ASSUME Assumptions, RunnerInv, [Next]_vars PROVE RunnerInv' /\ (late => late')
<1>1. ASSUME [RunnerNext]_runner PROVE RunnerInv' /\ (late => late')
  <2>1. RunnerInv'
    BY <1>1, RunnerSteps DEF Assumptions
  <2>2. late => late'
    BY <1>1 DEF RunnerNext, runner, TickBegins, Claim, PassOver, Finish, FinishLost,
       Drain, Exit, Switch, Time
  <2> QED BY <2>1, <2>2
<1>2. ASSUME Troubles, UNCHANGED << row, at, draining, late >>
      PROVE  RunnerInv' /\ (late => late')
  <2>1. RunnerTypeOK'
    BY <1>2, TroublesType DEF Assumptions, RunnerInv, RunnerTypeOK, RestOK
  <2> QED
    BY <1>2, <2>1 DEF RunnerInv, Alone, Fresh, Apart, Running, InLease
<1>3. ASSUME NEW i \in Replicas, Runs(i) \/ Throws(i) \/ Dies(i) \/ Scheduling(i)
      PROVE  [RunnerNext]_runner
  <2>1. CASE Begin(i) \/ Ends(i) \/ Throws(i) \/ Dies(i)
    BY <2>1 DEF Begin, Ends, Throws, Dies, RunnerNext
  <2>2. CASE Scheduling(i)
    BY <2>2 DEF Scheduling, RunnerNext
  <2> QED BY <1>3, <2>1, <2>2
       DEF Runs, ReadBatch, Produce, Put, Complete, RecordFailure, ReadExpired, Delete,
           Mark
<1>4. ASSUME NEW j \in Jobs, Switch(j) PROVE [RunnerNext]_runner
  BY <1>4 DEF RunnerNext
<1>5. ASSUME Passes PROVE [RunnerNext]_runner
  BY <1>5 DEF Passes, RunnerNext
<1>6. ASSUME NEW a \in Accounts, request(a) PROVE [RunnerNext]_runner
  BY <1>6 DEF request
<1>7. ASSUME UNCHANGED vars PROVE [RunnerNext]_runner
  BY <1>7 DEF vars
<1>8. ASSUME NEW i \in Replicas, PutFails(i) \/ CompleteFails(i)
      PROVE  Troubles /\ UNCHANGED << row, at, draining, late >>
  BY <1>8 DEF PutFails, CompleteFails
<1> QED BY <1>1, <1>2, <1>3, <1>4, <1>5, <1>6, <1>7, <1>8 DEF Next

\* No two write a row.
LEMMA OneWrites ==
  ASSUME Assumptions, IInv, ~late, NEW i \in Replicas, NEW k \in Replicas,
         NEW n, Writes(i, n), Writes(k, n)
  PROVE  i = k
<1> DEFINE Makes(j) == work[j].phase \in {"assembling", "stored", "failing"}
           Sweeps(j) == work[j].phase \in {"sweeping", "deleted"}
<1>1. Right(i) /\ Right(k)
  BY DEF IInv, Answering
<1>2. Free \notin {at[i].left, at[k].left} => (Makes(i) /\ Makes(k)) \/ (Sweeps(i) /\ Sweeps(k))
  BY <1>1 DEF Writes, Right
<1>3. Running(i) /\ Running(k)
  BY DEF IInv, OnDuty, Writes
<1>4. Free \notin {at[i].left, at[k].left}
  BY <1>3 DEF IInv, RunnerInv, Alone
<1>5. at[i].job = at[k].job
  BY <1>2, <1>4 DEF IInv, OnDuty, Producing, Sweeping
<1> QED BY <1>3, <1>5 DEF IInv, RunnerInv, Alone

\* A step of one run, which writes no row but its own.
LEMMA Stepping ==
  ASSUME Assumptions, IInv, late => late', NEW i \in Replicas,
         \A k \in Replicas : k # i => work'[k] = work[k] /\ at'[k] = at[k],
         \A n \in Requests : export'[n] = export[n] \/ Writes(i, n),
         work'[i].phase = "off" <=> ~Running(i)',
         work'[i].phase \in Producing => at'[i].job = Export,
         work'[i].phase \in Sweeping => at'[i].job = Expiry,
         ~late => Right(i)'
  PROVE  OnDuty' /\ Answering'
<1>1. OnDuty'
  BY DEF IInv, OnDuty, Running
<1>2. ASSUME ~late, NEW k \in Replicas, k # i PROVE Right(k)'
  <2>1. \A n \in Requests : Writes(k, n) => export'[n] = export[n]
    BY <1>2, OneWrites
  <2>2. Right(k)
    BY <1>2 DEF IInv, Answering
  <2>3. /\ work[k].todo \subseteq Requests
        /\ work[k].phase \in {"assembling", "stored", "failing"} => work[k].at \in Requests
    BY WorkType DEF IInv, FilesInv, InHand
  <2> QED BY <1>2, <2>1, <2>2, <2>3 DEF Right, Writes
<1> QED BY <1>1, <1>2 DEF Answering

\* The same when the runner is left alone.
LEMMA Progress ==
  ASSUME Assumptions, IInv, UNCHANGED << row, at, draining, late >>, NEW i \in Replicas,
         \A k \in Replicas : k # i => work'[k] = work[k],
         \A n \in Requests : export'[n] = export[n] \/ Writes(i, n),
         \/ {work[i].phase, work'[i].phase} \subseteq Producing
         \/ {work[i].phase, work'[i].phase} \subseteq Sweeping,
         ~late => Right(i)'
  PROVE  OnDuty' /\ Answering'
<1>1. "off" \notin {work[i].phase, work'[i].phase}
  BY DEF Producing, Sweeping
<1>2. Producing \cap Sweeping = {}
  BY DEF Producing, Sweeping
<1>3. /\ work'[i].phase = "off" <=> ~Running(i)'
      /\ work'[i].phase \in Producing => at'[i].job = Export
      /\ work'[i].phase \in Sweeping => at'[i].job = Expiry
  BY <1>1, <1>2 DEF IInv, OnDuty, Running
<1> QED BY <1>3, Stepping

LEMMA BeginAnswers ==
  ASSUME Assumptions, IInv, NEW i \in Replicas, Begin(i) PROVE OnDuty' /\ Answering'
<1> DEFINE j == Offered(i)
<1>1. at[i].todo \in Seq(Jobs) /\ at[i].todo # <<>> /\ at \in [Replicas -> Replica]
  BY DEF Begin, Claim, Offers, IInv, RunnerInv, RunnerTypeOK, Replica
<1>2. j \in {Export, Expiry} /\ j # NoJob /\ Export # Expiry
  BY <1>1, TailOfSeq DEF Offered, Assumptions, DataExportAssumption, JobRunnerAssumption
<1>3. /\ at' = [at EXCEPT ![i] = [ todo |-> Tail(@.todo), job |-> j, left |-> Lease[j] ]]
      /\ work' = [work EXCEPT ![i].phase = IF j = Export THEN "batch" ELSE "due"]
      /\ UNCHANGED << export, late >>
  BY DEF Begin, Claim
<1> HIDE DEF j
<1>4. /\ at'[i].job = j /\ \A k \in Replicas : k # i => at'[k] = at[k]
      /\ work'[i].phase = IF j = Export THEN "batch" ELSE "due"
      /\ \A k \in Replicas : k # i => work'[k] = work[k]
  BY <1>1, <1>3 DEF IInv, FilesInv, Typed, Work
<1>5. Right(i)'
  BY <1>4 DEF Right
<1> QED BY <1>2, <1>3, <1>4, <1>5, Stepping DEF Running, Producing, Sweeping

\* A run that is over.
LEMMA OverAnswers ==
  ASSUME Assumptions, IInv, NEW i \in Replicas, Ends(i) \/ Throws(i) \/ Dies(i)
  PROVE  OnDuty' /\ Answering'
<1>1. at \in [Replicas -> Replica] /\ work \in [Replicas -> Work]
  BY DEF IInv, RunnerInv, RunnerTypeOK, FilesInv, Typed
<1>2. /\ work' = [work EXCEPT ![i] = AtRest] /\ UNCHANGED << export, late >>
      /\ Ended(i) \/ at' = [at EXCEPT ![i] = Resting]
  BY DEF Ends, Throws, Dies, GivenUp, Finish, FinishLost, Exit
<1>3. at'[i].job = NoJob /\ \A k \in Replicas : k # i => at'[k] = at[k]
  BY <1>1, <1>2 DEF Ended, Resting, Replica
<1>4. work'[i].phase = "off" /\ \A k \in Replicas : k # i => work'[k] = work[k]
  BY <1>1, <1>2 DEF AtRest
<1>5. Right(i)'
  BY <1>4 DEF Right
<1> QED BY <1>2, <1>3, <1>4, <1>5, Stepping DEF Running, Producing, Sweeping

\* Reading, storing and deleting write no row.
LEMMA ReadsAnswer ==
  ASSUME Assumptions, IInv, NEW i \in Replicas,
         \/ ReadBatch(i) \/ (\E n \in Requests : Produce(i, n))
         \/ (\E key \in Files : Put(i, key)) \/ PutFails(i)
         \/ ReadExpired(i) \/ (\E n \in Requests : Delete(i, n))
  PROVE  OnDuty' /\ Answering'
<1>1. /\ UNCHANGED << row, at, draining, late, export >>
  BY DEF ReadBatch, Produce, Put, PutFails, ReadExpired, Delete, runner
<1>2. work \in [Replicas -> Work] /\ work[i] \in Work
  BY DEF IInv, FilesInv, Typed
<1>3. ~late => Right(i)
  BY DEF IInv, Answering
<1>4. CASE ReadBatch(i)
  <2>1. /\ work[i].phase = "batch" /\ work'[i].phase = "next"
        /\ \A k \in Replicas : k # i => work'[k] = work[k]
    BY <1>2, <1>4 DEF ReadBatch, Work
  <2>2. Right(i)'
    BY <2>1 DEF Right
  <2> QED BY <1>1, <2>1, <2>2, Progress DEF Producing
<1>5. ASSUME NEW n \in Requests, Produce(i, n) PROVE OnDuty' /\ Answering'
  <2>1. /\ work[i].phase = "next"
        /\ \A k \in Replicas : k # i => work'[k] = work[k]
        /\ \/ work'[i].phase = "next"
           \/ n \in Queued /\ work'[i].phase = "assembling" /\ work'[i].at = n
    BY <1>2, <1>5 DEF Produce, Work
  <2>2. Right(i)'
    BY <1>1, <2>1 DEF Right, Queued
  <2> QED BY <1>1, <2>1, <2>2, Progress DEF Producing
<1>6. ASSUME NEW key \in Files, Put(i, key) PROVE OnDuty' /\ Answering'
  <2>1. /\ work[i].phase = "assembling" /\ work'[i].phase = "stored"
        /\ work'[i].at = work[i].at
        /\ \A k \in Replicas : k # i => work'[k] = work[k]
    BY <1>2, <1>6 DEF Put, Work
  <2>2. ~late => Right(i)'
    BY <1>1, <1>3, <2>1 DEF Right
  <2> QED BY <1>1, <2>1, <2>2, Progress DEF Producing
<1>7. CASE PutFails(i)
  <2>1. /\ work[i].phase = "assembling" /\ work'[i].phase = "failing"
        /\ work'[i].at = work[i].at
        /\ \A k \in Replicas : k # i => work'[k] = work[k]
    BY <1>2, <1>7 DEF PutFails, Work
  <2>2. ~late => Right(i)'
    BY <1>1, <1>3, <2>1 DEF Right
  <2> QED BY <1>1, <2>1, <2>2, Progress DEF Producing
<1>8. CASE ReadExpired(i)
  <2>1. /\ work[i].phase = "due" /\ work'[i].phase = "sweeping"
        /\ work'[i].todo = Expired
        /\ \A k \in Replicas : k # i => work'[k] = work[k]
    BY <1>2, <1>8 DEF ReadExpired, Work
  <2>2. Right(i)'
    BY <1>1, <2>1 DEF Right, Expired
  <2> QED BY <1>1, <2>1, <2>2, Progress DEF Sweeping
<1>9. ASSUME NEW n \in Requests, Delete(i, n) PROVE OnDuty' /\ Answering'
  <2>1. /\ work[i].phase = "sweeping" /\ work'[i].phase = "deleted"
        /\ work'[i].todo = work[i].todo
        /\ \A k \in Replicas : k # i => work'[k] = work[k]
    BY <1>2, <1>9 DEF Delete, Work
  <2>2. ~late => Right(i)'
    BY <1>1, <1>3, <2>1 DEF Right
  <2> QED BY <1>1, <2>1, <2>2, Progress DEF Sweeping
<1> QED BY <1>4, <1>5, <1>6, <1>7, <1>8, <1>9

\* A run in time has less of its lease left than a window is open.
LEMMA InTime ==
  ASSUME Assumptions, IInv, ~late, NEW i \in Replicas, work[i].phase \in Producing
  PROVE  Window >= at[i].left /\ Window # Free
<1>1. at[i].job = Export /\ Running(i)
  BY DEF IInv, OnDuty, Producing
<1>2. InLease(i) /\ row[Export].started + at[i].left <= Lease[Export]
  BY <1>1 DEF IInv, RunnerInv, Alone, Fresh, InLease
<1>3. row[Export].started \in Nat /\ at[i].left \in Nat \cup {Free}
  BY DEF IInv, RunnerInv, RunnerTypeOK, Row, Replica, Assumptions, DataExportAssumption
<1>4. Lease[Export] <= Window /\ Window \in Nat /\ Lease[Export] \in Nat
  BY DEF Assumptions, DataExportAssumption, JobRunnerAssumption
<1> QED BY <1>2, <1>3, <1>4 DEF InLease, Free

LEMMA CompletionAnswers ==
  ASSUME Assumptions, IInv, NEW i \in Replicas, Complete(i) \/ CompleteFails(i)
  PROVE  OnDuty' /\ Answering'
<1> DEFINE n == work[i].at
<1>1. /\ UNCHANGED << row, at, draining, late >> /\ work[i].phase = "stored"
      /\ export' = export \/ export' = Completed(n, work[i].keys[n])
  BY DEF Complete, CompleteFails, runner
<1>2. work \in [Replicas -> Work] /\ work[i] \in Work /\ n \in Requests
  BY <1>1, WorkType DEF IInv, FilesInv, Typed, InHand
<1>3. /\ work'[i].phase \in {"next", "failing"}
      /\ work'[i].phase = "failing" => work'[i].at = n
      /\ \A k \in Replicas : k # i => work'[k] = work[k]
  BY <1>2 DEF Complete, CompleteFails, OnToTheNext, Work
<1>4. /\ \A m \in Requests : m # n => export'[m] = export[m]
      /\ \/ export'[n] = export[n]
         \/ export'[n].status = "ready" /\ export'[n].open = Window
  BY <1>1, <1>2 DEF Completed, IInv, FilesInv, Typed, Request
<1>5. Writes(i, n)
  BY <1>1 DEF Writes
<1>6. ~late => Right(i)'
  <2> SUFFICES ASSUME ~late, work'[i].phase = "failing" PROVE Right(i)'
    BY <1>3 DEF Right
  <2>1. export[n].status = "queued"
    BY <1>1 DEF IInv, Answering, Right
  <2>2. Window >= at[i].left /\ Window # Free
    BY <1>1, InTime DEF Producing
  <2>3. \/ export'[n].status = "queued"
        \/ export'[n].status = "ready" /\ export'[n].open # Free /\ export'[n].open >= at'[i].left
    BY <1>1, <1>4, <2>1, <2>2
  <2> HIDE DEF n
  <2> QED BY <1>3, <2>3 DEF Right
<1> HIDE DEF n
<1> QED BY <1>1, <1>3, <1>4, <1>5, <1>6, Progress DEF Producing

LEMMA FailureAnswers ==
  ASSUME Assumptions, IInv, NEW i \in Replicas, RecordFailure(i)
  PROVE  OnDuty' /\ Answering'
<1> DEFINE n == work[i].at
<1>1. /\ UNCHANGED << row, at, draining, late >> /\ work[i].phase = "failing"
      /\ export' = [export EXCEPT ![n].status = "failed"]
  BY DEF RecordFailure, runner
<1>2. work \in [Replicas -> Work] /\ work[i] \in Work /\ export \in [Requests -> Request]
  BY DEF IInv, FilesInv, Typed
<1>3. /\ work'[i].phase = "next"
      /\ \A k \in Replicas : k # i => work'[k] = work[k]
  BY <1>2 DEF RecordFailure, OnToTheNext, Work
<1>4. \A m \in Requests : m # n => export'[m] = export[m]
  BY <1>1, <1>2
<1>5. Writes(i, n) /\ Right(i)'
  BY <1>1, <1>3 DEF Writes, Right
<1> HIDE DEF n
<1> QED BY <1>1, <1>3, <1>4, <1>5, Progress DEF Producing

LEMMA MarkAnswers ==
  ASSUME Assumptions, IInv, NEW i \in Replicas, Mark(i) PROVE OnDuty' /\ Answering'
<1> DEFINE n == work[i].at
<1>1. /\ UNCHANGED << row, at, draining, late >> /\ work[i].phase = "deleted"
      /\ export' = Marked(n)
  BY DEF Mark, runner
<1>2. /\ work \in [Replicas -> Work] /\ work[i] \in Work /\ export \in [Requests -> Request]
      /\ n \in work[i].todo /\ work[i].todo \subseteq Requests
  BY <1>1, WorkType DEF IInv, FilesInv, Typed, InHand
<1>3. /\ work'[i].phase = "sweeping" /\ work'[i].todo = work[i].todo \ {n}
      /\ \A k \in Replicas : k # i => work'[k] = work[k]
  BY <1>2 DEF Mark, Work
<1>4. \A m \in Requests : m # n => export'[m] = export[m]
  BY <1>1, <1>2 DEF Marked
<1>5. Writes(i, n)
  BY <1>1, <1>2 DEF Writes
<1> HIDE DEF n
<1>6. ~late => Right(i)'
  BY <1>1, <1>2, <1>3, <1>4 DEF IInv, Answering, Right
<1> QED BY <1>1, <1>3, <1>4, <1>5, <1>6, Progress DEF Sweeping

\* A step that leaves the runs alone, and the rows they write.
LEMMA Bystanding ==
  ASSUME Assumptions, IInv, late => late', work' = work,
         \A k \in Replicas : at'[k].job = at[k].job /\ at'[k].left = at[k].left,
         \A n \in Requests : export'[n] = export[n] \/ export[n].status = "none"
  PROVE  OnDuty' /\ Answering'
<1>1. OnDuty'
  BY DEF IInv, OnDuty, Running
<1>2. ASSUME ~late, NEW k \in Replicas PROVE Right(k)'
  <2>1. Right(k)
    BY <1>2 DEF IInv, Answering
  <2>2. /\ work[k].todo \subseteq Requests
        /\ work[k].phase \in {"assembling", "stored", "failing"} => work[k].at \in Requests
    BY WorkType DEF IInv, FilesInv, InHand
  <2> QED BY <2>1, <2>2 DEF Right
<1> QED BY <1>1, <1>2 DEF Answering

LEMMA PassesAnswers ==
  ASSUME Assumptions, IInv, Passes PROVE OnDuty' /\ Answering'
<1>1. /\ \A k \in Replicas :
           at'[k].job = at[k].job /\ at'[k].left = Less(at[k].left)
      /\ \A n \in Requests :
           /\ export'[n].status = export[n].status
           /\ export'[n].open = Less(export[n].open)
      /\ work' = work
  BY DEF Passes, Time, IInv, RunnerInv, RunnerTypeOK, Replica, FilesInv, Typed, Request
<1>2. OnDuty'
  BY <1>1 DEF IInv, OnDuty, Running
<1>3. ASSUME ~late', NEW k \in Replicas PROVE Right(k)'
  <2>1. ~late /\ (Running(k) => at[k].left # 0)
    BY <1>3 DEF Passes, Time
  <2>2. Right(k)
    BY <2>1 DEF IInv, Answering
  <2>3. /\ work[k].todo \subseteq Requests
        /\ work[k].phase \in {"assembling", "stored", "failing"} => work[k].at \in Requests
    BY WorkType DEF IInv, FilesInv, InHand
  <2>4. CASE work[k].phase \in {"sweeping", "deleted"}
    BY <1>1, <2>2, <2>3, <2>4 DEF Right, Less
  <2>5. CASE work[k].phase = "failing"
    <3> DEFINE n == work[k].at
    <3>1. Running(k) /\ n \in Requests
      BY <2>3, <2>5 DEF IInv, OnDuty
    <3>2. at[k].left \in Nat \cup {Free} /\ export[n].open \in Nat \cup {Free}
      BY <3>1 DEF IInv, RunnerInv, RunnerTypeOK, Replica, FilesInv, Typed, Request
    <3>3. at[k].left # Free /\ at[k].left # 0
      BY <2>1, <3>1 DEF IInv, RunnerInv, Alone
    <3>4. \/ export[n].status = "queued"
          \/ export[n].status = "ready" /\ export[n].open # Free /\ export[n].open >= at[k].left
      BY <2>2, <2>5 DEF Right
    <3>5. ASSUME export[n].status = "ready", export[n].open # Free,
                 export[n].open >= at[k].left
          PROVE  Less(export[n].open) # Free /\ Less(export[n].open) >= Less(at[k].left)
      BY <3>2, <3>3, <3>5 DEF Less, Free
    <3>6. /\ export'[n].status = export[n].status /\ at'[k].left = Less(at[k].left)
          /\ export'[n].open = Less(export[n].open)
      BY <1>1, <3>1
    <3> QED BY <1>1, <2>5, <3>4, <3>5, <3>6 DEF Right
  <2>6. CASE work[k].phase \notin {"sweeping", "deleted", "failing"}
    BY <1>1, <2>2, <2>3, <2>6 DEF Right
  <2> QED BY <2>4, <2>5, <2>6
<1> QED BY <1>2, <1>3 DEF Answering

LEMMA Starts == ASSUME Assumptions PROVE Init => IInv
<1> SUFFICES ASSUME Init PROVE IInv
  OBVIOUS
<1>1. RunnerInv /\ FilesInv
  BY RunnerStarts, FilesStart DEF Init, Assumptions
<1>2. OnDuty /\ Answering
  BY DEF Init, RunnerInit, AtRest, Resting, OnDuty, Answering, Right, Running, Producing,
     Sweeping
<1> QED BY <1>1, <1>2 DEF IInv

LEMMA Steps == ASSUME Assumptions, IInv, [Next]_vars PROVE IInv'
<1>1. RunnerInv' /\ (late => late')
  BY RunnerKeeps DEF IInv
<1>2. FilesInv'
  BY FilesSteps DEF IInv
<1> SUFFICES OnDuty' /\ Answering'
  BY <1>1, <1>2 DEF IInv
<1>3. at \in [Replicas -> Replica]
  BY DEF IInv, RunnerInv, RunnerTypeOK
<1>4. ASSUME NEW i \in Replicas,
             Runs(i) \/ PutFails(i) \/ CompleteFails(i) \/ Throws(i) \/ Dies(i)
      PROVE  OnDuty' /\ Answering'
  BY <1>4, BeginAnswers, ReadsAnswer, CompletionAnswers, FailureAnswers, MarkAnswers,
     OverAnswers DEF Runs
<1>5. ASSUME NEW a \in Accounts, request(a) PROVE OnDuty' /\ Answering'
  <2>1. PICK n \in Earliest(Unused, 1) :
          export' = [export EXCEPT ![n] = [NoRequest EXCEPT !.status = "queued",
                                                            !.account = a]]
    BY <1>5 DEF request
  <2>2. export[n].status = "none" /\ \A m \in Requests : m # n => export'[m] = export[m]
    BY <2>1 DEF Earliest, Unused, IInv, FilesInv, Typed
  <2>3. UNCHANGED << work, at, late >>
    BY <1>5 DEF request, runner
  <2> QED BY <2>2, <2>3, Bystanding
<1>6. ASSUME UNCHANGED exports,
             \/ \E i \in Replicas : Scheduling(i)
             \/ \E j \in Jobs : Switch(j)
             \/ UNCHANGED vars
      PROVE  OnDuty' /\ Answering'
  <2>1. \A k \in Replicas : at'[k].job = at[k].job /\ at'[k].left = at[k].left
    <3>1. ASSUME NEW i \in Replicas, TickBegins(i) \/ PassOver(i)
          PROVE  \E rest : at' = [at EXCEPT ![i].todo = rest]
      BY <3>1 DEF TickBegins, PassOver
    <3>2. ASSUME NEW i \in Replicas, NEW rest, at' = [at EXCEPT ![i].todo = rest]
          PROVE  \A k \in Replicas : at'[k].job = at[k].job /\ at'[k].left = at[k].left
      BY <1>3, <3>2 DEF Replica
    <3>3. (\E i \in Replicas : Drain(i)) \/ (\E j \in Jobs : Switch(j)) => at' = at
      BY DEF Drain, Switch
    <3>4. UNCHANGED vars => at' = at
      BY DEF vars, runner
    <3> QED BY <1>6, <3>1, <3>2, <3>3, <3>4 DEF Scheduling
  <2> QED BY <1>1, <1>6, <2>1, Bystanding DEF exports
<1>7. UNCHANGED vars => UNCHANGED exports
  BY DEF vars, exports
<1> QED BY <1>4, <1>5, <1>6, <1>7, PassesAnswers DEF Next

LEMMA Always == ASSUME Assumptions PROVE Spec => []IInv
<1>1. Init => IInv
  BY Starts
<1>2. IInv /\ [Next]_vars => IInv'
  BY Steps
<1> QED BY <1>1, <1>2, PTL DEF Spec

\* Rows and runs keep their types, a ready row names its file and an expired one
\* none, for any replicas, requests, files and windows.
THEOREM TypeCorrect == ASSUME Assumptions PROVE Spec => []TypeOK
<1>1. IInv => TypeOK
  BY DEF IInv, RunnerInv, FilesInv, Typed, Named, OnDuty, TypeOK
<1> QED BY <1>1, Always, PTL

\* What downloadUrl signs a link for exists, whatever overlaps, crashes or outlives
\* its lease: that part of the invariant asks nothing of the leases.
THEOREM DownloadAlwaysWorks == ASSUME Assumptions PROVE Spec => []DownloadWorks
<1>1. IInv => DownloadWorks
  BY DEF IInv, FilesInv
<1> QED BY <1>1, Always, PTL

\* As long as no run has outlived its lease, a request that was told to have failed
\* or to have expired keeps that answer.
THEOREM AnsweredForGood == ASSUME Assumptions PROVE Spec => AnswerStands
<1>1. IInv /\ [Next]_vars =>
        [~late => \A n \in Requests :
           export[n].status \in {"failed", "expired"}
             => export'[n].status = export[n].status]_vars
  <2> SUFFICES ASSUME IInv, [Next]_vars, ~late, NEW n \in Requests,
                      export[n].status \in {"failed", "expired"}
               PROVE  export'[n].status = export[n].status
    OBVIOUS
  <2>1. export \in [Requests -> Request]
    BY DEF IInv, FilesInv, Typed
  <2>2. ASSUME NEW i \in Replicas, Writes(i, n) PROVE FALSE
    BY <2>2 DEF IInv, Answering, Right, Writes
  <2>3. ASSUME NEW i \in Replicas,
               Complete(i) \/ CompleteFails(i) \/ RecordFailure(i) \/ Mark(i)
        PROVE  export'[n] = export[n]
    <3>1. Writes(i, work[i].at)
      BY <2>3 DEF Complete, CompleteFails, RecordFailure, Mark, Writes, IInv, FilesInv,
         InHand
    <3>2. work[i].at # n
      BY <2>2, <3>1
    <3> QED BY <2>1, <2>3, <3>2
         DEF Complete, CompleteFails, RecordFailure, Mark, Completed, Marked
  <2>4. ASSUME NEW a \in Accounts, request(a) PROVE export'[n] = export[n]
    BY <2>1, <2>4 DEF request, Earliest, Unused
  <2>5. ASSUME Passes PROVE export'[n].status = export[n].status
    BY <2>1, <2>5 DEF Passes, Request
  <2> QED
    BY <2>3, <2>4, <2>5
    DEF Next, vars, exports, Runs, Begin, ReadBatch, Produce, Put, PutFails, ReadExpired,
        Delete, Ends, Throws, Dies
<1> QED BY <1>1, Always, PTL DEF Spec, AnswerStands
=============================================================================
