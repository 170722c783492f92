-------------------------- MODULE LifecycleProofs ---------------------------
(***************************************************************************)
(* Proofs about Lifecycle for every set of requests, officers, keys, every *)
(* evidence and every number of moves.                                     *)
(***************************************************************************)
EXTENDS Lifecycle, SequenceTheorems, FiniteSetTheorems, TLAPS

\* The lock belongs to the request that is deciding, whose snapshot is still the
\* row and whose move the table allowed.
DecidingOwnsTheRow ==
  \A r \in Requests : pc[r] = "deciding" =>
    /\ lock = r
    /\ snap[r].status = app.status /\ snap[r].version = app.version
    /\ RuleFor(app.status, call[r].to) # {}

\* Every move made with a key left the key's row behind.
KeyedMovesAreRemembered ==
  \A i \in DOMAIN timeline : timeline[i].key # NoKey =>
    \E k \in keys : k.by = timeline[i].by /\ k.key = timeline[i].key

IInv ==
  /\ TypeOK
  /\ DecidingOwnsTheRow
  /\ timeline # <<>>
  /\ TimelineIsAWalk
  /\ ReplaysAreTrue
  /\ KeyedMovesAreRemembered
  /\ OneMovePerKey

-----------------------------------------------------------------------------
\* A sequence of one element.
LEMMA SingletonSeq ==
  ASSUME NEW S, NEW x \in S
  PROVE  << x >> \in Seq(S)
<1>1. << x >> \in [1..1 -> S]
  OBVIOUS
<1> QED  BY <1>1, SeqDef

\* decide answers "ok" only for a move the table lists.
LEMMA DecidedMovesAreListed ==
  ASSUME NEW s, NEW c, NEW to, NEW v, decide(s, c, to, v) = "ok"
  PROVE  RuleFor(s.status, to) # {}
  BY DEF decide

\* Verdict answers "ok" only for a move the table lists from the row's status.
LEMMA AllowedMovesAreListed ==
  ASSUME NEW c, Verdict(c) = "ok"
  PROVE  RuleFor(app.status, c.to) # {}
<1>1. decide(SnapshotOf(c), CallerOf(c.by), c.to, c.expected) = "ok"
  BY DEF Verdict
<1>2. SnapshotOf(c).status = app.status
  BY DEF SnapshotOf
<1> QED  BY <1>1, <1>2, DecidedMovesAreListed

\* Verdict is one of the answers a request can be given.
LEMMA VerdictType ==
  ASSUME NEW c
  PROVE  Verdict(c) \in AnswerKind
  BY DEF Verdict, decide, AnswerKind

-----------------------------------------------------------------------------
\* TYPE CORRECTNESS

LEMMA TypeInit == Init => TypeOK
<1> SUFFICES ASSUME Init PROVE TypeOK
  OBVIOUS
<1> USE LifecycleAssumption
<1>1. {"Draft", "Submitted"} \subseteq LifecycleStatuses
  BY DEF LifecycleStatuses
<1>2. app \in Application
  BY <1>1 DEF Init, Application, TakesNumber
<1>3. timeline \in Seq(Move)
  <2>1. [ from |-> "none", to |-> InitialStatus, by |-> Owner, key |-> NoKey ]
          \in Move
    BY <1>1 DEF Move, Callers
  <2>2. timeline = << [ from |-> "none", to |-> InitialStatus, by |-> Owner,
                        key |-> NoKey ] >>
    BY DEF Init
  <2> QED  BY <2>1, <2>2, SingletonSeq
<1>4. NoCall \in Call /\ NoSnap \in Snapshot /\ NoAnswer \in Answer
  BY <1>1 DEF NoCall, Call, NoSnap, Snapshot, NoAnswer, Answer, AnswerKind,
              Callers, Unchecked
<1>5. /\ audit \in Seq(AuditEntry) /\ inbox \in Seq(LifecycleStatuses)
      /\ letters \in Seq(Letter) /\ keys \subseteq Remembered
      /\ evidence \subseteq Evidence /\ lock \in Requests \cup {NoRequest}
  <2>1. audit = <<>> /\ inbox = <<>> /\ letters = <<>> /\ keys = {}
        /\ evidence = Given /\ lock = NoRequest
    BY DEF Init
  <2> QED  BY <2>1, EmptySeq
<1>6. /\ pc \in [Requests -> PC] /\ call \in [Requests -> Call]
      /\ snap \in [Requests -> Snapshot] /\ answer \in [Requests -> Answer]
  BY <1>4 DEF Init, PC
<1> QED  BY <1>2, <1>3, <1>5, <1>6 DEF TypeOK

\* The fields of the row, of a request and of its snapshot.
LEMMA FieldTypes ==
  ASSUME TypeOK
  PROVE  /\ app.status \in LifecycleStatuses /\ app.version \in Nat
         /\ app.filedAt \in Nat /\ app.reference \in Nat
         /\ \A r \in Requests :
              /\ call[r] \in Call
              /\ call[r].by \in Callers /\ call[r].to \in LifecycleStatuses
              /\ call[r].key \in Keys \cup {NoKey}
              /\ snap[r].status \in LifecycleStatuses /\ snap[r].version \in Nat
<1>1. app \in Application /\ call \in [Requests -> Call]
      /\ snap \in [Requests -> Snapshot]
  BY DEF TypeOK
<1>2. /\ app.status \in LifecycleStatuses /\ app.version \in Nat
      /\ app.filedAt \in Nat /\ app.reference \in Nat
  BY <1>1 DEF Application
<1>3. ASSUME NEW r \in Requests
      PROVE  /\ call[r] \in Call
             /\ call[r].by \in Callers /\ call[r].to \in LifecycleStatuses
             /\ call[r].key \in Keys \cup {NoKey}
             /\ snap[r].status \in LifecycleStatuses /\ snap[r].version \in Nat
  <2>1. call[r] \in Call /\ snap[r] \in Snapshot
    BY <1>1
  <2> QED  BY <2>1 DEF Call, Snapshot
<1> QED  BY <1>2, <1>3

\* What a reply does to the request's own state keeps its types.
LEMMA ReplyType ==
  ASSUME TypeOK, NEW r \in Requests, NEW kind \in AnswerKind,
         NEW status \in LifecycleStatuses, NEW version \in Nat,
         Reply(r, kind, status, version)
  PROVE  /\ pc' \in [Requests -> PC] /\ call' \in [Requests -> Call]
         /\ snap' \in [Requests -> Snapshot] /\ answer' \in [Requests -> Answer]
  BY DEF Reply, TypeOK, PC, Snapshot, Answer, NoSnap, LifecycleStatuses

LEMMA RefuseType ==
  ASSUME TypeOK, NEW r \in Requests, NEW kind \in AnswerKind, Refuse(r, kind)
  PROVE  /\ pc' \in [Requests -> PC] /\ call' \in [Requests -> Call]
         /\ snap' \in [Requests -> Snapshot] /\ answer' \in [Requests -> Answer]
<1>1. "Draft" \in LifecycleStatuses
  BY DEF LifecycleStatuses
<1> QED  BY <1>1, ReplyType DEF Refuse

\* Sending a request keeps the types, and leaves it before its transaction.
LEMMA SendType ==
  ASSUME TypeOK, NEW r \in Requests, NEW c \in Call, Send(r, c)
  PROVE  TypeOK'
  BY DEF Send, TypeOK, world, PC, Answer, AnswerKind, NoAnswer, LifecycleStatuses

\* The moves appended, the notices and the letters have their types.
LEMMA EffectsType ==
  ASSUME TypeOK, NEW c \in Call, NEW from \in LifecycleStatuses,
         NEW version \in Nat, recordEvents(c, from), remember(c, version)
  PROVE  /\ audit' \in Seq(AuditEntry) /\ inbox' \in Seq(LifecycleStatuses)
         /\ keys' \subseteq Remembered /\ LettersAfter(c, from) \in Seq(Letter)
<1>1. audit' \in Seq(AuditEntry)
  BY DEF recordEvents, TypeOK, AuditEntry, Call
<1>2. inbox' \in Seq(LifecycleStatuses)
  BY DEF recordEvents, TypeOK, Call
<1>3. keys' \subseteq Remembered
  BY DEF remember, TypeOK, Remembered, Call
<1>4. LettersAfter(c, from) \in Seq(Letter)
  <2>1. letters \in Seq(Letter)
    BY DEF TypeOK
  <2>2. AllResolved \in Seq(Letter)
    <3>1. \A l \in 1..Len(letters) :
            [letters[l] EXCEPT !.resolved = TRUE] \in Letter
      <4>1. \A x \in Letter : [x EXCEPT !.resolved = TRUE] \in Letter
        BY DEF Letter
      <4>2. \A l \in 1..Len(letters) : letters[l] \in Letter
        BY <2>1, ElementOfSeq
      <4> HIDE DEF Letter
      <4> QED  BY <4>1, <4>2
    <3>2. Len(letters) \in Nat /\ DOMAIN letters = 1..Len(letters)
      BY <2>1, LenProperties
    <3> HIDE DEF Letter
    <3>3. AllResolved \in [1..Len(letters) -> Letter]
      BY <3>1, <3>2 DEF AllResolved
    <3> QED  BY <3>2, <3>3, SeqDef
  <2>3. issueLetter \in Seq(Letter)
    <3>1. /\ [closed |-> TRUE, resolved |-> TRUE] \in Letter
          /\ [closed |-> FALSE, resolved |-> FALSE] \in Letter
      BY DEF Letter
    <3> DEFINE closed == [l \in DOMAIN letters |-> [closed |-> TRUE, resolved |-> TRUE]]
    <3>2. closed \in Seq(Letter)
      <4>1. Len(letters) \in Nat /\ DOMAIN letters = 1..Len(letters)
        BY <2>1, LenProperties
      <4>2. closed \in [1..Len(letters) -> Letter]
        BY <3>1, <4>1
      <4> QED  BY <4>1, <4>2, SeqDef
    <3> HIDE DEF closed
    <3> QED  BY <3>1, <3>2, AppendProperties DEF issueLetter, closed
  <2> QED  BY <2>1, <2>2, <2>3 DEF LettersAfter
<1> QED  BY <1>1, <1>2, <1>3, <1>4

\* The write of a move keeps the types, whichever way its transaction ends.
LEMMA CommitType ==
  ASSUME TypeOK, NEW r \in Requests, Commit(r)
  PROVE  TypeOK'
<1> DEFINE c == call[r]
           from == snap[r].status
           next == snap[r].version + 1
<1>1. /\ lock' = NoRequest /\ UNCHANGED evidence
      /\ {"ok", "error", "stale-version"} \subseteq AnswerKind
  BY DEF Commit, AnswerKind
<1>2. CASE UNCHANGED world /\ (Refuse(r, "stale-version") \/ Refuse(r, "error"))
  BY <1>1, <1>2, RefuseType DEF TypeOK, world
<1>3. CASE /\ app' = [app EXCEPT
                !.status = c.to,
                !.version = @ + 1,
                !.suspended = pledgeSuspended(c.to),
                !.filedAt = IF @ = 0 THEN next ELSE @,
                !.reference = TakesNumber(c.to, @)]
           /\ timeline' = Append(timeline, [ from |-> app.status, to |-> c.to,
                                             by |-> c.by, key |-> c.key ])
           /\ letters' = LettersAfter(c, from)
           /\ recordEvents(c, from)
           /\ remember(c, next)
           /\ Reply(r, "ok", c.to, next)
  <2>1. /\ c \in Call /\ from \in LifecycleStatuses /\ next \in Nat
        /\ c.to \in LifecycleStatuses
    <3>1. /\ c \in Call /\ from \in LifecycleStatuses
          /\ c.to \in LifecycleStatuses /\ snap[r].version \in Nat
      BY FieldTypes
    <3> QED  BY <3>1
  <2>2. app' \in Application
    <3>1. pledgeSuspended(c.to) \in BOOLEAN
      BY DEF pledgeSuspended
    <3>2. TakesNumber(c.to, app.reference) \in Nat
      <4>1. app.reference \in Nat
        BY FieldTypes
      <4> QED  BY <4>1 DEF TakesNumber
    <3>3. app.version + 1 \in Nat /\ app.filedAt \in Nat
      BY FieldTypes
    <3>4. app \in Application
      BY DEF TypeOK
    <3> HIDE DEF c, from, next
    <3> QED  BY <1>3, <2>1, <3>1, <3>2, <3>3, <3>4 DEF Application
  <2>3. timeline' \in Seq(Move)
    <3>1. [ from |-> app.status, to |-> c.to, by |-> c.by, key |-> c.key ] \in Move
      BY <2>1 DEF TypeOK, Application, Move, Call
    <3> HIDE DEF c
    <3> QED  BY <1>3, <3>1, AppendProperties DEF TypeOK
  <2>4. /\ audit' \in Seq(AuditEntry) /\ inbox' \in Seq(LifecycleStatuses)
        /\ keys' \subseteq Remembered /\ letters' \in Seq(Letter)
    <3> HIDE DEF c, from, next
    <3> QED  BY <1>3, <2>1, EffectsType
  <2>5. /\ pc' \in [Requests -> PC] /\ call' \in [Requests -> Call]
        /\ snap' \in [Requests -> Snapshot] /\ answer' \in [Requests -> Answer]
    <3> HIDE DEF c, from, next
    <3> QED  BY <1>1, <1>3, <2>1, ReplyType
  <2> QED  BY <1>1, <2>2, <2>3, <2>4, <2>5 DEF TypeOK
<1> QED  BY <1>2, <1>3 DEF Commit

LEMMA TypeStep == TypeOK /\ [Next]_vars => TypeOK'
<1> SUFFICES ASSUME TypeOK, [Next]_vars PROVE TypeOK'
  OBVIOUS
<1>1. ASSUME NEW r \in Requests, Ask(r) PROVE TypeOK'
  <2>1. PICK account \in Callers, to \in LifecycleStatuses,
             key \in Keys \cup {NoKey}, expected \in {Unchecked, app.version} :
          Send(r, [ by |-> account, to |-> to, key |-> key,
                    expected |-> expected,
                    answering |-> /\ account = Owner /\ key # NoKey
                                  /\ to = "Under Evaluation",
                    letter |-> FALSE ])
    BY <1>1 DEF Ask
  <2>2. expected \in Nat
    <3>1. app.version \in Nat
      BY FieldTypes
    <3>2. Unchecked = 0
      BY DEF Unchecked
    <3> QED  BY <3>1, <3>2
  <2> DEFINE c == [ by |-> account, to |-> to, key |-> key,
                    expected |-> expected,
                    answering |-> /\ account = Owner /\ key # NoKey
                                  /\ to = "Under Evaluation",
                    letter |-> FALSE ]
  <2>3. c \in Call
    BY <2>2 DEF Call
  <2> QED  BY <2>1, <2>3, SendType
<1>2. ASSUME NEW r \in Requests, AnswerLetter(r) PROVE TypeOK'
  <2>1. PICK key \in Keys :
          Send(r, [ by |-> Owner, to |-> "Under Evaluation", key |-> key,
                    expected |-> Unchecked, answering |-> FALSE,
                    letter |-> TRUE ])
    BY <1>2 DEF AnswerLetter
  <2>2. [ by |-> Owner, to |-> "Under Evaluation", key |-> key,
          expected |-> Unchecked, answering |-> FALSE, letter |-> TRUE ] \in Call
    BY DEF Call, Callers, Unchecked, LifecycleStatuses
  <2> QED  BY <2>1, <2>2, SendType
<1>3. ASSUME NEW r \in Requests, NEW q \in Requests, Retry(r, q) PROVE TypeOK'
  <2>1. call[q] \in Call
    BY DEF TypeOK
  <2> QED  BY <1>3, <2>1, SendType DEF Retry
<1>4. ASSUME NEW r \in Requests, Respond(r) PROVE TypeOK'
  <2>1. UNCHANGED << app, timeline, inbox, keys, evidence, lock >>
    BY <1>4 DEF Respond
  <2>2. CASE letters[Len(letters)].resolved
    <3>1. Refuse(r, "nothing-open") /\ UNCHANGED << letters, audit >>
      BY <1>4, <2>2 DEF Respond
    <3>2. "nothing-open" \in AnswerKind
      BY DEF AnswerKind
    <3> QED  BY <2>1, <3>1, <3>2, RefuseType DEF TypeOK
  <2>3. CASE ~letters[Len(letters)].resolved
    <3>1. /\ letters' = [letters EXCEPT ![Len(letters)] =
                            [ closed |-> TRUE, resolved |-> TRUE ]]
          /\ audit' = Append(audit, [ action |-> "instruction.responded",
                                      to |-> app.status, by |-> Owner ])
          /\ pc' = [pc EXCEPT ![r] = "sent"]
          /\ UNCHANGED << call, snap, answer >>
      BY <1>4, <2>3 DEF Respond
    <3>2. letters' \in Seq(Letter)
      <4>1. [ closed |-> TRUE, resolved |-> TRUE ] \in Letter
        BY DEF Letter
      <4>2. /\ Len(letters) \in Nat /\ DOMAIN letters = 1..Len(letters)
            /\ letters \in [1..Len(letters) -> Letter]
        BY LenProperties DEF TypeOK
      <4> HIDE DEF Letter
      <4>3. letters' \in [1..Len(letters) -> Letter]
        <5> DEFINE answered == [ closed |-> TRUE, resolved |-> TRUE ]
        <5>1. answered \in Letter /\ letters' = [letters EXCEPT ![Len(letters)] = answered]
          BY <3>1, <4>1
        <5> HIDE DEF answered
        <5> QED  BY <4>2, <5>1
      <4> QED  BY <4>2, <4>3, SeqDef
    <3>3. audit' \in Seq(AuditEntry)
      <4>1. [ action |-> "instruction.responded",
              to |-> app.status, by |-> Owner ] \in AuditEntry
        <5>1. app.status \in LifecycleStatuses
          BY FieldTypes
        <5> QED  BY <5>1 DEF AuditEntry, Callers
      <4>2. audit \in Seq(AuditEntry)
        BY DEF TypeOK
      <4> HIDE DEF AuditEntry
      <4> QED  BY <3>1, <4>1, <4>2, AppendProperties
    <3> QED  BY <2>1, <3>1, <3>2, <3>3 DEF TypeOK, PC
  <2> QED  BY <2>2, <2>3
<1>5. ASSUME NEW r \in Requests, Lookup(r) PROVE TypeOK'
  <2>1. UNCHANGED << world, evidence, lock >>
    BY <1>5 DEF Lookup
  <2>2. CASE Seen(call[r]) = {}
    BY <1>5, <2>1, <2>2 DEF Lookup, TypeOK, world, PC
  <2>3. CASE Seen(call[r]) # {}
    <3>1. PICK k \in Seen(call[r]) :
            IF k.digest # call[r].to THEN Refuse(r, "reused")
                                     ELSE Reply(r, "ok", k.status, k.version)
      BY <1>5, <2>3 DEF Lookup
    <3>2. k.status \in LifecycleStatuses /\ k.version \in Nat
      BY DEF Seen, TypeOK, Remembered
    <3>3. {"reused", "ok"} \subseteq AnswerKind
      BY DEF AnswerKind
    <3>4. /\ pc' \in [Requests -> PC] /\ call' \in [Requests -> Call]
          /\ snap' \in [Requests -> Snapshot]
          /\ answer' \in [Requests -> Answer]
      <4>1. CASE k.digest # call[r].to
        BY <3>1, <3>3, <4>1, RefuseType
      <4>2. CASE k.digest = call[r].to
        BY <3>1, <3>2, <3>3, <4>2, ReplyType
      <4> QED  BY <4>1, <4>2
    <3> QED  BY <2>1, <3>4 DEF TypeOK, world
  <2> QED  BY <2>2, <2>3
<1>6. ASSUME NEW r \in Requests, Lock(r) PROVE TypeOK'
  <2>1. UNCHANGED << world, evidence >>
    BY <1>6 DEF Lock
  <2>2. CASE Verdict(call[r]) # "ok"
    <3>1. Refuse(r, Verdict(call[r])) /\ UNCHANGED lock
      BY <1>6, <2>2 DEF Lock
    <3> QED  BY <2>1, <3>1, RefuseType, VerdictType DEF TypeOK, world
  <2>3. CASE Verdict(call[r]) = "ok"
    <3>1. /\ lock' = r
          /\ pc' = [pc EXCEPT ![r] = "deciding"]
          /\ snap' = [snap EXCEPT ![r] = [ status |-> app.status,
                                           version |-> app.version ]]
          /\ UNCHANGED << call, answer >>
      BY <1>6, <2>3 DEF Lock
    <3>2. [ status |-> app.status, version |-> app.version ] \in Snapshot
      BY DEF TypeOK, Application, Snapshot
    <3> QED  BY <2>1, <3>1, <3>2 DEF TypeOK, world, PC
  <2> QED  BY <2>2, <2>3
<1>7. ASSUME NEW r \in Requests, Commit(r) PROVE TypeOK'
  BY <1>7, CommitType
<1>8. ASSUME NEW r \in Requests, Crash(r) PROVE TypeOK'
  <2>1. /\ lock' = IF lock = r THEN NoRequest ELSE lock
        /\ Refuse(r, "none") /\ UNCHANGED << world, evidence >>
    BY <1>8 DEF Crash
  <2>2. "none" \in AnswerKind
    BY DEF AnswerKind
  <2> QED  BY <2>1, <2>2, RefuseType DEF TypeOK, world
<1>9. ASSUME NEW o \in Officers, Archive(o) \/ Unarchive(o) PROVE TypeOK'
  <2>1. app \in Application /\ audit \in Seq(AuditEntry)
    BY DEF TypeOK
  <2>2. app' \in Application
    BY <1>9, <2>1 DEF Archive, Unarchive, Application
  <2>3. ASSUME NEW a \in {"application.archived", "application.restored"},
               Audited(a, o)
        PROVE  audit' \in Seq(AuditEntry)
    <3>1. [ action |-> a, to |-> app.status, by |-> o ] \in AuditEntry
      BY FieldTypes DEF AuditEntry, Callers
    <3> HIDE DEF AuditEntry
    <3> QED  BY <2>1, <2>3, <3>1, AppendProperties DEF Audited
  <2>4. audit' \in Seq(AuditEntry)
    BY <1>9, <2>3 DEF Archive, Unarchive
  <2> QED  BY <1>9, <2>2, <2>4 DEF Archive, Unarchive, TypeOK
<1>10. ASSUME NEW p \in Evidence, EvidenceArrives(p) \/ EvidenceLost(p)
       PROVE  TypeOK'
  BY <1>10 DEF EvidenceArrives, EvidenceLost, TypeOK, world
<1>11. CASE UNCHANGED vars
  BY <1>11 DEF vars, TypeOK
<1> QED
  BY <1>1, <1>2, <1>3, <1>4, <1>5, <1>6, <1>7, <1>8, <1>9, <1>10, <1>11
     DEF Next, Serve

-----------------------------------------------------------------------------
\* THE INDUCTIVE INVARIANT

LEMMA IInvInit == Init => IInv
<1> SUFFICES ASSUME Init PROVE IInv
  OBVIOUS
<1>1. timeline = << [ from |-> "none", to |-> InitialStatus, by |-> Owner,
                      key |-> NoKey ] >>
  BY DEF Init
<1>2. Len(timeline) = 1 /\ DOMAIN timeline = 1..1 /\ timeline # <<>>
      /\ timeline[1].to = InitialStatus /\ timeline[1].key = NoKey
  BY <1>1
<1>3. app.version = 1 /\ app.status = InitialStatus
  BY DEF Init
<1>4. TimelineIsAWalk
  BY <1>2, <1>3 DEF TimelineIsAWalk, Current
<1>5. DecidingOwnsTheRow
  <2>1. \A r \in Requests : pc[r] = "idle"
    BY DEF Init
  <2> QED  BY <2>1 DEF DecidingOwnsTheRow
<1>6. ReplaysAreTrue
  <2>1. keys = {}
    BY DEF Init
  <2> QED  BY <2>1 DEF ReplaysAreTrue
<1>7. KeyedMovesAreRemembered /\ OneMovePerKey
  BY <1>2 DEF KeyedMovesAreRemembered, OneMovePerKey
<1> QED  BY <1>2, <1>4, <1>5, <1>6, <1>7, TypeInit DEF IInv

\* Outside a commit the row, its timeline and the keys stand still.
LEMMA HistoryKept ==
  ASSUME IInv, timeline' = timeline, keys' = keys,
         app'.version = app.version, app'.status = app.status
  PROVE  /\ timeline' # <<>> /\ TimelineIsAWalk' /\ ReplaysAreTrue'
         /\ KeyedMovesAreRemembered' /\ OneMovePerKey'
<1>1. TimelineIsAWalk'
  BY DEF IInv, TimelineIsAWalk, Current
<1>2. ReplaysAreTrue'
  BY DEF IInv, ReplaysAreTrue
<1>3. KeyedMovesAreRemembered' /\ OneMovePerKey'
  BY DEF IInv, KeyedMovesAreRemembered, OneMovePerKey
<1> QED  BY <1>1, <1>2, <1>3 DEF IInv

\* A request that is not deciding afterwards disturbs no other that is.
LEMMA DecidingKept ==
  ASSUME DecidingOwnsTheRow, NEW r \in Requests,
         app'.version = app.version, app'.status = app.status,
         pc'[r] # "deciding", lock # r => lock' = lock,
         \A q \in Requests \ {r} :
           pc'[q] = pc[q] /\ snap'[q] = snap[q] /\ call'[q] = call[q]
  PROVE  DecidingOwnsTheRow'
<1> SUFFICES ASSUME NEW q \in Requests, pc'[q] = "deciding"
             PROVE  /\ lock' = q
                    /\ snap'[q].status = app'.status
                    /\ snap'[q].version = app'.version
                    /\ RuleFor(app'.status, call'[q].to) # {}
  BY DEF DecidingOwnsTheRow
<1>1. q \in Requests \ {r} /\ pc[q] = "deciding"
  OBVIOUS
<1>2. /\ lock = q /\ snap[q].status = app.status /\ snap[q].version = app.version
      /\ RuleFor(app.status, call[q].to) # {}
  BY <1>1 DEF DecidingOwnsTheRow
<1> QED  BY <1>1, <1>2

\* What a reply leaves alone: the other requests.
LEMMA ReplyKeepsOthers ==
  ASSUME TypeOK, NEW r \in Requests, NEW kind, NEW status, NEW version,
         Reply(r, kind, status, version)
  PROVE  /\ pc'[r] = "done"
         /\ \A q \in Requests \ {r} :
              pc'[q] = pc[q] /\ snap'[q] = snap[q] /\ call'[q] = call[q]
<1>1. /\ pc \in [Requests -> PC] /\ snap \in [Requests -> Snapshot]
  BY DEF TypeOK
<1> QED  BY <1>1 DEF Reply

LEMMA SendKeepsOthers ==
  ASSUME TypeOK, NEW r \in Requests, NEW c, Send(r, c)
  PROVE  /\ pc'[r] # "deciding"
         /\ \A q \in Requests \ {r} :
              pc'[q] = pc[q] /\ snap'[q] = snap[q] /\ call'[q] = call[q]
         /\ UNCHANGED << app, timeline, keys, lock >>
<1>1. /\ pc \in [Requests -> PC] /\ call \in [Requests -> Call]
  BY DEF TypeOK
<1> QED  BY <1>1 DEF Send, world

\* The move itself: what is appended, and what holds of the longer timeline.
LEMMA CommitStep ==
  ASSUME IInv, NEW r \in Requests, Commit(r)
  PROVE  /\ DecidingOwnsTheRow' /\ timeline' # <<>> /\ TimelineIsAWalk'
         /\ ReplaysAreTrue' /\ KeyedMovesAreRemembered' /\ OneMovePerKey'
<1> DEFINE c == call[r]
           m == [ from |-> app.status, to |-> c.to, by |-> c.by, key |-> c.key ]
           next == snap[r].version + 1
           n == Len(timeline)
           k0 == [ by |-> c.by, key |-> c.key, digest |-> c.to,
                   status |-> c.to, version |-> next ]
<1>1. /\ pc[r] = "deciding" /\ lock = r /\ lock' = NoRequest
      /\ snap[r].version = app.version /\ RuleFor(app.status, c.to) # {}
  BY DEF Commit, IInv, DecidingOwnsTheRow
<1>2. /\ TypeOK /\ timeline \in Seq(Move) /\ n \in Nat /\ n # 0
      /\ app.version = n /\ next = n + 1 /\ timeline[n].to = app.status
  <2>1. TypeOK /\ timeline # <<>> /\ TimelineIsAWalk
    BY DEF IInv
  <2>2. timeline \in Seq(Move)
    BY <2>1 DEF TypeOK
  <2>3. n \in Nat /\ n # 0
    BY <2>1, <2>2, EmptySeq
  <2> QED  BY <1>1, <2>1, <2>2, <2>3 DEF TimelineIsAWalk, Current
<1>3. \A q \in Requests \ {r} : pc[q] # "deciding"
  BY <1>1 DEF IInv, DecidingOwnsTheRow
<1>4. ASSUME NEW kind, NEW status, NEW version, Reply(r, kind, status, version)
      PROVE  DecidingOwnsTheRow'
  BY <1>2, <1>3, <1>4, ReplyKeepsOthers DEF DecidingOwnsTheRow
<1>5. CASE UNCHANGED world /\ (Refuse(r, "stale-version") \/ Refuse(r, "error"))
  <2>1. DecidingOwnsTheRow'
    BY <1>4, <1>5 DEF Refuse
  <2>2. UNCHANGED << app, timeline, keys >>
    BY <1>5 DEF world
  <2> QED  BY <2>1, <2>2, HistoryKept
<1>6. CASE /\ ~(c.key # NoKey /\ Seen(c) # {})
           /\ app'.status = c.to /\ app'.version = app.version + 1
           /\ timeline' = Append(timeline, m)
           /\ remember(c, next)
           /\ Reply(r, "ok", c.to, next)
  <2>1. DecidingOwnsTheRow'
    BY <1>4, <1>6
  <2>2. /\ Len(timeline') = n + 1 /\ DOMAIN timeline = 1..n
        /\ DOMAIN timeline' = 1..(n + 1)
        /\ timeline'[n + 1] = m
        /\ \A i \in 1..n : timeline'[i] = timeline[i]
    <3> HIDE DEF m
    <3> QED  BY <1>2, <1>6, AppendProperties
  <2>3. m.from = app.status /\ m.to = c.to /\ m.by = c.by /\ m.key = c.key
    OBVIOUS
  <2> HIDE DEF m
  <2>4. TimelineIsAWalk'
    <3>1. app'.version = Len(timeline')
      BY <1>2, <1>6, <2>2
    <3>2. Current'.to = app'.status
      BY <1>6, <2>2, <2>3 DEF Current
    <3>3. ASSUME NEW i \in 2..Len(timeline')
          PROVE  /\ timeline'[i].from = timeline'[i - 1].to
                 /\ RuleFor(timeline'[i].from, timeline'[i].to) # {}
      <4>1. CASE i = n + 1
        <5>1. i - 1 = n /\ timeline'[i - 1] = timeline[n]
          BY <1>2, <2>2, <4>1
        <5> QED  BY <1>1, <1>2, <2>2, <2>3, <4>1, <5>1
      <4>2. CASE i # n + 1
        <5>1. i \in 2..n /\ timeline'[i] = timeline[i]
              /\ timeline'[i - 1] = timeline[i - 1]
          BY <1>2, <2>2, <4>2
        <5> QED  BY <5>1 DEF IInv, TimelineIsAWalk
      <4> QED  BY <4>1, <4>2
    <3> QED  BY <3>1, <3>2, <3>3 DEF TimelineIsAWalk
  <2>5. /\ keys \subseteq keys' /\ keys' \subseteq keys \cup {k0}
        /\ c.key # NoKey => k0 \in keys'
    BY <1>6 DEF remember
  <2>6. /\ k0.by = c.by /\ k0.key = c.key /\ k0.digest = c.to
        /\ k0.status = c.to /\ k0.version = n + 1
    BY <1>2
  <2> HIDE DEF k0
  <2>7. ReplaysAreTrue'
    <3> SUFFICES ASSUME NEW k \in keys'
                 PROVE  /\ k.version \in 2..Len(timeline')
                        /\ timeline'[k.version].by = k.by
                        /\ timeline'[k.version].key = k.key
                        /\ timeline'[k.version].to = k.status
                        /\ k.digest = k.status
      BY DEF ReplaysAreTrue
    <3>1. CASE k \in keys
      <4>1. /\ k.version \in 2..n
            /\ timeline[k.version].by = k.by /\ timeline[k.version].key = k.key
            /\ timeline[k.version].to = k.status /\ k.digest = k.status
        BY <3>1 DEF IInv, ReplaysAreTrue
      <4>2. k.version \in 1..n /\ k.version \in 2..(n + 1)
        BY <1>2, <4>1
      <4> QED  BY <2>2, <4>1, <4>2
    <3>2. CASE k = k0
      BY <1>2, <2>2, <2>3, <2>6, <3>2
    <3> QED  BY <2>5, <3>1, <3>2
  <2>8. KeyedMovesAreRemembered'
    <3> SUFFICES ASSUME NEW i \in 1..(n + 1), timeline'[i].key # NoKey
                 PROVE  \E k \in keys' : /\ k.by = timeline'[i].by
                                         /\ k.key = timeline'[i].key
      BY <2>2 DEF KeyedMovesAreRemembered
    <3>1. CASE i = n + 1
      BY <2>2, <2>3, <2>5, <2>6, <3>1
    <3>2. CASE i # n + 1
      <4>1. i \in 1..n /\ timeline'[i] = timeline[i]
        BY <1>2, <2>2, <3>2
      <4> QED  BY <2>2, <2>5, <4>1 DEF IInv, KeyedMovesAreRemembered
    <3> QED  BY <3>1, <3>2
  <2>9. OneMovePerKey'
    <3>1. ASSUME NEW i \in 1..n, timeline[i].key # NoKey,
                 timeline[i].key = c.key, timeline[i].by = c.by
          PROVE  FALSE
      <4>1. PICK k \in keys : k.by = c.by /\ k.key = c.key
        BY <2>2, <3>1 DEF IInv, KeyedMovesAreRemembered
      <4> QED  BY <1>6, <3>1, <4>1 DEF Seen
    <3>2. ASSUME NEW i \in 1..(n + 1), NEW j \in 1..(n + 1),
                 timeline'[i].key # NoKey, timeline'[i].key = timeline'[j].key,
                 timeline'[i].by = timeline'[j].by
          PROVE  i = j
      <4>1. CASE i \in 1..n /\ j \in 1..n
        BY <2>2, <3>2, <4>1 DEF IInv, OneMovePerKey
      <4>2. CASE i \in 1..n /\ j = n + 1
        BY <2>2, <2>3, <3>1, <3>2, <4>2
      <4>3. CASE j \in 1..n /\ i = n + 1
        BY <2>2, <2>3, <3>1, <3>2, <4>3
      <4> QED  BY <1>2, <4>1, <4>2, <4>3
    <3> QED  BY <2>2, <3>2 DEF OneMovePerKey
  <2>10. timeline' # <<>>
    BY <1>2, <2>2, EmptySeq
  <2> QED  BY <2>1, <2>4, <2>7, <2>8, <2>9, <2>10
<1>7. /\ app.status \in LifecycleStatuses
      /\ app \in Application
  BY <1>2, FieldTypes DEF TypeOK
<1>8. CASE /\ ~(c.key # NoKey /\ Seen(c) # {})
           /\ app' = [app EXCEPT
                !.status = c.to,
                !.version = @ + 1,
                !.suspended = pledgeSuspended(c.to),
                !.filedAt = IF @ = 0 THEN next ELSE @,
                !.reference = TakesNumber(c.to, @)]
           /\ timeline' = Append(timeline, m)
           /\ remember(c, next)
           /\ Reply(r, "ok", c.to, next)
  <2>1. app'.status = c.to /\ app'.version = app.version + 1
    <3> HIDE DEF c, next
    <3> QED  BY <1>7, <1>8 DEF Application
  <2> QED  BY <1>6, <1>8, <2>1
<1> QED  BY <1>1, <1>5, <1>8 DEF Commit

LEMMA IInvStep == IInv /\ [Next]_vars => IInv'
<1> SUFFICES ASSUME IInv, [Next]_vars PROVE IInv'
  OBVIOUS
<1>1. TypeOK /\ TypeOK' /\ DecidingOwnsTheRow
  BY TypeStep DEF IInv
<1> SUFFICES /\ DecidingOwnsTheRow' /\ timeline' # <<>> /\ TimelineIsAWalk'
             /\ ReplaysAreTrue' /\ KeyedMovesAreRemembered' /\ OneMovePerKey'
  BY <1>1 DEF IInv
<1>2. ASSUME NEW r \in Requests, NEW c, Send(r, c)
      PROVE  /\ DecidingOwnsTheRow' /\ timeline' # <<>> /\ TimelineIsAWalk'
             /\ ReplaysAreTrue' /\ KeyedMovesAreRemembered' /\ OneMovePerKey'
  BY <1>1, <1>2, SendKeepsOthers, DecidingKept, HistoryKept
<1>3. ASSUME NEW r \in Requests, Ask(r) \/ AnswerLetter(r)
      PROVE  \E c : Send(r, c)
  BY <1>3 DEF Ask, AnswerLetter
<1>4. ASSUME NEW r \in Requests, NEW q \in Requests, Retry(r, q)
      PROVE  \E c : Send(r, c)
  BY <1>4 DEF Retry
<1>5. ASSUME NEW r \in Requests, Respond(r) \/ Lookup(r)
      PROVE  /\ DecidingOwnsTheRow' /\ timeline' # <<>> /\ TimelineIsAWalk'
             /\ ReplaysAreTrue' /\ KeyedMovesAreRemembered' /\ OneMovePerKey'
  <2>1. UNCHANGED << app, timeline, keys, lock >>
    BY <1>5 DEF Respond, Lookup, world
  <2>2. CASE \E kind, status, version : Reply(r, kind, status, version)
    BY <1>1, <2>1, <2>2, ReplyKeepsOthers, DecidingKept, HistoryKept
  <2>3. CASE /\ \/ pc' = [pc EXCEPT ![r] = "sent"]
                \/ pc' = [pc EXCEPT ![r] = "fresh"]
             /\ UNCHANGED << call, snap >>
    <3>1. /\ pc'[r] # "deciding"
          /\ \A q \in Requests \ {r} :
               pc'[q] = pc[q] /\ snap'[q] = snap[q] /\ call'[q] = call[q]
      BY <1>1, <2>3 DEF TypeOK
    <3> QED  BY <1>1, <2>1, <3>1, DecidingKept, HistoryKept
  <2>4. Respond(r) \/ Lookup(r)
    BY <1>5
  <2>5. CASE Respond(r)
    BY <2>2, <2>3, <2>5 DEF Respond, Refuse
  <2>6. CASE Lookup(r)
    BY <2>2, <2>3, <2>6 DEF Lookup, Refuse
  <2> QED  BY <2>4, <2>5, <2>6
<1>6. ASSUME NEW r \in Requests, Lock(r)
      PROVE  /\ DecidingOwnsTheRow' /\ timeline' # <<>> /\ TimelineIsAWalk'
             /\ ReplaysAreTrue' /\ KeyedMovesAreRemembered' /\ OneMovePerKey'
  <2>1. UNCHANGED << app, timeline, keys >> /\ lock = NoRequest
    BY <1>6 DEF Lock, world
  <2>2. CASE Verdict(call[r]) # "ok"
    <3>1. Refuse(r, Verdict(call[r])) /\ UNCHANGED lock
      BY <1>6, <2>2 DEF Lock
    <3> QED  BY <1>1, <2>1, <3>1, ReplyKeepsOthers, DecidingKept, HistoryKept
             DEF Refuse
  <2>3. CASE Verdict(call[r]) = "ok"
    <3>1. /\ lock' = r
          /\ pc' = [pc EXCEPT ![r] = "deciding"]
          /\ snap' = [snap EXCEPT ![r] = [ status |-> app.status,
                                           version |-> app.version ]]
          /\ UNCHANGED call
      BY <1>6, <2>3 DEF Lock
    <3>2. RuleFor(app.status, call[r].to) # {}
      BY <2>3, AllowedMovesAreListed
    <3>3. \A q \in Requests : pc[q] # "deciding"
      BY <1>1, <2>1, LifecycleAssumption DEF DecidingOwnsTheRow
    <3>4. snap'[r].status = app.status /\ snap'[r].version = app.version
          /\ \A q \in Requests \ {r} : pc'[q] # "deciding"
      BY <1>1, <3>1, <3>3 DEF TypeOK
    <3>5. DecidingOwnsTheRow'
      BY <2>1, <3>1, <3>2, <3>4 DEF DecidingOwnsTheRow
    <3> QED  BY <2>1, <3>5, HistoryKept
  <2> QED  BY <2>2, <2>3
<1>7. ASSUME NEW r \in Requests, Crash(r)
      PROVE  /\ DecidingOwnsTheRow' /\ timeline' # <<>> /\ TimelineIsAWalk'
             /\ ReplaysAreTrue' /\ KeyedMovesAreRemembered' /\ OneMovePerKey'
  <2>1. /\ UNCHANGED << app, timeline, keys >> /\ Reply(r, "none", "Draft", 0)
        /\ lock # r => lock' = lock
    BY <1>7 DEF Crash, Refuse, world
  <2> QED  BY <1>1, <2>1, ReplyKeepsOthers, DecidingKept, HistoryKept
<1>8. ASSUME NEW o \in Officers, Archive(o) \/ Unarchive(o)
      PROVE  /\ DecidingOwnsTheRow' /\ timeline' # <<>> /\ TimelineIsAWalk'
             /\ ReplaysAreTrue' /\ KeyedMovesAreRemembered' /\ OneMovePerKey'
  <2>1. /\ lock = NoRequest /\ UNCHANGED << timeline, keys, pc, lock >>
        /\ app'.status = app.status /\ app'.version = app.version
    <3>1. app \in Application
      BY <1>1 DEF TypeOK
    <3> QED  BY <1>8, <3>1 DEF Archive, Unarchive, Application
  <2>2. \A q \in Requests : pc'[q] # "deciding"
    BY <1>1, <2>1, LifecycleAssumption DEF DecidingOwnsTheRow
  <2> QED  BY <2>1, <2>2, HistoryKept DEF DecidingOwnsTheRow
<1>9. CASE \/ \E p \in Evidence : EvidenceArrives(p) \/ EvidenceLost(p)
           \/ UNCHANGED vars
  <2>1. UNCHANGED << app, timeline, keys, lock, pc, snap, call >>
    BY <1>9 DEF EvidenceArrives, EvidenceLost, vars, world
  <2>2. DecidingOwnsTheRow'
    BY <1>1, <2>1 DEF DecidingOwnsTheRow
  <2> QED  BY <2>1, <2>2, HistoryKept
<1> QED
  BY <1>2, <1>3, <1>4, <1>5, <1>6, <1>7, <1>8, <1>9, CommitStep DEF Next, Serve

-----------------------------------------------------------------------------
\* WHAT A MOVE LEAVES BEHIND: audit entries, notices and letters

\* Only the office asks for a return, because the table gives it to nobody else.
ReturnsAreTheOffices ==
  \A r \in Requests :
    pc[r] = "deciding" /\ call[r].to = "Revision Required" => call[r].by \in Officers

Traces == ReturnsAreTheOffices /\ MovesAreTold /\ OneLetterWaiting

\* The places of the members of a set of numbers up to n, and of the same set
\* with n + 1.
LEMMA PlaceOfLonger ==
  ASSUME NEW n \in Nat, NEW S \in SUBSET (1..n)
  PROVE  /\ Cardinality(S) \in Nat
         /\ Cardinality(S \cup {n + 1}) = Cardinality(S) + 1
         /\ \A i \in S : /\ Place(S, i) \in 1..Cardinality(S)
                         /\ Place(S \cup {n + 1}, i) = Place(S, i)
         /\ Place(S \cup {n + 1}, n + 1) = Cardinality(S) + 1
<1>1. IsFiniteSet(S) /\ Cardinality(S) \in Nat
  <2>1. IsFiniteSet(1..n)
    BY FS_Interval
  <2> QED  BY <2>1, FS_Subset, FS_CardinalityType
<1>2. n + 1 \notin S /\ \A j \in S : j \in 1..n
  OBVIOUS
<1>3. Cardinality(S \cup {n + 1}) = Cardinality(S) + 1
  BY <1>1, <1>2, FS_AddElement
<1>4. ASSUME NEW i \in S
      PROVE  /\ Place(S, i) \in 1..Cardinality(S)
             /\ Place(S \cup {n + 1}, i) = Place(S, i)
  <2> DEFINE P == {j \in S : j <= i}
  <2>1. P \in SUBSET S /\ i \in P
    OBVIOUS
  <2>2. IsFiniteSet(P) /\ Cardinality(P) <= Cardinality(S) /\ Cardinality(P) \in Nat
    BY <1>1, <2>1, FS_Subset, FS_CardinalityType
  <2>3. Cardinality(P) # 0
    BY <2>1, <2>2, FS_EmptySet
  <2>4. {j \in S \cup {n + 1} : j <= i} = P
    <3>1. ~(n + 1 <= i)
      BY <1>2
    <3> QED  BY <3>1
  <2>5. Place(S, i) = Cardinality(P) /\ Place(S \cup {n + 1}, i) = Cardinality(P)
    BY <2>4 DEF Place
  <2> HIDE DEF P
  <2> QED  BY <1>1, <2>2, <2>3, <2>5
<1>5. {j \in S \cup {n + 1} : j <= n + 1} = S \cup {n + 1}
  <2>1. \A j \in S \cup {n + 1} : j <= n + 1
    BY <1>2
  <2> QED  BY <2>1
<1> QED  BY <1>1, <1>3, <1>4, <1>5 DEF Place

\* The move of a request: everything it writes, at once.
Moved(r) ==
  LET c == call[r]
      m == [ from |-> app.status, to |-> c.to, by |-> c.by, key |-> c.key ]
  IN  /\ pc[r] = "deciding"
      /\ timeline' = Append(timeline, m)
      /\ letters' = LettersAfter(c, app.status)
      /\ recordEvents(c, app.status)

\* The newest letter is answered.
LetterAnswered ==
  letters' = [letters EXCEPT ![Len(letters)] = [ closed |-> TRUE, resolved |-> TRUE ]]

\* An entry of the audit trail that is not of a move, and what it comes with.
Noted ==
  /\ UNCHANGED << timeline, inbox >>
  /\ \E e \in AuditEntry :
       e.action # "application.transitioned" /\ audit' = Append(audit, e)
  /\ UNCHANGED letters \/ LetterAnswered

\* Every step moves the application, notes something else, or leaves its traces.
LEMMA StepsTraced ==
  ASSUME IInv, [Next]_vars
  PROVE  \/ \E r \in Requests : Moved(r)
         \/ Noted
         \/ UNCHANGED << timeline, audit, inbox, letters >>
<1>1. TypeOK /\ DecidingOwnsTheRow
  BY DEF IInv
<1>2. ASSUME NEW r \in Requests, Ask(r) \/ AnswerLetter(r)
      PROVE  UNCHANGED << timeline, audit, inbox, letters >>
  BY <1>2 DEF Ask, AnswerLetter, Send, world
<1>3. ASSUME NEW r \in Requests, NEW q \in Requests, Retry(r, q)
      PROVE  UNCHANGED << timeline, audit, inbox, letters >>
  BY <1>3 DEF Retry, Send, world
<1>4. ASSUME NEW r \in Requests, Lookup(r) \/ Lock(r) \/ Crash(r)
      PROVE  UNCHANGED << timeline, audit, inbox, letters >>
  BY <1>4 DEF Lookup, Lock, Crash, world
<1>5. ASSUME NEW r \in Requests, Respond(r)
      PROVE  Noted \/ UNCHANGED << timeline, audit, inbox, letters >>
  <2>1. UNCHANGED << timeline, inbox >>
    BY <1>5 DEF Respond
  <2>2. CASE letters[Len(letters)].resolved
    BY <1>5, <2>1, <2>2 DEF Respond
  <2>3. CASE ~letters[Len(letters)].resolved
    <3> DEFINE e == [ action |-> "instruction.responded",
                      to |-> app.status, by |-> Owner ]
    <3>1. audit' = Append(audit, e) /\ LetterAnswered
      BY <1>5, <2>3 DEF Respond, LetterAnswered
    <3>2. e \in AuditEntry /\ e.action # "application.transitioned"
      BY <1>1, FieldTypes DEF AuditEntry, Callers
    <3> HIDE DEF e
    <3> QED  BY <2>1, <3>1, <3>2 DEF Noted
  <2> QED  BY <2>2, <2>3
<1>6. ASSUME NEW r \in Requests, Commit(r)
      PROVE  Moved(r) \/ UNCHANGED << timeline, audit, inbox, letters >>
  <2>1. pc[r] = "deciding" /\ snap[r].status = app.status
    BY <1>1, <1>6 DEF Commit, DecidingOwnsTheRow
  <2>2. CASE UNCHANGED world
    BY <2>2 DEF world
  <2>3. CASE /\ timeline' = Append(timeline, [ from |-> app.status, to |-> call[r].to,
                                               by |-> call[r].by, key |-> call[r].key ])
             /\ letters' = LettersAfter(call[r], snap[r].status)
             /\ recordEvents(call[r], snap[r].status)
    BY <2>1, <2>3 DEF Moved
  <2> QED  BY <1>6, <2>2, <2>3 DEF Commit
<1>7. ASSUME NEW o \in Officers, Archive(o) \/ Unarchive(o)
      PROVE  Noted
  <2>1. ASSUME NEW a \in {"application.archived", "application.restored"}, Audited(a, o)
        PROVE  \E e \in AuditEntry :
                 e.action # "application.transitioned" /\ audit' = Append(audit, e)
    <3> DEFINE e == [ action |-> a, to |-> app.status, by |-> o ]
    <3>1. e \in AuditEntry /\ e.action # "application.transitioned"
      BY <1>1, FieldTypes DEF AuditEntry, Callers
    <3>2. audit' = Append(audit, e)
      BY <2>1 DEF Audited
    <3> HIDE DEF e
    <3> QED  BY <3>1, <3>2
  <2>2. UNCHANGED << timeline, inbox, letters >>
    BY <1>7 DEF Archive, Unarchive
  <2>3. Audited("application.archived", o) \/ Audited("application.restored", o)
    BY <1>7 DEF Archive, Unarchive
  <2> QED  BY <2>1, <2>2, <2>3 DEF Noted
<1>8. CASE (\E p \in Evidence : EvidenceArrives(p) \/ EvidenceLost(p)) \/ UNCHANGED vars
  BY <1>8 DEF EvidenceArrives, EvidenceLost, vars, world
<1> QED
  BY <1>2, <1>3, <1>4, <1>5, <1>6, <1>7, <1>8 DEF Next, Serve

\* A request found deciding after a step was deciding, or has just been allowed.
LEMMA DecidersAllowed ==
  ASSUME TypeOK, [Next]_vars, NEW q \in Requests, pc'[q] = "deciding"
  PROVE  call'[q] = call[q] /\ (pc[q] = "deciding" \/ Verdict(call[q]) = "ok")
<1>1. /\ pc \in [Requests -> PC] /\ call \in [Requests -> Call]
  BY DEF TypeOK
<1>2. ASSUME NEW r \in Requests, NEW c, Send(r, c)
      PROVE  call'[q] = call[q] /\ pc[q] = "deciding"
  BY <1>1, <1>2, SendKeepsOthers
<1>3. ASSUME NEW r \in Requests, NEW kind, NEW status, NEW version,
             Reply(r, kind, status, version)
      PROVE  call'[q] = call[q] /\ pc[q] = "deciding"
  BY <1>3, ReplyKeepsOthers
<1>4. ASSUME NEW r \in Requests, Ask(r) \/ AnswerLetter(r) \/ \E p \in Requests : Retry(r, p)
      PROVE  call'[q] = call[q] /\ pc[q] = "deciding"
  BY <1>2, <1>4 DEF Ask, AnswerLetter, Retry
<1>5. ASSUME NEW r \in Requests, Respond(r)
      PROVE  call'[q] = call[q] /\ pc[q] = "deciding"
  BY <1>1, <1>3, <1>5 DEF Respond, Refuse
<1>6. ASSUME NEW r \in Requests, Lookup(r)
      PROVE  call'[q] = call[q] /\ pc[q] = "deciding"
  BY <1>1, <1>3, <1>6 DEF Lookup, Refuse
<1>7. ASSUME NEW r \in Requests, Lock(r)
      PROVE  call'[q] = call[q] /\ (pc[q] = "deciding" \/ Verdict(call[q]) = "ok")
  <2>1. CASE Verdict(call[r]) # "ok"
    BY <1>3, <1>7, <2>1 DEF Lock, Refuse
  <2>2. CASE Verdict(call[r]) = "ok"
    <3>1. pc' = [pc EXCEPT ![r] = "deciding"] /\ UNCHANGED call
      BY <1>7, <2>2 DEF Lock
    <3> QED  BY <1>1, <2>2, <3>1
  <2> QED  BY <2>1, <2>2
<1>8. ASSUME NEW r \in Requests, Commit(r) \/ Crash(r)
      PROVE  call'[q] = call[q] /\ pc[q] = "deciding"
  <2>1. CASE Commit(r)
    BY <1>3, <2>1 DEF Commit, Refuse
  <2>2. CASE Crash(r)
    BY <1>3, <2>2 DEF Crash, Refuse
  <2> QED  BY <1>8, <2>1, <2>2
<1>9. CASE \/ \E o \in Officers : Archive(o) \/ Unarchive(o)
           \/ \E p \in Evidence : EvidenceArrives(p) \/ EvidenceLost(p)
           \/ UNCHANGED vars
  BY <1>9 DEF Archive, Unarchive, EvidenceArrives, EvidenceLost, vars
<1> QED
  BY <1>4, <1>5, <1>6, <1>7, <1>8, <1>9 DEF Next, Serve

\* What the audit trail and the inbox tell of a timeline that stands still.
LEMMA ToldKept ==
  ASSUME TypeOK, MovesAreTold, UNCHANGED << timeline, inbox >>,
         \/ UNCHANGED audit
         \/ \E e \in AuditEntry :
              e.action # "application.transitioned" /\ audit' = Append(audit, e)
  PROVE  MovesAreTold'
<1>1. MovesAnnounced' = MovesAnnounced
  BY DEF MovesAnnounced
<1>2. audit \in Seq(AuditEntry) /\ Len(audit) \in Nat /\ DOMAIN audit = 1..Len(audit)
  <2>1. audit \in Seq(AuditEntry)
    BY DEF TypeOK
  <2> QED  BY <2>1, LenProperties
<1>3. /\ TransitionsAudited' = TransitionsAudited
      /\ \A i \in TransitionsAudited : audit'[i] = audit[i]
  <2>1. CASE UNCHANGED audit
    BY <2>1 DEF TransitionsAudited
  <2>2. ASSUME NEW e \in AuditEntry, e.action # "application.transitioned",
               audit' = Append(audit, e)
        PROVE  /\ TransitionsAudited' = TransitionsAudited
               /\ \A i \in TransitionsAudited : audit'[i] = audit[i]
    <3>1. /\ DOMAIN audit' = 1..(Len(audit) + 1)
          /\ audit'[Len(audit) + 1] = e
          /\ \A i \in 1..Len(audit) : audit'[i] = audit[i]
      <4>1. /\ audit \in Seq(AuditEntry) /\ e \in AuditEntry
            /\ audit' = Append(audit, e)
        BY <1>2, <2>2
      <4> QED  BY <4>1, AppendProperties
    <3>2. \A i : i \in DOMAIN audit' <=> i \in DOMAIN audit \/ i = Len(audit) + 1
      BY <1>2, <3>1
    <3> QED  BY <1>2, <2>2, <3>1, <3>2 DEF TransitionsAudited
  <2> QED  BY <2>1, <2>2
<1>4. \A i \in TransitionsAudited :
        Said(1 + Place(TransitionsAudited, i))'
          = Said(1 + Place(TransitionsAudited, i))
  BY <1>3 DEF Said, Place
<1> QED  BY <1>1, <1>3, <1>4 DEF MovesAreTold

\* A move is told: its audit entry, and its notice when the table names one.
LEMMA ToldOfMove ==
  ASSUME IInv, MovesAreTold, NEW r \in Requests, Moved(r)
  PROVE  MovesAreTold'
<1> DEFINE c == call[r]
           m == [ from |-> app.status, to |-> c.to, by |-> c.by, key |-> c.key ]
           e == [ action |-> "application.transitioned", to |-> c.to, by |-> c.by ]
           n == Len(timeline)
           a == Len(audit)
           A == TransitionsAudited
           T == MovesAnnounced
<1>1. /\ timeline \in Seq(Move) /\ n \in Nat /\ n # 0 /\ DOMAIN timeline = 1..n
      /\ audit \in Seq(AuditEntry) /\ a \in Nat /\ DOMAIN audit = 1..a
      /\ inbox \in Seq(LifecycleStatuses) /\ Len(inbox) \in Nat
  <2>1. /\ timeline \in Seq(Move) /\ timeline # <<>>
        /\ audit \in Seq(AuditEntry) /\ inbox \in Seq(LifecycleStatuses)
    BY DEF IInv, TypeOK
  <2> QED  BY <2>1, EmptySeq, LenProperties
<1>2. /\ m \in Move /\ m.from = app.status /\ m.to = c.to /\ m.by = c.by
      /\ e \in AuditEntry /\ e.action = "application.transitioned"
      /\ e.to = c.to /\ e.by = c.by /\ c.to \in LifecycleStatuses
  BY FieldTypes DEF IInv, Move, AuditEntry
<1>3. /\ timeline' = Append(timeline, m) /\ audit' = Append(audit, e)
      /\ inbox' = IF Announces(m.from, m.to) THEN Append(inbox, c.to) ELSE inbox
  BY DEF Moved, recordEvents
<1> HIDE DEF c, m, e
<1>4. /\ Len(timeline') = n + 1
      /\ timeline'[n + 1] = m /\ \A i \in 1..n : timeline'[i] = timeline[i]
      /\ DOMAIN audit' = 1..(a + 1)
      /\ audit'[a + 1] = e /\ \A i \in 1..a : audit'[i] = audit[i]
  BY <1>1, <1>2, <1>3, AppendProperties
<1>5. A \in SUBSET (1..a) /\ T \in SUBSET (1..n)
  BY <1>1 DEF TransitionsAudited, MovesAnnounced
<1>6. A' = A \cup {a + 1}
  <2>1. \A i : i \in DOMAIN audit' <=> i \in DOMAIN audit \/ i = a + 1
    BY <1>1, <1>4
  <2> QED  BY <1>1, <1>2, <1>4, <2>1 DEF TransitionsAudited
<1>7. T' = IF Announces(m.from, m.to) THEN T \cup {n + 1} ELSE T
  <2>1. \A i : i \in 2..Len(timeline') <=> i \in 2..n \/ i = n + 1
    BY <1>1, <1>4
  <2>2. \A i \in 2..n : timeline'[i] = timeline[i]
    BY <1>1, <1>4
  <2> QED  BY <1>4, <2>1, <2>2 DEF MovesAnnounced
<1>8. /\ Cardinality(A) = n - 1 /\ Len(inbox) = Cardinality(T)
      /\ \A i \in A : audit[i] = Said(1 + Place(A, i))
      /\ \A i \in T : inbox[Place(T, i)] = timeline[i].to
  BY DEF MovesAreTold
<1> HIDE DEF A, T
<1>9. /\ Cardinality(A') = Cardinality(A) + 1
      /\ \A i \in A : /\ Place(A, i) \in 1..Cardinality(A)
                     /\ Place(A', i) = Place(A, i)
      /\ Place(A', a + 1) = Cardinality(A) + 1
  <2>1. a \in Nat /\ A \in SUBSET (1..a)
    BY <1>1, <1>5
  <2> QED  BY <1>6, <2>1, PlaceOfLonger
<1>10. Cardinality(A') = Len(timeline') - 1
  BY <1>1, <1>4, <1>8, <1>9
<1>11. ASSUME NEW i \in A'
       PROVE  audit'[i] = Said(1 + Place(A, i))'
  <2>1. CASE i = a + 1
    <3>1. 1 + Place(A', i) = n + 1
      <4>1. Place(A', i) = Cardinality(A) + 1
        BY <1>9, <2>1
      <4> QED  BY <1>1, <1>8, <4>1
    <3>2. Said(1 + Place(A, i))'
            = [ action |-> "application.transitioned",
                to |-> timeline'[n + 1].to, by |-> timeline'[n + 1].by ]
      BY <3>1 DEF Said
    <3> QED  BY <1>2, <1>4, <2>1, <3>2 DEF e
  <2>2. CASE i # a + 1
    <3>1. i \in A /\ i \in 1..a /\ audit[i] = Said(1 + Place(A, i))
      BY <1>5, <1>6, <1>8, <2>2
    <3>2. Place(A', i) = Place(A, i) /\ 1 + Place(A, i) \in 1..n
      BY <1>1, <1>8, <1>9, <3>1
    <3>3. Said(1 + Place(A, i))' = Said(1 + Place(A, i))
      BY <1>4, <3>2 DEF Said
    <3> QED  BY <1>4, <3>1, <3>3
  <2> QED  BY <2>1, <2>2
<1>12. /\ Len(inbox') = Cardinality(T')
       /\ \A i \in T' : inbox'[Place(T', i)] = timeline'[i].to
  <2>1. CASE ~Announces(m.from, m.to)
    <3>1. T' = T /\ inbox' = inbox
      BY <1>3, <1>7, <2>1
    <3> QED  BY <1>4, <1>5, <1>8, <3>1
  <2>2. CASE Announces(m.from, m.to)
    <3>1. T' = T \cup {n + 1} /\ inbox' = Append(inbox, c.to)
      BY <1>3, <1>7, <2>2
    <3>2. /\ Len(inbox') = Len(inbox) + 1 /\ inbox'[Len(inbox) + 1] = c.to
          /\ \A k \in 1..Len(inbox) : inbox'[k] = inbox[k]
      BY <1>1, <1>2, <3>1, AppendProperties
    <3>3. Len(inbox') = Cardinality(T')
      BY <1>1, <1>5, <1>8, <3>1, <3>2, PlaceOfLonger
    <3>4. ASSUME NEW i \in T'
          PROVE  inbox'[Place(T', i)] = timeline'[i].to
      <4>1. CASE i = n + 1
        <5>1. Place(T', i) = Len(inbox) + 1
          <6>1. n \in Nat /\ T \in SUBSET (1..n)
            BY <1>1, <1>5
          <6>2. Place(T \cup {n + 1}, n + 1) = Cardinality(T) + 1
            BY <6>1, PlaceOfLonger
          <6> QED  BY <1>8, <3>1, <4>1, <6>2
        <5> QED  BY <1>2, <1>4, <3>2, <4>1, <5>1
      <4>2. CASE i # n + 1
        <5>1. i \in T /\ i \in 1..n
          BY <1>5, <3>1, <4>2
        <5>2. Place(T', i) = Place(T, i) /\ Place(T, i) \in 1..Len(inbox)
          BY <1>1, <1>5, <1>8, <3>1, <5>1, PlaceOfLonger
        <5> QED  BY <1>4, <1>8, <3>2, <5>1, <5>2
      <4> QED  BY <4>1, <4>2
    <3> QED  BY <3>3, <3>4
  <2> QED  BY <2>1, <2>2
<1> QED  BY <1>10, <1>11, <1>12 DEF MovesAreTold, A, T

\* The table gives a return to the office alone, from another status.
OtherStatus == LifecycleStatuses \ {"Revision Required"}
OtherRules ==
  [ from : LifecycleStatuses, to : OtherStatus, actors : SUBSET {"applicant", "staff"},
    requires : Scope, preconditions : SUBSET Preconditions, notifies : BOOLEAN ]
ReturnRules ==
  [ from : OtherStatus, to : {"Revision Required"}, actors : {{"staff"}},
    requires : Scope, preconditions : SUBSET Preconditions, notifies : BOOLEAN ]

LEMMA TableOfReturns == TRANSITIONS \subseteq OtherRules \cup ReturnRules
  BY SMTT(60) DEF TRANSITIONS, Rule, OtherRules, ReturnRules, OtherStatus,
     LifecycleStatuses, Scope, Preconditions, Both, Staff, Citizen, Documents

LEMMA RulesOfReturns ==
  ASSUME NEW from, NEW rule \in RuleFor(from, "Revision Required")
  PROVE  rule.actors = {"staff"} /\ from # "Revision Required"
<1>1. rule \in OtherRules \cup ReturnRules
      /\ rule.from = from /\ rule.to = "Revision Required"
  BY TableOfReturns DEF RuleFor
<1>2. rule \in ReturnRules
  BY <1>1 DEF OtherRules, OtherStatus
<1> QED  BY <1>1, <1>2 DEF ReturnRules, OtherStatus

LEMMA ReturnsNeedStaff ==
  ASSUME NEW c, Verdict(c) = "ok", c.to = "Revision Required"
  PROVE  c.by # Owner
<1>1. /\ decide(SnapshotOf(c), CallerOf(c.by), c.to, c.expected) = "ok"
      /\ SnapshotOf(c).status = app.status
  BY DEF Verdict, SnapshotOf
<1>2. PICK rule \in RuleFor(app.status, c.to) : CallerOf(c.by).kind \in rule.actors
  BY <1>1 DEF decide
<1>3. rule.actors = {"staff"}
  BY <1>2, RulesOfReturns
<1> QED  BY <1>2, <1>3 DEF CallerOf

LEMMA ReturnsStep ==
  ASSUME TypeOK, ReturnsAreTheOffices, [Next]_vars
  PROVE  ReturnsAreTheOffices'
<1> SUFFICES ASSUME NEW r \in Requests, pc'[r] = "deciding",
                    call'[r].to = "Revision Required"
             PROVE  call'[r].by \in Officers
  BY DEF ReturnsAreTheOffices
<1>1. call'[r] = call[r] /\ (pc[r] = "deciding" \/ Verdict(call[r]) = "ok")
  BY DecidersAllowed
<1>2. CASE pc[r] = "deciding"
  BY <1>1, <1>2 DEF ReturnsAreTheOffices
<1>3. CASE Verdict(call[r]) = "ok"
  BY <1>1, <1>3, ReturnsNeedStaff, FieldTypes DEF Callers
<1> QED  BY <1>1, <1>2, <1>3

Returns == {i \in DOMAIN timeline : timeline[i].to = "Revision Required"}

\* Letters that are closed or resolved, and none that is opened, with no move.
LEMMA LettersKept ==
  ASSUME TypeOK, OneLetterWaiting, UNCHANGED timeline,
         UNCHANGED letters \/ LetterAnswered
  PROVE  OneLetterWaiting'
<1>1. /\ letters \in Seq(Letter) /\ Len(letters) \in Nat
      /\ DOMAIN letters = 1..Len(letters) /\ letters \in [1..Len(letters) -> Letter]
  <2>1. letters \in Seq(Letter)
    BY DEF TypeOK
  <2> QED  BY <2>1, LenProperties
<1>2. CASE UNCHANGED letters
  BY <1>2 DEF OneLetterWaiting, OpenItems
<1>3. CASE LetterAnswered
  <2> DEFINE answered == [ closed |-> TRUE, resolved |-> TRUE ]
  <2>1. answered \in Letter /\ answered.resolved /\ letters' = [letters EXCEPT ![Len(letters)] = answered]
    BY <1>3 DEF Letter, LetterAnswered
  <2> HIDE DEF answered
  <2>2. letters' \in [1..Len(letters) -> Letter]
    BY <1>1, <2>1
  <2>3. letters' \in Seq(Letter) /\ Len(letters') = Len(letters)
        /\ DOMAIN letters' = 1..Len(letters)
    <3>1. letters' \in Seq(Letter)
      BY <1>1, <2>2, SeqDef
    <3> QED  BY <1>1, <2>2, <3>1, LenProperties
  <2>4. \A l \in 1..Len(letters) :
          letters'[l] = IF l = Len(letters) THEN answered ELSE letters[l]
    BY <1>1, <2>1
  <2>5. OpenItems' = {}
    <3>1. \A l \in 1..Len(letters) : l # Len(letters) => letters[l].resolved
      BY <1>1 DEF OneLetterWaiting, OpenItems
    <3> QED  BY <2>1, <2>3, <2>4, <3>1 DEF OpenItems
  <2>6. \A l \in 1..Len(letters) : l < Len(letters) => letters'[l].closed
    <3>1. \A l \in 1..Len(letters) : l < Len(letters) => letters[l].closed
      BY <1>1 DEF OneLetterWaiting
    <3>2. \A l \in 1..Len(letters) : l # Len(letters) => letters'[l] = letters[l]
      BY <2>4
    <3>3. \A l \in 1..Len(letters) : l < Len(letters) => l # Len(letters)
      <4>1. Len(letters) \in Nat
        BY <1>1
      <4> QED  BY <4>1
    <3> QED  BY <3>1, <3>2, <3>3
  <2> QED  BY <2>3, <2>5, <2>6 DEF OneLetterWaiting
<1> QED  BY <1>2, <1>3

\* A return writes a letter and closes those before it; the answer to one
\* resolves what is left.
LEMMA LettersOfMove ==
  ASSUME IInv, ReturnsAreTheOffices, OneLetterWaiting, NEW r \in Requests, Moved(r)
  PROVE  OneLetterWaiting'
<1> DEFINE c == call[r]
           m == [ from |-> app.status, to |-> c.to, by |-> c.by, key |-> c.key ]
           n == Len(timeline)
           k == Len(letters)
<1>1. /\ timeline \in Seq(Move) /\ n \in Nat /\ DOMAIN timeline = 1..n
      /\ letters \in Seq(Letter) /\ k \in Nat /\ DOMAIN letters = 1..k
      /\ letters \in [1..k -> Letter]
  <2>1. timeline \in Seq(Move) /\ letters \in Seq(Letter)
    BY DEF IInv, TypeOK
  <2> QED  BY <2>1, LenProperties
<1>2. /\ m \in Move /\ m.to = c.to
      /\ RuleFor(app.status, c.to) # {}
      /\ c.to = "Revision Required" => c.by \in Officers
  <2>1. m \in Move /\ m.to = c.to
    BY FieldTypes DEF IInv, Move
  <2> QED  BY <2>1 DEF Moved, IInv, DecidingOwnsTheRow, ReturnsAreTheOffices
<1>3. timeline' = Append(timeline, m) /\ letters' = LettersAfter(c, app.status)
  BY DEF Moved
<1> HIDE DEF c, m
<1>4. /\ DOMAIN timeline' = 1..(n + 1)
      /\ timeline'[n + 1] = m /\ \A i \in 1..n : timeline'[i] = timeline[i]
  <2>1. timeline \in Seq(Move) /\ m \in Move /\ timeline' = Append(timeline, m)
    BY <1>1, <1>2, <1>3
  <2> QED  BY <1>1, <2>1, AppendProperties
<1>5. Returns' = IF c.to = "Revision Required" THEN Returns \cup {n + 1} ELSE Returns
  <2>1. \A i : i \in DOMAIN timeline' <=> i \in DOMAIN timeline \/ i = n + 1
    BY <1>1, <1>4
  <2> QED  BY <1>1, <1>2, <1>4, <2>1 DEF Returns
<1>6. /\ k = Cardinality(Returns) /\ OpenItems \subseteq {k}
      /\ \A l \in DOMAIN letters : l < k => letters[l].closed
  BY DEF OneLetterWaiting, Returns
<1>7. CASE c.to # "Revision Required"
  <2>1. Returns' = Returns
    BY <1>5, <1>7
  <2>2. /\ Len(letters') = k /\ DOMAIN letters' = 1..k
        /\ OpenItems' \subseteq OpenItems
        /\ \A l \in 1..k : letters'[l].closed = letters[l].closed
    <3>1. CASE letters' = letters
      BY <1>1, <3>1 DEF OpenItems
    <3>2. CASE letters' = AllResolved
      <4>1. \A x \in Letter : LET y == [x EXCEPT !.resolved = TRUE] IN
              y \in Letter /\ y.resolved /\ y.closed = x.closed
        BY DEF Letter
      <4>2. \A l \in 1..k : letters[l] \in Letter
        BY <1>1
      <4>3. DOMAIN letters' = 1..k
            /\ \A l \in 1..k : letters'[l] = [letters[l] EXCEPT !.resolved = TRUE]
        BY <1>1, <3>2 DEF AllResolved
      <4>4. \A l \in 1..k : /\ letters'[l] \in Letter /\ letters'[l].resolved
                            /\ letters'[l].closed = letters[l].closed
        <5> SUFFICES ASSUME NEW l \in 1..k
                     PROVE  /\ letters'[l] \in Letter /\ letters'[l].resolved
                            /\ letters'[l].closed = letters[l].closed
          OBVIOUS
        <5>1. letters[l] \in Letter
          BY <4>2
        <5> QED  BY <4>1, <4>3, <5>1
      <4>5. letters' \in [1..k -> Letter]
        <5>1. letters' = [l \in 1..k |-> [letters[l] EXCEPT !.resolved = TRUE]]
          BY <1>1, <3>2 DEF AllResolved
        <5> QED  BY <4>3, <4>4, <5>1
      <4>6. letters' \in Seq(Letter)
        BY <1>1, <4>5, SeqDef
      <4>7. Len(letters') = k
        BY <1>1, <4>3, <4>6, LenProperties
      <4> QED  BY <4>3, <4>4, <4>7 DEF OpenItems
    <3> QED  BY <1>3, <1>7, <3>1, <3>2 DEF LettersAfter
  <2> QED  BY <1>1, <1>6, <2>1, <2>2 DEF OneLetterWaiting, Returns
<1>8. CASE c.to = "Revision Required"
  <2>1. letters' = issueLetter
    <3>1. app.status # "Revision Required"
      BY <1>2, <1>8, RulesOfReturns
    <3> QED  BY <1>2, <1>3, <1>8, <3>1 DEF LettersAfter, Answering
  <2> DEFINE done == [ closed |-> TRUE, resolved |-> TRUE ]
             fresh == [ closed |-> FALSE, resolved |-> FALSE ]
             old == [l \in DOMAIN letters |-> done]
  <2>2. /\ done \in Letter /\ fresh \in Letter /\ done.closed /\ done.resolved
        /\ letters' = Append(old, fresh)
    BY <2>1 DEF Letter, issueLetter
  <2>3. old \in [1..k -> Letter] /\ \A l \in 1..k : old[l] = done
    BY <1>1, <2>2
  <2> HIDE DEF done, fresh, old
  <2>4. old \in Seq(Letter) /\ Len(old) = k
    <3>1. old \in Seq(Letter)
      BY <1>1, <2>3, SeqDef
    <3> QED  BY <1>1, <2>3, <3>1, LenProperties
  <2>5. /\ Len(letters') = k + 1 /\ DOMAIN letters' = 1..(k + 1)
        /\ \A l \in 1..k : letters'[l] = done
    BY <2>2, <2>3, <2>4, AppendProperties
  <2>6. \A l \in 1..(k + 1) : l \in 1..k \/ l = k + 1
    BY <1>1
  <2>7. OpenItems' \subseteq {k + 1}
    BY <2>2, <2>5, <2>6 DEF OpenItems
  <2>8. \A l \in DOMAIN letters' : l < k + 1 => letters'[l].closed
    BY <1>1, <2>2, <2>5, <2>6
  <2>9. k + 1 = Cardinality(Returns')
    <3>1. Returns \in SUBSET (1..n) /\ n + 1 \notin Returns
      <4>1. n + 1 \notin 1..n
        BY <1>1
      <4> QED  BY <1>1, <4>1 DEF Returns
    <3>2. IsFiniteSet(Returns)
      <4>1. IsFiniteSet(1..n)
        BY <1>1, FS_Interval
      <4> QED  BY <3>1, <4>1, FS_Subset
    <3> QED  BY <1>5, <1>6, <1>8, <3>1, <3>2, FS_AddElement
  <2> QED  BY <2>5, <2>7, <2>8, <2>9 DEF OneLetterWaiting, Returns
<1> QED  BY <1>7, <1>8

LEMMA TracesInit == Init => Traces
<1> SUFFICES ASSUME Init PROVE Traces
  OBVIOUS
<1>1. /\ Len(timeline) = 1 /\ DOMAIN timeline = 1..1
      /\ timeline[1].to = InitialStatus
      /\ audit = <<>> /\ inbox = <<>> /\ letters = <<>>
      /\ \A r \in Requests : pc[r] = "idle"
  BY DEF Init
<1>2. TransitionsAudited = {} /\ MovesAnnounced = {} /\ Cardinality({}) = 0
  BY <1>1, FS_EmptySet DEF TransitionsAudited, MovesAnnounced
<1>3. MovesAreTold
  BY <1>1, <1>2 DEF MovesAreTold
<1>4. Returns = {} /\ OpenItems = {}
  <2>1. InitialStatus # "Revision Required"
    BY LifecycleAssumption
  <2>2. \A i \in DOMAIN timeline : i = 1
    BY <1>1
  <2>3. Returns = {}
    BY <1>1, <2>1, <2>2 DEF Returns
  <2>4. DOMAIN letters = {}
    BY <1>1
  <2> QED  BY <2>3, <2>4 DEF OpenItems
<1>5. OneLetterWaiting
  <2>1. Len(letters) = 0 /\ DOMAIN letters = {}
    BY <1>1
  <2> QED  BY <1>2, <1>4, <2>1 DEF OneLetterWaiting, Returns
<1> QED  BY <1>1, <1>3, <1>5 DEF Traces, ReturnsAreTheOffices

LEMMA TracesStep == IInv /\ Traces /\ [Next]_vars => Traces'
<1> SUFFICES ASSUME IInv, Traces, [Next]_vars PROVE Traces'
  OBVIOUS
<1>1. TypeOK /\ MovesAreTold /\ OneLetterWaiting /\ ReturnsAreTheOffices
  BY DEF IInv, Traces
<1>2. ReturnsAreTheOffices'
  BY <1>1, ReturnsStep
<1>3. ASSUME NEW r \in Requests, Moved(r)
      PROVE  MovesAreTold' /\ OneLetterWaiting'
  BY <1>1, <1>3, ToldOfMove, LettersOfMove
<1>4. ASSUME Noted
      PROVE  MovesAreTold' /\ OneLetterWaiting'
  BY <1>1, <1>4, ToldKept, LettersKept DEF Noted
<1>5. ASSUME UNCHANGED << timeline, audit, inbox, letters >>
      PROVE  MovesAreTold' /\ OneLetterWaiting'
  BY <1>1, <1>5, ToldKept, LettersKept
<1> QED  BY <1>2, <1>3, <1>4, <1>5, StepsTraced DEF Traces

-----------------------------------------------------------------------------
\* THEOREMS

\* Every variable of the lifecycle stays in its type: no row, key or answer
\* outside the vocabulary of the schema is ever written.
THEOREM TypeCorrect == Spec => []TypeOK
<1>1. Init => TypeOK
  BY TypeInit
<1>2. TypeOK /\ [Next]_vars => TypeOK'
  BY TypeStep
<1> QED  BY <1>1, <1>2, PTL DEF Spec

\* The strengthened invariant: with the lock's ownership and the keys of the
\* moves made, the properties below are preserved by every step.
LEMMA Invariance == Spec => []IInv
<1> QED  BY IInvInit, IInvStep, PTL DEF Spec

\* For any number of concurrent requests, crashes and retries, the timeline of
\* an application is an unbroken walk over the table of legal moves, ending at
\* its status, and its version counts the moves.
THEOREM TimelineIsAlwaysAWalk == Spec => []TimelineIsAWalk
<1>1. IInv => TimelineIsAWalk
  BY DEF IInv
<1> QED  BY <1>1, Invariance, PTL

\* A client's idempotency key makes at most one move, whatever is retried and
\* whatever dies.
THEOREM KeysMoveOnce == Spec => []OneMovePerKey
<1>1. IInv => OneMovePerKey
  BY DEF IInv
<1> QED  BY <1>1, Invariance, PTL

\* Every stored answer is the answer of a move that was made.
THEOREM StoredAnswersAreTrue == Spec => []ReplaysAreTrue
<1>1. IInv => ReplaysAreTrue
  BY DEF IInv
<1> QED  BY <1>1, Invariance, PTL

LEMMA TracesInvariance == Spec => []Traces
<1> QED  BY TracesInit, TracesStep, Invariance, PTL DEF Spec

\* "A committed transition always notifies and a rolled-back one never does":
\* for any number of requests, crashes, retries and archivings, the audit trail
\* holds one entry for each move of the timeline, in its order, and the inbox
\* one notice for each move the table says to announce.
THEOREM MovesAreAlwaysTold == Spec => []MovesAreTold
<1>1. Traces => MovesAreTold
  BY DEF Traces
<1> QED  BY <1>1, TracesInvariance, PTL

\* However the office returns an application and the applicant answers, there is
\* one Letter of Instruction for each return, and only the newest can be waiting.
THEOREM OneLetterAlwaysWaits == Spec => []OneLetterWaiting
<1>1. Traces => OneLetterWaiting
  BY DEF Traces
<1> QED  BY <1>1, TracesInvariance, PTL

\* No step sets a number or a filing date that is set already.
LEMMA FilingStep ==
  ASSUME TypeOK, [Next]_vars
  PROVE  /\ app.filedAt # 0 => app'.filedAt = app.filedAt
         /\ app.reference # 0 => app'.reference = app.reference
<1>1. app \in Application
  BY DEF TypeOK
<1>2. ASSUME NEW r \in Requests, Ask(r) \/ AnswerLetter(r)
      PROVE  app' = app
  BY <1>2 DEF Ask, AnswerLetter, Send, world
<1>3. ASSUME NEW r \in Requests, NEW q \in Requests, Retry(r, q)
      PROVE  app' = app
  BY <1>3 DEF Retry, Send, world
<1>4. ASSUME NEW r \in Requests, Respond(r) \/ Lookup(r) \/ Lock(r) \/ Crash(r)
      PROVE  app' = app
  BY <1>4 DEF Respond, Lookup, Lock, Crash, world
<1>5. ASSUME NEW r \in Requests, Commit(r)
      PROVE  /\ app.filedAt # 0 => app'.filedAt = app.filedAt
             /\ app.reference # 0 => app'.reference = app.reference
  BY <1>1, <1>5 DEF Commit, Application, TakesNumber, world
<1>6. ASSUME NEW o \in Officers, Archive(o) \/ Unarchive(o)
      PROVE  app'.filedAt = app.filedAt /\ app'.reference = app.reference
  BY <1>1, <1>6 DEF Archive, Unarchive, Application
<1>7. CASE (\E p \in Evidence : EvidenceArrives(p) \/ EvidenceLost(p)) \/ UNCHANGED vars
  BY <1>7 DEF EvidenceArrives, EvidenceLost, vars, world
<1> QED  BY <1>2, <1>3, <1>4, <1>5, <1>6, <1>7 DEF Next, Serve

\* An application's official number and filing date, once set, are never set
\* again, whatever is withdrawn, restored, filed again or archived.
THEOREM FiledForGood == Spec => FilingIsFixed
<1>1. TypeOK /\ [Next]_vars =>
        [ /\ app.filedAt # 0 => app'.filedAt = app.filedAt
          /\ app.reference # 0 => app'.reference = app.reference ]_vars
  BY FilingStep
<1> QED  BY <1>1, TypeCorrect, PTL DEF Spec, FilingIsFixed
=============================================================================
