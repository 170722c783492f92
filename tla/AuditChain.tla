----------------------------- MODULE AuditChain -----------------------------
(***************************************************************************)
(* The hash-linked audit trail: AuditService.append within the transaction *)
(* of whatever is audited, appendOncePerWindow, and the walk that verifies *)
(* the chain, also after somebody with access to the database edited or    *)
(* removed a row.                                                          *)
(*                                                                         *)
(* A hash is modelled by what it commits to: the entries from genesis to   *)
(* its own, so two hashes are equal only when their histories are.         *)
(***************************************************************************)
EXTENDS Naturals, Sequences, FiniteSets

CONSTANTS
  Writers,      \* transactions that append
  Entries,      \* entries, apart from their place in the chain
  Refusals,     \* the entries appended once per window
  MaxChain,     \* bound: entries appended
  MaxTamper     \* bound: rows edited or removed behind the service's back

ASSUME AuditChainAssumption ==
  Refusals \subseteq Entries /\ MaxChain \in Nat /\ MaxTamper \in Nat

VARIABLES
  events,       \* committed rows of audit_events
  head,         \* audit_chain_head: last_hash and last_sequence
  writing,      \* the transactions
  windowStart,  \* last_sequence when the window of the refusals began
  touched       \* rows edited or removed

chainVars == << events, head, writing, windowStart, touched >>

GENESIS == <<>>
hashEntry(previousHash, event) == Append(previousHash, event)

AuditEvent == [ sequence : Nat, event : Entries, previous : Seq(Entries), hash : Seq(Entries) ]
ChainHead == [ hash : Seq(Entries), sequence : Nat ]
Writing == [ pc : {"idle", "due", "holding"}, refusal : SUBSET Refusals,
             base : ChainHead, pending : Seq(Entries) ]

NoHead == [ hash |-> GENESIS, sequence |-> 0 ]
Resting == [ pc |-> "idle", refusal |-> {}, base |-> NoHead, pending |-> <<>> ]

-----------------------------------------------------------------------------
ChainInit ==
  /\ events = {} /\ head = NoHead
  /\ writing = [ w \in Writers |-> Resting ]
  /\ windowStart = 0 /\ touched = 0

\* appendOncePerWindow: a read without a lock, and nothing more when it finds one.
DueOnce(w, e) ==
  /\ writing[w].pc = "idle" /\ e \in Refusals
  /\ ~\E r \in events : r.event = e /\ r.sequence > windowStart
  /\ writing' = [ writing EXCEPT ![w].pc = "due", ![w].refusal = {e} ]
  /\ UNCHANGED << events, head, windowStart, touched >>

\* Another transaction holds the row of audit_chain_head.
HeadIsFree == \A w \in Writers : writing[w].pc # "holding"

\* select last_hash, last_sequence ... for update.
TakeHead(w) ==
  /\ writing[w].pc \in {"idle", "due"} /\ HeadIsFree
  /\ writing' = [ writing EXCEPT ![w].pc = "holding", ![w].base = head ]
  /\ UNCHANGED << events, head, windowStart, touched >>

\* One append: the entry is linked to the head this transaction sees, and the
\* head is moved to it.  A transaction may append more than once.
AppendEntry(w, e) ==
  LET t == writing[w] IN
  /\ t.pc = "holding"
  /\ t.base.sequence + Len(t.pending) < MaxChain
  /\ IF t.refusal = {} THEN e \notin Refusals ELSE t.refusal = {e} /\ t.pending = <<>>
  /\ writing' = [ writing EXCEPT ![w].pending = Append(@, e) ]
  /\ UNCHANGED << events, head, windowStart, touched >>

RowAt(t, i) ==
  LET previous == t.base.hash \o SubSeq(t.pending, 1, i - 1) IN
  [ sequence |-> t.base.sequence + i, event |-> t.pending[i],
    previous |-> previous, hash |-> hashEntry(previous, t.pending[i]) ]
NewRows(t) == { RowAt(t, i) : i \in 1..Len(t.pending) }

\* The unique index over audit_events.sequence.
SequencesFree(t) == \A r \in events : r.sequence <= t.base.sequence

\* Mutant: the hash of an entry does not take in the one before it.
HeadUnlinked(t) ==
  [ hash |-> SubSeq(t.pending, Len(t.pending), Len(t.pending)),
    sequence |-> t.base.sequence + Len(t.pending) ]

HeadAfter(t) ==
  [ hash |-> t.base.hash \o t.pending, sequence |-> t.base.sequence + Len(t.pending) ]

Commit(w) ==
  LET t == writing[w] IN
  /\ t.pc = "holding" /\ SequencesFree(t)
  /\ events' = events \cup NewRows(t)
  /\ head' = (IF t.pending = <<>> THEN head ELSE HeadAfter(t))
  /\ writing' = [ writing EXCEPT ![w] = Resting ]
  /\ UNCHANGED << windowStart, touched >>

\* The audited act is refused with an error, or dies: nothing of it is written.
Abort(w) ==
  /\ writing[w].pc # "idle"
  /\ writing' = [ writing EXCEPT ![w] = Resting ]
  /\ UNCHANGED << events, head, windowStart, touched >>

WindowPasses ==
  /\ windowStart # head.sequence /\ windowStart' = head.sequence
  /\ UNCHANGED << events, head, writing, touched >>

\* Behind the service's back: one row is edited, or removed.
Edit(r, e) ==
  /\ touched < MaxTamper /\ e # r.event
  /\ events' = (events \ {r}) \cup {[ r EXCEPT !.event = e ]}
  /\ touched' = touched + 1
  /\ UNCHANGED << head, writing, windowStart >>

Remove(r) ==
  /\ touched < MaxTamper
  /\ events' = events \ {r} /\ touched' = touched + 1
  /\ UNCHANGED << head, writing, windowStart >>

ChainNext ==
  \/ \E w \in Writers :
       \/ TakeHead(w) \/ Commit(w) \/ Abort(w)
       \/ \E e \in Entries : DueOnce(w, e) \/ AppendEntry(w, e)
  \/ WindowPasses
  \/ \E r \in events : Remove(r) \/ \E e \in Entries : Edit(r, e)

ChainSpec == ChainInit /\ [][ChainNext]_chainVars

-----------------------------------------------------------------------------
\* Mutant: the walk compares the links and never recomputes a hash.
intactLinksOnly(rows) ==
  \A r \in rows :
    /\ r.sequence \in 1..Cardinality(rows)
    /\ IF r.sequence = 1 THEN r.previous = GENESIS
       ELSE \E p \in rows : p.sequence = r.sequence - 1 /\ r.previous = p.hash

\* verifyChain: the sequences run from 1 without a gap (no two are equal), each
\* entry names the hash of the one before it, and its own follows from it.
intact(rows) ==
  \A r \in rows :
    /\ r.sequence \in 1..Cardinality(rows)
    /\ IF r.sequence = 1 THEN r.previous = GENESIS
       ELSE \E p \in rows : p.sequence = r.sequence - 1 /\ r.previous = p.hash
    /\ hashEntry(r.previous, r.event) = r.hash

\* Every variable has its type.
ChainTypeOK ==
  /\ events \subseteq AuditEvent /\ head \in ChainHead
  /\ writing \in [ Writers -> Writing ]
  /\ windowStart \in Nat /\ touched \in Nat

\* The verdict of the walk is right: a chain nobody touched is intact, and an
\* intact one tells what was appended, entry by entry from the first, whoever
\* edited or removed rows (audit-chain.ts: "Removing or editing a row breaks
\* every row after it, so a single pass detects it").  That the last rows are
\* missing is not seen until the next append leaves a gap.
VerdictIsRight ==
  /\ touched = 0 => intact(events)
  /\ intact(events) => \A r \in events :
       r.sequence \in 1..Len(head.hash) /\ r.event = head.hash[r.sequence]

\* The chain implements the log: whatever transactions interleave, fail or die,
\* and whatever is done to the rows, the head only ever commits to more.
Log == INSTANCE AuditLog WITH log <- head.hash
ChainIsALog == Log!LogSpec
=============================================================================
