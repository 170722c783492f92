------------------------------ MODULE Workflow ------------------------------
(***************************************************************************)
(* The configuration officers edit while applications move: the table of   *)
(* moves (workflow-config.service.ts) and the checklist of a permit type   *)
(* (requirements.service.ts).                                              *)
(*                                                                         *)
(* Both are replaced wholesale, in a transaction of several statements     *)
(* under READ COMMITTED: the rows a statement removes are those committed  *)
(* when it began, so of two replacements at once the rows of the first     *)
(* survive the second.  The table that warnings and the audit entry        *)
(* compare with is read before the transaction, and the applications are   *)
(* counted in it, while they go on moving by the table they find.          *)
(***************************************************************************)
EXTENDS Naturals, Sequences

CONSTANTS
  Places,        \* lifecycle statuses
  FinalPlaces,   \* Completed, Rejected, Cancelled, Expired
  FirstPlaces,   \* what an application is filed in
  Scopes,        \* what an account may hold
  Conditions,    \* what may have to be true before a move
  ReadOnly,      \* the scopes a read-only role holds
  Tables,        \* tables an officer may submit
  FirstTable,    \* the table the migrations seed
  Folders,       \* applications
  Enclosures,       \* codes of the documents of a checklist
  Officials,     \* requests of administrators
  Nowhere,       \* SQL null
  MaxReplaced    \* bound: replacements on the audit trail

\* A table is a function from moves, each a pair of statuses, to rules.
MoveRules == [ scope : Scopes, actors : (SUBSET {"applicant", "staff"}) \ {{}},
               preconditions : SUBSET Conditions ]
TableOver(pairs) == UNION { [ moves -> MoveRules ] : moves \in SUBSET pairs }

\* Scopes by how few officers hold them; not every scope is in the list.
NARROWNESS ==
  << "staff:administer", "staff:approve", "staff:release", "staff:assess",
     "staff:verify-payment", "staff:evaluate", "documents:write", "applications:write",
     "documents:read", "applications:read" >>

ASSUME WorkflowAssumption ==
  /\ FinalPlaces \subseteq Places /\ FirstPlaces \subseteq Places
  /\ FirstTable \in Tables
  /\ \A t \in Tables : DOMAIN t \subseteq Places \X Places /\ t \in [ DOMAIN t -> MoveRules ]
  /\ Nowhere \notin Places /\ MaxReplaced \in Nat

VARIABLES
  table,         \* lifecycle_transitions
  folders,       \* each application's status, and whether it is archived
  replaced,      \* audit entries 'workflow.replaced'
  listed,        \* document_requirements not archived
  published,     \* the checklist as the audit entries tell it
  editing,       \* the requests
  slipped,       \* history: applications that came where no replacement saw them
  tangled        \* history: two replacements of one list at once

workflowVars == << table, folders, replaced, listed, published, editing, slipped, tangled >>

Folder == [ place : Places, archived : BOOLEAN ]
\* What an entry found may be a mixture; what it put in force was submitted.
ReplacementOver(pairs) == [ before : TableOver(pairs), after : Tables, givenUp : SUBSET pairs ]
NoEditing == [ at |-> "none" ]

-----------------------------------------------------------------------------
\* Pure rules of a submitted table.
Leaving(t) == { move[1] : move \in DOMAIN t }
Entered(t) == { move[2] : move \in DOMAIN t }

strandedStatuses(t) == Entered(t) \ (Leaving(t) \cup FinalPlaces)
readOnlyRolesGaining(t) ==
  { move \in DOMAIN t : "staff" \in t[move].actors /\ t[move].scope \in ReadOnly }

Accepted(t) ==
  /\ DOMAIN t # {} /\ \A move \in DOMAIN t : move[1] # move[2]
  /\ readOnlyRolesGaining(t) = {} /\ strandedStatuses(t) = {}

\* The new scope stands below the old one in the list, which has both.
StandsLower(was, now) ==
  \E i, j \in 1..Len(NARROWNESS) : i < j /\ NARROWNESS[i] = was /\ NARROWNESS[j] = now

\* Mutant: what has to be true first is not compared.
scopesGivenUp(before, after) ==
  { move \in DOMAIN after : move \notin DOMAIN before
      \/ StandsLower(before[move].scope, after[move].scope)
      \/ "applicant" \in after[move].actors \ before[move].actors }

\* Moves that are new, that need a scope further down the list or fewer
\* conditions, or that an applicant can now make.
controlsGivenUp(before, after) ==
  { move \in DOMAIN after : move \notin DOMAIN before
      \/ StandsLower(before[move].scope, after[move].scope)
      \/ before[move].preconditions \ after[move].preconditions # {}
      \/ "applicant" \in after[move].actors \ before[move].actors }

\* Mutant: nobody looks where applications stand.
StrandsNobody(t) == FALSE

\* Applications that a table leaves without a move; the archived do not count.
StrandsLive(t) ==
  \E f \in Folders : /\ folders[f] # Nowhere /\ ~folders[f].archived
                     /\ folders[f].place \notin FinalPlaces \cup Leaving(t)

-----------------------------------------------------------------------------
WorkflowInit ==
  /\ table = FirstTable /\ folders = [ f \in Folders |-> Nowhere ] /\ replaced = << >>
  /\ listed = Enclosures /\ published = Enclosures /\ editing = [ o \in Officials |-> NoEditing ]
  /\ slipped = {} /\ tangled = {}

\* Requests that have counted applications, and have not committed.
Counted(o) == editing[o].at \in {"counted", "deleted"}

Becomes(o, what) == editing' = [ editing EXCEPT ![o] = what ]

\* replace, up to its transaction: what is wrong with the table alone, the table
\* in force, and what is given up.
AskTable(o, t) ==
  /\ editing[o] = NoEditing /\ Len(replaced) < MaxReplaced /\ Accepted(t)
  /\ Becomes(o, [ at |-> "asked", table |-> t, before |-> table ])
  /\ UNCHANGED << table, folders, replaced, listed, published, slipped, tangled >>

CountLive(o) ==
  /\ editing[o].at = "asked" /\ ~StrandsLive(editing[o].table)
  /\ Becomes(o, [ at |-> "counted", table |-> editing[o].table, before |-> editing[o].before ])
  /\ UNCHANGED << table, folders, replaced, listed, published, slipped, tangled >>

\* The delete sees the rows of the replacements committed by now.
DeleteRows(o) ==
  /\ editing[o].at = "counted"
  /\ Becomes(o, [ at |-> "deleted", table |-> editing[o].table, before |-> editing[o].before,
                 seen |-> Len(replaced) ])
  /\ UNCHANGED << table, folders, replaced, listed, published, slipped, tangled >>

\* Mutant: the rows that were there stay, but for the moves submitted anew.
KeepsTheRest(new, kept) ==
  [ move \in DOMAIN new \cup DOMAIN table |-> IF move \in DOMAIN new THEN new[move] ELSE table[move] ]

\* The rows that are there after it: those submitted, and, where another
\* replacement committed since the delete began, those of the other.
RowsAfter(new, kept) ==
  [ move \in DOMAIN new \cup (IF kept THEN DOMAIN table ELSE {}) |->
      IF move \in DOMAIN new THEN new[move] ELSE table[move] ]

\* The inserts, the audit entry and the commit.  A move that the other
\* replacement inserted is refused by the primary key.
CommitReplace(o) ==
  LET e == editing[o]
      kept == e.seen # Len(replaced)
  IN
  /\ e.at = "deleted"
  /\ kept => DOMAIN e.table \cap DOMAIN table = {}
  /\ table' = RowsAfter(e.table, kept)
  /\ replaced' = Append(replaced, [ before |-> e.before, after |-> e.table,
                                    givenUp |-> controlsGivenUp(e.before, e.table) ])
  /\ Becomes(o, NoEditing)
  /\ tangled' = (IF \E p \in Officials \ {o} : editing[p].at \in {"asked", "counted", "deleted"}
                 THEN tangled \cup {"table"} ELSE tangled)
  /\ UNCHANGED << folders, listed, published, slipped >>

\* Refused, or the request dies.
EditingEnds(o) ==
  /\ editing[o] # NoEditing /\ Becomes(o, NoEditing)
  /\ UNCHANGED << table, folders, replaced, listed, published, slipped, tangled >>

-----------------------------------------------------------------------------
\* The applications.

\* An application comes to a place: unseen by a replacement that has counted,
\* or where nobody asked whether a move leads out.
Comes(f, place) ==
  slipped' = (IF (\E o \in Officials : Counted(o)) \/ place \notin Leaving(table)
              THEN slipped \cup {f} ELSE slipped \ {f})

FileFolder(f, place) ==
  /\ folders[f] = Nowhere /\ place \in FirstPlaces
  /\ folders' = [ folders EXCEPT ![f] = [ place |-> place, archived |-> FALSE ] ]
  /\ Comes(f, place)
  /\ UNCHANGED << table, replaced, listed, published, editing, tangled >>

\* transition: the rules are read under the row's lock, and a trigger asks for
\* the move once more when the row is written.
MoveFolder(f, place) ==
  /\ folders[f] # Nowhere /\ << folders[f].place, place >> \in DOMAIN table
  /\ folders' = [ folders EXCEPT ![f].place = place ]
  /\ Comes(f, place)
  /\ UNCHANGED << table, replaced, listed, published, editing, tangled >>

ArchiveFolder(f) ==
  /\ folders[f] # Nowhere /\ folders[f].place \in FinalPlaces /\ ~folders[f].archived
  /\ folders' = [ folders EXCEPT ![f].archived = TRUE ]
  /\ UNCHANGED << table, replaced, listed, published, editing, slipped, tangled >>

\* restore, of an application that may have been taken up while it was archived.
RestoreFolder(f) ==
  /\ folders[f] # Nowhere /\ folders[f].archived
  /\ folders' = [ folders EXCEPT ![f].archived = FALSE ]
  /\ Comes(f, folders[f].place)
  /\ UNCHANGED << table, replaced, listed, published, editing, tangled >>

-----------------------------------------------------------------------------
\* The checklist.

\* The first statement archives what is listed by then and not submitted.
ArchiveRest(o, docs) ==
  /\ editing[o] = NoEditing
  /\ Becomes(o, [ at |-> "listing", docs |-> docs, dropped |-> listed \ docs ])
  /\ UNCHANGED << table, folders, replaced, listed, published, slipped, tangled >>

Listing(o) == editing[o].at = "listing"

\* Each document submitted is brought back or inserted; the audit entry, the
\* commit.
CommitList(o) ==
  /\ Listing(o)
  /\ listed' = (listed \ editing[o].dropped) \cup editing[o].docs
  /\ published' = editing[o].docs
  /\ Becomes(o, NoEditing)
  /\ tangled' = (IF \E p \in Officials \ {o} : Listing(p) THEN tangled \cup {"list"} ELSE tangled)
  /\ UNCHANGED << table, folders, replaced, slipped >>

\* restore of one archived document, at the end of its list.
RestoreEnclosure(doc) ==
  /\ doc \in Enclosures \ listed
  /\ listed' = listed \cup {doc} /\ published' = published \cup {doc}
  /\ tangled' = (IF \E o \in Officials : Listing(o) THEN tangled \cup {"list"} ELSE tangled)
  /\ UNCHANGED << table, folders, replaced, editing, slipped >>

-----------------------------------------------------------------------------
TableStep(o) ==
  \/ \E t \in Tables : AskTable(o, t)
  \/ CountLive(o) \/ DeleteRows(o) \/ CommitReplace(o) \/ EditingEnds(o)

FolderStep ==
  \E f \in Folders :
    \/ \E place \in Places : FileFolder(f, place) \/ MoveFolder(f, place)
    \/ ArchiveFolder(f) \/ RestoreFolder(f)

ListStep ==
  \/ \E o \in Officials : CommitList(o) \/ \E docs \in SUBSET Enclosures : ArchiveRest(o, docs)
  \/ \E doc \in Enclosures : RestoreEnclosure(doc)

WorkflowNext == FolderStep \/ ListStep \/ \E o \in Officials : TableStep(o)

WorkflowSpec == WorkflowInit /\ [][WorkflowNext]_workflowVars

-----------------------------------------------------------------------------
\* Every variable has its type.
WorkflowTypeOK ==
  /\ table \in TableOver(Places \X Places)
  /\ folders \in [ Folders -> Folder \cup {Nowhere} ]
  /\ replaced \in Seq(ReplacementOver(Places \X Places))
  /\ listed \subseteq Enclosures /\ published \subseteq Enclosures
  /\ slipped \subseteq Folders /\ tangled \subseteq {"table", "list"}

\* "An edit that strands an application in a status with no legal move out ...
\* is refused" (migration 029): whatever tables are put in force, an application
\* in the working list that is not over has a move out of its status - unless it
\* came to that status, was filed in it or was brought back from the archive
\* while a replacement had already counted, or where no move led out any more.
NobodyStranded ==
  \A f \in Folders \ slipped :
    folders[f] # Nowhere /\ ~folders[f].archived /\ folders[f].place \notin FinalPlaces =>
      folders[f].place \in Leaving(table)

\* Somebody who tries a move: with which scopes, and what is true by then.
MoveAttempt == [ who : {"applicant", "staff"}, scopes : SUBSET Scopes, met : SUBSET Conditions ]

Admits(rule, try) ==
  try.who \in rule.actors /\ rule.scope \in try.scopes /\ rule.preconditions \subseteq try.met

\* Somebody can make a move of a table who could not by the one before.
GainedBy(was, now, move, try) ==
  Admits(now[move], try) /\ ~(move \in DOMAIN was /\ Admits(was[move], try))

\* What no warning speaks of: the scope changed, and not to one further down the
\* list; or the move is opened to officers, where it was the applicant's.
Unwarned(was, now, try) ==
  \/ was.scope \notin try.scopes /\ ~StandsLower(was.scope, now.scope)
  \/ try.who = "staff" /\ "staff" \notin was.actors

\* A change from one table to another gives up these moves: a move is among them
\* only if somebody gained it, and whoever gains one that is not among them does
\* so by what no warning speaks of.
TellsWhatWasGiven(moves, was, now) ==
  /\ \A move \in moves : move \in DOMAIN now /\ \E try \in MoveAttempt : GainedBy(was, now, move, try)
  /\ \A move \in DOMAIN now \ moves, try \in MoveAttempt :
       GainedBy(was, now, move, try) => move \in DOMAIN was /\ Unwarned(was[move], now[move], try)

\* "Replaces the whole table ... because a lifecycle is a graph and a graph is
\* only correct as a whole", with "every change audited with its before and
\* after": the table in force is the one the last entry gives, and each entry
\* starts from the table before it.  "A change that widens who can make a move is
\* returned as a WARNING naming what it gave up": an entry names the moves that
\* somebody can make by its table and could not by the one before, and no other -
\* but for a scope that NARROWNESS does not place below the old one (it omits
\* staff:receive) and for a move newly opened to officers, which the code lets
\* pass in silence.  All this unless two replacements overlapped: then the table
\* may be a mixture of both that nobody submitted, and what an entry compares with
\* may be older than what it replaced.  "Wholesale, not per-document" goes for a
\* checklist the same way.
PublishedAsAWhole ==
  LET said(n) == IF n = 0 THEN FirstTable ELSE replaced[n].after IN
  /\ "table" \notin tangled =>
       /\ table = said(Len(replaced))
       /\ \A n \in DOMAIN replaced :
            /\ replaced[n].before = said(n - 1)
            /\ TellsWhatWasGiven(replaced[n].givenUp, said(n - 1), said(n))
  /\ "list" \notin tangled => listed = published
=============================================================================
