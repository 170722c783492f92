--------------------------- MODULE PublicContent ---------------------------
(***************************************************************************)
(* What the Castilla portal says of the municipality and how it changes:   *)
(* proposals and their confirmation, reverts (confirmation.service.ts), a  *)
(* page replaced (pages.service.ts), the fields the public read model      *)
(* serves and the cache keys a change expires (invalidation.ts).           *)
(*                                                                         *)
(* A field is << entity type, entity, field name >>, as in field_state.    *)
(* The initial states are those the seeder leaves.                         *)
(***************************************************************************)
EXTENDS PageCache, Sequences, FiniteSets

CONSTANTS
  Fields,      \* << entityType, entityId, fieldName >>
  HeadOf,      \* head_official_id of each office, or Blank
  IssuedBy,    \* issuing_office_id of each permit, or Blank
  Texts,       \* values of fields
  Editors,     \* staff accounts
  Proposals,   \* ids of proposals
  Edits,       \* sessions of the staff
  Blank        \* null

ASSUME PublicContentAssumption ==
  /\ Blank \notin Texts \cup Proposals \cup Editors \cup Fields
  /\ \A f \in Fields :
       f[1] = "office" /\ f[3] = "head" /\ HeadOf[f[2]] # Blank
         => << "official", HeadOf[f[2]], "name" >> \in Fields

VARIABLES
  stored,      \* the value in the entity's own table
  state,       \* field_state
  sources,     \* provenance rows of each field: the proposal, or Blank for the seeder's
  proposals,   \* rows of proposals
  history,     \* field_value_history, in the order of the commits
  revisions,   \* content_page_revisions
  edit,        \* the sessions
  unexpired    \* pages whose expiry failed after the commit, since the process started

contentOwnVars == << stored, state, sources, proposals, history, revisions, edit, unexpired >>
contentVars == << cacheVars, contentOwnVars >>

NoEdit == [ at |-> "nothing", field |-> Blank, proposal |-> Blank, by |-> Blank,
            text |-> Blank, was |-> Blank ]

-----------------------------------------------------------------------------
\* The read model.

\* Served with its state, or served only when confirmed.
ServedAnyway(field) == field[1] \in {"permit", "page"}

\* The head of an office may be the record of an elected official.
Holder(field) ==
  IF field[1] = "office" /\ field[3] = "head" /\ HeadOf[field[2]] # Blank
  THEN << "official", HeadOf[field[2]], "name" >> ELSE field

Confirmed(field) == state[field] = "confirmed"

Served(field) ==
  [ text |-> IF Confirmed(field) \/ ServedAnyway(field) THEN stored[Holder(field)] ELSE Blank,
    confirmed |-> Confirmed(field) ]

FieldsOn(page) ==
  { f \in Fields : \/ page = << f[1], f[2] >> /\ f[1] \in {"office", "permit", "page"}
                   \/ page = << "officials" >> /\ f[1] = "official"
                   \/ page = << "permits" >> /\ f[1] = "permit"
                   \/ page = << "pages" >> /\ f[1] = "page"
                   \/ page = << "municipality" >> /\ f[1] = "profile" }

ContentPages == { p \in Pages : FieldsOn(p) # {} }

\* invalidateFor.  Pages that show no field are left out.
Expires(field) ==
  LET type == field[1] entity == field[2] IN
  CASE type = "office" -> { << "office", entity >> }
    [] type = "official" -> { << "officials" >> } \cup
         { << "office", o >> : o \in { q \in DOMAIN HeadOf : HeadOf[q] = entity } }
    [] type = "permit" -> { << "permits" >>, << "permit", entity >> } \cup
         { << "office", o >> : o \in { IssuedBy[entity] } \ {Blank} }
    [] type = "page" -> { << "pages" >>, << "page", entity >> }
    [] type = "profile" -> { << "municipality" >> }

-----------------------------------------------------------------------------
\* What the seeder leaves: nothing is confirmed that no comment in the portal's
\* data gives a source for; a personal contact is withheld; a field without a
\* value is pending.
Seeded(field, text, st, from) ==
  /\ (from = << Blank >>) = (st = "confirmed")
  /\ text = Blank => field[1] = "office" /\ (st = "pending" \/ Holder(field) # field)
  /\ st = "withheld" => field[1] = "office" /\ field[3] # "head"

InitContent ==
  /\ stored \in [ Fields -> Texts \cup {Blank} ]
  /\ state \in [ Fields -> {"pending", "confirmed", "withheld"} ]
  /\ sources \in [ Fields -> { << >>, << Blank >> } ]
  /\ \A f \in Fields : Seeded(f, stored[f], state[f], sources[f])
  /\ proposals = [ p \in Proposals |-> Blank ]
  /\ history = [ f \in Fields |-> << >> ]
  /\ revisions = [ f \in Fields |-> << >> ]
  /\ edit = [ e \in Edits |-> NoEdit ]
  /\ unexpired = {}

-----------------------------------------------------------------------------
\* Proposing.

Made == { p \in Proposals : proposals[p] # Blank }
OpenFor(field) == { p \in Made : proposals[p].field = field /\ proposals[p].status = "open" }

\* One insert; proposals_one_open_per_field refuses a second open one.
Propose(p, field, text, by) ==
  /\ p \notin Made /\ OpenFor(field) = {}
  /\ proposals' = [ proposals EXCEPT ![p] =
       [ field |-> field, text |-> text, by |-> by, status |-> "open", decidedBy |-> Blank ] ]
  /\ UNCHANGED << cacheVars, stored, state, sources, history, revisions, edit, unexpired >>

-----------------------------------------------------------------------------
\* Confirming.

\* authorOf and mayConfirm, and then confirm's own reading of the row.
AskConfirm(e, p, by) ==
  /\ edit[e] = NoEdit /\ p \in Made /\ proposals[p].status = "open" /\ proposals[p].by # by
  /\ edit' = [ edit EXCEPT ![e] =
       [ NoEdit EXCEPT !.at = "confirming", !.proposal = p, !.by = by,
                       !.field = proposals[p].field ] ]
  /\ UNCHANGED << cacheVars, stored, state, sources, proposals, history, revisions, unexpired >>

StillOpen(p) == proposals[p].status = "open"

Confirm(e) ==
  LET p == edit[e].proposal  f == edit[e].field IN
  /\ edit[e].at = "confirming" /\ StillOpen(p)
  /\ proposals' = [ proposals EXCEPT ![p].status = "confirmed", ![p].decidedBy = edit[e].by ]
  /\ sources' = [ sources EXCEPT ![f] = Append(@, p) ]
  /\ state' = [ state EXCEPT ![f] = "confirmed" ]
  /\ history' = [ history EXCEPT ![f] =
       Append(@, [ state |-> "confirmed", proposal |-> p, by |-> edit[e].by ]) ]
  /\ edit' = [ edit EXCEPT ![e].at = "committed" ]
  /\ UNCHANGED << cacheVars, stored, revisions, unexpired >>

\* Another confirmation came first.
LoseTheRace(e) ==
  /\ edit[e].at = "confirming" /\ ~StillOpen(edit[e].proposal)
  /\ edit' = [ edit EXCEPT ![e] = NoEdit ]
  /\ UNCHANGED << cacheVars, stored, state, sources, proposals, history, revisions, unexpired >>

\* The field is read before the transaction, which then asks nothing.
AskRevert(e, field, by) ==
  /\ edit[e] = NoEdit /\ Confirmed(field)
  /\ edit' = [ edit EXCEPT ![e] =
       [ NoEdit EXCEPT !.at = "reverting", !.field = field, !.by = by ] ]
  /\ UNCHANGED << cacheVars, stored, state, sources, proposals, history, revisions, unexpired >>

Revert(e) ==
  LET f == edit[e].field IN
  /\ edit[e].at = "reverting"
  /\ state' = [ state EXCEPT ![f] = "pending" ]
  /\ history' = [ history EXCEPT ![f] =
       Append(@, [ state |-> "pending", proposal |-> Blank, by |-> edit[e].by ]) ]
  /\ edit' = [ edit EXCEPT ![e].at = "committed" ]
  /\ UNCHANGED << cacheVars, stored, sources, proposals, revisions, unexpired >>

-----------------------------------------------------------------------------
\* A page's text is replaced: what it said is read before the transaction.

AskNewText(e, field, text, by) ==
  /\ edit[e] = NoEdit /\ field[1] = "page" /\ stored[field] # Blank
  /\ edit' = [ edit EXCEPT ![e] =
       [ NoEdit EXCEPT !.at = "replacing", !.field = field, !.text = text,
                       !.was = stored[field], !.by = by ] ]
  /\ UNCHANGED << cacheVars, stored, state, sources, proposals, history, revisions, unexpired >>

ReplacePage(e) ==
  LET f == edit[e].field IN
  /\ edit[e].at = "replacing"
  /\ revisions' = [ revisions EXCEPT ![f] = Append(@, edit[e].was) ]
  /\ stored' = [ stored EXCEPT ![f] = edit[e].text ]
  /\ state' = [ state EXCEPT ![f] = "pending" ]
  /\ edit' = [ edit EXCEPT ![e].at = "committed" ]
  /\ UNCHANGED << cacheVars, sources, proposals, history, unexpired >>

-----------------------------------------------------------------------------
\* After the commit the pages that show the field expire.

Invalidate(e) ==
  /\ edit[e].at = "committed"
  /\ bump(Expires(edit[e].field))
  /\ edit' = [ edit EXCEPT ![e] = NoEdit ]
  /\ UNCHANGED << boot, reading, held, stored, state, sources, proposals, history, revisions,
                  unexpired >>

\* The commit's answer is lost, or the query of invalidateFor for the slugs fails.
InvalidateFails(e) ==
  /\ edit[e].at = "committed"
  /\ unexpired' = unexpired \cup Expires(edit[e].field)
  /\ edit' = [ edit EXCEPT ![e] = NoEdit ]
  /\ UNCHANGED << cacheVars, stored, state, sources, proposals, history, revisions >>

\* A request that fails before its commit leaves nothing.
EditFails(e) ==
  /\ edit[e].at \in {"confirming", "reverting", "replacing"}
  /\ edit' = [ edit EXCEPT ![e] = NoEdit ]
  /\ UNCHANGED << cacheVars, stored, state, sources, proposals, history, revisions, unexpired >>

ContentRestart ==
  /\ Reboot
  /\ edit' = [ e \in Edits |-> NoEdit ] /\ unexpired' = {}
  /\ UNCHANGED << stored, state, sources, proposals, history, revisions >>

-----------------------------------------------------------------------------
\* A reader fetches a page; each field is read by a statement of its own.
ReadContent ==
  /\ \E page \in ContentPages :
       \/ AskPage(page)
       \/ \E f \in FieldsOn(page) : Query(page, [ g \in {f} |-> Served(g) ])
       \/ Deliver(page, FieldsOn(page))
  /\ UNCHANGED contentOwnVars

EditStep(e) ==
  \/ \E p \in Proposals, by \in Editors : AskConfirm(e, p, by)
  \/ Confirm(e) \/ LoseTheRace(e)
  \/ \E f \in Fields, by \in Editors : AskRevert(e, f, by)
  \/ Revert(e)
  \/ \E f \in Fields, text \in Texts, by \in Editors : AskNewText(e, f, text, by)
  \/ ReplacePage(e)
  \/ Invalidate(e) \/ InvalidateFails(e) \/ EditFails(e)

ContentStep ==
  \/ \E p \in Proposals, f \in Fields, text \in Texts, by \in Editors : Propose(p, f, text, by)
  \/ \E e \in Edits : EditStep(e)
  \/ ReadContent
  \/ ContentRestart

ContentSpec == InitCache /\ InitContent /\ [][ContentStep]_contentVars

-----------------------------------------------------------------------------
(***************************************************************************)
(* A reader whose copy would be answered "not modified" holds what the     *)
(* page says: the tag is taken before the page is read and moves after     *)
(* the change committed, and a crash between the two renews every tag.     *)
(* Pages whose change is still on its way to its expiry, or whose expiry   *)
(* failed, are not covered.                                                *)
(***************************************************************************)
Expiring ==
  unexpired \cup
    UNION { Expires(edit[e].field) : e \in { x \in Edits : edit[x].at = "committed" } }

UnchangedIsCurrent ==
  \A page \in ContentPages \ Expiring :
    Unchanged(page) => held[page].has = [ f \in FieldsOn(page) |-> Served(f) ]
=============================================================================
