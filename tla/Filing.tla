------------------------------- MODULE Filing -------------------------------
(***************************************************************************)
(* How an application comes to be: submission.service.ts (a citizen files, *)
(* or saves and edits a draft; an officer files for a walk-in), the number *)
(* a filing takes from the one counter, resolve-renewal.ts, and the        *)
(* account an application needs: registration and the proof of its email.  *)
(*                                                                         *)
(* A filing is one transaction under READ COMMITTED.  What it reads first  *)
(* may be stale when it writes; the unique indexes (address, profile of an *)
(* account, key) and the lock on the counter decide the races.  A refusal  *)
(* that is returned commits whatever was written before it.  The documents *)
(* of a filing are in Documents.                                           *)
(***************************************************************************)
EXTENDS Naturals, FiniteSets

CONSTANTS
  Addresses,     \* emails, each the name of the account registered under it
  Names,         \* persons
  Counterstaff,      \* staff accounts
  Bare,          \* addresses whose account dates from before profiles
  Keys,          \* Idempotency-Keys
  Shops,         \* businesses
  Types,         \* permit types
  Permits,       \* numbers of permits on file
  PermitOf,      \* applicant, business and type each was issued to
  Filings,       \* ids of applications
  Nobody,        \* SQL null
  Clerks,        \* requests in flight
  MaxGuesses     \* wrong codes that spend a registration challenge

OrNobody(set) == set \cup {Nobody}
Permit == [ applicant : Addresses, shop : OrNobody(Shops), type : Types ]

ASSUME FilingAssumption ==
  /\ PermitOf \in [ Permits -> Permit ] /\ Bare \subseteq Addresses
  /\ Nobody \notin Addresses \cup Names \cup Keys \cup Shops \cup Types \cup Permits \cup Filings
  /\ Addresses \cap Counterstaff = {} /\ MaxGuesses \in Nat \ {0}

VARIABLES
  citizens,      \* the account of each address, with the profile's name
  owner,         \* owner of each business
  applications,  \* the rows
  counter,       \* document_number_sequences, series APP
  keys,          \* idempotency_keys
  codes,         \* registration_email_challenges of each address
  clerk          \* the requests

filingDeskVars == << citizens, owner, applications, counter, keys, codes, clerk >>

Actions == {"New", "Renewal"}
Form == [ type : Types, action : Actions, permit : OrNobody(Permits), claim : BOOLEAN,
          shop : OrNobody(Shops) ]
Account == [ name : OrNobody(Names), verified : BOOLEAN ]
Application == [ applicant : Addresses, name : Names, by : Addresses \cup Counterstaff,
                 key : OrNobody(Keys), status : {"Draft", "Submitted"}, number : Nat,
                 form : Form ]
Key == [ by : Addresses \cup Counterstaff, key : Keys, filing : Filings ]
Code == [ live : BOOLEAN, guesses : Nat, confirmed : BOOLEAN ]
\* found is what the request read: whether the account, and a profile, was there.
Request == [ kind : {"self", "counter"}, by : Addresses \cup Counterstaff, key : Keys,
             applicant : Addresses, name : Names, form : Form, draft : BOOLEAN,
             found : {"none", "bare", "profile"}, number : Nat ]
Finishing == [ kind : {"draft"}, filing : Filings, number : Nat ]
Joining == [ kind : {"register"}, applicant : Addresses, name : Names, proven : BOOLEAN ]

\* A row, or a request, is never the null.
ASSUME NoNullRow == Nobody \notin Application \cup Account \cup Request \cup Finishing \cup Joining

Filed == { a \in Filings : applications[a] # Nobody }
Unoccupied(c) == clerk[c] = Nobody
Busy(c, kinds) == clerk[c] # Nobody /\ clerk[c].kind \in kinds
Ends(c) == clerk' = [ clerk EXCEPT ![c] = Nobody ]

-----------------------------------------------------------------------------
FilingDeskInit ==
  /\ citizens \in { f \in [ Addresses -> Account \cup {Nobody} ] :
       \A a \in Addresses : f[a] \in { [ name |-> n, verified |-> FALSE ] :
            n \in IF a \in Bare THEN {Nobody} ELSE Names } \cup (IF a \in Bare THEN {} ELSE {Nobody}) }
  /\ owner \in { f \in [ Shops -> OrNobody(Addresses) ] :
       \A b \in Shops : f[b] # Nobody => citizens[f[b]] # Nobody }
  /\ \A p \in Permits : citizens[PermitOf[p].applicant] # Nobody
  /\ applications = [ a \in Filings |-> Nobody ] /\ counter = 0 /\ keys = {}
  /\ codes = [ a \in Addresses |-> [ live |-> FALSE, guesses |-> 0, confirmed |-> FALSE ] ]
  /\ clerk = [ c \in Clerks |-> Nobody ]

-----------------------------------------------------------------------------
\* What the statements read.

Known(by, key) == \E k \in keys : k.by = by /\ k.key = key

Profile(address) ==
  IF citizens[address] = Nobody THEN "none"
  ELSE IF citizens[address].name = Nobody THEN "bare" ELSE "profile"

\* resolveRenewal: a New application names no permit; another names one of the
\* applicant's own, issued to the same business and of the same type, or claims
\* one from before; a draft may name neither yet.
Resolves(form, applicant, draft) ==
  IF form.action = "New" THEN form.permit = Nobody /\ ~form.claim
  ELSE IF form.permit = Nobody THEN form.claim \/ draft
  ELSE /\ ~form.claim
       /\ PermitOf[form.permit] = [ applicant |-> applicant, shop |-> form.shop,
                                    type |-> form.type ]

Theirs(shop, applicant) == shop # Nobody => owner[shop] = applicant

-----------------------------------------------------------------------------
\* submit, up to the filing: an answered key, a caller without a profile,
\* another's business and an unresolved renewal change nothing.
BeginSubmit(c, by, key, form, draft) ==
  /\ Unoccupied(c) /\ ~Known(by, key)
  /\ Profile(by) = "profile"
  /\ Theirs(form.shop, by) /\ Resolves(form, by, draft)
  /\ clerk' = [ clerk EXCEPT ![c] =
       [ kind |-> "self", by |-> by, key |-> key, applicant |-> by,
         name |-> citizens[by].name, form |-> form, draft |-> draft,
         found |-> "profile", number |-> 0 ] ]
  /\ UNCHANGED << citizens, owner, applications, counter, keys, codes >>

\* fileOnBehalf, up to its first write: the address's profile, if it has one,
\* is the person the officer names.
BeginOnBehalf(c, officer, key, address, name, form, draft) ==
  /\ Unoccupied(c) /\ ~Known(officer, key)
  /\ Profile(address) = "profile" => citizens[address].name = name
  /\ clerk' = [ clerk EXCEPT ![c] =
       [ kind |-> "counter", by |-> officer, key |-> key, applicant |-> address,
         name |-> name, form |-> form, draft |-> draft,
         found |-> Profile(address), number |-> 0 ] ]
  /\ UNCHANGED << citizens, owner, applications, counter, keys, codes >>

\* The unique indexes over an account's address and over a profile's account:
\* an account that was not found is inserted, and so is a profile.
Insertable(r) == r.found = "none" => citizens[r.applicant] = Nobody

\* The account and the profile of the walk-in.  A profile that came to a bare
\* account meanwhile is found by the select that precedes its insert.
WalkIn(r) ==
  IF r.kind = "self" THEN UNCHANGED << citizens, codes >>
  ELSE LET row == citizens[r.applicant]
           proven == codes[r.applicant].confirmed
           was == IF r.found = "none" \/ row = Nobody
                  THEN [ name |-> Nobody, verified |-> FALSE ] ELSE row
       IN /\ citizens' = [ citizens EXCEPT ![r.applicant] =
               [ name |-> IF was.name = Nobody THEN r.name ELSE was.name,
                 verified |-> was.verified \/ proven ] ]
          /\ codes' = [ codes EXCEPT ![r.applicant].confirmed = FALSE ]

\* A refusal that is returned after the account was written: it stays, and the
\* proof is spent.
RefuseLate(c) ==
  /\ Busy(c, {"counter"}) /\ clerk[c].number = 0
  /\ LET r == clerk[c] IN
     /\ ~Theirs(r.form.shop, r.applicant) \/ ~Resolves(r.form, r.applicant, r.draft)
     /\ Insertable(r) /\ WalkIn(r)
  /\ Ends(c)
  /\ UNCHANGED << owner, applications, counter, keys >>

-----------------------------------------------------------------------------
\* next_application_reference locks the row of the counter until the commit.
CounterIsFree == \A c \in Clerks : Busy(c, {"self", "counter", "draft"}) => clerk[c].number = 0

\* Mutant: a sequence, which no rollback takes back.
TakeFromSequence(c) ==
  /\ Busy(c, {"self", "counter", "draft"}) /\ clerk[c].number = 0 /\ CounterIsFree
  /\ clerk[c].kind # "draft" =>
       /\ ~clerk[c].draft
       /\ clerk[c].kind = "counter" => /\ Theirs(clerk[c].form.shop, clerk[c].applicant)
                                       /\ Resolves(clerk[c].form, clerk[c].applicant, FALSE)
  /\ counter' = counter + 1
  /\ clerk' = [ clerk EXCEPT ![c].number = counter + 1 ]
  /\ UNCHANGED << citizens, owner, applications, keys, codes >>

TakeNumber(c) ==
  /\ Busy(c, {"self", "counter", "draft"}) /\ clerk[c].number = 0 /\ CounterIsFree
  /\ clerk[c].kind # "draft" =>
       /\ ~clerk[c].draft
       /\ clerk[c].kind = "counter" => /\ Theirs(clerk[c].form.shop, clerk[c].applicant)
                                       /\ Resolves(clerk[c].form, clerk[c].applicant, FALSE)
  /\ clerk' = [ clerk EXCEPT ![c].number = counter + 1 ]
  /\ UNCHANGED << citizens, owner, applications, counter, keys, codes >>

\* The primary key of idempotency_keys.
KeyIsFree(r) == ~Known(r.by, r.key)

\* fileApplication, the attached documents, the key, and the commit.  With a
\* requirement code that is not on the checklist the refusal is returned after
\* the insert: the row stays, and no key answers for it.
File(c, a, unknownRequirement) ==
  LET r == clerk[c] IN
  /\ Busy(c, {"self", "counter"}) /\ a \notin Filed
  /\ IF r.draft THEN Resolves(r.form, r.applicant, TRUE) /\ Theirs(r.form.shop, r.applicant)
                ELSE r.number # 0
  /\ unknownRequirement => r.kind = "self"
  /\ Insertable(r) /\ WalkIn(r)
  /\ unknownRequirement \/ KeyIsFree(r)
  /\ applications' = [ applications EXCEPT ![a] =
       [ applicant |-> r.applicant, name |-> r.name, by |-> r.by,
         key |-> IF unknownRequirement THEN Nobody ELSE r.key,
         status |-> IF r.draft THEN "Draft" ELSE "Submitted", number |-> r.number,
         form |-> r.form ] ]
  /\ counter' = (IF r.draft THEN counter ELSE r.number)
  /\ keys' = (IF unknownRequirement THEN keys
              ELSE keys \cup {[ by |-> r.by, key |-> r.key, filing |-> a ]})
  /\ Ends(c) /\ UNCHANGED owner

\* A unique index refuses, or the request dies: nothing of it stays.
RollBack(c) ==
  /\ ~Unoccupied(c) /\ Ends(c)
  /\ UNCHANGED << citizens, owner, applications, counter, keys, codes >>

-----------------------------------------------------------------------------
\* Drafts.  Whoever files or edits one holds its row.
Held(a) == \E c \in Clerks : Busy(c, {"draft"}) /\ clerk[c].filing = a

\* updateDraft: what is not resent is left alone, and the permit it renews is
\* looked at again only when the action is resent.  (Its refusals over documents
\* come after the update and commit it all the same.)
UpdateDraft(a, form, resent) ==
  /\ a \in Filed /\ applications[a].status = "Draft" /\ ~Held(a)
  /\ LET was == applications[a].form
         now == [ type   |-> IF "type" \in resent THEN form.type ELSE was.type,
                  shop   |-> IF "shop" \in resent THEN form.shop ELSE was.shop,
                  action |-> IF "action" \in resent THEN form.action ELSE was.action,
                  permit |-> IF "action" \in resent THEN form.permit ELSE was.permit,
                  claim  |-> IF "action" \in resent THEN form.claim ELSE was.claim ]
     IN /\ "shop" \in resent => Theirs(form.shop, applications[a].applicant)
        /\ "action" \in resent => Resolves(now, applications[a].applicant, TRUE)
        /\ applications' = [ applications EXCEPT ![a].form = now ]
  /\ UNCHANGED << citizens, owner, counter, keys, codes, clerk >>

BeginFiling(c, a) ==
  /\ Unoccupied(c) /\ a \in Filed /\ applications[a].status = "Draft" /\ ~Held(a)
  /\ clerk' = [ clerk EXCEPT ![c] = [ kind |-> "draft", filing |-> a, number |-> 0 ] ]
  /\ UNCHANGED << citizens, owner, applications, counter, keys, codes >>

\* The CHECK renewal_names_what_it_renews, of a row that is no draft.
NamesWhatItRenews(form) == form.action = "New" \/ form.permit # Nobody \/ form.claim

\* The move of a draft to Submitted, with the number it is given then.
FileDraft(c) ==
  /\ Busy(c, {"draft"}) /\ clerk[c].number # 0
  /\ LET a == clerk[c].filing IN
     /\ NamesWhatItRenews(applications[a].form)
     /\ applications' = [ applications EXCEPT ![a].status = "Submitted",
                                              ![a].number = clerk[c].number ]
  /\ counter' = clerk[c].number /\ Ends(c)
  /\ UNCHANGED << citizens, owner, keys, codes >>

-----------------------------------------------------------------------------
\* The proof of an address before an account is made for it.

RequestCodeFor(address) ==
  /\ codes' = [ codes EXCEPT ![address].live = TRUE, ![address].guesses = 0 ]
  /\ UNCHANGED << citizens, owner, applications, counter, keys, clerk >>

\* The right code; a wrong one, the last of which spends the challenge, or one
\* that has expired.
AnswerCode(address, answer) ==
  /\ codes[address].live
  /\ codes' = [ codes EXCEPT ![address] =
       CASE answer = "right" -> [ @ EXCEPT !.live = FALSE, !.guesses = 0, !.confirmed = TRUE ]
         [] answer = "wrong" /\ @.guesses + 1 < MaxGuesses -> [ @ EXCEPT !.guesses = @ + 1 ]
         [] OTHER -> [ @ EXCEPT !.live = FALSE, !.guesses = 0 ] ]
  /\ UNCHANGED << citizens, owner, applications, counter, keys, clerk >>

\* A confirmed proof is no longer honoured, an hour after.
ProofExpires(address) ==
  /\ codes[address].confirmed
  /\ codes' = [ codes EXCEPT ![address].confirmed = FALSE ]
  /\ UNCHANGED << citizens, owner, applications, counter, keys, clerk >>

\* register: the proof is spent first, and then the address is looked up.
BeginRegister(c, address, name) ==
  /\ Unoccupied(c)
  /\ codes' = [ codes EXCEPT ![address].confirmed = FALSE ]
  /\ clerk' = (IF citizens[address] # Nobody THEN clerk
               ELSE [ clerk EXCEPT ![c] = [ kind |-> "register", applicant |-> address,
                        name |-> name, proven |-> codes[address].confirmed ] ])
  /\ UNCHANGED << citizens, owner, applications, counter, keys >>

\* save: account and profile in one transaction, or the unique index's refusal.
SaveAccount(c) ==
  /\ Busy(c, {"register"}) /\ Ends(c)
  /\ LET r == clerk[c] IN
     citizens' = (IF citizens[r.applicant] # Nobody THEN citizens
                  ELSE [ citizens EXCEPT ![r.applicant] =
                           [ name |-> r.name, verified |-> r.proven ] ])
  /\ UNCHANGED << owner, applications, counter, keys, codes >>

-----------------------------------------------------------------------------
SubmitStep(c) ==
  \/ \E by \in Addresses, key \in Keys, form \in Form, draft \in BOOLEAN :
       BeginSubmit(c, by, key, form, draft)
  \/ \E a \in Filings, unknown \in BOOLEAN : File(c, a, unknown)
  \/ TakeNumber(c) \/ RollBack(c)

CounterStep(c) ==
  \/ \E officer \in Counterstaff, key \in Keys, address \in Addresses, name \in Names,
        form \in Form, draft \in BOOLEAN :
       BeginOnBehalf(c, officer, key, address, name, form, draft)
  \/ RefuseLate(c)

DraftStep(c) ==
  \/ \E a \in Filings : BeginFiling(c, a)
  \/ \E a \in Filings, form \in Form, resent \in SUBSET {"type", "action", "shop"} :
       UpdateDraft(a, form, resent)
  \/ FileDraft(c)

RegisterStep(c) ==
  \/ \E address \in Addresses, name \in Names : BeginRegister(c, address, name)
  \/ SaveAccount(c)

ProofStep ==
  \E address \in Addresses :
    \/ RequestCodeFor(address) \/ ProofExpires(address)
    \/ \E answer \in {"right", "wrong", "late"} : AnswerCode(address, answer)

FilingDeskNext ==
  \/ \E c \in Clerks : SubmitStep(c) \/ CounterStep(c) \/ DraftStep(c) \/ RegisterStep(c)
  \/ ProofStep

FilingDeskSpec == FilingDeskInit /\ [][FilingDeskNext]_filingDeskVars

-----------------------------------------------------------------------------
\* Every variable has its type.
FilingDeskTypeOK ==
  /\ citizens \in [ Addresses -> Account \cup {Nobody} ]
  /\ owner \in [ Shops -> OrNobody(Addresses) ]
  /\ applications \in [ Filings -> Application \cup {Nobody} ]
  /\ counter \in Nat /\ keys \subseteq Key /\ codes \in [ Addresses -> Code ]
  /\ clerk \in [ Clerks -> Request \cup Finishing \cup Joining \cup {Nobody} ]

\* The official series has no gap and no number twice, and no filing is made
\* twice: what was issued is 1 to the counter, although filings fail and die
\* after they took their number, and a draft has none (migration 064: "every
\* abandoned draft left a gap"); and however often and however concurrently a
\* request is sent again under its key, the key answers for one application and
\* no other was made under it (the remnants of a refusal over an unknown
\* requirement have no key).
SeriesHasNoGap ==
  /\ { applications[a].number : a \in { a \in Filed : applications[a].status = "Submitted" } }
       = 1..counter
  /\ \A a, b \in Filed : /\ applications[a].status = "Submitted" <=> applications[a].number > 0
                         /\ applications[a].number = applications[b].number
                            /\ applications[a].number > 0 => a = b
  /\ \A a \in Filed : applications[a].key # Nobody =>
       { k.filing : k \in { k \in keys : k.by = applications[a].by
                                         /\ k.key = applications[a].key } } = {a}

=============================================================================
