--------------------------- MODULE CitizenAccount ---------------------------
(***************************************************************************)
(* One citizen's account: proving a mobile number and correcting it, the   *)
(* photo, sessions and their refresh tokens, password recovery, disabling, *)
(* and erasure with the withdrawal of what the citizen had filed.          *)
(*                                                                         *)
(* Almost every operation here is several statements or transactions, and  *)
(* an act that passed the guard goes on after the account is disabled or   *)
(* erased.  Writers of rows that name the account wait for an erasure in   *)
(* flight (foreign keys lock it) and then write all the same: the row      *)
(* survives.  What protects it is the CHECK of migration 011.              *)
(***************************************************************************)
EXTENDS Naturals, FiniteSets

CONSTANTS
  Numbers,       \* mobile numbers
  Tokens,        \* ids of refresh_tokens rows; the first of a family names it
  Photos,        \* keys of photos in the object store
  Applications,  \* what the citizen files
  Nil,           \* SQL null, or no row
  Acts,          \* requests being served
  MaxAttempts,   \* wrong codes that spend a challenge
  MaxCutShort    \* bound: erasures whose follow-up is cut short

ASSUME AccountAssumption ==
  /\ Nil \notin Numbers \cup Tokens \cup Photos
  /\ MaxAttempts \in Nat \ {0} /\ MaxCutShort \in Nat

Rules == INSTANCE LifecycleRules

VARIABLES
  account,     \* the row of accounts
  channel,     \* contact_verifications.status of the mobile number
  challenge,   \* the live contact_verification_challenges row of the number
  tokens,      \* refresh_tokens
  ended,       \* families in revoked_sessions
  ticket,      \* the citizen's latest password_reset_tickets row
  bucket,      \* photos in the object store
  filings,     \* status of each application
  later,       \* applications filed or moved after the erasure
  act,         \* the requests
  receipts,    \* account.erased entries of the audit trail
  cutShort     \* erasures that died after they committed

accountVars == << account, channel, challenge, tokens, ended, ticket, bucket,
                  filings, later, act, receipts, cutShort >>
contactVars == << channel, challenge >>
sessionVars == << tokens, ended, ticket >>
filingVars == << filings, later >>
erasureVars == << receipts, cutShort >>

Maybe(set) == set \cup {Nil}

\* verified is the number whose code was answered when mobile_verified_at was
\* set, or Nil: the column itself is a date.
AccountRow == [ mobile : Maybe(Numbers), verified : Maybe(Numbers),
                password : {"set", "erased"}, photo : Maybe(Photos),
                disabled : BOOLEAN, erased : BOOLEAN, archived : BOOLEAN ]
Challenge == [ sent : Maybe(Numbers), attempts : Nat ]
Token == [ family : Tokens, parent : Maybe(Tokens), consumed : BOOLEAN, revoked : BOOLEAN ]
ChannelStatus == {"Unverified", "Pending Verification", "Verified", "Verification Failed"}
FilingStatus == Rules!LifecycleStatuses \cup {"none"}
Step == { "nothing", "asking", "answering", "correcting", "disabling", "enabling",
          "archiving", "ending", "signing in", "exchanging", "won", "lost", "minted", "forgetting",
          "setting password", "choosing photo", "photo stored", "photo saved",
          "removing photo", "filing", "erasing", "erased", "listing", "withdrawing" }
ActRecord == [ step : Step, token : Maybe(Tokens), family : Maybe(Tokens),
               photo : Maybe(Photos), old : Maybe(Photos), todo : SUBSET Applications ]

NoAct == [ step |-> "nothing", token |-> Nil, family |-> Nil, photo |-> Nil, old |-> Nil,
           todo |-> {} ]

AccountInit ==
  /\ account \in { [ mobile |-> n, verified |-> Nil, password |-> "set", photo |-> Nil,
                     disabled |-> FALSE, erased |-> FALSE, archived |-> FALSE ] :
                     n \in Maybe(Numbers) }
  /\ channel = "Unverified" /\ challenge = Nil
  /\ tokens = [ t \in Tokens |-> Nil ] /\ ended = {} /\ ticket = "none"
  /\ bucket = {}
  /\ filings = [ a \in Applications |-> "none" ] /\ later = {}
  /\ act = [ u \in Acts |-> NoAct ] /\ receipts = 0 /\ cutShort = 0

ActAt(u, step) == act[u].step = step
ActGoes(u, step) == act' = [ act EXCEPT ![u].step = step ]
ActEnds(u) == act' = [ act EXCEPT ![u] = NoAct ]

\* Mutant: no CHECK on erased rows.
AllowsAnything(row) == TRUE

\* erased_account_holds_no_personal_data.
Allows(row) ==
  row.erased => row.mobile = Nil /\ row.password = "erased" /\ row.disabled

-----------------------------------------------------------------------------
\* The guard of every request asks AccountStatusReader; sign-in and recovery
\* find the account by its address, which an erased one no longer has; an
\* officer's act reads erased_at.  Then the act goes on without asking again.

BeginOwn(u, step) ==
  /\ ActAt(u, "nothing") /\ ~account.disabled
  /\ step = "asking" => account.mobile # Nil /\ channel # "Verified"
  /\ step = "removing photo" => account.photo # Nil
  /\ act' = [ act EXCEPT ![u] = [ NoAct EXCEPT !.step = step,
       !.old = IF step \in {"choosing photo", "removing photo"} THEN account.photo ELSE Nil ] ]
  /\ UNCHANGED << account, contactVars, sessionVars, bucket, filingVars, erasureVars >>

BeginOffice(u, step) ==
  /\ ActAt(u, "nothing")
  /\ step # "erasing" => ~account.erased
  /\ ActGoes(u, step)
  /\ UNCHANGED << account, contactVars, sessionVars, bucket, filingVars, erasureVars >>

\* The request dies with its process.
ActDies(u) ==
  /\ ~ActAt(u, "nothing") /\ ActEnds(u)
  /\ IF act[u].step \in {"erased", "listing", "withdrawing"}
       THEN cutShort < MaxCutShort /\ cutShort' = cutShort + 1
       ELSE UNCHANGED cutShort
  /\ UNCHANGED << account, contactVars, sessionVars, bucket, filingVars, receipts >>

-----------------------------------------------------------------------------
\* Contact verification and rectification.

\* request: the live challenge is spent and another issued, for the number the
\* account has by then; verified_says_how refuses a verified channel.
RequestCode(u) ==
  /\ ActAt(u, "asking") /\ ActEnds(u)
  /\ IF channel = "Verified" THEN UNCHANGED contactVars
     ELSE /\ challenge' = [ sent |-> account.mobile, attempts |-> 0 ]
          /\ channel' = "Pending Verification"
  /\ UNCHANGED << account, sessionVars, bucket, filingVars, erasureVars >>

\* confirm: nothing outstanding, or the right code, an expired or a wrong one.
ConfirmCode(u, right) ==
  /\ ActAt(u, "answering") /\ ActEnds(u)
  /\ challenge # Nil /\ right => challenge.sent # Nil
  /\ IF challenge = Nil THEN UNCHANGED << account, contactVars >>
     ELSE IF right
       THEN /\ challenge' = Nil /\ channel' = "Verified"
            /\ account' = [ account EXCEPT !.verified = challenge.sent ]
     ELSE IF challenge.attempts + 1 >= MaxAttempts
       THEN challenge' = Nil /\ channel' = "Verification Failed" /\ UNCHANGED account
     ELSE /\ challenge' = [ challenge EXCEPT !.attempts = @ + 1 ]
          /\ UNCHANGED << account, channel >>
  /\ UNCHANGED << sessionVars, bucket, filingVars, erasureVars >>

ConfirmExpired(u) ==
  /\ ActAt(u, "answering") /\ ActEnds(u)
  /\ challenge # Nil /\ challenge' = Nil
  /\ UNCHANGED << account, channel, sessionVars, bucket, filingVars, erasureVars >>

\* Mutant: a code sent to the old number stays outstanding.
RectifyKeepsCode(u, number) ==
  LET row == [ account EXCEPT !.mobile = number, !.verified = Nil ] IN
  /\ ActAt(u, "correcting") /\ ActEnds(u)
  /\ account' = (IF number # account.mobile /\ Allows(row) THEN row ELSE account)
  /\ UNCHANGED << contactVars, sessionVars, bucket, filingVars, erasureVars >>

\* rectify, under the lock of the row: another number is not verified, and what
\* was sent to the old one is void.  (contact_verifications is left as it is.)
Rectify(u, number) ==
  LET row == [ account EXCEPT !.mobile = number, !.verified = Nil ] IN
  /\ ActAt(u, "correcting") /\ ActEnds(u)
  /\ IF number # account.mobile /\ Allows(row)
       THEN account' = row /\ challenge' = Nil
       ELSE UNCHANGED << account, challenge >>
  /\ UNCHANGED << channel, sessionVars, bucket, filingVars, erasureVars >>

-----------------------------------------------------------------------------
\* Sessions.

Issued == { t \in Tokens : tokens[t] # Nil }
FreshTokens ==
  { t \in Tokens \ Issued : /\ \A c \in Issued : tokens[c].parent # t
                            /\ \A u \in Acts : act[u].token # t }

\* setDisabled; a disabled account's sessions are ended after the commit.
SetDisabled(u) ==
  LET row == [ account EXCEPT !.disabled = ActAt(u, "disabling") ] IN
  /\ act[u].step \in {"disabling", "enabling"}
  /\ account' = (IF Allows(row) THEN row ELSE account)
  /\ IF row.disabled THEN ActGoes(u, "ending") ELSE ActEnds(u)
  /\ UNCHANGED << contactVars, sessionVars, bucket, filingVars, erasureVars >>

\* endAllSessions: every family the account has a token of, live or not.
EndAllSessions(u) ==
  /\ ActAt(u, "ending") /\ ActEnds(u)
  /\ tokens' = [ t \in Tokens |-> IF t \in Issued
                   THEN [ tokens[t] EXCEPT !.revoked = TRUE ] ELSE Nil ]
  /\ ended' = ended \cup { tokens[t].family : t \in Issued }
  /\ UNCHANGED << account, contactVars, ticket, bucket, filingVars, erasureVars >>

\* OFFICE_WORK of archive.service.ts: what the office still owes work on.
OfficeWork(a) == filings[a] \notin {"none", "Draft"} /\ ~Rules!isTerminal(filings[a])

\* archive, for a citizen: asked first, while nothing of theirs is being processed.
BeginArchive(u) ==
  /\ ActAt(u, "nothing") /\ ~account.erased /\ ~account.archived
  /\ \A a \in Applications : ~OfficeWork(a)
  /\ ActGoes(u, "archiving")
  /\ UNCHANGED << account, contactVars, sessionVars, bucket, filingVars, erasureVars >>

\* Then written by id: no session is ended, and the guard refuses the account.
ArchiveCitizen(u) ==
  /\ ActAt(u, "archiving") /\ ActEnds(u)
  /\ account' = [ account EXCEPT !.disabled = TRUE, !.archived = TRUE ]
  /\ UNCHANGED << contactVars, sessionVars, bucket, filingVars, erasureVars >>

\* restore, one statement: archived and not erased; it enables whoever disabled.
RestoreCitizen ==
  /\ account.archived /\ ~account.erased
  /\ account' = [ account EXCEPT !.disabled = FALSE, !.archived = FALSE ]
  /\ UNCHANGED << contactVars, sessionVars, bucket, filingVars, act, erasureVars >>

EndSession(family) ==
  /\ tokens' = [ t \in Tokens |-> IF t \in Issued /\ tokens[t].family = family
                   THEN [ tokens[t] EXCEPT !.revoked = TRUE ] ELSE tokens[t] ]
  /\ ended' = ended \cup {family}

SignOut(family) ==
  /\ \E t \in Issued : tokens[t].family = family
  /\ EndSession(family)
  /\ UNCHANGED << account, contactVars, ticket, bucket, filingVars, act, erasureVars >>

Mint(t, family, parent) ==
  tokens' = [ tokens EXCEPT ![t] = [ family |-> family, parent |-> parent,
                                     consumed |-> FALSE, revoked |-> FALSE ] ]

\* authenticate, once the password and the account were found good.
StartSession(u, t) ==
  /\ ActAt(u, "signing in") /\ ActEnds(u)
  /\ t \in FreshTokens /\ Mint(t, t, Nil)
  /\ UNCHANGED << account, contactVars, ended, ticket, bucket, filingVars, erasureVars >>

\* rotate: the token as it was read.  One already exchanged is a replay.
BeginExchange(u, t) ==
  /\ ActAt(u, "nothing") /\ t \in Issued
  /\ ~tokens[t].consumed => ~tokens[t].revoked
  /\ act' = [ act EXCEPT ![u] = [ NoAct EXCEPT !.token = t, !.family = tokens[t].family,
       !.step = IF tokens[t].consumed THEN "lost" ELSE "exchanging" ] ]
  /\ UNCHANGED << account, contactVars, sessionVars, bucket, filingVars, erasureVars >>

\* Mutant: the update is not guarded by "consumed_at is null".
ConsumeAnyway(u) ==
  LET t == act[u].token IN
  /\ ActAt(u, "exchanging")
  /\ IF t \in Issued
       THEN tokens' = [ tokens EXCEPT ![t].consumed = TRUE ] /\ ActGoes(u, "won")
       ELSE UNCHANGED tokens /\ ActGoes(u, "lost")
  /\ UNCHANGED << account, contactVars, ended, ticket, bucket, filingVars, erasureVars >>

\* markConsumed: of two that read it unconsumed, one wins.
Consume(u) ==
  LET t == act[u].token IN
  /\ ActAt(u, "exchanging")
  /\ IF t \in Issued /\ ~tokens[t].consumed
       THEN tokens' = [ tokens EXCEPT ![t].consumed = TRUE ] /\ ActGoes(u, "won")
       ELSE UNCHANGED tokens /\ ActGoes(u, "lost")
  /\ UNCHANGED << account, contactVars, ended, ticket, bucket, filingVars, erasureVars >>

\* reactToReplay.
RevokeReplayed(u) ==
  /\ ActAt(u, "lost") /\ EndSession(act[u].family) /\ ActEnds(u)
  /\ UNCHANGED << account, contactVars, ticket, bucket, filingVars, erasureVars >>

MintNext(u, t) ==
  /\ ActAt(u, "won") /\ t \in FreshTokens
  /\ Mint(t, act[u].family, act[u].token) /\ ActGoes(u, "minted")
  /\ UNCHANGED << account, contactVars, ended, ticket, bucket, filingVars, erasureVars >>

\* refresh, after the rotation: the account is asked about last.
AnswerRefresh(u) ==
  /\ ActAt(u, "minted") /\ ActEnds(u)
  /\ IF account.disabled THEN EndSession(act[u].family) ELSE UNCHANGED << tokens, ended >>
  /\ UNCHANGED << account, contactVars, ticket, bucket, filingVars, erasureVars >>

\* operationalPurgeJob: tokens that were exchanged or revoked, and used tickets.
\* (A revocation outlives the access tokens it refers to; it goes after them.)
PurgeTokens ==
  /\ tokens' = [ t \in Tokens |-> IF t \in Issued /\ ~tokens[t].consumed /\ ~tokens[t].revoked
                   THEN tokens[t] ELSE Nil ]
  /\ ticket' = (IF ticket = "used" THEN "none" ELSE ticket)
  /\ << tokens', ticket' >> # << tokens, ticket >>
  /\ UNCHANGED << account, contactVars, ended, bucket, filingVars, act, erasureVars >>

\* beginPasswordReset: an earlier ticket is retired.
IssueTicket(u) ==
  /\ ActAt(u, "forgetting") /\ ActEnds(u)
  /\ ticket' = "live"
  /\ UNCHANGED << account, contactVars, tokens, ended, bucket, filingVars, erasureVars >>

\* completePasswordReset: redeemed first; a weak password costs the ticket.
RedeemTicket(u, weak) ==
  /\ ActAt(u, "nothing") /\ ticket = "live" /\ ticket' = "used"
  /\ IF weak THEN UNCHANGED act ELSE ActGoes(u, "setting password")
  /\ UNCHANGED << account, contactVars, tokens, ended, bucket, filingVars, erasureVars >>

\* updatePasswordHash, of a reset or a change; every session is ended after.
SetPassword(u) ==
  LET row == [ account EXCEPT !.password = "set" ] IN
  /\ ActAt(u, "setting password")
  /\ IF Allows(row) THEN account' = row /\ ActGoes(u, "ending")
                     ELSE UNCHANGED account /\ ActEnds(u)
  /\ UNCHANGED << contactVars, sessionVars, bucket, filingVars, erasureVars >>

-----------------------------------------------------------------------------
\* The profile photo.

StorePhoto(u, k) ==
  /\ ActAt(u, "choosing photo")
  /\ k \in Photos \ bucket /\ account.photo # k /\ \A o \in Acts : act[o].old # k
  /\ bucket' = bucket \cup {k}
  /\ act' = [ act EXCEPT ![u].step = "photo stored", ![u].photo = k ]
  /\ UNCHANGED << account, contactVars, sessionVars, filingVars, erasureVars >>

SavePhoto(u) ==
  /\ act[u].step \in {"photo stored", "removing photo"}
  /\ account' = [ account EXCEPT !.photo = act[u].photo ]
  /\ ActGoes(u, "photo saved")
  /\ UNCHANGED << contactVars, sessionVars, bucket, filingVars, erasureVars >>

\* The photo that was there goes, if the store can be reached.
DropOldPhoto(u, reached) ==
  /\ ActAt(u, "photo saved") /\ ActEnds(u)
  /\ bucket' = (IF reached THEN bucket \ {act[u].old} ELSE bucket)
  /\ UNCHANGED << account, contactVars, sessionVars, filingVars, erasureVars >>

-----------------------------------------------------------------------------
\* Applications: LifecycleRules says which moves there are.

Came(a) == later' = (IF account.erased THEN later \cup {a} ELSE later)

\* The citizen files, or moves what was filed.
CitizenFiles(u, a, to) ==
  /\ ActAt(u, "filing") /\ ActEnds(u)
  /\ \/ filings[a] = "none" /\ to \in {"Draft", "Submitted"}
     \/ \E r \in Rules!RuleFor(filings[a], to) : "applicant" \in r.actors
  /\ filings' = [ filings EXCEPT ![a] = to ] /\ Came(a)
  /\ UNCHANGED << account, contactVars, sessionVars, bucket, erasureVars >>

OfficeMoves(a, to) ==
  /\ \E r \in Rules!RuleFor(filings[a], to) : "staff" \in r.actors
  /\ filings' = [ filings EXCEPT ![a] = to ] /\ Came(a)
  /\ UNCHANGED << account, contactVars, sessionVars, bucket, act, erasureVars >>

-----------------------------------------------------------------------------
\* Erasure.

\* The transaction of erase.  Asked again, it answers with the receipt there is.
Erase(u) ==
  /\ ActAt(u, "erasing")
  /\ IF account.erased
       THEN /\ ActEnds(u)
            /\ UNCHANGED << account, contactVars, tokens, ticket, receipts >>
       ELSE /\ account' = [ account EXCEPT !.mobile = Nil, !.password = "erased",
                              !.photo = Nil, !.disabled = TRUE, !.erased = TRUE ]
            /\ challenge' = Nil /\ channel' = "Unverified"
            /\ tokens' = [ t \in Tokens |-> Nil ] /\ ticket' = "none"
            /\ receipts' = receipts + 1
            /\ act' = [ act EXCEPT ![u].step = "erased", ![u].old = account.photo ]
  /\ UNCHANGED << ended, bucket, filingVars, cutShort >>

\* After the commit: the photo's bytes, if the store can be reached.
ErasePhoto(u, reached) ==
  /\ ActAt(u, "erased") /\ ActGoes(u, "listing")
  /\ bucket' = (IF reached THEN bucket \ {act[u].old} ELSE bucket)
  /\ UNCHANGED << account, contactVars, sessionVars, filingVars, erasureVars >>

\* cancelInProgress.
ListOpen(u) ==
  /\ ActAt(u, "listing")
  /\ act' = [ act EXCEPT ![u].step = "withdrawing",
       ![u].todo = { a \in Applications : filings[a] # "none"
                                          /\ ~Rules!isTerminal(filings[a]) } ]
  /\ UNCHANGED << account, contactVars, sessionVars, bucket, filingVars, erasureVars >>

\* Mutant: a refused withdrawal ends the loop.
WithdrawUntilRefused(u, a) ==
  /\ ActAt(u, "withdrawing") /\ a \in act[u].todo
  /\ IF \E r \in Rules!RuleFor(filings[a], "Cancelled") : "applicant" \in r.actors
       THEN /\ filings' = [ filings EXCEPT ![a] = "Cancelled" ]
            /\ act' = [ act EXCEPT ![u].todo = @ \ {a} ]
       ELSE UNCHANGED filings /\ ActEnds(u)
  /\ UNCHANGED << account, contactVars, sessionVars, bucket, later, erasureVars >>

\* One application is withdrawn as the citizen could have, or quietly is not.
Withdraw(u, a) ==
  /\ ActAt(u, "withdrawing") /\ a \in act[u].todo
  /\ filings' = (IF \E r \in Rules!RuleFor(filings[a], "Cancelled") : "applicant" \in r.actors
                   THEN [ filings EXCEPT ![a] = "Cancelled" ] ELSE filings)
  /\ act' = [ act EXCEPT ![u].todo = @ \ {a} ]
  /\ UNCHANGED << account, contactVars, sessionVars, bucket, later, erasureVars >>

ErasureAnswered(u) ==
  /\ ActAt(u, "withdrawing") /\ act[u].todo = {} /\ ActEnds(u)
  /\ UNCHANGED << account, contactVars, sessionVars, bucket, filingVars, erasureVars >>

-----------------------------------------------------------------------------
VerifyStep(u) ==
  \/ \E step \in {"asking", "answering"} : BeginOwn(u, step)
  \/ RequestCode(u) \/ ConfirmExpired(u)
  \/ \E right \in BOOLEAN : ConfirmCode(u, right)

\* By the citizen, or by an officer for them.
CorrectStep(u) == BeginOwn(u, "correcting") \/ \E n \in Numbers : Rectify(u, n)
OfficeCorrects(u) == BeginOffice(u, "correcting")

ContactStep(u) == VerifyStep(u) \/ CorrectStep(u) \/ OfficeCorrects(u)

SignInStep(u) == BeginOwn(u, "signing in") \/ \E t \in Tokens : StartSession(u, t)

RefreshStep(u) ==
  \/ \E t \in Tokens : BeginExchange(u, t) \/ MintNext(u, t)
  \/ Consume(u) \/ RevokeReplayed(u) \/ AnswerRefresh(u)

SignOutStep(u) == BeginOwn(u, "ending") \/ EndAllSessions(u) \/ \E t \in Tokens : SignOut(t)
OfficeSignsOut(u) == BeginOffice(u, "ending")

\* A link may be asked for by anybody who names the address.
RecoverStep(u) == IssueTicket(u) \/ \E weak \in BOOLEAN : RedeemTicket(u, weak)
OfficeSendsLink(u) == BeginOffice(u, "forgetting")
PasswordStep(u) == BeginOwn(u, "setting password") \/ SetPassword(u)

SessionStep(u) ==
  \/ SignInStep(u) \/ RefreshStep(u) \/ SignOutStep(u) \/ OfficeSignsOut(u)
  \/ RecoverStep(u) \/ OfficeSendsLink(u) \/ PasswordStep(u) \/ PurgeTokens

StandingStep(u) ==
  \/ \E step \in {"disabling", "enabling"} : BeginOffice(u, step)
  \/ SetDisabled(u) \/ ActDies(u)
  \/ BeginArchive(u) \/ ArchiveCitizen(u) \/ RestoreCitizen

RemovesPhoto(u) == BeginOwn(u, "removing photo")

PhotoStep(u) ==
  \/ BeginOwn(u, "choosing photo") \/ RemovesPhoto(u)
  \/ \E k \in Photos : StorePhoto(u, k)
  \/ SavePhoto(u)
  \/ \E reached \in BOOLEAN : DropOldPhoto(u, reached)

FilingStep(u) ==
  \/ BeginOwn(u, "filing")
  \/ \E a \in Applications, to \in Rules!LifecycleStatuses :
       CitizenFiles(u, a, to) \/ OfficeMoves(a, to)

EraseStep(u) ==
  \/ BeginOwn(u, "erasing") \/ Erase(u) \/ ListOpen(u) \/ ErasureAnswered(u)
  \/ \E reached \in BOOLEAN : ErasePhoto(u, reached)
  \/ \E a \in Applications : Withdraw(u, a)
OfficeErases(u) == BeginOffice(u, "erasing")

ErasureStep(u) == EraseStep(u) \/ OfficeErases(u)

AccountNext ==
  \E u \in Acts : \/ ContactStep(u) \/ SessionStep(u) \/ StandingStep(u)
                  \/ PhotoStep(u) \/ FilingStep(u) \/ ErasureStep(u)

AccountSpec == AccountInit /\ [][AccountNext]_accountVars

-----------------------------------------------------------------------------
\* Every variable has its type.
AccountTypeOK ==
  /\ account \in AccountRow /\ channel \in ChannelStatus
  /\ challenge \in Challenge \cup {Nil}
  /\ tokens \in [ Tokens -> Token \cup {Nil} ] /\ ended \subseteq Tokens
  /\ ticket \in {"none", "live", "used"} /\ bucket \subseteq Photos
  /\ filings \in [ Applications -> FilingStatus ] /\ later \subseteq Applications
  /\ act \in [ Acts -> ActRecord ] /\ receipts \in Nat /\ cutShort \in Nat

\* A number counts as verified only while it is the one its code was sent to:
\* whichever of a correction, a new code and an answer comes between the others
\* (rectify: "Carrying mobile_verified_at across ... would assert that somebody
\* proved control of a number nobody ever sent anything to").
VerifiedWasProven ==
  ~account.erased /\ account.verified # Nil => account.verified = account.mobile

\* An erased account stays erased and holds nothing, although acts that passed
\* the guard before it - a correction, a new password, an officer enabling the
\* account - write after it; and it is erased once, however often it is asked.
ErasedStaysErased ==
  /\ receipts = (IF account.erased THEN 1 ELSE 0)
  /\ account.erased => account.mobile = Nil /\ account.password = "erased"
                       /\ account.disabled

\* Two clients that exchange one refresh token at the same time do not both get
\* another for it (rotate: the write is the atomic point, not the read).
OneExchange ==
  \A p, q \in Issued : tokens[p].parent # Nil /\ tokens[p].parent = tokens[q].parent => p = q

Withdrawable(a) ==
  \E r \in Rules!RuleFor(filings[a], "Cancelled") : "applicant" \in r.actors

\* Nothing the erased citizen could have withdrawn is left waiting for somebody
\* who is gone: once the erasure was answered, and unless it was cut short, only
\* what came to such a status after it (cancelInProgress).
NoneLeftBehind ==
  /\ account.erased /\ cutShort = 0
  /\ \A u \in Acts : act[u].step \notin {"erased", "listing", "withdrawing"}
  => \A a \in Applications \ later : ~Withdrawable(a)
=============================================================================
