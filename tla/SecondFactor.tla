---------------------------- MODULE SecondFactor ----------------------------
(***************************************************************************)
(* The authenticator of one staff account: totp.service.ts and what        *)
(* identity.service.ts asks of it at sign-in.  A secret is held in         *)
(* totp_enrolments until a code proves the app has it; an administrator    *)
(* re-issues it in three transactions, of which the officer's own requests *)
(* and another administrator's come in between.  A code is the secret and  *)
(* the thirty-second step it is for.                                       *)
(***************************************************************************)
EXTENDS Naturals

CONSTANTS
  Secrets,       \* what generateSecret may return
  Enrollee,      \* the account
  Managers,      \* who administer staff accounts
  Topmost,       \* super admins
  Nothing,       \* SQL null
  Calls,         \* requests in flight
  MaxClock       \* bound on the clock

ASSUME SecondFactorAssumption ==
  /\ Nothing \notin Secrets /\ Topmost \subseteq Managers \cup {Enrollee} /\ MaxClock \in Nat

VARIABLES
  factor,        \* accounts: totp_secret_encrypted, totp_last_step
  offer,         \* totp_enrolments
  demanded,      \* a role of the account requires a code
  inside,        \* the officer holds a session
  now,           \* stepAt of the clock
  handed,        \* secrets an answer gave to a person
  lost,          \* secrets activated by a request that died before it answered
  ask            \* the requests

factorVars == << factor, offer, demanded, inside, now, handed, lost, ask >>

OrNothing(set) == set \cup {Nothing}
Factor == [ secret : OrNothing(Secrets), last : Nat ]
Enrolment == [ secret : OrNothing(Secrets), fresh : BOOLEAN ]
Asked == [ kind : {"none", "enrol", "reissue", "sign in"}, secret : OrNothing(Secrets), step : Nat,
           pc : {"idle", "clearing", "beginning", "offering", "activating", "answering", "spending"} ]

NoFactor == [ secret |-> Nothing, last |-> 0 ]
NoOffer == [ secret |-> Nothing, fresh |-> FALSE ]
AskNothing == [ kind |-> "none", secret |-> Nothing, step |-> 0, pc |-> "idle" ]

FactorInit ==
  /\ factor = NoFactor /\ offer = NoOffer /\ demanded \in BOOLEAN /\ inside \in BOOLEAN
  /\ now = 2 /\ handed = {} /\ lost = {} /\ ask = [ r \in Calls |-> AskNothing ]

Enrolled == factor.secret # Nothing
Asking(r, kind, pc) == ask[r].kind = kind /\ ask[r].pc = pc
AskGoes(r, pc) == ask' = [ ask EXCEPT ![r].pc = pc ]
AskEnds(r) == ask' = [ ask EXCEPT ![r] = AskNothing ]
\* generateSecret never returns what was returned before.
Fresh == Secrets \ (handed \cup lost \cup {factor.secret, offer.secret}
                     \cup { ask[r].secret : r \in Calls })

-----------------------------------------------------------------------------
\* verify: a code is good one step either side of now, and after the last step spent.
Verifies(row, secret, step) ==
  /\ row.secret = secret /\ step + 1 >= now /\ step <= now + 1 /\ step > row.last

\* authenticate: with no role that asks for it the password is enough.
SignInPlain ==
  /\ ~demanded /\ ~inside /\ inside' = TRUE
  /\ UNCHANGED << factor, offer, demanded, now, handed, lost, ask >>

\* verifyAtSignIn reads the row, then writes the step it matched, whatever the
\* row has become.
ReadFactor(r, secret, step) ==
  /\ Asking(r, "none", "idle") /\ demanded /\ Enrolled /\ Verifies(factor, secret, step)
  /\ ask' = [ ask EXCEPT ![r] =
       [ kind |-> "sign in", secret |-> secret, step |-> step, pc |-> "spending" ] ]
  /\ UNCHANGED << factor, offer, demanded, inside, now, handed, lost >>

SpendStep(r) ==
  /\ Asking(r, "sign in", "spending")
  /\ factor' = [ factor EXCEPT !.last = ask[r].step ]
  /\ inside' = TRUE /\ AskEnds(r) /\ UNCHANGED << offer, demanded, now, handed, lost >>

-----------------------------------------------------------------------------
\* begin: refused when it reads that a factor is enrolled; the offer replaces
\* the pending one in a transaction of its own.
BeginEnrolment(r) ==
  /\ Asking(r, "none", "idle") /\ inside /\ ~Enrolled
  /\ ask' = [ ask EXCEPT ![r] = [ AskNothing EXCEPT !.kind = "enrol", !.pc = "offering" ] ]
  /\ UNCHANGED << factor, offer, demanded, inside, now, handed, lost >>

WriteOffer(r, s) ==
  /\ ask[r].pc = "offering" /\ s \in Fresh
  /\ offer' = [ secret |-> s, fresh |-> TRUE ]
  /\ ask' = [ ask EXCEPT ![r].secret = s,
       ![r].pc = IF ask[r].kind = "enrol" THEN "answering" ELSE "activating" ]
  /\ UNCHANGED << factor, demanded, inside, now, handed, lost >>

\* The secret is in the answer, once.
AnswerOffer(r) ==
  /\ ask[r].pc = "answering" /\ handed' = handed \cup {ask[r].secret} /\ AskEnds(r)
  /\ UNCHANGED << factor, offer, demanded, inside, now, lost >>

OfferExpires ==
  /\ offer.fresh /\ offer' = [ offer EXCEPT !.fresh = FALSE ]
  /\ UNCHANGED << factor, demanded, inside, now, handed, lost, ask >>

\* activate is one transaction that holds the offer.  It does not ask whether
\* the account has a factor by then.
Activated(s, step) ==
  /\ offer.fresh /\ Verifies([ secret |-> offer.secret, last |-> 0 ], s, step)
  /\ factor' = [ secret |-> s, last |-> step ] /\ offer' = NoOffer

Activate(s, step) ==
  /\ inside /\ s \in handed
  /\ \/ Activated(s, step)
     \/ offer.secret # Nothing /\ ~offer.fresh /\ offer' = NoOffer /\ UNCHANGED factor
  /\ UNCHANGED << demanded, inside, now, handed, lost, ask >>

-----------------------------------------------------------------------------
\* reissue: another administrator's, a super admin's for a super admin.
MayReissue(by) == by # Enrollee /\ (Enrollee \in Topmost => by \in Topmost)

BeginReissue(r, by) ==
  /\ Asking(r, "none", "idle") /\ MayReissue(by)
  /\ ask' = [ ask EXCEPT ![r] = [ AskNothing EXCEPT !.kind = "reissue", !.pc = "clearing" ] ]
  /\ UNCHANGED << factor, offer, demanded, inside, now, handed, lost >>

ClearFactor(r) ==
  /\ Asking(r, "reissue", "clearing") /\ factor' = NoFactor /\ offer' = NoOffer /\ AskGoes(r, "beginning")
  /\ UNCHANGED << demanded, inside, now, handed, lost >>

BeginForThem(r) ==
  /\ Asking(r, "reissue", "beginning")
  /\ IF Enrolled THEN AskEnds(r) ELSE AskGoes(r, "offering")
  /\ UNCHANGED << factor, offer, demanded, inside, now, handed, lost >>

\* Mutant: whatever is on offer is activated.
ActivateAnyOffer(r) ==
  /\ Asking(r, "reissue", "activating")
  /\ IF offer.fresh
       THEN /\ factor' = [ secret |-> offer.secret, last |-> now ] /\ offer' = NoOffer
            /\ AskGoes(r, "answering")
       ELSE /\ AskEnds(r) /\ offer' = NoOffer /\ UNCHANGED factor
  /\ UNCHANGED << demanded, inside, now, handed, lost >>

\* The code is made from the secret it was offered, which need not be the one
\* on offer any more.
ActivateForThem(r) ==
  /\ Asking(r, "reissue", "activating")
  /\ \/ Activated(ask[r].secret, now) /\ AskGoes(r, "answering")
     \/ ~offer.fresh /\ AskEnds(r) /\ offer' = NoOffer /\ UNCHANGED factor
     \/ offer.fresh /\ offer.secret # ask[r].secret /\ AskEnds(r) /\ UNCHANGED << factor, offer >>
  /\ UNCHANGED << demanded, inside, now, handed, lost >>

\* A request dies with its process, or its answer is lost on the way.
AskDies(r) ==
  /\ ask[r].pc # "idle" /\ AskEnds(r)
  /\ lost' = (IF Asking(r, "reissue", "answering") THEN lost \cup {ask[r].secret} ELSE lost)
  /\ UNCHANGED << factor, offer, demanded, inside, now, handed >>

-----------------------------------------------------------------------------
\* Roles are given and taken, sessions end, time passes.
RolesChange ==
  /\ demanded' = ~demanded /\ UNCHANGED << factor, offer, inside, now, handed, lost, ask >>

SessionEnds ==
  /\ inside /\ inside' = FALSE /\ UNCHANGED << factor, offer, demanded, now, handed, lost, ask >>

StepPasses ==
  /\ now < MaxClock /\ now' = now + 1
  /\ UNCHANGED << factor, offer, demanded, inside, handed, lost, ask >>

SignInWithCode(r) ==
  \/ \E s \in handed, step \in now - 1..now + 1 : ReadFactor(r, s, step)
  \/ SpendStep(r)

EnrolStep(r) ==
  \/ BeginEnrolment(r) \/ AnswerOffer(r)
  \/ \E s \in Secrets : WriteOffer(r, s)

ActivateStep == \E s \in handed, step \in now - 1..now + 1 : Activate(s, step)

ReissueStep(r) ==
  \/ ClearFactor(r) \/ BeginForThem(r) \/ ActivateForThem(r) \/ AskDies(r)
  \/ \E by \in Managers : BeginReissue(r, by)

FactorNext ==
  \/ SignInPlain \/ OfferExpires \/ ActivateStep \/ RolesChange \/ SessionEnds \/ StepPasses
  \/ \E r \in Calls : SignInWithCode(r) \/ EnrolStep(r) \/ ReissueStep(r)

FactorSpec == FactorInit /\ [][FactorNext]_factorVars

-----------------------------------------------------------------------------
FactorTypeOK ==
  /\ factor \in Factor /\ offer \in Enrolment /\ demanded \in BOOLEAN /\ inside \in BOOLEAN
  /\ now \in Nat /\ handed \in SUBSET Secrets /\ lost \in SUBSET Secrets
  /\ ask \in [ Calls -> Asked ]

\* The factor an account answers to is one somebody was given the secret of,
\* or is about to be by the re-issue that activated it, or would have been had
\* that request not died.  "Enrolling a second factor, without being locked
\* out by the attempt" (totp.service.ts:9): an offer nobody was shown, or was
\* replaced by another's, never becomes the account's factor.
FactorIsHeld ==
  Enrolled => \/ factor.secret \in handed \cup lost
              \/ \E r \in Calls : Asking(r, "reissue", "answering") /\ ask[r].secret = factor.secret
=============================================================================
