------------------------------ MODULE Notices ------------------------------
(***************************************************************************)
(* The announcements of the Castilla portal (announcements.service.ts,     *)
(* announcements.repository.ts, announcement.ts): drafted, published or    *)
(* scheduled, withdrawn, and what the list and the page of one show.       *)
(*                                                                         *)
(* Drafting and publishing are statements that commit one by one; only a   *)
(* withdrawal is a transaction.  Scheduled and expired are what the clock  *)
(* makes of a published notice.                                            *)
(***************************************************************************)
EXTENDS PageCache, Sequences

CONSTANTS
  Slugs,      \* slugs of announcements
  Hands,      \* requests of the staff
  Never,      \* no expiry
  MaxHour     \* bound of the clock

ASSUME NoticesAssumption == MaxHour \in Nat /\ Never \notin Nat

VARIABLES
  notices,        \* rows of announcements
  noticeEvents,   \* announcement_events, in their order
  audited,        \* actions in the portal's audit_log
  hour,           \* the clock
  hand,           \* the requests
  unbumped        \* a committed change never reached its bump, since the process started

noticeOwnVars == << notices, noticeEvents, audited, hour, hand, unbumped >>
noticeVars == << cacheVars, noticeOwnVars >>

Hours == 0 .. MaxHour
NoNotice == [ status |-> "none", from |-> Never, until |-> Never ]
Free == [ at |-> "nothing", slug |-> Never, doing |-> "nothing" ]

NoticeList == << "announcements" >>
NoticePage(s) == << "announcement", s >>

ASSUME NoticesHavePages == NoticeList \in Pages /\ \A s \in Slugs : NoticePage(s) \in Pages

-----------------------------------------------------------------------------
\* stateOf, and what the two reads make of it.

stateOf(n) ==
  CASE n.status \in {"none", "draft", "withdrawn"} -> n.status
    [] n.status = "published" /\ n.from > hour -> "scheduled"
    [] n.status = "published" /\ n.from <= hour /\ n.until # Never /\ n.until <= hour -> "expired"
    [] OTHER -> "published"

isReadable(st) == st \in {"published", "expired"}

\* `list` keeps what is current; `bySlug` also what has lapsed.
InList(s) == stateOf(notices[s]) = "published"
OnPage(s) == IF isReadable(stateOf(notices[s])) THEN stateOf(notices[s]) ELSE "absent"

InitNotices ==
  /\ notices = [ s \in Slugs |-> NoNotice ]
  /\ noticeEvents = [ s \in Slugs |-> << >> ]
  /\ audited = [ s \in Slugs |-> {} ]
  /\ hour = 0
  /\ hand = [ h \in Hands |-> Free ]
  /\ unbumped = FALSE

-----------------------------------------------------------------------------
\* Drafting and publishing: the row, its event, its audit row and, for a
\* publication, the bump, one after the other.

Draft(h, s) ==
  /\ hand[h] = Free /\ notices[s] = NoNotice
  /\ notices' = [ notices EXCEPT ![s].status = "draft" ]
  /\ hand' = [ hand EXCEPT ![h] = [ at |-> "row", slug |-> s, doing |-> "created" ] ]
  /\ UNCHANGED << cacheVars, noticeEvents, audited, hour, unbumped >>

\* One conditional update; a moment to come makes it a schedule.
Publish(h, s, from, until) ==
  /\ hand[h] = Free /\ notices[s].status \in {"draft", "published"}
  /\ until # Never => until > from
  /\ notices' = [ notices EXCEPT ![s] =
       [ status |-> "published", from |-> from, until |-> until ] ]
  /\ hand' = [ hand EXCEPT ![h] = [ at |-> "row", slug |-> s, doing |-> "published" ] ]
  /\ UNCHANGED << cacheVars, noticeEvents, audited, hour, unbumped >>

Record(h) ==
  /\ hand[h].at = "row"
  /\ noticeEvents' = [ noticeEvents EXCEPT ![hand[h].slug] = Append(@, hand[h].doing) ]
  /\ hand' = [ hand EXCEPT ![h].at = "event" ]
  /\ UNCHANGED << cacheVars, notices, audited, hour, unbumped >>

Audit(h) ==
  /\ hand[h].at = "event"
  /\ audited' = [ audited EXCEPT ![hand[h].slug] = @ \cup {hand[h].doing} ]
  /\ hand' = [ hand EXCEPT ![h] =
       IF hand[h].doing = "published" THEN [ hand[h] EXCEPT !.at = "done" ] ELSE Free ]
  /\ UNCHANGED << cacheVars, notices, noticeEvents, hour, unbumped >>

-----------------------------------------------------------------------------
\* Withdrawing: found first, then one transaction.

AskWithdrawNotice(h, s) ==
  /\ hand[h] = Free /\ notices[s].status \in {"draft", "published"}
  /\ hand' = [ hand EXCEPT ![h] = [ at |-> "found", slug |-> s, doing |-> "withdrawn" ] ]
  /\ UNCHANGED << cacheVars, notices, noticeEvents, audited, hour, unbumped >>

WithdrawNotice(h) ==
  LET s == hand[h].slug IN
  /\ hand[h].at = "found"
  /\ notices' = [ notices EXCEPT ![s].status = "withdrawn" ]
  /\ noticeEvents' = [ noticeEvents EXCEPT ![s] = Append(@, "withdrawn") ]
  /\ audited' = [ audited EXCEPT ![s] = @ \cup {"withdrawn"} ]
  /\ hand' = [ hand EXCEPT ![h].at = "done" ]
  /\ UNCHANGED << cacheVars, hour, unbumped >>

-----------------------------------------------------------------------------
\* The keys a publication and a withdrawal expire.
NothingBumped == {}
Bumped == {NoticeList}

BumpNotices(h) ==
  /\ hand[h].at = "done"
  /\ bump(Bumped)
  /\ hand' = [ hand EXCEPT ![h] = Free ]
  /\ UNCHANGED << boot, reading, held, notices, noticeEvents, audited, hour, unbumped >>

\* A statement fails, or the answer to the commit is lost: what was written stays
\* and the bump is not reached.
NoticeFails(h) ==
  /\ hand[h].at # "nothing"
  /\ hand' = [ hand EXCEPT ![h] = Free ]
  /\ unbumped' = (unbumped \/ hand[h].at = "done")
  /\ UNCHANGED << cacheVars, notices, noticeEvents, audited, hour >>

NoticeRestart ==
  /\ Reboot
  /\ hand' = [ h \in Hands |-> Free ] /\ unbumped' = FALSE
  /\ UNCHANGED << notices, noticeEvents, audited, hour >>

HourPasses ==
  /\ hour < MaxHour /\ hour' = hour + 1
  /\ UNCHANGED << cacheVars, notices, noticeEvents, audited, hand, unbumped >>

\* A reader fetches the list, or the page of one notice.
ReadNotices ==
  /\ \/ AskPage(NoticeList)
     \/ Query(NoticeList, [ s \in Slugs |-> InList(s) ])
     \/ Deliver(NoticeList, Slugs)
     \/ \E s \in Slugs :
          \/ AskPage(NoticePage(s))
          \/ Query(NoticePage(s), [ x \in {s} |-> OnPage(x) ])
          \/ Deliver(NoticePage(s), {s})
  /\ UNCHANGED noticeOwnVars

NoticeStep ==
  \/ \E h \in Hands, s \in Slugs : Draft(h, s) \/ AskWithdrawNotice(h, s)
  \/ \E h \in Hands, s \in Slugs, from \in Hours, until \in Hours \cup {Never} :
       Publish(h, s, from, until)
  \/ \E h \in Hands : Record(h) \/ Audit(h) \/ WithdrawNotice(h) \/ BumpNotices(h) \/ NoticeFails(h)
  \/ HourPasses \/ ReadNotices \/ NoticeRestart

NoticesSpec == InitCache /\ InitNotices /\ [][NoticeStep]_noticeVars

-----------------------------------------------------------------------------
\* Withdrawn, and whoever withdrew it was answered.
TakenDown(s) ==
  /\ notices[s].status = "withdrawn" /\ ~unbumped
  /\ \A h \in Hands : hand[h].slug # s \/ hand[h].at # "done"

(***************************************************************************)
(* No reader is told that its copy of the list is still good while the     *)
(* copy shows a notice that was taken down, whatever publications,         *)
(* restarts and slow answers come between.                                 *)
(***************************************************************************)
TakenDownIsOffTheList ==
  \A s \in Slugs :
    TakenDown(s) /\ Unchanged(NoticeList) => ~held[NoticeList].has[s]

(***************************************************************************)
(* The same of the page of the notice itself.  withdraw: "a stale cache    *)
(* would keep showing a notice the LGU has taken down".                    *)
(***************************************************************************)
TakenDownIsGone ==
  \A s \in Slugs :
    TakenDown(s) /\ Unchanged(NoticePage(s)) => held[NoticePage(s)].has[s] = "absent"
=============================================================================
