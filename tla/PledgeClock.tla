---------------------------- MODULE PledgeClock ----------------------------
(***************************************************************************)
(* The processing pledge: the clock of pledge-clock.ts, the calendar it is *)
(* given (calendar.repository.ts), and its two uses - the office's count   *)
(* of overdue applications (staff-queue.service.ts) and the compliance     *)
(* report (compliance-report.ts).  Time is counted in Philippine dates.    *)
(*                                                                         *)
(* Holidays are proclaimed during the year and the Citizen's Charter is    *)
(* amended; the calendar is read in two statements, side by side, and then *)
(* kept for a time.                                                        *)
(***************************************************************************)
EXTENDS Naturals, Sequences, FiniteSets, FiniteSetsExt
Course == INSTANCE LifecycleRules

CONSTANTS
  WeekLength, Weekend,  \* days of a week, those that are no working days
  YearLength,
  Proclaimable,  \* dates that may be proclaimed holidays
  Pledged,       \* numbers of working days the Charter may pledge
  NoDate,        \* SQL null
  LastDate,      \* bound: dates that come
  SearchLimit,   \* days a loop over dates goes through at most
  MaxHops        \* bound: moves of the application

ASSUME PledgeAssumption ==
  /\ WeekLength \in Nat \ {0} /\ YearLength \in Nat \ {0} /\ Weekend \subseteq Nat
  /\ Pledged \subseteq Nat \ {0} /\ Proclaimable \subseteq Nat /\ NoDate \notin Nat
  /\ LastDate \in Nat /\ SearchLimit \in Nat /\ MaxHops \in Nat

VARIABLES
  date,       \* today
  holidays,   \* dates proclaimed
  proclaimed, \* years whose proclamation is complete
  charter,    \* entries of the permit type, each in force until the next
  subject,     \* the application
  loading,    \* a read of the calendar under way
  calendar    \* the calendar kept, or none

clockVars == << date, holidays, proclaimed, charter, subject, loading, calendar >>

YearOf(d) == d \div YearLength
Calendar == [ years : SUBSET Nat, days : SUBSET Nat ]

\* Statuses the office holds an application in are one to the clock.
Told == { "Draft", "Revision Required", "Released", "Completed", "Rejected", "Cancelled",
          "Expired" }
InHands(status) == IF status \in Told THEN status ELSE "with the office"
Hops == { hop \in { << InHands(r.from), InHands(r.to) >> : r \in Course!TRANSITIONS } :
            hop[1] # hop[2] }
Finished == {"Released", "Completed", "Rejected"}
ClosedToClock == Told \ {"Revision Required"}

-----------------------------------------------------------------------------
\* The clock.
isWorkingDay(d, days) == d % WeekLength \notin Weekend /\ d \notin days

\* The day it begins on is not counted.
workingDaysBetween(from, to, days, suspended) ==
  Cardinality({ d \in (from + 1)..to : isWorkingDay(d, days) /\ d \notin suspended })

dueDateFor(start, pledge, days, suspended) ==
  LET ends == { d \in start..(start + SearchLimit) :
                  workingDaysBetween(start, d, days, suspended) = pledge }
  IN  IF ends = {} THEN NoDate ELSE Min(ends)

spanIsFullyKnown(from, to, years) == \A y \in YearOf(from)..YearOf(to) : y \in years

\* Mutant: nothing is suspended.
suspendsNothing(spell, upTo) == {}

\* A spell is the dates of the applicant's turn; it lasts while it has no end.
suspendedDates(spell, upTo) ==
  IF spell.from = NoDate THEN {}
  ELSE spell.from..(IF spell.to = NoDate THEN upTo ELSE spell.to)

\* No pledge at all without an entry of the Charter, or before the filing.
NoPledge == [ given |-> FALSE, dueDate |-> NoDate, spare |-> FALSE, approximate |-> FALSE,
              overdue |-> FALSE ]

computePledge(pledge, start, end, spell, cal) ==
  IF pledge = NoDate \/ start = NoDate THEN NoPledge
  ELSE LET asOf == IF end = NoDate THEN date ELSE end
           suspended == suspendedDates(spell, asOf)
           due == dueDateFor(start, pledge, cal.days, suspended)
           elapsed == workingDaysBetween(start, asOf, cal.days, suspended)
           horizon == IF due # NoDate /\ due > asOf THEN due ELSE asOf
           approximate == ~spanIsFullyKnown(start, horizon, cal.years)
       IN  [ given |-> TRUE, dueDate |-> due, spare |-> elapsed <= pledge,
             approximate |-> approximate, overdue |-> ~approximate /\ elapsed > pledge ]

-----------------------------------------------------------------------------
\* What the queries carry of an application: the first move to Revision
\* Required, the first back from it, the last to a status that finishes it.
DatesOf(hops) == { subject.trail[i].on : i \in hops }
Earliest(dates) == IF dates = {} THEN NoDate ELSE Min(dates)
Latest(dates) == IF dates = {} THEN NoDate ELSE Max(dates)

IsReturn(i) == subject.trail[i].to = "Revision Required"
IsAnswer(i) ==
  subject.trail[i].from = "Revision Required" /\ subject.trail[i].to = InHands("Under Evaluation")
IsFinish(i) == subject.trail[i].to \in Finished

Spell ==
  LET trail == DOMAIN subject.trail
  IN  [ from |-> Earliest(DatesOf({ i \in trail : IsReturn(i) })),
        to |-> Earliest(DatesOf({ i \in trail : IsAnswer(i) })) ]
CompletedAt == Latest(DatesOf({ i \in DOMAIN subject.trail : IsFinish(i) }))

\* The Charter's entry in force on a date.
PledgeOn(d) ==
  LET begun == { i \in DOMAIN charter : charter[i].from <= d }
  IN  IF begun = {} THEN NoDate ELSE charter[Max(begun)].days

\* The office's figure, over what is not closed, by the entry the record names.
overdue ==
  /\ subject.place \notin ClosedToClock
  /\ computePledge(subject.entry, subject.filed, NoDate, Spell, calendar).overdue

\* The row of a worklist, and of the applicant's own list.
pledgeOf == computePledge(subject.entry, subject.filed, CompletedAt, Spell, calendar)

\* The report's verdict, by the entry of the day it was filed on; a
\* classification, which the record keeps from the day it was drafted, is needed.
complianceReport ==
  LET pledge == IF subject.entry = NoDate \/ subject.filed = NoDate THEN NoDate
                ELSE PledgeOn(subject.filed)
      row == computePledge(pledge, subject.filed, CompletedAt, Spell, calendar)
  IN  IF ~row.given THEN "unclassified"
      ELSE IF row.approximate THEN "indeterminate"
      ELSE IF row.spare THEN "within" ELSE "beyond"

-----------------------------------------------------------------------------
ClockInit ==
  /\ date = 0 /\ holidays = {} /\ proclaimed = {} /\ charter = << >>
  /\ subject = [ place |-> "none", entry |-> NoDate, filed |-> NoDate, trail |-> << >> ]
  /\ loading = [ years |-> NoDate, days |-> NoDate ] /\ calendar = NoDate

DayPasses ==
  /\ date < LastDate /\ date' = date + 1
  /\ UNCHANGED << holidays, proclaimed, charter, subject, loading, calendar >>

\* A holiday is proclaimed, in a year whose calendar is not complete.
Proclaim(d) ==
  /\ YearOf(d) \notin proclaimed /\ holidays' = holidays \cup {d}
  /\ UNCHANGED << date, proclaimed, charter, subject, loading, calendar >>

CompleteYear(y) ==
  /\ proclaimed' = proclaimed \cup {y}
  /\ UNCHANGED << date, holidays, charter, subject, loading, calendar >>

\* The Charter is published or amended; the entry before is closed that day.
PublishEntry(days) ==
  /\ charter # << >> => charter[Len(charter)].from < date
  /\ charter' = Append(charter, [ from |-> date, days |-> days ])
  /\ UNCHANGED << date, holidays, proclaimed, subject, loading, calendar >>

\* fileApplication: a record is made, as a draft or filed at once, with the entry
\* in force today.
RecordMatter(asDraft) ==
  /\ subject.place = "none"
  /\ subject' = [ place |-> IF asDraft THEN "Draft" ELSE InHands("Submitted"),
                 entry |-> PledgeOn(date), filed |-> IF asDraft THEN NoDate ELSE date,
                 trail |-> << >> ]
  /\ UNCHANGED << date, holidays, proclaimed, charter, loading, calendar >>

\* A draft is filed, which leaves its entry alone; any other move adds a row.
MakeHop(to) ==
  /\ << subject.place, to >> \in Hops /\ Len(subject.trail) < MaxHops
  /\ subject' = [ subject EXCEPT !.place = to,
                   !.filed = IF subject.place = "Draft" /\ to # "Cancelled" THEN date ELSE @,
                   !.trail = Append(@, [ from |-> subject.place, to |-> to, on |-> date ]) ]
  /\ UNCHANGED << date, holidays, proclaimed, charter, loading, calendar >>

\* load: two statements on two connections, and the calendar is kept.
ReadYears ==
  /\ calendar = NoDate /\ loading.years = NoDate
  /\ loading' = [ loading EXCEPT !.years = proclaimed ]
  /\ UNCHANGED << date, holidays, proclaimed, charter, subject, calendar >>

ReadDays ==
  /\ calendar = NoDate /\ loading.days = NoDate
  /\ loading' = [ loading EXCEPT !.days = holidays ]
  /\ UNCHANGED << date, holidays, proclaimed, charter, subject, calendar >>

Keep ==
  /\ loading.years # NoDate /\ loading.days # NoDate
  /\ calendar' = loading /\ loading' = [ years |-> NoDate, days |-> NoDate ]
  /\ UNCHANGED << date, holidays, proclaimed, charter, subject >>

\* Its time is up.
Forget ==
  /\ calendar # NoDate /\ calendar' = NoDate
  /\ UNCHANGED << date, holidays, proclaimed, charter, subject, loading >>

ReadStep == ReadYears \/ ReadDays \/ Keep \/ Forget

FilingHop == \/ \E asDraft \in BOOLEAN : RecordMatter(asDraft)
             \/ \E hop \in Hops : MakeHop(hop[2])

YearStep == \/ \E d \in Proclaimable : Proclaim(d) \/ CompleteYear(YearOf(d))
            \/ \E days \in Pledged : PublishEntry(days)

ClockNext == DayPasses \/ YearStep \/ FilingHop \/ ReadStep

ClockSpec == ClockInit /\ [][ClockNext]_clockVars

-----------------------------------------------------------------------------
\* Every variable has its type.
ClockTypeOK ==
  /\ date \in 0..LastDate /\ holidays \subseteq Proclaimable
  /\ proclaimed \subseteq { YearOf(d) : d \in Proclaimable }
  /\ \A i \in DOMAIN charter : charter[i] \in [ from : 0..LastDate, days : Pledged ]
  /\ subject.place \in Told \cup {InHands("Submitted"), "none"}
  /\ subject.entry \in Pledged \cup {NoDate} /\ subject.filed \in (0..LastDate) \cup {NoDate}
  /\ calendar # NoDate => /\ calendar.years \subseteq proclaimed
                          /\ calendar.days \subseteq holidays

\* The days the office had the application, as the statute counts them: working
\* days after the filing, but none on which the applicant had it.
HadByApplicant(d) ==
  \E i \in DOMAIN subject.trail :
    /\ IsReturn(i) /\ subject.trail[i].on <= d
    /\ i < Len(subject.trail) => d <= subject.trail[i + 1].on
OfficeDays(to) ==
  Cardinality({ d \in (subject.filed + 1)..to : isWorkingDay(d, holidays) /\ ~HadByApplicant(d) })

\* The course the clock is right about: returned once at most, never taken up
\* again after it was closed, not called off, completed the day it is released.
PlainCourse ==
  /\ Cardinality({ i \in DOMAIN subject.trail : IsReturn(i) }) <= 1
  /\ \A i \in DOMAIN subject.trail :
       /\ subject.trail[i].to \notin {"Cancelled", "Expired"}
       /\ subject.trail[i].from = "Released" => subject.trail[i].on = subject.trail[i - 1].on
       /\ subject.trail[i].from # "Rejected"

\* The two reads of the calendar agree on the years it vouches for.
ReadWhole ==
  { d \in holidays : YearOf(d) \in calendar.years } \subseteq calendar.days

\* "Never assert a pledge the LGU has not made, and never accuse it of lateness
\* it has not incurred" (pledge-clock.ts).  On a plain course, and with a calendar
\* read whole, however long it has been kept: what the office counts as overdue,
\* the report as beyond its pledge, has been with the office on more working days,
\* of all that are ever proclaimed, than the Charter pledged; what the report
\* counts as within has not; and nothing of a type without an entry is counted.
NeverAccusedWrongly ==
  calendar # NoDate /\ subject.filed # NoDate /\ PlainCourse /\ ReadWhole =>
    LET end == IF CompletedAt = NoDate THEN date ELSE CompletedAt IN
    /\ overdue => OfficeDays(date) > subject.entry
    /\ complianceReport = "beyond" => OfficeDays(end) > PledgeOn(subject.filed)
    /\ complianceReport = "within" => OfficeDays(end) <= PledgeOn(subject.filed)
    /\ PledgeOn(subject.filed) = NoDate => complianceReport = "unclassified"
=============================================================================
