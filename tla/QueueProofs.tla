----------------------------- MODULE QueueProofs ----------------------------
(*****************************************************************************)
(* What tlapm proves of what waits in an office: in whose turn a document    *)
(* is accepted, the rounds that tell of it, the queue an officer pages       *)
(* through and whom an application waits on, and the clock of the            *)
(* processing pledge.  One section for each; what is shared of numbers and   *)
(* sequences comes first in the section that needs it.                       *)
(*****************************************************************************)
EXTENDS Evaluation, Worklist, StaffQueue, PledgeClock, Integers,
        FiniteSetTheorems, SequenceTheorems, WellFoundedInduction, TLAPS

-----------------------------------------------------------------------------
(*****************************************************************************)
(* Evaluation: in whose turn a document is accepted.                         *)
(*                                                                           *)
(* The turn of an acceptance is decided in one step and written in another,  *)
(* on the copy that was read: it has to be right in the request and on       *)
(* every copy.                                                               *)
(*****************************************************************************)

Requests == Evaluating \cup Reviewing \cup Uploading \cup Assigning \cup {AtRest}

\* A copy accepted, and a review about to accept one, was cleared in a turn of
\* the document's own stage or of none.
MayTurn(c) == {StageOf[c], "nobody", "office"}

PapersInTurn == \A c \in Codes : \A i \in 1..Len(papers[c]) : papers[c][i].turn \in MayTurn(c)

ReviewsInTurn ==
  \A d \in Desks : work[d].kind = "review" => work[d].turn \in MayTurn(work[d].code)

InTurn == EvaluationTypeOK /\ PapersInTurn /\ ReviewsInTurn

\* The stages, one by one.
LEMMA StagesAre ==
  Stages = {"Initial", "Zoning", "Fire Safety", "OBO", "Final Approval"}
<1>1. /\ Len(EVALUATION_STAGES) = 5
      /\ EVALUATION_STAGES[1] = "Initial" /\ EVALUATION_STAGES[2] = "Zoning"
      /\ EVALUATION_STAGES[3] = "Fire Safety" /\ EVALUATION_STAGES[4] = "OBO"
      /\ EVALUATION_STAGES[5] = "Final Approval"
  BY DEF EVALUATION_STAGES
<1>2. 1..5 = {1, 2, 3, 4, 5}
  OBVIOUS
<1> QED
  BY <1>1, <1>2 DEF Stages

\* Whoever's step it is, it is a stage's or a team's.
LEMMA StepsAreTeams == NextStages \subseteq Stages /\ StepTeams \subseteq Teams
<1>1. NextStages \subseteq Stages
  BY DEF NextStages, Stages
<1>2. CASE stand \in {"Submitted", "Received"}
  BY <1>1, <1>2 DEF StepTeams, Teams
<1>3. CASE stand \notin {"Submitted", "Received"}
  BY <1>1, <1>3, StagesAre DEF StepTeams, Teams
<1> QED
  BY <1>1, <1>2, <1>3

LEMMA TakenIsATeam ==
  ASSUME NEW o \in Officers
  PROVE  TeamToTake(o) \in OrNoTeam
<1>1. CASE InTeam(o)
  <2>1. \E t \in StepTeams : TRUE
    BY <1>1 DEF InTeam
  <2>2. (CHOOSE t \in StepTeams : TRUE) \in StepTeams
    BY <2>1
  <2> QED
    BY <2>2, StepsAreTeams DEF TeamToTake, OrNoTeam
<1>2. CASE ~InTeam(o)
  BY <1>2 DEF TeamToTake, OrNoTeam
<1> QED
  BY <1>1, <1>2

\* One desk's request changes and the papers stay.
LEMMA OneDesk ==
  ASSUME InTurn, NEW d \in Desks, NEW request \in Requests,
         request.kind = "review" => request.turn \in MayTurn(request.code),
         work' = [ work EXCEPT ![d] = request ], papers' = papers
  PROVE  /\ work' \in [ Desks -> Requests ]
         /\ PapersInTurn' /\ ReviewsInTurn'
<1>1. work \in [ Desks -> Requests ]
  BY DEF InTurn, EvaluationTypeOK, Requests
<1>2. work' \in [ Desks -> Requests ]
  BY <1>1
<1>3. \A e \in Desks : work'[e] = IF e = d THEN request ELSE work[e]
  BY <1>1
<1>4. ReviewsInTurn'
  <2> SUFFICES ASSUME NEW e \in Desks, work'[e].kind = "review"
               PROVE  work'[e].turn \in MayTurn(work'[e].code)
    BY DEF ReviewsInTurn, MayTurn
  <2> QED
    BY <1>3 DEF InTurn, ReviewsInTurn
<1>5. PapersInTurn'
  BY DEF InTurn, PapersInTurn, MayTurn
<1> QED
  BY <1>2, <1>4, <1>5

LEMMA RestIsARequest == AtRest \in Requests /\ AtRest.kind # "review"
BY DEF AtRest, Requests

\* A document is given a copy, or the verdict of one, and the desk rests.
LEMMA OnePaper ==
  ASSUME InTurn, NEW d \in Desks, NEW c \in Codes, NEW s \in Seq(Copy), s # <<>>,
         \A i \in 1..Len(s) : s[i].turn \in MayTurn(c),
         papers' = [ papers EXCEPT ![c] = s ], Finish(d)
  PROVE  /\ papers' \in [ Codes -> Seq(Copy) ] /\ \A x \in Codes : papers'[x] # <<>>
         /\ work' \in [ Desks -> Requests ]
         /\ PapersInTurn' /\ ReviewsInTurn'
<1>1. work \in [ Desks -> Requests ] /\ papers \in [ Codes -> Seq(Copy) ]
  BY DEF InTurn, EvaluationTypeOK, Requests
<1>2. \A x \in Codes : papers'[x] = IF x = c THEN s ELSE papers[x]
  BY <1>1
<1>3. papers' \in [ Codes -> Seq(Copy) ] /\ \A x \in Codes : papers'[x] # <<>>
  BY <1>1, <1>2 DEF InTurn, EvaluationTypeOK
<1>4. PapersInTurn'
  BY <1>2 DEF InTurn, PapersInTurn, MayTurn
<1>5. \A e \in Desks : work'[e] = IF e = d THEN AtRest ELSE work[e]
  BY <1>1 DEF Finish
<1>6. work' \in [ Desks -> Requests ]
  BY <1>1, RestIsARequest DEF Finish
<1>7. ReviewsInTurn'
  BY <1>5, RestIsARequest DEF InTurn, ReviewsInTurn, MayTurn
<1> QED
  BY <1>3, <1>4, <1>6, <1>7

-----------------------------------------------------------------------------
LEMMA InTurnAtFirst ==
  ASSUME EvaluationInit
  PROVE  InTurn
<1>1. \A c \in Codes : /\ papers[c] = << NewCopy(0) >>
                       /\ papers[c] # <<>> /\ Len(papers[c]) = 1
                       /\ papers[c][1].turn = "nobody"
  BY DEF EvaluationInit, NewCopy
<1>2. << NewCopy(0) >> \in Seq(Copy)
  BY DEF NewCopy, Copy, Turns
<1>3. papers \in [ Codes -> Seq(Copy) ]
  BY <1>2 DEF EvaluationInit
<1>4. stand \in Table!LifecycleStatuses
  BY DEF EvaluationInit, Table!LifecycleStatuses
<1>5. /\ verdicts \in [ Stages -> Results \cup {"none"} ]
      /\ assigned \in [ Teams -> Officers \cup {NoOne} ]
      /\ staff \in [ Officers -> Positions ]
      /\ work \in [ Desks -> Requests ]
  BY RestIsARequest DEF EvaluationInit
<1>6. EvaluationTypeOK
  BY <1>1, <1>3, <1>4, <1>5 DEF EvaluationTypeOK, Requests
<1>7. PapersInTurn
  BY <1>1 DEF PapersInTurn, MayTurn
<1>8. ReviewsInTurn
  <2>1. \A d \in Desks : work[d] = AtRest
    BY DEF EvaluationInit
  <2> QED
    BY <2>1, RestIsARequest DEF ReviewsInTurn
<1> QED
  BY <1>6, <1>7, <1>8 DEF InTurn

\* What a step keeps when only a desk, or a desk and another variable, change.
LEMMA AskingKeeps ==
  ASSUME InTurn, NEW d \in Desks, NEW request \in Requests,
         request.kind = "review" => request.turn \in MayTurn(request.code),
         Ask(d, request)
  PROVE  InTurn'
<1>1. work' = [ work EXCEPT ![d] = request ] /\ papers' = papers
  BY DEF Ask
<1>2. work' \in [ Desks -> Requests ] /\ PapersInTurn' /\ ReviewsInTurn'
  BY <1>1, OneDesk
<1> QED
  BY <1>2 DEF Ask, InTurn, EvaluationTypeOK, Requests

LEMMA EvaluateAsked ==
  ASSUME InTurn, NEW d \in Desks, NEW o \in Officers, AskEvaluate(d, o)
  PROVE  InTurn'
<1>1. PICK s \in Stages, result \in Results :
        Ask(d, [ kind |-> "evaluate", pc |-> "asked", who |-> o, team |-> TeamToTake(o),
                 stage |-> s, result |-> result ])
  BY DEF AskEvaluate
<1>2. [ kind |-> "evaluate", pc |-> "asked", who |-> o, team |-> TeamToTake(o),
        stage |-> s, result |-> result ] \in Evaluating
  BY TakenIsATeam DEF Evaluating
<1> QED
  BY <1>1, <1>2, AskingKeeps DEF Requests

LEMMA ReviewAsked ==
  ASSUME InTurn, NEW d \in Desks, NEW o \in Officers, AskReview(d, o)
  PROVE  InTurn'
<1>1. PICK c \in Codes, review \in {"Accepted", "Returned"} : \E i \in DOMAIN papers[c] :
        Ask(d, [ kind |-> "review", pc |-> "asked", who |-> o, team |-> TeamToTake(o),
                 code |-> c, copy |-> i, review |-> review, turn |-> "nobody" ])
  BY DEF AskReview
<1>6. PICK i \in DOMAIN papers[c] :
        Ask(d, [ kind |-> "review", pc |-> "asked", who |-> o, team |-> TeamToTake(o),
                 code |-> c, copy |-> i, review |-> review, turn |-> "nobody" ])
  BY <1>1
<1> DEFINE r == [ kind |-> "review", pc |-> "asked", who |-> o, team |-> TeamToTake(o),
                  code |-> c, copy |-> i, review |-> review, turn |-> "nobody" ]
<1>2. i \in Nat
  <2>1. papers[c] \in Seq(Copy)
    BY DEF InTurn, EvaluationTypeOK
  <2> QED
    BY <2>1
<1>3. r \in Reviewing
  BY <1>2, TakenIsATeam DEF Reviewing, Turns
<1>4. r.turn = "nobody"
  OBVIOUS
<1>5. Ask(d, r)
  BY <1>6
<1> HIDE DEF r
<1> QED
  BY <1>3, <1>4, <1>5, AskingKeeps DEF Requests, MayTurn

\* The request is sent on as it is.
LEMMA TakingKeeps ==
  ASSUME InTurn, NEW d \in Desks, Take(d)
  PROVE  InTurn'
<1>1. work \in [ Desks -> Requests ] /\ work[d] \in Requests
  BY DEF InTurn, EvaluationTypeOK, Requests
<1> DEFINE r == [ work[d] EXCEPT !.pc = "working" ]
<1>2. work' = [ work EXCEPT ![d] = r ] /\ papers' = papers
  BY DEF Take
<1>3. work[d].pc = "asked"
  BY DEF Take
<1>4. work[d] \in Evaluating \/ work[d] \in Reviewing
  BY <1>1, <1>3 DEF Requests, Uploading, Assigning, AtRest
<1>5. r \in Requests /\ (r.kind = "review" => r.turn = work[d].turn /\ r.code = work[d].code
                                              /\ work[d].kind = "review")
  <2>1. CASE work[d] \in Evaluating
    BY <2>1 DEF Requests, Evaluating
  <2>2. CASE work[d] \in Reviewing
    BY <2>2 DEF Requests, Reviewing
  <2> QED
    BY <1>4, <2>1, <2>2
<1>6. r.kind = "review" => r.turn \in MayTurn(r.code)
  BY <1>5 DEF InTurn, ReviewsInTurn
<1> HIDE DEF r
<1>7. work' \in [ Desks -> Requests ] /\ PapersInTurn' /\ ReviewsInTurn'
  BY <1>2, <1>5, <1>6, OneDesk
<1>8. assigned' \in [ Teams -> Officers \cup {NoOne} ]
  <2>1. work[d].who \in Officers
    BY <1>4 DEF Evaluating, Reviewing
  <2>2. assigned' = assigned \/ \E t : assigned' = [ assigned EXCEPT ![t] = work[d].who ]
    BY DEF Take
  <2> QED
    BY <2>1, <2>2 DEF InTurn, EvaluationTypeOK
<1> QED
  BY <1>7, <1>8 DEF Take, InTurn, EvaluationTypeOK, Requests

LEMMA RecordingKeeps ==
  ASSUME InTurn, NEW d \in Desks, RecordVerdict(d)
  PROVE  InTurn'
<1>1. work \in [ Desks -> Requests ] /\ work[d] \in Requests /\ work[d].kind = "evaluate"
  BY DEF InTurn, EvaluationTypeOK, Requests, RecordVerdict, At
<1>2. work[d] \in Evaluating
  BY <1>1 DEF Requests, Reviewing, Uploading, Assigning, AtRest
<1> DEFINE r == IF work[d].result = "Revision Required"
                THEN [ work[d] EXCEPT !.pc = "returning" ] ELSE AtRest
<1>3. work' = [ work EXCEPT ![d] = r ] /\ papers' = papers
  BY DEF RecordVerdict
<1>4. r \in Requests /\ r.kind # "review"
  BY <1>2, RestIsARequest DEF Requests, Evaluating
<1> HIDE DEF r
<1>5. work' \in [ Desks -> Requests ] /\ PapersInTurn' /\ ReviewsInTurn'
  BY <1>3, <1>4, OneDesk
<1>6. verdicts' \in [ Stages -> Results \cup {"none"} ]
  <2>1. work[d].result \in Results
    BY <1>2 DEF Evaluating
  <2>2. verdicts' = [ verdicts EXCEPT ![work[d].stage] = work[d].result ]
    BY DEF RecordVerdict
  <2> QED
    BY <2>1, <2>2 DEF InTurn, EvaluationTypeOK
<1> QED
  BY <1>5, <1>6 DEF RecordVerdict, InTurn, EvaluationTypeOK, Requests

\* A desk that rests again keeps everything of the others.
LEMMA RestingKeeps ==
  ASSUME InTurn, NEW d \in Desks, Finish(d), papers' = papers
  PROVE  work' \in [ Desks -> Requests ] /\ PapersInTurn' /\ ReviewsInTurn'
BY OneDesk, RestIsARequest DEF Finish

LEMMA AcceptCleared ==
  ASSUME InTurn, NEW d \in Desks, AskAccept(d)
  PROVE  InTurn'
<1>1. work \in [ Desks -> Requests ] /\ work[d] \in Requests /\ work[d].kind = "review"
  BY DEF InTurn, EvaluationTypeOK, Requests, AskAccept, At
<1>2. work[d] \in Reviewing
  BY <1>1 DEF Requests, Evaluating, Uploading, Assigning, AtRest
<1> DEFINE c == work[d].code
           free == staff[work[d].who].superAdmin \/ KeepsRecords(work[d].who)
           turn == IF free THEN "office" ELSE IF WhoseTurn = {} THEN "nobody"
                   ELSE CHOOSE s \in WhoseTurn : TRUE
           r == [ work[d] EXCEPT !.pc = "cleared", !.turn = turn ]
<1>3. turn \in MayTurn(c)
  <2>1. CASE free
    BY <2>1 DEF MayTurn
  <2>2. CASE ~free /\ WhoseTurn = {}
    BY <2>2 DEF MayTurn
  <2>3. CASE ~free /\ WhoseTurn # {}
    <3>1. \E s \in WhoseTurn : TRUE
      BY <2>3
    <3>2. (CHOOSE s \in WhoseTurn : TRUE) \in WhoseTurn
      BY <3>1
    <3>3. ItsTurn(c)
      BY <2>3 DEF AskAccept
    <3> QED
      BY <2>3, <3>2, <3>3 DEF ItsTurn, MayTurn
  <2> QED
    BY <2>1, <2>2, <2>3
<1>4. c \in Codes /\ MayTurn(c) \subseteq Turns
  <2>1. c \in Codes
    BY <1>2 DEF Reviewing
  <2>2. StageOf[c] \in Stages
    BY <2>1, EvaluationAssumption DEF EvaluationAssumption
  <2> HIDE DEF c
  <2> QED
    BY <2>1, <2>2 DEF MayTurn, Turns
<1>5. turn \in Turns
  BY <1>3, <1>4
<1>6. work' = [ work EXCEPT ![d] = r ] /\ papers' = papers
  <2>1. work' = [ work EXCEPT ![d].pc = "cleared", ![d].turn = turn ]
    BY DEF AskAccept
  <2> HIDE DEF turn
  <2> QED
    BY <1>1, <2>1 DEF AskAccept
<1> HIDE DEF turn
<1>7. r \in Reviewing /\ r.turn = turn /\ r.code = c
  BY <1>2, <1>5 DEF Reviewing
<1> HIDE DEF r
<1>8. work' \in [ Desks -> Requests ] /\ PapersInTurn' /\ ReviewsInTurn'
  BY <1>3, <1>6, <1>7, OneDesk DEF Requests
<1> QED
  BY <1>8 DEF AskAccept, InTurn, EvaluationTypeOK, Requests

LEMMA SendingBackKeeps ==
  ASSUME InTurn, NEW d \in Desks, SendBack(d)
  PROVE  InTurn'
<1>1. work' \in [ Desks -> Requests ] /\ PapersInTurn' /\ ReviewsInTurn'
  BY RestingKeeps DEF SendBack
<1>2. stand' \in Table!LifecycleStatuses
  BY DEF SendBack, InTurn, EvaluationTypeOK, Table!LifecycleStatuses
<1> QED
  BY <1>1, <1>2 DEF SendBack, InTurn, EvaluationTypeOK, Requests

\* The verdict lands on the copy that was read, superseded since or not.
LEMMA WritingKeeps ==
  ASSUME InTurn, NEW d \in Desks, WriteVerdict(d)
  PROVE  InTurn'
<1>1. work \in [ Desks -> Requests ] /\ work[d] \in Requests /\ work[d].kind = "review"
  BY DEF InTurn, EvaluationTypeOK, Requests, WriteVerdict, At
<1>2. work[d] \in Reviewing
  BY <1>1 DEF Requests, Evaluating, Uploading, Assigning, AtRest
<1> DEFINE c == work[d].code
           v == [ review |-> work[d].review, turn |-> work[d].turn,
                  supersedes |-> papers[c][work[d].copy].supersedes ]
           s == [ papers[c] EXCEPT ![work[d].copy] = v ]
<1>3. c \in Codes /\ papers[c] \in Seq(Copy) /\ papers[c] # <<>>
  BY <1>2 DEF Reviewing, InTurn, EvaluationTypeOK
<1>4. /\ v.turn = work[d].turn
      /\ work[d].copy \in 1..Len(papers[c]) => v \in Copy
  <2>1. work[d].copy \in 1..Len(papers[c]) => papers[c][work[d].copy] \in Copy
    BY <1>3, ElementOfSeq
  <2>2. work[d].copy \in 1..Len(papers[c]) => papers[c][work[d].copy].supersedes \in Nat
    BY <2>1 DEF Copy
  <2>3. work[d].review \in {"unread", "Accepted", "Returned"} /\ work[d].turn \in Turns
    BY <1>2 DEF Reviewing
  <2> QED
    BY <2>2, <2>3 DEF Copy
<1>5. work[d].turn \in MayTurn(c)
  BY <1>1 DEF InTurn, ReviewsInTurn
<1>6. papers' = [ papers EXCEPT ![c] = s ] /\ Finish(d)
  BY DEF WriteVerdict
<1> HIDE DEF v
<1>7. s \in Seq(Copy) /\ Len(s) = Len(papers[c])
  <2>1. CASE work[d].copy \in 1..Len(papers[c])
    BY <1>3, <1>4, <2>1, ExceptSeq
  <2>2. CASE work[d].copy \notin 1..Len(papers[c])
    <3>1. DOMAIN papers[c] = 1..Len(papers[c]) /\ s = papers[c]
      BY <1>3, <2>2
    <3> QED
      BY <1>3, <3>1
  <2> QED
    BY <2>1, <2>2
<1>8. s # <<>>
  BY <1>3, <1>7, EmptySeq
<1>9. \A i \in 1..Len(s) : s[i].turn \in MayTurn(c)
  BY <1>3, <1>4, <1>5, <1>7 DEF InTurn, PapersInTurn
<1> HIDE DEF s, c
<1>10. /\ papers' \in [ Codes -> Seq(Copy) ] /\ \A x \in Codes : papers'[x] # <<>>
       /\ work' \in [ Desks -> Requests ] /\ PapersInTurn' /\ ReviewsInTurn'
  BY <1>3, <1>6, <1>7, <1>8, <1>9, OnePaper
<1> QED
  BY <1>10 DEF WriteVerdict, InTurn, EvaluationTypeOK, Requests

LEMMA GivingUpKeeps ==
  ASSUME InTurn, NEW d \in Desks, GiveUp(d)
  PROVE  InTurn'
<1>1. work' \in [ Desks -> Requests ] /\ PapersInTurn' /\ ReviewsInTurn'
  BY RestingKeeps DEF GiveUp
<1> QED
  BY <1>1 DEF GiveUp, InTurn, EvaluationTypeOK, Requests

LEMMA UploadAsked ==
  ASSUME InTurn, NEW d \in Desks, NEW c \in Codes, NEW n \in Nat, AskUpload(d, c, n)
  PROVE  InTurn'
<1>1. [ kind |-> "upload", pc |-> "working", code |-> c, supersedes |-> n ] \in Uploading
  BY DEF Uploading
<1> QED
  BY <1>1, AskingKeeps DEF AskUpload, Requests

\* A copy is added beside the others, or in the place of one of them.
LEMMA EitherUploadAsked ==
  ASSUME InTurn, NEW d \in Desks, NEW c \in Codes,
         AskAdd(d, c) \/ \E i \in DOMAIN papers[c] : AskReplace(d, c, i)
  PROVE  InTurn'
<1>1. papers[c] \in Seq(Copy)
  BY DEF InTurn, EvaluationTypeOK
<1>2. DOMAIN papers[c] \subseteq Nat
  BY <1>1
<1>3. \E n \in Nat : AskUpload(d, c, n)
  BY <1>2 DEF AskAdd, AskReplace
<1> QED
  BY <1>3, UploadAsked

LEMMA StoringKeeps ==
  ASSUME InTurn, NEW d \in Desks, Store(d)
  PROVE  InTurn'
<1>1. work \in [ Desks -> Requests ] /\ work[d] \in Requests /\ work[d].kind = "upload"
  BY DEF InTurn, EvaluationTypeOK, Requests, Store, At
<1>2. work[d] \in Uploading
  BY <1>1 DEF Requests, Evaluating, Reviewing, Assigning, AtRest
<1> DEFINE c == work[d].code
           v == NewCopy(work[d].supersedes)
           s == Append(papers[c], v)
<1>3. c \in Codes /\ papers[c] \in Seq(Copy) /\ work[d].supersedes \in Nat
  BY <1>2 DEF Uploading, InTurn, EvaluationTypeOK
<1>4. v \in Copy /\ v.turn \in MayTurn(c)
  BY <1>3 DEF NewCopy, Copy, Turns, MayTurn
<1>5. papers' = [ papers EXCEPT ![c] = s ] /\ Finish(d)
  BY <1>3 DEF Store, InTurn, EvaluationTypeOK
<1> HIDE DEF v
<1>6. s \in Seq(Copy) /\ s # <<>> /\ Len(s) = Len(papers[c]) + 1 /\ s[Len(papers[c]) + 1] = v
      /\ \A i \in 1..Len(papers[c]) : s[i] = papers[c][i]
  BY <1>3, <1>4, AppendProperties
<1>7. \A i \in 1..Len(s) : s[i].turn \in MayTurn(c)
  <2> SUFFICES ASSUME NEW i \in 1..Len(s) PROVE s[i].turn \in MayTurn(c)
    OBVIOUS
  <2>1. Len(papers[c]) \in Nat
    BY <1>3, LenProperties
  <2>2. i = Len(papers[c]) + 1 \/ i \in 1..Len(papers[c])
    BY <1>6, <2>1
  <2> QED
    BY <1>3, <1>4, <1>6, <2>2 DEF InTurn, PapersInTurn
<1> HIDE DEF s, c
<1>8. /\ papers' \in [ Codes -> Seq(Copy) ] /\ \A x \in Codes : papers'[x] # <<>>
      /\ work' \in [ Desks -> Requests ] /\ PapersInTurn' /\ ReviewsInTurn'
  BY <1>3, <1>5, <1>6, <1>7, OnePaper
<1> QED
  BY <1>8 DEF Store, InTurn, EvaluationTypeOK, Requests

LEMMA AssignAsked ==
  ASSUME InTurn, NEW d \in Desks, NEW o \in Officers, NEW t \in StepTeams,
         NEW to \in Officers \cup {NoOne}, AskAssign(d, o, t, to)
  PROVE  InTurn'
<1>1. t \in Teams
  BY StepsAreTeams
<1>2. [ kind |-> "assign", pc |-> "working", team |-> t, to |-> to ] \in Assigning
  BY <1>1 DEF Assigning
<1> QED
  BY <1>2, AskingKeeps DEF AskAssign, Requests

LEMMA AssigningKeeps ==
  ASSUME InTurn, NEW d \in Desks, Assign(d)
  PROVE  InTurn'
<1>1. work \in [ Desks -> Requests ] /\ work[d] \in Requests /\ work[d].kind = "assign"
  BY DEF InTurn, EvaluationTypeOK, Requests, Assign, At
<1>2. work[d] \in Assigning
  BY <1>1 DEF Requests, Evaluating, Reviewing, Uploading, AtRest
<1>3. work' \in [ Desks -> Requests ] /\ PapersInTurn' /\ ReviewsInTurn'
  BY RestingKeeps DEF Assign
<1>4. assigned' \in [ Teams -> Officers \cup {NoOne} ]
  <2>1. work[d].to \in Officers \cup {NoOne}
    BY <1>2 DEF Assigning
  <2> QED
    BY <2>1 DEF Assign, InTurn, EvaluationTypeOK
<1> QED
  BY <1>3, <1>4 DEF Assign, InTurn, EvaluationTypeOK, Requests

\* The office appoints, or the application moves: no desk and no paper changes.
LEMMA OthersKeep ==
  ASSUME InTurn,
         \/ \E o \in Officers, position \in Positions : Appoint(o, position)
         \/ \E to \in Table!LifecycleStatuses : Advance(to)
         \/ UNCHANGED evaluationVars
  PROVE  InTurn'
<1>1. work' = work /\ papers' = papers /\ verdicts' = verdicts /\ assigned' = assigned
  BY DEF Appoint, Advance, evaluationVars
<1>2. stand' \in Table!LifecycleStatuses
  BY DEF Appoint, Advance, evaluationVars, InTurn, EvaluationTypeOK
<1>3. staff' \in [ Officers -> Positions ]
  <2>1. staff' = staff \/ \E o \in Officers, position \in Positions :
                            staff' = [ staff EXCEPT ![o] = position ]
    BY DEF Appoint, Advance, evaluationVars
  <2> QED
    BY <2>1 DEF InTurn, EvaluationTypeOK
<1> QED
  BY <1>1, <1>2, <1>3
     DEF InTurn, EvaluationTypeOK, PapersInTurn, ReviewsInTurn, MayTurn

LEMMA InTurnStays ==
  ASSUME InTurn, [EvaluationNext]_evaluationVars
  PROVE  InTurn'
<1>1. CASE \E d \in Desks : EvaluateStep(d)
  BY <1>1, EvaluateAsked, TakingKeeps, RecordingKeeps, SendingBackKeeps, GivingUpKeeps
     DEF EvaluateStep
<1>2. CASE \E d \in Desks : ReviewStepOf(d)
  BY <1>2, ReviewAsked, AcceptCleared, WritingKeeps DEF ReviewStepOf
<1>3. CASE \E d \in Desks : CopyStep(d)
  BY <1>3, EitherUploadAsked, StoringKeeps DEF CopyStep
<1>4. CASE \E d \in Desks : AssignStep(d)
  BY <1>4, AssignAsked, AssigningKeeps DEF AssignStep
<1> QED
  BY <1>1, <1>2, <1>3, <1>4, OthersKeep DEF EvaluationNext

\* A stage passes only by a verdict recorded under the lock, which asks that it
\* is this stage's turn and that what it checks is accepted.
LEMMA OnlyAVerdictPasses ==
  ASSUME InTurn, [EvaluationNext]_evaluationVars, verdicts' # verdicts
  PROVE  \E d \in Desks : RecordVerdict(d)
<1>1. \A d \in Desks : EvaluateStep(d) => RecordVerdict(d) \/ UNCHANGED verdicts
  BY DEF EvaluateStep, AskEvaluate, Take, SendBack, GiveUp, Ask
<1>2. \A d \in Desks : ReviewStepOf(d) => UNCHANGED verdicts
  BY DEF ReviewStepOf, AskReview, AskAccept, WriteVerdict, Ask
<1>3. \A d \in Desks : CopyStep(d) \/ AssignStep(d) => UNCHANGED verdicts
  BY DEF CopyStep, AskUpload, AskAdd, AskReplace, Store,
         AssignStep, AskAssign, Assign, Ask
<1> QED
  BY <1>1, <1>2, <1>3 DEF EvaluationNext, Appoint, Advance, evaluationVars

LEMMA PassedWasChecked ==
  ASSUME InTurn, [EvaluationNext]_evaluationVars,
         NEW s \in Stages, ~Passed(s), Passed(s)', NEW c \in Codes, StageOf[c] = s
  PROVE  \E copy \in Current(c) :
           copy.review = "Accepted" /\ copy.turn \in {s, "nobody", "office"}
<1>1. verdicts' # verdicts
  BY DEF Passed
<1>2. PICK d \in Desks : RecordVerdict(d)
  BY <1>1, OnlyAVerdictPasses
<1>3. verdicts' = [ verdicts EXCEPT ![work[d].stage] = work[d].result ]
  BY <1>2 DEF RecordVerdict
<1>4. work[d].stage = s /\ work[d].result = "Passed"
  BY <1>3 DEF Passed, InTurn, EvaluationTypeOK
<1>5. AllAccepted(s)
  BY <1>2, <1>4 DEF RecordVerdict
<1>6. PICK copy \in Current(c) : copy.review = "Accepted"
  BY <1>5 DEF AllAccepted
<1>7. PICK i \in DOMAIN papers[c] : copy = papers[c][i]
  BY DEF Current
<1>8. papers[c] \in Seq(Copy)
  BY DEF InTurn, EvaluationTypeOK
<1>9. i \in 1..Len(papers[c])
  BY <1>8
<1>10. copy.turn \in {s, "nobody", "office"}
  BY <1>7, <1>9 DEF InTurn, PapersInTurn, MayTurn
<1> QED
  BY <1>6, <1>10

\* When a stage passes, each document it checks has a copy that nothing supersedes
\* and that was accepted, never in another stage's turn, whatever replacements,
\* added copies, moves, appointments and verdicts happen between a request's reads
\* and its writes.  The copies beside that one may be unread or returned.
THEOREM AlwaysCheckedByItsStage == EvaluationSpec => CheckedByItsStage
<1>1. EvaluationInit => InTurn
  BY InTurnAtFirst
<1>2. InTurn /\ [EvaluationNext]_evaluationVars => InTurn'
  BY InTurnStays
<1>3. InTurn /\ [EvaluationNext]_evaluationVars =>
        [ \A s \in Stages : ~Passed(s) /\ Passed(s)' =>
            \A c \in Codes : StageOf[c] = s =>
              \E copy \in Current(c) :
                copy.review = "Accepted" /\ copy.turn \in {s, "nobody", "office"}
        ]_evaluationVars
  BY PassedWasChecked
<1> QED
  BY <1>1, <1>2, <1>3, PTL DEF EvaluationSpec, CheckedByItsStage

\* The state of an evaluation keeps its type, and a copy is accepted in the turn
\* of its own stage or of none.
THEOREM EvaluationTyped == EvaluationSpec => []InTurn
<1>1. EvaluationInit => InTurn
  BY InTurnAtFirst
<1>2. InTurn /\ [EvaluationNext]_evaluationVars => InTurn'
  BY InTurnStays
<1> QED
  BY <1>1, <1>2, PTL DEF EvaluationSpec

-----------------------------------------------------------------------------
(*****************************************************************************)
(* Worklist: the rounds over what waits.                                     *)
(*                                                                           *)
(* A move holds its notices back until it commits, and somebody may read     *)
(* the old notice meanwhile: whom it told has one unread, one held back      *)
(* with the move, or is counted as missed.  A sweep that is alone has no     *)
(* Order before it that was told of.  A payment is marked in the             *)
(* transaction that tells of its Order, and no other row is.                 *)
(*****************************************************************************)

\* A notice that is there unread.
HasUnread(topic) == \E n \in inbox : ~n.read /\ Topic(n) = topic

LEMMA UnreadIs == \A topic : topic \in Unread <=> HasUnread(topic)
BY DEF Unread, HasUnread

Notice(n) == n = [ to |-> n.to, paper |-> n.paper, type |-> n.type, place |-> n.place, read |-> n.read ]

\* Whom a move is about to tell has a notice already, or one held back with the
\* move, or read the old one in between.
Carried(p) ==
  crossing[p] # NoMove =>
    /\ \A r \in crossing[p].rows : Notice(r) /\ ~r.read
    /\ \A s \in crossing[p].told :
         \/ HasUnread(<< s, p, "awaiting you" >>) \/ << s, p, "awaiting you" >> \in missed
         \/ \E r \in crossing[p].rows : Topic(r) = << s, p, "awaiting you" >>

OfficeInv ==
  /\ crossing = [ p \in Papers |-> crossing[p] ]
  /\ \A n \in inbox : Notice(n)
  /\ \A p \in Papers : Carried(p)
  /\ \A topic \in owed : HasUnread(topic) \/ topic \in missed

\* Nobody who has an unread notice loses it, whatever is added.
LEMMA NothingIsTaken ==
  ASSUME OfficeInv, inbox \subseteq inbox', missed \subseteq missed',
         \A n \in inbox' : Notice(n),
         crossing' = [ p \in Papers |-> crossing'[p] ],
         \A p \in Papers : crossing'[p] = crossing[p] \/ crossing'[p] = NoMove \/ Carried(p)',
         \A topic \in owed' : topic \in owed \/ HasUnread(topic)' \/ topic \in missed'
  PROVE  OfficeInv'
<1>1. \A topic : HasUnread(topic) => HasUnread(topic)'
  BY DEF HasUnread, Topic
<1>2. \A n \in inbox' : Notice(n)'
  BY DEF Notice
<1>3. ASSUME NEW p \in Papers PROVE Carried(p)'
  <2>1. CASE crossing'[p] = crossing[p]
    <3>1. \A s : HasUnread(<< s, p, "awaiting you" >>) => HasUnread(<< s, p, "awaiting you" >>)'
      BY <1>1
    <3>2. Carried(p)
      BY DEF OfficeInv
    <3> QED BY <2>1, <3>1, <3>2 DEF Carried, Notice, Topic
  <2>2. CASE crossing'[p] = NoMove
    BY <2>2 DEF Carried
  <2> QED BY <2>1, <2>2
<1>4. \A topic \in owed' : HasUnread(topic)' \/ topic \in missed'
  BY <1>1 DEF OfficeInv
<1> QED BY <1>2, <1>3, <1>4 DEF OfficeInv

\* on conflict do nothing: whoever gets no copy has an unread one.
LEMMA CopiesReach ==
  ASSUME NEW told, NEW p, NEW type, NEW place
  PROVE  /\ \A r \in Copies(told, p, type, place) : Notice(r) /\ ~r.read
         /\ \A s \in told : \/ HasUnread(<< s, p, type >>)
                            \/ \E r \in Copies(told, p, type, place) : Topic(r) = << s, p, type >>
<1> DEFINE row(s) == [ to |-> s, paper |-> p, type |-> type, place |-> place, read |-> FALSE ]
<1>1. \A s : Notice(row(s)) /\ ~row(s).read /\ Topic(row(s)) = << s, p, type >>
  BY DEF Notice, Topic
<1>2. Copies(told, p, type, place) = { row(s) : s \in writeTo(told, p, type) }
  BY DEF Copies
<1>3. \A s \in told : s \in writeTo(told, p, type) \/ HasUnread(<< s, p, type >>)
  BY UnreadIs DEF writeTo
<1> HIDE DEF row
<1> QED BY <1>1, <1>2, <1>3

LEMMA Triples ==
  \A told, p, type : \A topic \in told \X {p} \X {type} : \E s \in told : topic = << s, p, type >>
OBVIOUS

\* A notice of a document or of an Order overdue is written in one statement.
LEMMA TellsAtOnce ==
  ASSUME OfficeInv, NEW told, NEW p, NEW type, NEW place,
         inbox' = inbox \cup Copies(told, p, type, place), Owing(told, p, type),
         UNCHANGED << crossing, missed >>
  PROVE  OfficeInv'
<1>1. \A n \in inbox' : Notice(n)
  BY CopiesReach DEF OfficeInv
<1>2. \A s \in told : HasUnread(<< s, p, type >>)'
  BY CopiesReach DEF HasUnread, Topic
<1>3. \A topic \in owed' : topic \in owed \/ HasUnread(topic)'
  <2>1. owed' = owed \cup (told \X {p} \X {type})
    BY DEF Owing
  <2>2. \A topic \in told \X {p} \X {type} : \E s \in told : topic = << s, p, type >>
    BY Triples
  <2> QED BY <1>2, <2>1, <2>2
<1> QED BY <1>1, <1>3, NothingIsTaken DEF OfficeInv

LEMMA MovesTell ==
  ASSUME OfficeInv, NEW p \in Papers,
         \/ CommitMove(p) \/ RollBackMove(p) \/ TellRecords(p)
         \/ \E rule, by : Announce(p, rule, by)
  PROVE  OfficeInv'
<1>1. ASSUME NEW rule, NEW by, Announce(p, rule, by) PROVE OfficeInv'
  <2> DEFINE told == Holders(recipientsFor(rule.to)) \ {by}
             to == rule.to
  <2> HIDE DEF told, to
  <2> DEFINE rows == Copies(told, p, "awaiting you", to)
             row == [ to |-> to, told |-> told, rows |-> rows ]
  <2>1. crossing' = [ crossing EXCEPT ![p] = row ] /\ UNCHANGED << inbox, owed, missed >>
    BY <1>1 DEF Announce, told, to
  <2>2. /\ \A r \in rows : Notice(r) /\ ~r.read
        /\ \A s \in told : \/ HasUnread(<< s, p, "awaiting you" >>)
                           \/ \E r \in rows : Topic(r) = << s, p, "awaiting you" >>
    BY CopiesReach
  <2>3. row.told = told /\ row.rows = rows
    OBVIOUS
  <2> HIDE DEF rows, row
  <2>4. crossing' = [ q \in Papers |-> crossing'[q] ] /\ crossing'[p] = row
        /\ \A q \in Papers : q # p => crossing'[q] = crossing[q]
    BY <2>1 DEF OfficeInv
  <2>5. \A s : HasUnread(<< s, p, "awaiting you" >>) => HasUnread(<< s, p, "awaiting you" >>)'
    BY <2>1 DEF HasUnread, Topic
  <2>6. Carried(p)'
    BY <2>2, <2>3, <2>4, <2>5 DEF Carried, Notice, Topic
  <2> QED BY <2>1, <2>4, <2>6, NothingIsTaken DEF OfficeInv
<1>2. CASE CommitMove(p)
  <2> DEFINE told == crossing[p].told  rows == crossing[p].rows
  <2>1. /\ crossing[p] # NoMove /\ crossing' = [ crossing EXCEPT ![p] = NoMove ]
        /\ inbox' = inbox \cup rows /\ owed' = owed \cup (told \X {p} \X {"awaiting you"}) /\ missed' = missed
    BY <1>2 DEF CommitMove, Owing
  <2>2. /\ \A r \in rows : Notice(r) /\ ~r.read
        /\ \A s \in told :
             \/ HasUnread(<< s, p, "awaiting you" >>) \/ << s, p, "awaiting you" >> \in missed
             \/ \E r \in rows : Topic(r) = << s, p, "awaiting you" >>
    BY <2>1 DEF OfficeInv, Carried
  <2> HIDE DEF told, rows
  <2>3. \A s \in told : HasUnread(<< s, p, "awaiting you" >>)' \/ << s, p, "awaiting you" >> \in missed'
    BY <2>1, <2>2 DEF HasUnread, Topic
  <2>4. ASSUME NEW topic \in owed' PROVE topic \in owed \/ \E s \in told : topic = << s, p, "awaiting you" >>
    <3> DEFINE type == "awaiting you"
    <3>1. owed' = owed \cup (told \X {p} \X {type})
      BY <2>1
    <3> HIDE DEF type
    <3>2. topic \in owed \/ \E s \in told : topic = << s, p, type >>
      BY <3>1, Triples
    <3> QED BY <3>2 DEF type
  <2>5. \A topic \in owed' : topic \in owed \/ HasUnread(topic)' \/ topic \in missed'
    BY <2>3, <2>4
  <2>6. crossing' = [ q \in Papers |-> crossing'[q] ] /\ crossing'[p] = NoMove
        /\ \A q \in Papers : q # p => crossing'[q] = crossing[q]
    BY <2>1 DEF OfficeInv
  <2>7. \A n \in inbox' : Notice(n)
    BY <2>1, <2>2 DEF OfficeInv
  <2> QED BY <2>1, <2>5, <2>6, <2>7, NothingIsTaken
<1>3. CASE RollBackMove(p)
  BY <1>3, NothingIsTaken DEF RollBackMove, OfficeInv
<1>4. CASE TellRecords(p)
  BY <1>4, TellsAtOnce DEF TellRecords
<1> QED BY <1>1, <1>2, <1>3, <1>4

LEMMA ReadOnce ==
  ASSUME NEW t, NEW p, NEW y, NEW l, NEW r, NEW w
  PROVE  [ [ to |-> t, paper |-> p, type |-> y, place |-> l, read |-> r ] EXCEPT !.read = w ]
           = [ to |-> t, paper |-> p, type |-> y, place |-> l, read |-> w ]
OBVIOUS

\* Whoever reads the one notice there is has read of it; while a move holds its own
\* back for it, that is the officer who misses it.
LEMMA ReadingTells ==
  ASSUME OfficeInv, NEW n \in inbox, MarkRead(n) PROVE OfficeInv'
<1> DEFINE m == [ n EXCEPT !.read = TRUE ]
<1>1. /\ ~n.read /\ inbox' = (inbox \ {n}) \cup {m} /\ crossing' = crossing
      /\ owed' = owed \ {Topic(n)} /\ missed \subseteq missed'
      /\ crossing[n.paper] # NoMove /\ n.type = "awaiting you" => Topic(n) \in missed'
  BY DEF MarkRead
<1>2. Notice(m) /\ Topic(m) = Topic(n)
  <2> DEFINE t == n.to  p == n.paper  y == n.type  l == n.place  r == n.read
  <2>1. n = [ to |-> t, paper |-> p, type |-> y, place |-> l, read |-> r ]
    BY DEF OfficeInv, Notice
  <2> HIDE DEF t, p, y, l, r
  <2>0. PICK w : m = [ n EXCEPT !.read = w ]
    OBVIOUS
  <2> HIDE DEF m
  <2>2. m = [ to |-> t, paper |-> p, type |-> y, place |-> l, read |-> w ]
    BY <2>0, <2>1, ReadOnce
  <2> QED BY <2>2 DEF Notice, Topic, t, p, y, l
<1> HIDE DEF m
<1>3. \A topic : HasUnread(topic) => HasUnread(topic)' \/ topic = Topic(n)
  BY <1>1 DEF HasUnread, Topic
<1>4. \A k \in inbox' : Notice(k)'
  BY <1>1, <1>2 DEF OfficeInv, Notice
<1>5. ASSUME NEW p \in Papers PROVE Carried(p)'
  <2> SUFFICES ASSUME crossing[p] # NoMove
               PROVE  /\ \A r \in crossing[p].rows : Notice(r) /\ ~r.read
                      /\ \A s \in crossing[p].told :
                           \/ HasUnread(<< s, p, "awaiting you" >>)' \/ << s, p, "awaiting you" >> \in missed'
                           \/ \E r \in crossing[p].rows : Topic(r) = << s, p, "awaiting you" >>
    BY <1>1 DEF Carried, Notice, Topic
  <2>1. \A s : << s, p, "awaiting you" >> = Topic(n) => << s, p, "awaiting you" >> \in missed'
    BY <1>1 DEF Topic
  <2>2. \A s : HasUnread(<< s, p, "awaiting you" >>) =>
                 HasUnread(<< s, p, "awaiting you" >>)' \/ << s, p, "awaiting you" >> \in missed'
    BY <1>3, <2>1
  <2> QED BY <1>1, <2>2 DEF OfficeInv, Carried
<1>6. \A topic \in owed' : HasUnread(topic)' \/ topic \in missed'
  BY <1>1, <1>3 DEF OfficeInv
<1> QED BY <1>1, <1>4, <1>5, <1>6 DEF OfficeInv

\* Whoever an application waits on has a notice of it unread, or read the old one
\* while a move held its own back for it.
THEOREM TheWaitingAreAlwaysTold == WorklistSpec => []TheWaitingAreTold
<1>1. WorklistInit => OfficeInv
  BY DEF WorklistInit, OfficeInv, Carried
<1>2. OfficeInv /\ [WorklistNext]_worklistVars => OfficeInv'
  <2> SUFFICES ASSUME OfficeInv, [WorklistNext]_worklistVars PROVE OfficeInv'
    OBVIOUS
  <2>1. ASSUME UNCHANGED << inbox, crossing, owed, missed >> PROVE OfficeInv'
    BY <2>1, NothingIsTaken DEF OfficeInv
  <2>2. CASE ArrivalStep
    <3>1. ASSUME NEW s \in Stewards, Disable(s) PROVE OfficeInv'
      BY <2>1, <3>1 DEF Disable
    <3> QED BY <2>2, <3>1, MovesTell, ReadingTells DEF ArrivalStep
  <2>3. CASE OverdueStep
    <3>1. ASSUME NEW i \in Sweeps, SweepOne(i) PROVE OfficeInv'
      <4>1. PICK item \in round[i].todo :
              LET told == Holders(recipientsWhenApplicantStalls(item.place))
              IN  /\ inbox' = inbox \cup Copies(told, item.paper, "assessment overdue", item.place)
                  /\ Owing(told, item.paper, "assessment overdue")
        BY <3>1 DEF SweepOne
      <4>2. UNCHANGED << crossing, missed >>
        BY <3>1 DEF SweepOne
      <4> QED BY <4>1, <4>2, TellsAtOnce
    <3>2. ASSUME NEW i \in Sweeps, StartSweep(i) \/ EndSweep(i) \/ LeaseRunsOut(i) PROVE OfficeInv'
      BY <2>1, <3>2 DEF StartSweep, EndSweep, LeaseRunsOut
    <3>3. ASSUME NEW p \in Papers,
                 IssueBill(p) \/ FallDue(p) \/ ProvePayment(p) \/ VerifyPayment(p) \/ Shelve(p)
          PROVE  OfficeInv'
      BY <2>1, <3>3 DEF IssueBill, FallDue, ProvePayment, VerifyPayment, Shelve, PaperBecomes
    <3>4. ASSUME NEW e \in feed, ReadOwn(e) \/ ResolveOwn(e) PROVE OfficeInv'
      BY <2>1, <3>4 DEF ReadOwn, ResolveOwn
    <3> QED BY <2>3, <3>1, <3>2, <3>3, <3>4 DEF OverdueStep
  <2>4. CASE UNCHANGED worklistVars
    BY <2>1, <2>4 DEF worklistVars
  <2> QED BY <2>2, <2>3, <2>4 DEF WorklistNext
<1>3. OfficeInv => TheWaitingAreTold
  BY UnreadIs DEF OfficeInv, TheWaitingAreTold
<1> QED BY <1>1, <1>2, <1>3, PTL DEF WorklistSpec

-----------------------------------------------------------------------------
FeedRow(e) == e = [ paper |-> e.paper, order |-> e.order, nth |-> e.nth, read |-> e.read,
                    resolved |-> e.resolved ]
RoundRow(r) == r = [ on |-> r.on, todo |-> r.todo, late |-> r.late ]

\* A run that is alone has no Order before it that produced a notice.
Alone(i) ==
  round[i].on =>
    /\ \A k \in Sweeps : round[k].on => k = i
    /\ \A item \in round[i].todo : \A e \in feed : e.paper # item.paper
    /\ \A x, y \in round[i].todo : x.paper = y.paper => x = y

SweepInv ==
  /\ overlapped \in BOOLEAN
  /\ \A e \in feed : FeedRow(e)
  /\ round = [ i \in Sweeps |-> round[i] ] /\ \A i \in Sweeps : RoundRow(round[i])
  /\ ~overlapped => \A i \in Sweeps : Alone(i)
  /\ ~overlapped => \A e, f \in feed : e.paper = f.paper => e.nth = f.nth

LEMMA FeedRead ==
  ASSUME NEW e, FeedRow(e), NEW w
  PROVE  /\ FeedRow([ e EXCEPT !.read = w ]) /\ FeedRow([ e EXCEPT !.resolved = w ])
         /\ [ e EXCEPT !.read = w ].paper = e.paper /\ [ e EXCEPT !.read = w ].nth = e.nth
         /\ [ e EXCEPT !.resolved = w ].paper = e.paper /\ [ e EXCEPT !.resolved = w ].nth = e.nth
         /\ [ e EXCEPT !.read = w ].order = e.order /\ [ e EXCEPT !.resolved = w ].order = e.order
<1> DEFINE p == e.paper  o == e.order  n == e.nth  r == e.read  d == e.resolved
<1>1. e = [ paper |-> p, order |-> o, nth |-> n, read |-> r, resolved |-> d ]
  BY DEF FeedRow
<1> HIDE DEF p, o, n, r, d
<1>2. /\ [ e EXCEPT !.read = w ] = [ paper |-> p, order |-> o, nth |-> n, read |-> w, resolved |-> d ]
      /\ [ e EXCEPT !.resolved = w ] = [ paper |-> p, order |-> o, nth |-> n, read |-> r, resolved |-> w ]
  BY <1>1
<1> QED BY <1>2 DEF FeedRow, p, o, n

LEMMA RoundGoesOn ==
  ASSUME NEW r, RoundRow(r), NEW w
  PROVE  /\ RoundRow([ r EXCEPT !.late = w ]) /\ RoundRow([ r EXCEPT !.todo = w ])
         /\ [ r EXCEPT !.late = w ].on = r.on /\ [ r EXCEPT !.late = w ].todo = r.todo
         /\ [ r EXCEPT !.todo = w ].on = r.on /\ [ r EXCEPT !.todo = w ].todo = w
<1> DEFINE o == r.on  t == r.todo  l == r.late
<1>1. r = [ on |-> o, todo |-> t, late |-> l ]
  BY DEF RoundRow
<1> HIDE DEF o, t, l
<1>2. /\ [ r EXCEPT !.late = w ] = [ on |-> o, todo |-> t, late |-> w ]
      /\ [ r EXCEPT !.todo = w ] = [ on |-> o, todo |-> w, late |-> l ]
  BY <1>1
<1> QED BY <1>2 DEF RoundRow, o, t

\* The applicant opens or settles a notice: the feed tells of the same Orders.
LEMMA OwnNotices ==
  ASSUME SweepInv, NEW e \in feed, ReadOwn(e) \/ ResolveOwn(e) PROVE SweepInv'
<1>1. PICK m : /\ FeedRow(m) /\ m.paper = e.paper /\ m.nth = e.nth
               /\ feed' = (feed \ {e}) \cup {m} /\ UNCHANGED << round, overlapped >>
  <2>1. CASE ReadOwn(e)
    <3>1. PICK w : /\ feed' = (feed \ {e}) \cup {[ e EXCEPT !.read = w ]}
                   /\ UNCHANGED << round, overlapped >>
      BY <2>1 DEF ReadOwn
    <3> QED BY <3>1, FeedRead DEF SweepInv
  <2>2. CASE ResolveOwn(e)
    <3>1. PICK w : /\ feed' = (feed \ {e}) \cup {[ e EXCEPT !.resolved = w ]}
                   /\ UNCHANGED << round, overlapped >>
      BY <2>2 DEF ResolveOwn
    <3> QED BY <3>1, FeedRead DEF SweepInv
  <2> QED BY <2>1, <2>2
<1>2. \A x \in feed' : FeedRow(x)' /\ \E y \in feed : x.paper = y.paper /\ x.nth = y.nth
  BY <1>1 DEF SweepInv, FeedRow
<1>3. \A i \in Sweeps : Alone(i) => Alone(i)'
  BY <1>1, <1>2 DEF Alone
<1> QED BY <1>1, <1>2, <1>3 DEF SweepInv, RoundRow

\* A run begins with the Orders that produced no notice, and alone unless another
\* still is under way.
LEMMA SweepBegins ==
  ASSUME SweepInv, NEW i \in Sweeps, StartSweep(i) PROVE SweepInv'
<1> DEFINE todo == { [ paper |-> p, order |-> paper[p].order, place |-> paper[p].place ] : p \in Overdue }
           r == [ on |-> TRUE, late |-> FALSE, todo |-> todo ]
<1>1. /\ overlapped' = (overlapped \/ \E k \in Sweeps : round[k].on)
      /\ round' = [ round EXCEPT ![i] = r ] /\ feed' = feed
  BY DEF StartSweep
<1>2. RoundRow(r) /\ r.todo = todo
  BY DEF RoundRow
<1>3. /\ \A item \in todo : \A e \in feed : e.paper # item.paper
      /\ \A x, y \in todo : x.paper = y.paper => x = y
  <2>1. \A p \in Overdue : \A e \in feed : e.paper # p
    BY DEF Overdue, notTold
  <2> QED BY <2>1
<1> HIDE DEF todo, r
<1>4. /\ round' = [ k \in Sweeps |-> round'[k] ] /\ round'[i] = r
      /\ \A k \in Sweeps : k # i => round'[k] = round[k]
  BY <1>1 DEF SweepInv
<1>5. overlapped' \in BOOLEAN
  BY <1>1
<1>6. ~overlapped' => ~overlapped /\ \A k \in Sweeps : ~round[k].on
  BY <1>1
<1>7. ~overlapped' => \A k \in Sweeps : Alone(k)'
  BY <1>1, <1>2, <1>3, <1>4, <1>6 DEF Alone
<1>8. \A k \in Sweeps : RoundRow(round[k])'
  BY <1>2, <1>4 DEF SweepInv, RoundRow
<1> QED BY <1>1, <1>4, <1>5, <1>6, <1>7, <1>8 DEF SweepInv, FeedRow

\* One Order of a run produces a notice, and is worked off.
LEMMA SweepGoesOn ==
  ASSUME SweepInv, NEW i \in Sweeps, SweepOne(i) PROVE SweepInv'
<1>0. PICK item \in round[i].todo :
        \E n : /\ feed' = feed \cup {[ paper |-> item.paper, order |-> item.order, nth |-> n,
                                       read |-> FALSE, resolved |-> FALSE ]}
              /\ round' = [ round EXCEPT ![i].todo = @ \ {item} ]
  BY DEF SweepOne
<1>1. PICK n : /\ feed' = feed \cup {[ paper |-> item.paper, order |-> item.order, nth |-> n,
                                        read |-> FALSE, resolved |-> FALSE ]}
               /\ round' = [ round EXCEPT ![i].todo = @ \ {item} ]
  BY <1>0
<1>2. round[i].on /\ overlapped' = overlapped
  BY DEF SweepOne
<1> DEFINE new == [ paper |-> item.paper, order |-> item.order, nth |-> n, read |-> FALSE,
                    resolved |-> FALSE ]
           rest == round[i].todo \ {item}
           r == [ round[i] EXCEPT !.todo = rest ]
<1>3. FeedRow(new) /\ new.paper = item.paper
  BY DEF FeedRow
<1>4. feed' = feed \cup {new} /\ round' = [ round EXCEPT ![i] = r ]
  BY <1>1
<1> HIDE DEF new
<1>5. RoundRow(r) /\ r.on = round[i].on /\ r.todo = rest
  <2> HIDE DEF rest
  <2> QED BY RoundGoesOn DEF SweepInv
<1> HIDE DEF r
<1>6. /\ round' = [ k \in Sweeps |-> round'[k] ] /\ round'[i] = r
      /\ \A k \in Sweeps : k # i => round'[k] = round[k]
  BY <1>4 DEF SweepInv
<1>7. ASSUME ~overlapped
      PROVE  /\ \A k \in Sweeps : Alone(k)'
             /\ \A e, f \in feed' : e.paper = f.paper => e.nth = f.nth
  <2>1. /\ \A k \in Sweeps : round[k].on => k = i
        /\ \A x \in round[i].todo : \A e \in feed : e.paper # x.paper
        /\ \A x, y \in round[i].todo : x.paper = y.paper => x = y
    BY <1>2, <1>7 DEF SweepInv, Alone
  <2>2. \A e, f \in feed' : e.paper = f.paper => e.nth = f.nth
    BY <1>1, <1>3, <1>4, <1>7, <2>1 DEF SweepInv
  <2>3. \A x \in rest : \A e \in feed' : e.paper # x.paper
    BY <1>1, <1>3, <1>4, <2>1
  <2>4. ASSUME NEW k \in Sweeps, round'[k].on PROVE Alone(k)'
    <3>1. k = i
      BY <1>6, <2>1, <2>4
    <3>2. \A j \in Sweeps : round'[j].on => j = i
      BY <1>6, <2>1
    <3> QED BY <1>5, <1>6, <2>1, <2>3, <3>1, <3>2 DEF Alone
  <2>5. \A k \in Sweeps : Alone(k)'
    BY <2>4 DEF Alone
  <2> QED BY <2>2, <2>5
<1>8. \A k \in Sweeps : RoundRow(round[k])'
  BY <1>5, <1>6 DEF SweepInv, RoundRow
<1>9. \A e \in feed' : FeedRow(e)'
  BY <1>3, <1>4 DEF SweepInv, FeedRow
<1> QED BY <1>2, <1>6, <1>7, <1>8, <1>9 DEF SweepInv

LEMMA SweepEnds ==
  ASSUME SweepInv, NEW i \in Sweeps, EndSweep(i) \/ LeaseRunsOut(i) PROVE SweepInv'
<1>1. PICK r : /\ RoundRow(r) /\ round' = [ round EXCEPT ![i] = r ] /\ UNCHANGED << feed, overlapped >>
               /\ r.on => (round[i].on /\ r.todo = round[i].todo)
  <2>1. CASE EndSweep(i)
    <3> DEFINE r == [ on |-> FALSE, todo |-> {}, late |-> FALSE ]
    <3>1. RoundRow(r) /\ ~r.on
      BY DEF RoundRow
    <3>2. round' = [ round EXCEPT ![i] = r ] /\ UNCHANGED << feed, overlapped >>
      BY <2>1 DEF EndSweep
    <3> HIDE DEF r
    <3> QED BY <3>1, <3>2
  <2>2. CASE LeaseRunsOut(i)
    <3>1. PICK w : round' = [ round EXCEPT ![i] = [ round[i] EXCEPT !.late = w ] ]
      BY <2>2 DEF LeaseRunsOut
    <3>2. UNCHANGED << feed, overlapped >>
      BY <2>2 DEF LeaseRunsOut
    <3> DEFINE r == [ round[i] EXCEPT !.late = w ]
    <3>3. RoundRow(r) /\ r.on = round[i].on /\ r.todo = round[i].todo
      BY RoundGoesOn DEF SweepInv
    <3>4. round' = [ round EXCEPT ![i] = r ]
      BY <3>1
    <3> HIDE DEF r
    <3> QED BY <3>2, <3>3, <3>4
  <2> QED BY <2>1, <2>2
<1>2. /\ round' = [ k \in Sweeps |-> round'[k] ] /\ round'[i] = r
      /\ \A k \in Sweeps : k # i => round'[k] = round[k]
  BY <1>1 DEF SweepInv
<1>3. (\A k \in Sweeps : Alone(k)) => \A k \in Sweeps : Alone(k)'
  BY <1>1, <1>2 DEF Alone
<1>4. \A k \in Sweeps : RoundRow(round[k])'
  BY <1>1, <1>2 DEF SweepInv, RoundRow
<1> QED BY <1>1, <1>2, <1>3, <1>4 DEF SweepInv, FeedRow

\* A payment is marked in the transaction that tells of its Order, and what the
\* feed tells of stays told.
PaperRow(r) == r = [ place |-> r.place, order |-> r.order, due |-> r.due,
                     payments |-> r.payments, archived |-> r.archived ]

TellsOf(p, y) == \E e \in feed : e.paper = p /\ e.order = y.order

MarkInv ==
  /\ paper = [ p \in Papers |-> paper[p] ] /\ \A p \in Papers : PaperRow(paper[p])
  /\ \A e \in feed : FeedRow(e)
  /\ \A p \in Papers : \A y \in paper[p].payments : y.status = "Overdue" => TellsOf(p, y)

LEMMA PaperEdits ==
  ASSUME NEW r, PaperRow(r), NEW v
  PROVE  /\ PaperRow([ r EXCEPT !.place = v ]) /\ [ r EXCEPT !.place = v ].payments = r.payments
         /\ PaperRow([ r EXCEPT !.order = v ]) /\ [ r EXCEPT !.order = v ].payments = r.payments
         /\ PaperRow([ r EXCEPT !.due = v ]) /\ [ r EXCEPT !.due = v ].payments = r.payments
         /\ PaperRow([ r EXCEPT !.archived = v ]) /\ [ r EXCEPT !.archived = v ].payments = r.payments
         /\ PaperRow([ r EXCEPT !.payments = v ]) /\ [ r EXCEPT !.payments = v ].payments = v
<1> DEFINE l == r.place  o == r.order  d == r.due  y == r.payments  a == r.archived
<1>1. r = [ place |-> l, order |-> o, due |-> d, payments |-> y, archived |-> a ]
  BY DEF PaperRow
<1> HIDE DEF l, o, d, y, a
<1>2. /\ [ r EXCEPT !.place = v ] = [ place |-> v, order |-> o, due |-> d, payments |-> y, archived |-> a ]
      /\ [ r EXCEPT !.order = v ] = [ place |-> l, order |-> v, due |-> d, payments |-> y, archived |-> a ]
      /\ [ r EXCEPT !.due = v ] = [ place |-> l, order |-> o, due |-> v, payments |-> y, archived |-> a ]
  BY <1>1
<1>3. /\ [ r EXCEPT !.archived = v ] = [ place |-> l, order |-> o, due |-> d, payments |-> y, archived |-> v ]
      /\ [ r EXCEPT !.payments = v ] = [ place |-> l, order |-> o, due |-> d, payments |-> v, archived |-> a ]
  BY <1>1
<1> QED BY <1>2, <1>3 DEF PaperRow, y

\* The feed only gains, and a row whose marks it tells of takes the place of one.
LEMMA RowTells ==
  ASSUME MarkInv, NEW p \in Papers, NEW row, PaperRow(row), paper' = [ paper EXCEPT ![p] = row ],
         \A e \in feed : e \in feed', \A e \in feed' : FeedRow(e),
         \A y \in row.payments :
           y.status = "Overdue" => \/ \E x \in paper[p].payments : x.status = "Overdue" /\ x.order = y.order
                                  \/ \E e \in feed' : e.paper = p /\ e.order = y.order
  PROVE  MarkInv'
<1>1. /\ paper' = [ q \in Papers |-> paper'[q] ] /\ paper'[p] = row
      /\ \A q \in Papers : q # p => paper'[q] = paper[q]
  BY DEF MarkInv
<1>2. \A q, y : TellsOf(q, y) => TellsOf(q, y)'
  BY DEF TellsOf
<1>3. \A q \in Papers : PaperRow(paper[q])'
  BY <1>1 DEF MarkInv, PaperRow
<1>4. ASSUME NEW y \in row.payments, y.status = "Overdue" PROVE TellsOf(p, y)'
  <2>1. CASE \E x \in paper[p].payments : x.status = "Overdue" /\ x.order = y.order
    BY <1>2, <2>1 DEF MarkInv, TellsOf
  <2>2. CASE \E e \in feed' : e.paper = p /\ e.order = y.order
    BY <2>2 DEF TellsOf
  <2> QED BY <1>4, <2>1, <2>2
<1>5. \A q \in Papers : \A y \in paper'[q].payments : y.status = "Overdue" => TellsOf(q, y)'
  BY <1>1, <1>2, <1>4 DEF MarkInv
<1>6. \A e \in feed' : FeedRow(e)'
  BY DEF FeedRow
<1> QED BY <1>1, <1>3, <1>5, <1>6 DEF MarkInv

LEMMA PapersGoOn ==
  ASSUME MarkInv, NEW p \in Papers,
         \/ CommitMove(p) \/ IssueBill(p) \/ FallDue(p) \/ ProvePayment(p) \/ VerifyPayment(p) \/ Shelve(p)
  PROVE  MarkInv'
<1>0. PaperRow(paper[p])
  BY DEF MarkInv
<1>1. PICK row : /\ PaperRow(row) /\ paper' = [ paper EXCEPT ![p] = row ] /\ feed' = feed
                 /\ \A y \in row.payments : y.status = "Overdue" => y \in paper[p].payments
  <2>1. CASE CommitMove(p)
    <3>1. PICK v : paper' = [ paper EXCEPT ![p] = [ paper[p] EXCEPT !.place = v ] ] /\ feed' = feed
      BY <2>1 DEF CommitMove
    <3> DEFINE row == [ paper[p] EXCEPT !.place = v ]
    <3>2. PaperRow(row) /\ row.payments = paper[p].payments
      BY <1>0, PaperEdits
    <3>3. paper' = [ paper EXCEPT ![p] = row ]
      BY <3>1
    <3> HIDE DEF row
    <3> QED BY <3>1, <3>2, <3>3
  <2>2. CASE IssueBill(p)
    <3>1. PICK v : paper' = [ paper EXCEPT ![p] = [ paper[p] EXCEPT !.order = v ] ]
      BY <2>2 DEF IssueBill, PaperBecomes
    <3>2. feed' = feed
      BY <2>2 DEF IssueBill, PaperBecomes
    <3> DEFINE row == [ paper[p] EXCEPT !.order = v ]
    <3>3. PaperRow(row) /\ row.payments = paper[p].payments
      BY <1>0, PaperEdits
    <3>4. paper' = [ paper EXCEPT ![p] = row ]
      BY <3>1
    <3> HIDE DEF row
    <3> QED BY <3>2, <3>3, <3>4
  <2>3. CASE FallDue(p)
    <3>1. PICK v : paper' = [ paper EXCEPT ![p] = [ paper[p] EXCEPT !.due = v ] ] /\ feed' = feed
      BY <2>3 DEF FallDue, PaperBecomes
    <3> DEFINE row == [ paper[p] EXCEPT !.due = v ]
    <3>2. PaperRow(row) /\ row.payments = paper[p].payments
      BY <1>0, PaperEdits
    <3>3. paper' = [ paper EXCEPT ![p] = row ]
      BY <3>1
    <3> HIDE DEF row
    <3> QED BY <3>1, <3>2, <3>3
  <2>4. CASE ProvePayment(p)
    <3> DEFINE new == [ order |-> paper[p].order, status |-> "Pending Verification" ]
               v == paper[p].payments \cup {new}
    <3>1. paper' = [ paper EXCEPT ![p] = [ paper[p] EXCEPT !.payments = v ] ] /\ feed' = feed
      BY <2>4 DEF ProvePayment, PaperBecomes
    <3>2. new.status = "Pending Verification"
      OBVIOUS
    <3> HIDE DEF new
    <3>3. \A y \in v : y.status = "Overdue" => y \in paper[p].payments
      BY <3>2
    <3> HIDE DEF v
    <3> DEFINE row == [ paper[p] EXCEPT !.payments = v ]
    <3>4. PaperRow(row) /\ row.payments = v
      BY <1>0, PaperEdits
    <3>5. paper' = [ paper EXCEPT ![p] = row ]
      BY <3>1
    <3> HIDE DEF row
    <3> QED BY <3>1, <3>3, <3>4, <3>5
  <2>5. CASE VerifyPayment(p)
    <3>1. PICK x \in paper[p].payments :
            PaperBecomes(p, [ paper[p] EXCEPT !.payments = (@ \ {x}) \cup
                                 {[ order |-> x.order, status |-> "Paid" ]} ])
      BY <2>5 DEF VerifyPayment
    <3> DEFINE new == [ order |-> x.order, status |-> "Paid" ]
               v == (paper[p].payments \ {x}) \cup {new}
    <3>2. paper' = [ paper EXCEPT ![p] = [ paper[p] EXCEPT !.payments = v ] ] /\ feed' = feed
      BY <3>1 DEF PaperBecomes
    <3>3. new.status = "Paid"
      OBVIOUS
    <3> HIDE DEF new
    <3>4. \A y \in v : y.status = "Overdue" => y \in paper[p].payments
      BY <3>3
    <3> HIDE DEF v
    <3> DEFINE row == [ paper[p] EXCEPT !.payments = v ]
    <3>5. PaperRow(row) /\ row.payments = v
      BY <1>0, PaperEdits
    <3>6. paper' = [ paper EXCEPT ![p] = row ]
      BY <3>2
    <3> HIDE DEF row
    <3> QED BY <3>2, <3>4, <3>5, <3>6
  <2>6. CASE Shelve(p)
    <3>1. PICK v : paper' = [ paper EXCEPT ![p] = [ paper[p] EXCEPT !.archived = v ] ] /\ feed' = feed
      BY <2>6 DEF Shelve, PaperBecomes
    <3> DEFINE row == [ paper[p] EXCEPT !.archived = v ]
    <3>2. PaperRow(row) /\ row.payments = paper[p].payments
      BY <1>0, PaperEdits
    <3>3. paper' = [ paper EXCEPT ![p] = row ]
      BY <3>1
    <3> HIDE DEF row
    <3> QED BY <3>1, <3>2, <3>3
  <2> QED BY <2>1, <2>2, <2>3, <2>4, <2>5, <2>6
<1> QED BY <1>1, RowTells DEF MarkInv

LEMMA MarksAreTold ==
  ASSUME MarkInv, NEW i \in Sweeps, SweepOne(i),
         \A j \in Sweeps : \A item \in round[j].todo : item.paper \in Papers
  PROVE  MarkInv'
<1>0. PICK item \in round[i].todo :
        \E n : /\ paper' = [ paper EXCEPT ![item.paper].payments = Marked(@, item.order) ]
              /\ feed' = feed \cup {[ paper |-> item.paper, order |-> item.order, nth |-> n,
                                       read |-> FALSE, resolved |-> FALSE ]}
  BY DEF SweepOne
<1>1. PICK n : /\ paper' = [ paper EXCEPT ![item.paper].payments = Marked(@, item.order) ]
               /\ feed' = feed \cup {[ paper |-> item.paper, order |-> item.order, nth |-> n,
                                        read |-> FALSE, resolved |-> FALSE ]}
  BY <1>0
<1> DEFINE p == item.paper  o == item.order
           new == [ paper |-> p, order |-> o, nth |-> n, read |-> FALSE, resolved |-> FALSE ]
           v == Marked(paper[p].payments, o)
<1>2. p \in Papers /\ PaperRow(paper[p])
  BY DEF MarkInv
<1>3. FeedRow(new) /\ new.paper = p /\ new.order = o
  BY DEF FeedRow
<1>4. paper' = [ paper EXCEPT ![p] = [ paper[p] EXCEPT !.payments = v ] ] /\ feed' = feed \cup {new}
  BY <1>1
<1> HIDE DEF new
<1>5. \A y \in v : y.status = "Overdue" => y \in paper[p].payments \/ y.order = o
  <2> DEFINE mark(y) == [ order |-> y.order, status |-> "Overdue" ]
             other(y) == IF y.order = o /\ y.status = "Pending Verification" THEN mark(y) ELSE y
  <2>1. \A y : y.order = o => mark(y).order = o
    OBVIOUS
  <2> HIDE DEF mark
  <2>2. \A y : other(y) = y \/ other(y).order = o
    BY <2>1
  <2>3. v = { other(y) : y \in paper[p].payments }
    BY DEF Marked, mark
  <2> HIDE DEF other, v
  <2> QED BY <2>2, <2>3
<1> HIDE DEF v
<1>6. PaperRow([ paper[p] EXCEPT !.payments = v ]) /\ [ paper[p] EXCEPT !.payments = v ].payments = v
  BY <1>2, PaperEdits
<1>7. \A e \in feed : e \in feed'
  BY <1>4
<1>8. \A e \in feed' : FeedRow(e)
  BY <1>3, <1>4 DEF MarkInv
<1> DEFINE row == [ paper[p] EXCEPT !.payments = v ]
<1>9. \A y \in v : y.status = "Overdue" => \/ \E x \in paper[p].payments : x.status = "Overdue" /\ x.order = y.order
                                          \/ \E e \in feed' : e.paper = p /\ e.order = y.order
  BY <1>3, <1>4, <1>5
<1>10. PaperRow(row) /\ row.payments = v /\ paper' = [ paper EXCEPT ![p] = row ]
  BY <1>4, <1>6
<1> HIDE DEF row, p, o
<1> QED BY <1>2, <1>7, <1>8, <1>9, <1>10, RowTells

\* What a run is to work off is of applications there are.
TodoInv == round = [ i \in Sweeps |-> round[i] ]
           /\ \A i \in Sweeps : RoundRow(round[i]) /\ \A item \in round[i].todo : item.paper \in Papers

LEMMA TodoGoesOn ==
  ASSUME TodoInv, NEW i \in Sweeps, StartSweep(i) \/ SweepOne(i) \/ EndSweep(i) \/ LeaseRunsOut(i)
  PROVE  TodoInv'
<1>1. PICK r : /\ RoundRow(r) /\ round' = [ round EXCEPT ![i] = r ]
               /\ \A item \in r.todo : item.paper \in Papers
  <2>1. CASE StartSweep(i)
    <3> DEFINE todo == { [ paper |-> p, order |-> paper[p].order, place |-> paper[p].place ] : p \in Overdue }
               r == [ on |-> TRUE, late |-> FALSE, todo |-> todo ]
    <3>1. round' = [ round EXCEPT ![i] = r ]
      BY <2>1 DEF StartSweep
    <3>2. \A item \in todo : item.paper \in Papers
      <4>1. \A p \in Overdue : p \in Papers
        BY DEF Overdue, notTold
      <4> QED BY <4>1
    <3>3. RoundRow(r) /\ r.todo = todo
      BY DEF RoundRow
    <3> HIDE DEF r, todo
    <3> QED BY <3>1, <3>2, <3>3
  <2>2. CASE SweepOne(i)
    <3>1. PICK item : round' = [ round EXCEPT ![i].todo = @ \ {item} ]
      BY <2>2 DEF SweepOne
    <3> DEFINE rest == round[i].todo \ {item}
    <3>2. round' = [ round EXCEPT ![i] = [ round[i] EXCEPT !.todo = rest ] ]
      BY <3>1
    <3>3. \A x \in rest : x.paper \in Papers
      BY DEF TodoInv
    <3> HIDE DEF rest
    <3>4. RoundRow([ round[i] EXCEPT !.todo = rest ]) /\ [ round[i] EXCEPT !.todo = rest ].todo = rest
      BY RoundGoesOn DEF TodoInv
    <3> QED BY <3>2, <3>3, <3>4
  <2>3. CASE EndSweep(i)
    <3> DEFINE r == [ on |-> FALSE, todo |-> {}, late |-> FALSE ]
    <3>1. RoundRow(r) /\ r.todo = {} /\ round' = [ round EXCEPT ![i] = r ]
      BY <2>3 DEF EndSweep, RoundRow
    <3> HIDE DEF r
    <3> QED BY <3>1
  <2>4. CASE LeaseRunsOut(i)
    <3>1. PICK w : round' = [ round EXCEPT ![i] = [ round[i] EXCEPT !.late = w ] ]
      BY <2>4 DEF LeaseRunsOut
    <3> DEFINE r == [ round[i] EXCEPT !.late = w ]
    <3>2. RoundRow(r) /\ r.todo = round[i].todo
      BY RoundGoesOn DEF TodoInv
    <3>3. round' = [ round EXCEPT ![i] = r ]
      BY <3>1
    <3> HIDE DEF r
    <3> QED BY <3>2, <3>3 DEF TodoInv
  <2> QED BY <2>1, <2>2, <2>3, <2>4
<1>2. /\ round' = [ k \in Sweeps |-> round'[k] ] /\ round'[i] = r
      /\ \A k \in Sweeps : k # i => round'[k] = round[k]
  BY <1>1 DEF TodoInv
<1> QED BY <1>1, <1>2 DEF TodoInv, RoundRow

LEMMA OwnNoticesTell ==
  ASSUME MarkInv, NEW e \in feed, ReadOwn(e) \/ ResolveOwn(e) PROVE MarkInv'
<1>1. PICK m : /\ FeedRow(m) /\ m.paper = e.paper /\ m.order = e.order
               /\ feed' = (feed \ {e}) \cup {m} /\ UNCHANGED paper
  <2>1. CASE ReadOwn(e)
    <3>1. PICK w : feed' = (feed \ {e}) \cup {[ e EXCEPT !.read = w ]} /\ UNCHANGED paper
      BY <2>1 DEF ReadOwn
    <3> QED BY <3>1, FeedRead DEF MarkInv
  <2>2. CASE ResolveOwn(e)
    <3>1. PICK w : feed' = (feed \ {e}) \cup {[ e EXCEPT !.resolved = w ]} /\ UNCHANGED paper
      BY <2>2 DEF ResolveOwn
    <3> QED BY <3>1, FeedRead DEF MarkInv
  <2> QED BY <2>1, <2>2
<1>2. \A p, y : TellsOf(p, y) => TellsOf(p, y)'
  BY <1>1 DEF TellsOf
<1>3. \A x \in feed' : FeedRow(x)'
  BY <1>1 DEF MarkInv, FeedRow
<1> QED BY <1>1, <1>2, <1>3 DEF MarkInv, PaperRow

LEMMA MarksStayTold == WorklistSpec => [](MarkInv /\ TodoInv)
<1>1. WorklistInit => MarkInv /\ TodoInv
  <2> SUFFICES ASSUME WorklistInit PROVE MarkInv /\ TodoInv
    OBVIOUS
  <2>1. /\ feed = {}
        /\ paper \in [ Papers -> [ place : FirstStatuses, order : {0}, due : {{}},
                                   payments : {{}}, archived : {FALSE} ] ]
    BY DEF WorklistInit
  <2>2. \A p \in Papers : PaperRow(paper[p]) /\ paper[p].payments = {}
    BY <2>1 DEF PaperRow
  <2> DEFINE r == [ on |-> FALSE, todo |-> {}, late |-> FALSE ]
  <2>3. round = [ i \in Sweeps |-> r ]
    BY DEF WorklistInit
  <2>4. RoundRow(r) /\ r.todo = {}
    BY DEF RoundRow
  <2> HIDE DEF r
  <2>5. TodoInv
    BY <2>3, <2>4 DEF TodoInv
  <2>6. paper = [ p \in Papers |-> paper[p] ]
    BY <2>1
  <2> QED BY <2>1, <2>2, <2>5, <2>6 DEF MarkInv
<1>2. MarkInv /\ TodoInv /\ [WorklistNext]_worklistVars => MarkInv' /\ TodoInv'
  <2> SUFFICES ASSUME MarkInv, TodoInv, [WorklistNext]_worklistVars PROVE MarkInv' /\ TodoInv'
    OBVIOUS
  <2>1. ASSUME UNCHANGED << paper, feed >> PROVE MarkInv'
    BY <2>1 DEF MarkInv, FeedRow, PaperRow, TellsOf
  <2>2. ASSUME UNCHANGED round PROVE TodoInv'
    BY <2>2 DEF TodoInv, RoundRow
  <2>3. CASE ArrivalStep
    <3>1. ASSUME NEW p \in Papers, CommitMove(p) PROVE UNCHANGED round
      BY <3>1 DEF CommitMove
    <3>2. ASSUME NEW p \in Papers, RollBackMove(p) \/ TellRecords(p) PROVE UNCHANGED << paper, feed, round >>
      BY <3>2 DEF RollBackMove, TellRecords
    <3>3. ASSUME NEW p \in Papers, NEW rule, NEW by, Announce(p, rule, by) PROVE UNCHANGED << paper, feed, round >>
      BY <3>3 DEF Announce
    <3>4. ASSUME NEW n \in inbox, MarkRead(n) PROVE UNCHANGED << paper, feed, round >>
      BY <3>4 DEF MarkRead
    <3>5. ASSUME NEW s \in Stewards, Disable(s) PROVE UNCHANGED << paper, feed, round >>
      BY <3>5 DEF Disable
    <3> QED BY <2>1, <2>2, <2>3, <3>1, <3>2, <3>3, <3>4, <3>5, PapersGoOn DEF ArrivalStep
  <2>4. CASE OverdueStep
    <3>1. ASSUME NEW p \in Papers,
                 IssueBill(p) \/ FallDue(p) \/ ProvePayment(p) \/ VerifyPayment(p) \/ Shelve(p)
          PROVE  MarkInv' /\ TodoInv'
      <4>1. UNCHANGED round
        BY <3>1 DEF IssueBill, FallDue, ProvePayment, VerifyPayment, Shelve, PaperBecomes
      <4> QED BY <2>2, <3>1, <4>1, PapersGoOn
    <3>2. ASSUME NEW i \in Sweeps, StartSweep(i) \/ SweepOne(i) \/ EndSweep(i) \/ LeaseRunsOut(i)
          PROVE  MarkInv' /\ TodoInv'
      <4>1. StartSweep(i) \/ EndSweep(i) \/ LeaseRunsOut(i) => UNCHANGED << paper, feed >>
        BY DEF StartSweep, EndSweep, LeaseRunsOut
      <4>2. \A j \in Sweeps : \A item \in round[j].todo : item.paper \in Papers
        BY DEF TodoInv
      <4> QED BY <2>1, <3>2, <4>1, <4>2, MarksAreTold, TodoGoesOn
    <3>3. ASSUME NEW e \in feed, ReadOwn(e) \/ ResolveOwn(e) PROVE MarkInv' /\ TodoInv'
      <4>1. UNCHANGED round
        BY <3>3 DEF ReadOwn, ResolveOwn
      <4> QED BY <2>2, <3>3, <4>1, OwnNoticesTell
    <3> QED BY <2>4, <3>1, <3>2, <3>3 DEF OverdueStep
  <2>5. CASE UNCHANGED worklistVars
    <3>1. UNCHANGED << paper, feed, round >>
      BY <2>5 DEF worklistVars
    <3> QED BY <2>1, <2>2, <3>1
  <2> QED BY <2>3, <2>4, <2>5 DEF WorklistNext
<1> QED BY <1>1, <1>2, PTL DEF WorklistSpec

\* No payment is overdue but of an Order the applicant was told of, and an
\* application is told of one Order, once, unless a run outlived its lease.
THEOREM OverdueAlwaysToldOnce == WorklistSpec => []OverdueToldOnce
<1>1. WorklistInit => SweepInv
  <2> SUFFICES ASSUME WorklistInit PROVE SweepInv
    OBVIOUS
  <2> DEFINE r == [ on |-> FALSE, todo |-> {}, late |-> FALSE ]
  <2>1. feed = {} /\ overlapped = FALSE /\ round = [ i \in Sweeps |-> r ]
    BY DEF WorklistInit
  <2>2. RoundRow(r) /\ ~r.on
    BY DEF RoundRow
  <2> HIDE DEF r
  <2> QED BY <2>1, <2>2 DEF SweepInv, Alone
<1>2. SweepInv /\ [WorklistNext]_worklistVars => SweepInv'
  <2> SUFFICES ASSUME SweepInv, [WorklistNext]_worklistVars PROVE SweepInv'
    OBVIOUS
  <2>1. ASSUME UNCHANGED << feed, round, overlapped >> PROVE SweepInv'
    BY <2>1 DEF SweepInv, FeedRow, RoundRow, Alone
  <2>2. CASE ArrivalStep
    <3>1. ASSUME NEW p \in Papers, CommitMove(p) \/ RollBackMove(p) \/ TellRecords(p) PROVE SweepInv'
      BY <2>1, <3>1 DEF CommitMove, RollBackMove, TellRecords
    <3>2. ASSUME NEW p \in Papers, NEW rule, NEW by, Announce(p, rule, by) PROVE SweepInv'
      BY <2>1, <3>2 DEF Announce
    <3>3. ASSUME NEW n \in inbox, MarkRead(n) PROVE SweepInv'
      BY <2>1, <3>3 DEF MarkRead
    <3>4. ASSUME NEW s \in Stewards, Disable(s) PROVE SweepInv'
      BY <2>1, <3>4 DEF Disable
    <3> QED BY <2>2, <3>1, <3>2, <3>3, <3>4 DEF ArrivalStep
  <2>3. CASE OverdueStep
    <3>1. ASSUME NEW p \in Papers,
                 IssueBill(p) \/ FallDue(p) \/ ProvePayment(p) \/ VerifyPayment(p) \/ Shelve(p)
          PROVE  SweepInv'
      BY <2>1, <3>1 DEF IssueBill, FallDue, ProvePayment, VerifyPayment, Shelve, PaperBecomes
    <3> QED BY <2>3, <3>1, SweepBegins, SweepGoesOn, SweepEnds, OwnNotices DEF OverdueStep
  <2>4. CASE UNCHANGED worklistVars
    BY <2>1, <2>4 DEF worklistVars
  <2> QED BY <2>2, <2>3, <2>4 DEF WorklistNext
<1>3. SweepInv /\ MarkInv => OverdueToldOnce
  BY DEF SweepInv, MarkInv, TellsOf, OverdueToldOnce
<1> QED BY <1>1, <1>2, <1>3, MarksStayTold, PTL DEF WorklistSpec

-----------------------------------------------------------------------------
(*****************************************************************************)
(* StaffQueue: who an application waits on.                                  *)
(*                                                                           *)
(* Who is named is derived at each reading from where the application        *)
(* stands; that it agrees with the guard is a comparison of two tables,      *)
(* stage by stage.  Only the seats have to be known.                         *)
(*****************************************************************************)

Seated == seat \in [ Members -> Seats ]

\* Which roles a step's scope stands for.
LEMMA WhoHolds ==
  ASSUME NEW role \in StaffRoles \ {"super-admin"}
  PROVE  /\ "staff:receive" \in RoleScopes(role) => role \in {"receiving-officer", "records-officer"}
         /\ "staff:evaluate" \in RoleScopes(role) => role = "evaluator"
         /\ "staff:assess" \in RoleScopes(role) => role = "assessor"
         /\ "staff:verify-payment" \in RoleScopes(role) => role = "cashier"
         /\ "staff:approve" \in RoleScopes(role) => role = "building-official"
         /\ "staff:release" \in RoleScopes(role) => role = "releasing-officer"
         /\ role = "records-officer" => "applications:write" \in RoleScopes(role)
         /\ "none" \notin RoleScopes(role)
<1>1. CASE role = "receiving-officer"
  BY <1>1 DEF RoleScopes
<1>2. CASE role = "records-officer"
  BY <1>2 DEF RoleScopes
<1>3. CASE role = "evaluator"
  BY <1>3 DEF RoleScopes
<1>4. CASE role = "assessor"
  BY <1>4 DEF RoleScopes
<1>5. CASE role = "cashier"
  BY <1>5 DEF RoleScopes
<1>6. CASE role = "building-official"
  BY <1>6 DEF RoleScopes
<1>7. CASE role = "releasing-officer"
  BY <1>7 DEF RoleScopes
<1>8. CASE role = "administrator"
  BY <1>8 DEF RoleScopes
<1>9. CASE role = "auditor"
  BY <1>9 DEF RoleScopes
<1> QED BY <1>1, <1>2, <1>3, <1>4, <1>5, <1>6, <1>7, <1>8, <1>9 DEF StaffRoles

\* The steps of the process, with the team of each.
LEMMA TheSteps ==
  ASSUME NEW place, NEW next, StepScope(place, next) # "none"
  PROVE  LET scope == StepScope(place, next)  stage == StepStage(place, next)
             team == TeamForStep(scope, stage)
         IN  \/ /\ scope = "staff:receive" /\ stage = "none" /\ team = "receiving"
                /\ place \in {"Submitted", "Received"}
             \/ /\ scope = "staff:evaluate" /\ stage # "none" /\ team = stage
                /\ place \in {"Document Verification", "Under Evaluation"}
             \/ /\ scope = "staff:assess" /\ stage = "none" /\ team = "assessment"
                /\ place = "Under Evaluation"
             \/ /\ scope = "staff:verify-payment" /\ stage = "none" /\ team = "cashier"
                /\ place \in {"Payment Submitted", "Payment Under Verification", "Payment Verified"}
             \/ /\ scope = "staff:approve" /\ stage = "none" /\ team = "Final Approval"
                /\ place \in {"For Approval", "Approved"}
             \/ /\ scope = "staff:release" /\ stage = "none" /\ team = "releasing"
                /\ place \in {"Permit Generated", "Ready for Release", "Released"}
<1>1. CASE place \in {"Submitted", "Received"}
  BY <1>1 DEF StepScope, StepStage, TeamForStep
<1>2. CASE place = "Document Verification"
  BY <1>2 DEF StepScope, StepStage, TeamForStep
<1>3. CASE place = "Under Evaluation"
  BY <1>3 DEF StepScope, StepStage, TeamForStep
<1>4. CASE place \in {"Payment Submitted", "Payment Under Verification", "Payment Verified"}
  BY <1>4 DEF StepScope, StepStage, TeamForStep
<1>5. CASE place \in {"For Approval", "Approved"}
  BY <1>5 DEF StepScope, StepStage, TeamForStep
<1>6. CASE place \in {"Permit Generated", "Ready for Release", "Released"}
  BY <1>6 DEF StepScope, StepStage, TeamForStep
<1> QED BY <1>1, <1>2, <1>3, <1>4, <1>5, <1>6 DEF StepScope

\* What each scope lets its holder see.
LEMMA EachSees ==
  ASSUME NEW scopes
  PROVE  /\ scopes \cap {"staff:administer", "audit:read", "applications:write", "staff:approve"} # {}
              => VisibleTo(scopes) = StatusNames
         /\ scopes \cap {"staff:administer", "audit:read", "applications:write", "staff:approve"} = {} =>
              /\ "staff:receive" \in scopes => {"Submitted", "Received"} \subseteq VisibleTo(scopes)
              /\ "staff:evaluate" \in scopes => {"Document Verification", "Under Evaluation"} \subseteq VisibleTo(scopes)
              /\ "staff:assess" \in scopes => "Under Evaluation" \in VisibleTo(scopes)
              /\ "staff:verify-payment" \in scopes =>
                   {"Payment Submitted", "Payment Under Verification", "Payment Verified"} \subseteq VisibleTo(scopes)
              /\ "staff:release" \in scopes =>
                   {"Permit Generated", "Ready for Release", "Released"} \subseteq VisibleTo(scopes)
<1>1. CASE scopes \cap {"staff:administer", "audit:read", "applications:write", "staff:approve"} # {}
  BY <1>1 DEF VisibleTo
<1>2. CASE scopes \cap {"staff:administer", "audit:read", "applications:write", "staff:approve"} = {}
  <2> DEFINE sees(scope) ==
        CASE scope = "staff:receive" -> {"Submitted", "Received", "Document Verification"}
          [] scope = "staff:evaluate" -> { "Submitted", "Received", "Revision Required",
               "Document Verification", "Under Evaluation" }
          [] scope = "staff:assess" -> {"Under Evaluation", "Assessed"}
          [] scope = "staff:verify-payment" -> { "Assessed", "Payment Submitted",
               "Payment Under Verification", "Payment Verified" }
          [] scope = "staff:release" -> { "Approved", "Permit Generated",
               "Ready for Release", "Released", "Completed" }
  <2>1. VisibleTo(scopes) = UNION { sees(scope) : scope \in scopes }
    BY <1>2 DEF VisibleTo
  <2>2. \A scope, status : scope \in scopes /\ status \in sees(scope) => status \in VisibleTo(scopes)
    <3> HIDE DEF sees
    <3> QED BY <2>1
  <2>3. {"Submitted", "Received"} \subseteq sees("staff:receive")
    OBVIOUS
  <2>4. {"Document Verification", "Under Evaluation"} \subseteq sees("staff:evaluate")
    OBVIOUS
  <2>5. "Under Evaluation" \in sees("staff:assess")
    OBVIOUS
  <2>6. {"Payment Submitted", "Payment Under Verification", "Payment Verified"} \subseteq sees("staff:verify-payment")
    OBVIOUS
  <2>7. {"Permit Generated", "Ready for Release", "Released"} \subseteq sees("staff:release")
    OBVIOUS
  <2> HIDE DEF sees
  <2>8. "staff:receive" \in scopes => {"Submitted", "Received"} \subseteq VisibleTo(scopes)
    BY <2>2, <2>3
  <2>9. "staff:evaluate" \in scopes => {"Document Verification", "Under Evaluation"} \subseteq VisibleTo(scopes)
    BY <2>2, <2>4
  <2>10. "staff:assess" \in scopes => "Under Evaluation" \in VisibleTo(scopes)
    BY <2>2, <2>5
  <2>11. "staff:verify-payment" \in scopes =>
           {"Payment Submitted", "Payment Under Verification", "Payment Verified"} \subseteq VisibleTo(scopes)
    BY <2>2, <2>6
  <2>12. "staff:release" \in scopes =>
           {"Permit Generated", "Ready for Release", "Released"} \subseteq VisibleTo(scopes)
    BY <2>2, <2>7
  <2> QED BY <1>2, <2>8, <2>9, <2>10, <2>11, <2>12
<1> QED BY <1>1, <1>2

\* Named and MayTakeStep, of one position and one step; free, that nobody else has
\* it, or that the officer leads the team.
IsNamed(s, place, next, form) ==
  LET scope == StepScope(place, next)  stage == StepStage(place, next)
  IN  /\ s.active /\ s.level = "view-edit" /\ scope # "none"
      /\ \E role \in s.roles \ {"super-admin"} : scope \in RoleScopes(role)
      /\ form \in s.forms
      /\ stage # "none" => stage \in s.stages

IsAllowed(s, place, next, form, free) ==
  LET scope == StepScope(place, next)  stage == StepStage(place, next)
      team == TeamForStep(scope, stage)
  IN  /\ s.active /\ scope \in ScopesOf(s) /\ form \in s.forms
      /\ stage # "none" => stage \in s.stages
      /\ \/ team \in teamsOf(s) /\ s.level = "view-edit" /\ free
         \/ ~(team \in teamsOf(s) /\ s.level = "view-edit") /\ "applications:write" \in ScopesOf(s)

\* Who may act is named, whoever is named may act when nobody else has the step,
\* and the step is shown to them: of one position and one step.
LEMMA OneStep ==
  ASSUME NEW s \in Seats, NEW place, NEW next, NEW form, NEW free
  PROVE  /\ "super-admin" \notin s.roles /\ IsAllowed(s, place, next, form, free) => IsNamed(s, place, next, form)
         /\ IsNamed(s, place, next, form) /\ free => IsAllowed(s, place, next, form, free)
         /\ IsNamed(s, place, next, form) =>
              /\ place \in VisibleTo(ScopesOf(s))
              /\ place \in WAITING_ON_STAFF \cup {"Released"}
<1> DEFINE scope == StepScope(place, next)
           stage == StepStage(place, next)
           team == TeamForStep(scope, stage)
           named == /\ s.active /\ s.level = "view-edit" /\ scope # "none"
                    /\ \E role \in s.roles \ {"super-admin"} : scope \in RoleScopes(role)
                    /\ form \in s.forms
                    /\ stage # "none" => stage \in s.stages
           may == /\ s.active /\ scope \in ScopesOf(s) /\ form \in s.forms
                  /\ stage # "none" => stage \in s.stages
                  /\ \/ team \in teamsOf(s) /\ s.level = "view-edit" /\ free
                     \/ ~(team \in teamsOf(s) /\ s.level = "view-edit") /\ "applications:write" \in ScopesOf(s)
<1>00. /\ IsNamed(s, place, next, form) <=> named
       /\ IsAllowed(s, place, next, form, free) <=> may
  BY DEF IsNamed, IsAllowed
<1>0. scope # "none" =>
        \/ /\ scope = "staff:receive" /\ stage = "none" /\ team = "receiving"
           /\ place \in {"Submitted", "Received"}
        \/ /\ scope = "staff:evaluate" /\ stage # "none" /\ team = stage
           /\ place \in {"Document Verification", "Under Evaluation"}
        \/ /\ scope = "staff:assess" /\ stage = "none" /\ team = "assessment"
           /\ place = "Under Evaluation"
        \/ /\ scope = "staff:verify-payment" /\ stage = "none" /\ team = "cashier"
           /\ place \in {"Payment Submitted", "Payment Under Verification", "Payment Verified"}
        \/ /\ scope = "staff:approve" /\ stage = "none" /\ team = "Final Approval"
           /\ place \in {"For Approval", "Approved"}
        \/ /\ scope = "staff:release" /\ stage = "none" /\ team = "releasing"
           /\ place \in {"Permit Generated", "Ready for Release", "Released"}
  BY TheSteps
<1> HIDE DEF scope, stage, team
<1>1. /\ s.roles \subseteq StaffRoles /\ s.level \in {"none", "view", "view-edit"}
      /\ s.level = "none" => s.forms = {}
  BY StaffQueueAssumption DEF StaffQueueAssumption, Seat
<1>2. \A x : x \in ScopesOf(s) => \E role \in s.roles : x \in RoleScopes(role)
  BY DEF ScopesOf
<1>3. s.level # "view" => \A x : \A role \in s.roles : x \in RoleScopes(role) => x \in ScopesOf(s)
  BY DEF ScopesOf
<1>4. "applications:write" \in ScopesOf(s) => s.level # "view"
  BY DEF ScopesOf
<1>5. ASSUME "super-admin" \notin s.roles, may PROVE named
  <2>1. s.active /\ scope \in ScopesOf(s) /\ form \in s.forms /\ (stage # "none" => stage \in s.stages)
    BY <1>5
  <2>2. s.level = "view-edit"
    <3>1. s.level = "view-edit" \/ "applications:write" \in ScopesOf(s)
      BY <1>5
    <3> QED BY <1>1, <1>4, <2>1, <3>1
  <2>3. PICK role \in s.roles \ {"super-admin"} : scope \in RoleScopes(role)
    BY <1>2, <1>5, <2>1
  <2>4. scope # "none"
    BY <1>1, <2>3, WhoHolds
  <2> QED BY <2>1, <2>2, <2>3, <2>4
<1>6. ASSUME named PROVE /\ free => may
                         /\ place \in VisibleTo(ScopesOf(s))
                         /\ place \in WAITING_ON_STAFF \cup {"Released"}
  <2>1. PICK role \in s.roles \ {"super-admin"} : scope \in RoleScopes(role)
    BY <1>6
  <2>2. role \in StaffRoles \ {"super-admin"} /\ scope \in ScopesOf(s) /\ scope # "none"
    BY <1>1, <1>3, <1>6, <2>1
  <2>3. /\ \/ role \in {"receiving-officer", "records-officer"} /\ scope = "staff:receive"
           \/ role = "evaluator" /\ scope = "staff:evaluate"
           \/ role = "assessor" /\ scope = "staff:assess"
           \/ role = "cashier" /\ scope = "staff:verify-payment"
           \/ role = "building-official" /\ scope = "staff:approve"
           \/ role = "releasing-officer" /\ scope = "staff:release"
    BY <1>0, <2>1, <2>2, WhoHolds
  <2>4. team \in teamsOf(s) \/ "applications:write" \in ScopesOf(s)
    <3>1. CASE role = "records-officer"
      BY <1>3, <1>6, <2>2, <3>1, WhoHolds
    <3>2. CASE role = "evaluator"
      <4>1. team = stage /\ stage # "none"
        BY <1>0, <2>2, <2>3, <3>2
      <4>2. team \in s.stages /\ "evaluator" \in s.roles
        BY <1>6, <2>1, <3>2, <4>1
      <4> QED BY <4>2 DEF teamsOf
    <3>3. CASE role \notin {"records-officer", "evaluator"}
      <4>1. team \in RoleTeam(role)
        BY <1>0, <2>2, <2>3, <3>3 DEF RoleTeam
      <4> QED BY <4>1 DEF teamsOf
    <3> QED BY <3>1, <3>2, <3>3
  <2>5. free => may
    BY <1>6, <2>2, <2>4
  <2>6. place \in VisibleTo(ScopesOf(s))
    <3>1. CASE ScopesOf(s) \cap {"staff:administer", "audit:read", "applications:write", "staff:approve"} # {}
      <4>1. place \in StatusNames
        BY <1>0, <2>2 DEF StatusNames
      <4> QED BY <3>1, <4>1, EachSees
    <3>2. CASE ScopesOf(s) \cap {"staff:administer", "audit:read", "applications:write", "staff:approve"} = {}
      <4>1. scope # "staff:approve"
        BY <2>2, <3>2
      <4> DEFINE scopes == ScopesOf(s)
      <4>2. /\ "staff:receive" \in scopes => {"Submitted", "Received"} \subseteq VisibleTo(scopes)
            /\ "staff:evaluate" \in scopes => {"Document Verification", "Under Evaluation"} \subseteq VisibleTo(scopes)
            /\ "staff:assess" \in scopes => "Under Evaluation" \in VisibleTo(scopes)
            /\ "staff:verify-payment" \in scopes =>
                 {"Payment Submitted", "Payment Under Verification", "Payment Verified"} \subseteq VisibleTo(scopes)
            /\ "staff:release" \in scopes =>
                 {"Permit Generated", "Ready for Release", "Released"} \subseteq VisibleTo(scopes)
        BY <3>2, EachSees
      <4> QED BY <1>0, <2>2, <4>1, <4>2
    <3> QED BY <3>1, <3>2
  <2>7. place \in WAITING_ON_STAFF \cup {"Released"}
    BY <1>0, <2>2 DEF WAITING_ON_STAFF
  <2> QED BY <2>5, <2>6, <2>7
<1> QED BY <1>00, <1>5, <1>6

\* An application waits on exactly the officers who may act on it, and what they
\* work from shows it to them.
THEOREM AlwaysWaitsOnWhoMayAct == QueueSpec => []WaitsOnWhoMayAct
<1>1. StaffQueueInit => Seated
  BY StaffQueueAssumption DEF StaffQueueInit, Seated, StaffQueueAssumption
<1>2. Seated /\ [QueueNext]_queueVars => Seated'
  <2> SUFFICES ASSUME Seated, [QueueNext]_queueVars PROVE Seated'
    OBVIOUS
  <2>1. ASSUME NEW m \in Members, NEW s \in Seats, GiveSeat(m, s) PROVE Seated'
    BY <2>1 DEF GiveSeat, Seated
  <2>2. CASE WalkStep \/ DossierStep \/ TimePasses \/ UNCHANGED queueVars
    BY <2>2 DEF WalkStep, NextPage, OpenQueue, DossierStep, FileDossier, MoveDossier, StampDossier, Becoming,
                TimePasses, queueVars, Seated
  <2>3. ASSUME NEW form \in Forms, RetireForm(form) PROVE Seated'
    BY <2>3 DEF RetireForm, Seated
  <2> QED BY <2>1, <2>2, <2>3 DEF QueueNext, SeatStep
<1>3. Seated => WaitsOnWhoMayAct
  <2> SUFFICES ASSUME Seated, NEW m \in Members, NEW d \in Kept
               PROVE  LET s == seat[m]
                          free == dossiers[d].taker \in {NoDossier, m} \/ s.lead
                      IN  /\ "super-admin" \notin s.roles =>
                               /\ MayTakeStep(m, d) => Named(m, d)
                               /\ Named(m, d) /\ free => MayTakeStep(m, d)
                          /\ Named(m, d) =>
                               /\ dossiers[d].place \in VisibleTo(ScopesOf(s))
                               /\ dossiers[d].place \in WAITING_ON_STAFF \cup {"Released"}
                               /\ dossiers[d].place = "Under Evaluation" /\ dossiers[d].next # "none"
                                    /\ ~dossiers[d].archived => d \in evaluationQueue(m, dossiers[d].next)
    BY DEF WaitsOnWhoMayAct
  <2> DEFINE s == seat[m]
             free == (dossiers[d].taker \in {NoDossier, m} \/ s.lead)
             place == dossiers[d].place  next == dossiers[d].next  form == dossiers[d].form
  <2>1. s \in Seats
    BY DEF Seated
  <2>4. /\ Named(m, d) <=> IsNamed(s, place, next, form)
        /\ MayTakeStep(m, d) <=> IsAllowed(s, place, next, form, free)
    BY DEF Named, MayTakeStep, IsNamed, IsAllowed
  <2>2. /\ "super-admin" \notin s.roles => (MayTakeStep(m, d) => Named(m, d))
        /\ Named(m, d) /\ free => MayTakeStep(m, d)
        /\ Named(m, d) => /\ place \in VisibleTo(ScopesOf(s))
                          /\ place \in WAITING_ON_STAFF \cup {"Released"}
    <3> HIDE DEF s, free, place, next, form
    <3> QED BY <2>1, <2>4, OneStep
  <2>3. Named(m, d) /\ dossiers[d].place = "Under Evaluation" /\ ~dossiers[d].archived
          => d \in evaluationQueue(m, dossiers[d].next)
    BY <2>2 DEF evaluationQueue
  <2> QED BY <2>2, <2>3
<1> QED BY <1>1, <1>2, <1>3, PTL DEF QueueSpec

-----------------------------------------------------------------------------
(*****************************************************************************)
(* StaffQueue: the pages of the queue.                                       *)
(*                                                                           *)
(* Of every application that rested and that no page's end hides: it was     *)
(* shown once if it lies before the cursor, and never if it lies behind.     *)
(* The order of the queue is by time and id; that the rows of a finite set   *)
(* have one is shown by the number of those before each.                     *)
(*****************************************************************************)

\* The order of the queue is one: of two applications, one comes first.
LEMMA OneComesFirst ==
  ASSUME NEW S, S \subseteq Dossiers, \A d \in S : dossiers[d].at \in Nat
  PROVE  /\ \A d, e \in S : Precedes(d, e) \/ d = e \/ Precedes(e, d)
         /\ \A d, e \in S : Precedes(d, e) => d # e /\ ~Precedes(e, d)
         /\ \A d, e, f \in S : Precedes(d, e) /\ Precedes(e, f) => Precedes(d, f)
<1>1. \A d \in S : d \in Nat /\ dossiers[d].at \in Nat
  BY StaffQueueAssumption DEF StaffQueueAssumption
<1> QED BY <1>1 DEF Precedes

LEMMA UpTo ==
  ASSUME NEW n \in Nat
  PROVE  IsFiniteSet(1..n) /\ Cardinality(1..n) = n
<1>1. 1 \in Int /\ n \in Int
  OBVIOUS
<1>2. IsFiniteSet(1..n) /\ Cardinality(1..n) = IF 1 > n THEN 0 ELSE n - 1 + 1
  BY ONLY <1>1, FS_Interval
<1>3. (IF 1 > n THEN 0 ELSE n - 1 + 1) = n
  OBVIOUS
<1> QED BY ONLY <1>2, <1>3

\* Applications returned in order: each of the set, once, and in order.
LEMMA InOrderIs ==
  ASSUME NEW S, S \subseteq Dossiers, IsFiniteSet(S), \A d \in S : dossiers[d].at \in Nat,
         NEW n, n = Cardinality(S), NEW q, q = InOrder(S)
  PROVE  /\ n \in Nat /\ q \in [ 1..n -> S ]
         /\ \A i, j \in 1..n : i < j => Precedes(q[i], q[j])
         /\ \A d \in S : \E i \in 1..n : q[i] = d
         /\ \A i, j \in 1..n : q[i] = q[j] => i = j
<1> DEFINE ahead(d) == { e \in S : Precedes(e, d) }
           rank == [ d \in S |-> Cardinality(ahead(d)) + 1 ]
           sorted(r) == \A i, j \in 1..n : i < j => Precedes(r[i], r[j])
<1>1. n \in Nat
  BY FS_CardinalityType
<1>2. ASSUME NEW d \in S
      PROVE  IsFiniteSet(ahead(d)) /\ Cardinality(ahead(d)) \in Nat /\ Cardinality(ahead(d)) < n
  <2>1. IsFiniteSet(ahead(d)) /\ ahead(d) \subseteq S /\ d \notin ahead(d)
    BY OneComesFirst, FS_Subset
  <2> HIDE DEF ahead
  <2>2. Cardinality(ahead(d)) \in Nat
    BY <2>1, FS_CardinalityType
  <2>3. Cardinality(ahead(d) \cup {d}) = Cardinality(ahead(d)) + 1
    BY <2>1, FS_AddElement
  <2>4. ahead(d) \cup {d} \subseteq S
    BY <2>1
  <2>5. Cardinality(ahead(d) \cup {d}) <= n
    BY <2>4, FS_Subset
  <2> QED BY <1>1, <2>1, <2>2, <2>3, <2>5
<1>3. ASSUME NEW d \in S, NEW e \in S, Precedes(d, e) PROVE rank[d] < rank[e]
  <2>1. ahead(d) \cup {d} \subseteq ahead(e) /\ d \notin ahead(d)
    BY <1>3, OneComesFirst
  <2>2. rank[d] = Cardinality(ahead(d)) + 1 /\ rank[e] = Cardinality(ahead(e)) + 1
    OBVIOUS
  <2>3. /\ IsFiniteSet(ahead(d)) /\ Cardinality(ahead(d)) \in Nat
        /\ IsFiniteSet(ahead(e)) /\ Cardinality(ahead(e)) \in Nat
    BY <1>2
  <2> HIDE DEF ahead, rank
  <2>4. Cardinality(ahead(d) \cup {d}) = Cardinality(ahead(d)) + 1
    BY <2>1, <2>3, FS_AddElement
  <2>5. Cardinality(ahead(d) \cup {d}) <= Cardinality(ahead(e))
    BY <2>1, <2>3, FS_Subset
  <2> QED BY <2>2, <2>3, <2>4, <2>5
<1>4. \A d \in S : rank[d] \in 1..n
  <2> SUFFICES ASSUME NEW d \in S PROVE rank[d] \in 1..n
    OBVIOUS
  <2>1. rank[d] = Cardinality(ahead(d)) + 1 /\ Cardinality(ahead(d)) \in Nat /\ Cardinality(ahead(d)) < n
    BY <1>2
  <2> HIDE DEF ahead, rank
  <2> QED BY <1>1, <2>1
<1>5. rank \in [ S -> 1..n ]
  BY <1>4
<1>6. \A d, e \in S : rank[d] = rank[e] => d = e
  <2> SUFFICES ASSUME NEW d \in S, NEW e \in S, d # e PROVE rank[d] # rank[e]
    OBVIOUS
  <2>1. rank[d] \in Nat /\ rank[e] \in Nat
    BY <1>1, <1>4
  <2>2. Precedes(d, e) \/ Precedes(e, d)
    BY OneComesFirst
  <2> HIDE DEF rank
  <2> QED BY <1>3, <2>1, <2>2
<1> HIDE DEF rank
<1>7. rank \in Injection(S, 1..n)
  BY <1>5, <1>6 DEF Injection, IsInjective
<1>8. rank \in Surjection(S, 1..n)
  <2>1. IsFiniteSet(1..n) /\ Cardinality(1..n) = n
    BY <1>1, UpTo
  <2> QED BY <1>7, <2>1, FS_Injection
<1>9. \A i \in 1..n : \E d \in S : rank[d] = i
  BY <1>8 DEF Surjection
<1> DEFINE listed == [ i \in 1..n |-> CHOOSE d \in S : rank[d] = i ]
<1>10. \A i \in 1..n : listed[i] \in S /\ rank[listed[i]] = i
  BY <1>9
<1>11. listed \in [ 1..n -> S ]
  BY <1>10
<1> HIDE DEF listed
<1>12. \A i, j \in 1..n : i < j => Precedes(listed[i], listed[j])
  <2> SUFFICES ASSUME NEW i \in 1..n, NEW j \in 1..n, i < j PROVE Precedes(listed[i], listed[j])
    OBVIOUS
  <2>1. /\ listed[i] \in S /\ listed[j] \in S
        /\ rank[listed[i]] = i /\ rank[listed[j]] = j
    BY <1>10
  <2>2. ~Precedes(listed[j], listed[i])
    BY <1>1, <1>3, <2>1
  <2>3. listed[i] # listed[j]
    BY <1>1, <2>1
  <2> QED BY <2>1, <2>2, <2>3, OneComesFirst
<1>13. q \in [ 1..n -> S ] /\ sorted(q)
  <2>1. q = CHOOSE r \in [ 1..n -> S ] : sorted(r)
    BY DEF InOrder
  <2>2. \E r \in [ 1..n -> S ] : sorted(r)
    BY <1>11, <1>12
  <2> HIDE DEF sorted
  <2> QED BY <2>1, <2>2
<1>14. \A i, j \in 1..n : q[i] = q[j] => i = j
  <2> SUFFICES ASSUME NEW i \in 1..n, NEW j \in 1..n, i < j PROVE q[i] # q[j]
    BY <1>1
  <2>1. q[i] \in S /\ q[j] \in S /\ Precedes(q[i], q[j])
    BY <1>13
  <2> QED BY <2>1, OneComesFirst
<1>15. q \in Surjection(1..n, S)
  <2>1. q \in Injection(1..n, S)
    BY <1>13, <1>14 DEF Injection, IsInjective
  <2>2. Cardinality(1..n) = Cardinality(S)
    BY <1>1, UpTo
  <2> QED BY <2>1, <2>2, FS_Injection
<1> QED BY <1>1, <1>13, <1>14, <1>15 DEF Surjection

\* Milliseconds, which the cursor keeps.
LEMMA MillisAre ==
  ASSUME NEW a \in Nat, NEW b \in Nat
  PROVE  /\ Millis(a) \in Nat /\ Millis(a) <= a
         /\ a < b /\ Millis(a) # Millis(b) => a < Millis(b)
<1> DEFINE P == PerMilli  p == a \div P  q == b \div P
<1>1. P \in Nat /\ P > 0
  BY StaffQueueAssumption DEF StaffQueueAssumption
<1>2. /\ p \in Int /\ q \in Int /\ p >= 0 /\ q >= 0
      /\ p * P <= a /\ a < (p + 1) * P /\ q * P <= b /\ b < (q + 1) * P
  BY <1>1
<1>3. Millis(a) = p * P /\ Millis(b) = q * P
  BY DEF Millis
<1>4. p * P \in Nat
  <2> HIDE DEF P, p
  <2> QED BY <1>1, <1>2
<1>5. ASSUME a < b, p * P # q * P PROVE a < q * P
  <2>1. p # q
    BY <1>5
  <2>2. ~(q < p)
    <3> SUFFICES ASSUME q + 1 <= p PROVE FALSE
      BY <1>2
    <3>1. (q + 1) * P <= p * P
      <4> HIDE DEF P, p, q
      <4> QED BY <1>1, <1>2
    <3> QED BY <1>1, <1>2, <1>5, <3>1
  <2>3. p + 1 <= q
    BY <1>2, <2>1, <2>2
  <2>4. (p + 1) * P <= q * P
    <3> HIDE DEF P, p, q
    <3> QED BY <1>1, <1>2, <2>3
  <2> QED BY <1>1, <1>2, <2>4
<1> QED BY <1>2, <1>3, <1>4, <1>5

-----------------------------------------------------------------------------
\* An application on the pages shown, once or never.
Once(d, rows) == \E n \in DOMAIN rows : rows[n] = d /\ \A k \in DOMAIN rows \ {n} : rows[k] # d
Never(d, rows) == \A k \in DOMAIN rows : rows[k] # d

LEMMA PagesTogether ==
  ASSUME NEW p \in Seq(Dossiers), NEW q \in Seq(Dossiers), NEW d
  PROVE  /\ p \o q \in Seq(Dossiers)
         /\ Once(d, p) /\ Never(d, q) => Once(d, p \o q)
         /\ Never(d, p) /\ Once(d, q) => Once(d, p \o q)
         /\ Never(d, p) /\ Never(d, q) => Never(d, p \o q)
<1> DEFINE m == Len(p)  n == Len(q)  r == p \o q
<1>1. m \in Nat /\ n \in Nat /\ DOMAIN p = 1..m /\ DOMAIN q = 1..n
  OBVIOUS
<1>2. /\ r \in Seq(Dossiers) /\ Len(r) = m + n /\ DOMAIN r = 1..(m + n)
      /\ \A i \in 1..(m + n) : r[i] = IF i <= m THEN p[i] ELSE q[i - m]
  <2>1. /\ r \in Seq(Dossiers) /\ Len(r) = m + n
        /\ \A i \in 1..(m + n) : r[i] = IF i <= m THEN p[i] ELSE q[i - m]
    BY ConcatProperties
  <2> QED BY <2>1
<1> HIDE DEF m, n, r
<1>3. /\ \A i \in 1..m : i \in 1..(m + n) /\ r[i] = p[i]
      /\ \A i \in 1..n : m + i \in 1..(m + n) /\ r[m + i] = q[i]
  <2>1. \A i \in 1..m : i \in 1..(m + n) /\ i <= m
    BY <1>1
  <2>2. \A i \in 1..n : m + i \in 1..(m + n) /\ ~(m + i <= m) /\ (m + i) - m = i
    BY <1>1
  <2> QED BY <1>2, <2>1, <2>2
<1>4. \A k \in 1..(m + n) : k \in 1..m \/ (k - m \in 1..n /\ r[k] = q[k - m] /\ k = m + (k - m))
  <2>1. \A k \in 1..(m + n) : k \in 1..m \/ (k - m \in 1..n /\ ~(k <= m) /\ k = m + (k - m))
    BY <1>1
  <2> QED BY <1>2, <2>1
<1>5. ASSUME Never(d, p), Never(d, q) PROVE Never(d, r)
  <2>1. ASSUME NEW k \in 1..(m + n) PROVE r[k] # d
    <3>1. CASE k \in 1..m
      BY <1>1, <1>3, <1>5, <3>1 DEF Never
    <3>2. CASE k - m \in 1..n /\ r[k] = q[k - m]
      BY <1>1, <1>5, <3>2 DEF Never
    <3> QED BY <1>4, <3>1, <3>2
  <2> QED BY <1>2, <2>1 DEF Never
<1>6. ASSUME Once(d, p), Never(d, q) PROVE Once(d, r)
  <2>1. PICK i \in 1..m : p[i] = d /\ \A k \in (1..m) \ {i} : p[k] # d
    BY <1>1, <1>6 DEF Once
  <2>2. \A k \in 1..(m + n) : k # i => r[k] # d
    BY <1>1, <1>3, <1>4, <1>6, <2>1 DEF Never
  <2>3. i \in 1..(m + n) /\ r[i] = d
    BY <1>3, <2>1
  <2> QED BY <1>2, <2>2, <2>3 DEF Once
<1>7. ASSUME Never(d, p), Once(d, q) PROVE Once(d, r)
  <2>1. PICK i \in 1..n : q[i] = d /\ \A k \in (1..n) \ {i} : q[k] # d
    BY <1>1, <1>7 DEF Once
  <2>2. ASSUME NEW k \in 1..(m + n), k # m + i PROVE r[k] # d
    <3>1. CASE k \in 1..m
      BY <1>1, <1>3, <1>7, <3>1 DEF Never
    <3>2. CASE k - m \in 1..n /\ r[k] = q[k - m] /\ k = m + (k - m)
      <4>1. k - m # i
        BY <2>2, <3>2
      <4> QED BY <2>1, <3>2, <4>1
    <3> QED BY <1>4, <3>1, <3>2
  <2>3. m + i \in 1..(m + n) /\ r[m + i] = d
    BY <1>3, <2>1
  <2> QED BY <1>2, <2>2, <2>3 DEF Once
<1> QED BY <1>2, <1>5, <1>6, <1>7 DEF r

-----------------------------------------------------------------------------
\* Applications have their type, and there are finitely many.
RowsTyped ==
  /\ dossiers \in [ Dossiers -> Dossier \cup {NoDossier} ] /\ moment \in Nat
  /\ IsFiniteSet(Kept) /\ disturbed \subseteq Dossiers

\* What has not been touched since the reader began is still in the queue; and
\* what a page end's millisecond does not hide is on one page, or still to come.
Walking ==
  walk # NoDossier =>
    /\ walk = [ reader |-> walk.reader, shown |-> walk.shown, cursor |-> walk.cursor,
                had |-> walk.had, over |-> walk.over ]
    /\ walk.shown \in Seq(Dossiers) /\ walk.cursor \in Cursor \cup {NoDossier}
    /\ \A d \in walk.had \ disturbed : d \in InQueue(walk.reader)
    /\ \A d \in walk.had \ (disturbed \cup shadowed) :
         IF walk.over \/ ~BeyondCursor(d, walk) THEN Once(d, walk.shown) ELSE Never(d, walk.shown)

PagesInv == RowsTyped /\ Walking

LEMMA KeptIs ==
  ASSUME PagesInv
  PROVE  /\ Kept \subseteq Dossiers /\ IsFiniteSet(Kept)
         /\ \A d \in Kept : /\ dossiers[d] \in Dossier /\ dossiers[d].at \in Nat
                            /\ dossiers[d].place \in StatusNames
         /\ \A m : InQueue(m) \subseteq Kept
<1>1. \A d \in Kept : d \in Dossiers /\ dossiers[d] \in Dossier
  BY DEF Kept, PagesInv, RowsTyped
<1>2. \A row \in Dossier : row.at \in Nat /\ row.place \in StatusNames
  BY DEF Dossier
<1> QED BY <1>1, <1>2 DEF InQueue, PagesInv, RowsTyped

\* What is still to come, in the order of the queue.
ToCome(w) == { d \in InQueue(w.reader) : BeyondCursor(d, w) }

LEMMA RestIs ==
  ASSUME PagesInv, NEW w, NEW S, S = ToCome(w), NEW rest, rest = Rest(w)
  PROVE  /\ S \subseteq Kept /\ Len(rest) \in Nat /\ rest \in Seq(S)
         /\ \A i, j \in 1..Len(rest) : i < j => Precedes(rest[i], rest[j])
         /\ \A d \in S : \E i \in 1..Len(rest) : rest[i] = d
         /\ \A i, j \in 1..Len(rest) : rest[i] = rest[j] => i = j
<1>1. S \subseteq Kept /\ S \subseteq Dossiers /\ \A d \in S : dossiers[d].at \in Nat
  BY KeptIs DEF ToCome
<1>2. IsFiniteSet(S)
  BY <1>1, KeptIs, FS_Subset
<1>3. rest = InOrder(S)
  BY DEF Rest, ToCome
<1> DEFINE n == Cardinality(S)
<1> HIDE DEF n
<1>4. /\ n \in Nat /\ rest \in [ 1..n -> S ]
      /\ \A i, j \in 1..n : i < j => Precedes(rest[i], rest[j])
      /\ \A d \in S : \E i \in 1..n : rest[i] = d
      /\ \A i, j \in 1..n : rest[i] = rest[j] => i = j
  <2>1. n = Cardinality(S)
    BY DEF n
  <2> QED BY <1>1, <1>2, <1>3, <2>1, InOrderIs
<1>5. rest \in Seq(S) /\ Len(rest) = n
  BY <1>4
<1> QED BY <1>1, <1>4, <1>5

LEMMA PageOf ==
  ASSUME NEW T, NEW rest \in Seq(T), NEW k \in Nat, k <= Len(rest)
  PROVE  /\ SubSeq(rest, 1, k) \in Seq(T) /\ Len(SubSeq(rest, 1, k)) = k
         /\ \A i \in 1..k : SubSeq(rest, 1, k)[i] = rest[i]
<1>1. \A i \in 1..k : rest[i] \in T
  BY ElementOfSeq
<1>2. k \in Int /\ 1 \in Int /\ Len(rest) \in Nat
  OBVIOUS
<1>3. /\ SubSeq(rest, 1, k) \in Seq(T)
      /\ Len(SubSeq(rest, 1, k)) = IF 1 <= k THEN k - 1 + 1 ELSE 0
      /\ \A i \in 1..(k - 1 + 1) : SubSeq(rest, 1, k)[i] = rest[1 + i - 1]
  BY <1>1, <1>2, SubSeqProperties
<1> QED BY <1>2, <1>3

LEMMA WalkRow ==
  ASSUME NEW w, NEW reader, NEW shown, NEW cursor, NEW had, NEW over,
         w = [ reader |-> reader, shown |-> shown, cursor |-> cursor, had |-> had, over |-> over ]
  PROVE  /\ w.reader = reader /\ w.shown = shown /\ w.cursor = cursor /\ w.had = had /\ w.over = over
         /\ w = [ reader |-> w.reader, shown |-> w.shown, cursor |-> w.cursor, had |-> w.had,
                  over |-> w.over ]
OBVIOUS

LEMMA OpensKeep == ASSUME PagesInv, NEW m \in Members, OpenQueue(m) PROVE PagesInv'
<1> DEFINE none == FALSE
<1>1. /\ walk' = [ reader |-> m, shown |-> << >>, cursor |-> NoDossier, had |-> InQueue(m), over |-> none ]
      /\ disturbed' = {} /\ shadowed' = {} /\ UNCHANGED << dossiers, retired, seat, moment >>
  BY DEF OpenQueue
<1>2. ~none
  OBVIOUS
<1> HIDE DEF none
<1>3. /\ walk'.reader = m /\ walk'.shown = << >> /\ walk'.cursor = NoDossier /\ walk'.had = InQueue(m)
      /\ walk'.over = none
      /\ walk' = [ reader |-> walk'.reader, shown |-> walk'.shown, cursor |-> walk'.cursor,
                   had |-> walk'.had, over |-> walk'.over ]
  BY <1>1, WalkRow
<1>4. RowsTyped'
  BY <1>1 DEF PagesInv, RowsTyped, Kept
<1>5. InQueue(m)' = InQueue(m)
  BY <1>1 DEF InQueue, Kept, FormsOf
<1>6. << >> \in Seq(Dossiers) /\ DOMAIN << >> = {}
  OBVIOUS
<1>7. \A d : Never(d, << >>)
  BY <1>6 DEF Never
<1>8. \A d : BeyondCursor(d, walk)'
  BY <1>3 DEF BeyondCursor
<1>9. Walking'
  BY <1>1, <1>2, <1>3, <1>5, <1>6, <1>7, <1>8 DEF Walking
<1> QED BY <1>4, <1>9 DEF PagesInv

LEMMA NextKeeps == ASSUME PagesInv, NextPage PROVE PagesInv'
<1> DEFINE w == walk  S == ToCome(w)
           rest == Rest(w)
           more == Len(rest) > PageSize
           page == SubSeq(rest, 1, IF more THEN PageSize ELSE Len(rest))
           last == page[Len(page)]
           cursor == IF more THEN [ at |-> Millis(dossiers[last].at), id |-> last ] ELSE w.cursor
<1>1. /\ walk # NoDossier /\ ~walk.over /\ UNCHANGED << dossiers, retired, seat, moment, disturbed >>
      /\ walk' = [ walk EXCEPT !.shown = @ \o page, !.over = ~more, !.cursor = cursor ]
      /\ shadowed' = (IF more THEN shadowed \cup
                        { d \in InQueue(walk.reader) : /\ Precedes(last, d)
                            /\ Millis(dossiers[d].at) = Millis(dossiers[last].at) }
                      ELSE shadowed)
  BY DEF NextPage
<1>2. /\ w = [ reader |-> w.reader, shown |-> w.shown, cursor |-> w.cursor, had |-> w.had,
               over |-> w.over ]
      /\ w.shown \in Seq(Dossiers) /\ w.cursor \in Cursor \cup {NoDossier}
      /\ \A d \in w.had \ disturbed : d \in InQueue(w.reader)
      /\ \A d \in w.had \ (disturbed \cup shadowed) :
           IF ~BeyondCursor(d, w) THEN Once(d, w.shown) ELSE Never(d, w.shown)
  BY <1>1 DEF PagesInv, Walking
<1>3. /\ S \subseteq Kept /\ Len(rest) \in Nat /\ rest \in Seq(S)
      /\ \A i, j \in 1..Len(rest) : i < j => Precedes(rest[i], rest[j])
      /\ \A d \in S : \E i \in 1..Len(rest) : rest[i] = d
      /\ \A i, j \in 1..Len(rest) : rest[i] = rest[j] => i = j
  <2> HIDE DEF S, rest
  <2>1. S = ToCome(w) /\ rest = Rest(w)
    BY DEF S, rest
  <2> QED BY <2>1, RestIs
<1>4. S \subseteq InQueue(w.reader) /\ \A d \in InQueue(w.reader) : d \in S <=> BeyondCursor(d, w)
  BY DEF ToCome
<1> HIDE DEF S, rest
<1> DEFINE k == IF more THEN PageSize ELSE Len(rest)
<1>5. PageSize \in Nat \ {0}
  BY StaffQueueAssumption DEF StaffQueueAssumption
<1>6. k \in Nat /\ k <= Len(rest) /\ (more => k = PageSize /\ k > 0 /\ k < Len(rest))
      /\ (~more => k = Len(rest))
  BY <1>3, <1>5
<1>7. /\ page \in Seq(S) /\ Len(page) = k /\ \A i \in 1..k : page[i] = rest[i]
  <2>1. page = SubSeq(rest, 1, k)
    OBVIOUS
  <2> HIDE DEF page, k
  <2> QED BY <1>3, <1>6, <2>1, PageOf
<1>8. more => last = rest[k] /\ last \in S /\ last \in Dossiers /\ dossiers[last].at \in Nat
  <2>1. more => last = rest[k] /\ k \in 1..Len(rest)
    BY <1>6, <1>7
  <2> HIDE DEF last, more, k
  <2>2. more => last \in S
    BY <1>3, <2>1, ElementOfSeq
  <2> QED BY <1>3, <2>1, <2>2, KeptIs
<1>9. /\ DOMAIN page = 1..k /\ page \in Seq(Dossiers)
  <2>1. page \in Seq(S) /\ S \subseteq Dossiers
    BY <1>3, <1>7, KeptIs
  <2> HIDE DEF page, k
  <2> QED BY <1>6, <1>7, <2>1
<1> HIDE DEF page, last, k
<1>10. cursor \in Cursor \cup {NoDossier}
  <2>1. CASE more
    <3>1. Millis(dossiers[last].at) \in Nat
      BY <1>8, <2>1, MillisAre
    <3> QED BY <1>8, <2>1, <3>1 DEF Cursor
  <2>2. CASE ~more
    BY <1>2, <2>2
  <2> QED BY <2>1, <2>2
<1>11. /\ walk'.reader = w.reader /\ walk'.shown = w.shown \o page /\ walk'.cursor = cursor
       /\ walk'.had = w.had /\ walk'.over = ~more
       /\ walk' = [ reader |-> walk'.reader, shown |-> walk'.shown, cursor |-> walk'.cursor,
                    had |-> walk'.had, over |-> walk'.over ]
  <2> DEFINE over == ~more  shown == w.shown \o page
  <2> HIDE DEF more, cursor, over, shown
  <2>1. walk' = [ w EXCEPT !.shown = shown, !.over = over, !.cursor = cursor ]
    BY <1>1 DEF over, shown
  <2>2. walk' = [ reader |-> w.reader, shown |-> shown, cursor |-> cursor, had |-> w.had, over |-> over ]
    BY <1>2, <2>1
  <2> QED BY <2>2, WalkRow DEF over, shown
<1>12. InQueue(w.reader)' = InQueue(w.reader)
  BY <1>1, <1>11 DEF InQueue, Kept, FormsOf
<1>13. RowsTyped'
  BY <1>1 DEF PagesInv, RowsTyped, Kept
<1>14. ASSUME NEW d \in w.had \ (disturbed' \cup shadowed')
       PROVE  IF walk'.over \/ ~BeyondCursor(d, walk)' THEN Once(d, walk'.shown) ELSE Never(d, walk'.shown)
  <2>1. /\ d \in InQueue(w.reader) /\ d \in Dossiers /\ d \in Nat /\ dossiers[d].at \in Nat
        /\ d \in w.had \ (disturbed \cup shadowed)
    <3>1. d \in w.had \ (disturbed \cup shadowed)
      BY <1>1
    <3> QED BY <1>2, <3>1, KeptIs, StaffQueueAssumption DEF StaffQueueAssumption
  <2>2. more => ~(Precedes(last, d) /\ Millis(dossiers[d].at) = Millis(dossiers[last].at))
    BY <1>1, <2>1
  <2>3. BeyondCursor(d, walk)' <=>
          (cursor = NoDossier \/ dossiers[d].at < cursor.at \/ (dossiers[d].at = cursor.at /\ d < cursor.id))
    BY <1>1, <1>11 DEF BeyondCursor
  <2>4. more => /\ cursor # NoDossier /\ cursor.at = Millis(dossiers[last].at) /\ cursor.id = last
                /\ cursor.at \in Nat /\ cursor.at <= dossiers[last].at
    <3> SUFFICES ASSUME more PROVE /\ cursor # NoDossier /\ cursor.at = Millis(dossiers[last].at) /\ cursor.id = last
                                   /\ cursor.at \in Nat /\ cursor.at <= dossiers[last].at
      OBVIOUS
    <3>1. Millis(dossiers[last].at) \in Nat /\ Millis(dossiers[last].at) <= dossiers[last].at
      BY <1>8, MillisAre
    <3>2. cursor = [ at |-> Millis(dossiers[last].at), id |-> last ]
      OBVIOUS
    <3>3. cursor \in Cursor
      BY <1>8, <3>1, <3>2 DEF Cursor
    <3> HIDE DEF cursor
    <3> QED BY <3>1, <3>2, <3>3, NoNullCursor
  <2>5. CASE ~BeyondCursor(d, w)
    <3>1. Once(d, w.shown)
      BY <1>2, <2>1, <2>5
    <3>2. Never(d, page)
      <4>1. d \notin S
        BY <1>4, <2>1, <2>5
      <4>2. \A i \in 1..k : page[i] \in S
        BY <1>6, <1>7, ElementOfSeq
      <4> QED BY <1>9, <4>1, <4>2 DEF Never
    <3>3. Once(d, walk'.shown)
      BY <1>2, <1>9, <1>11, <3>1, <3>2, PagesTogether
    <3>4. more => ~BeyondCursor(d, walk)'
      <4> SUFFICES ASSUME more PROVE ~BeyondCursor(d, walk)'
        OBVIOUS
      <4> DEFINE c == w.cursor
      <4>1. c # NoDossier /\ ~(dossiers[d].at < c.at \/ (dossiers[d].at = c.at /\ d < c.id))
        BY <2>5 DEF BeyondCursor
      <4>2. c.at \in Nat /\ c.id \in Nat
        <5>1. c \in Cursor
          BY <1>2, <4>1
        <5> QED BY <5>1, StaffQueueAssumption DEF Cursor, StaffQueueAssumption
      <4>3. dossiers[last].at < c.at \/ (dossiers[last].at = c.at /\ last < c.id)
        BY <1>4, <1>8, <4>1 DEF BeyondCursor
      <4>4. last \in Nat /\ dossiers[last].at \in Nat
        BY <1>8, StaffQueueAssumption DEF StaffQueueAssumption
      <4> HIDE DEF cursor, more, c
      <4> QED BY <2>1, <2>3, <2>4, <4>1, <4>2, <4>3, <4>4
    <3> QED BY <1>11, <3>3, <3>4
  <2>6. CASE BeyondCursor(d, w)
    <3>1. Never(d, w.shown)
      BY <1>2, <2>1, <2>6
    <3>2. PICK i \in 1..Len(rest) : rest[i] = d
      BY <1>3, <1>4, <2>1, <2>6
    <3>3. CASE i <= k
      <4>1. i \in 1..k /\ page[i] = d
        BY <1>6, <1>7, <3>2, <3>3
      <4>2. \A j \in (1..k) \ {i} : page[j] # d
        <5> SUFFICES ASSUME NEW j \in (1..k) \ {i} PROVE page[j] # d
          OBVIOUS
        <5>1. j \in 1..Len(rest) /\ page[j] = rest[j]
          <6>1. j \in 1..k /\ k \in Nat /\ Len(rest) \in Nat /\ k <= Len(rest)
            BY <1>3, <1>6
          <6> QED BY <1>7, <6>1
        <5> QED BY <1>3, <3>2, <5>1
      <4>3. Once(d, page)
        BY <1>9, <4>1, <4>2 DEF Once
      <4>4. Once(d, walk'.shown)
        BY <1>2, <1>9, <1>11, <3>1, <4>3, PagesTogether
      <4>5. more => ~BeyondCursor(d, walk)'
        <5> SUFFICES ASSUME more PROVE ~BeyondCursor(d, walk)'
          OBVIOUS
        <5>1. d = last \/ Precedes(d, last)
          <6>1. last = rest[k] /\ k \in 1..Len(rest)
            BY <1>3, <1>6, <1>8
          <6>2. i \in 1..Len(rest) /\ i <= k /\ rest[i] = d
            BY <3>2, <3>3
          <6>3. i < k => Precedes(rest[i], rest[k])
            BY <1>3, <6>1, <6>2
          <6>4. i = k => d = last
            BY <6>1, <6>2
          <6>5. i < k \/ i = k
            BY <1>6, <6>1, <6>2
          <6> QED BY <6>1, <6>2, <6>3, <6>4, <6>5
        <5>2. last \in Nat /\ dossiers[last].at \in Nat
          BY <1>8, StaffQueueAssumption DEF StaffQueueAssumption
        <5>3. d = last \/ dossiers[d].at > dossiers[last].at \/ (dossiers[d].at = dossiers[last].at /\ d > last)
          BY <5>1 DEF Precedes
        <5> HIDE DEF cursor, more
        <5> QED BY <2>1, <2>3, <2>4, <5>2, <5>3
      <4> QED BY <1>11, <4>4, <4>5
    <3>4. CASE ~(i <= k)
      <4>1. more /\ k \in 1..Len(rest) /\ k < i
        BY <1>3, <1>6, <3>2, <3>4
      <4>2. Precedes(last, d)
        <5>1. last = rest[k] /\ i \in 1..Len(rest) /\ rest[i] = d
          BY <1>8, <3>2, <4>1
        <5>2. Precedes(rest[k], rest[i])
          BY <1>3, <4>1, <5>1
        <5> QED BY <5>1, <5>2
      <4>3. Never(d, page)
        <5> SUFFICES ASSUME NEW j \in 1..k PROVE page[j] # d
          BY <1>9 DEF Never
        <5>1. j \in 1..Len(rest) /\ page[j] = rest[j] /\ j # i
          <6>1. i \in Nat /\ k \in Nat /\ k <= Len(rest) /\ Len(rest) \in Nat
            BY <1>3, <1>6, <3>2
          <6> QED BY <1>7, <3>4, <6>1
        <5> QED BY <1>3, <3>2, <5>1
      <4>4. Never(d, walk'.shown)
        BY <1>2, <1>9, <1>11, <3>1, <4>3, PagesTogether
      <4>5. dossiers[d].at < Millis(dossiers[last].at)
        <5>1. Millis(dossiers[d].at) # Millis(dossiers[last].at)
          BY <2>2, <4>1, <4>2
        <5>2. dossiers[d].at # dossiers[last].at
          BY <5>1
        <5>3. dossiers[last].at > dossiers[d].at
          BY <4>2, <5>2 DEF Precedes
        <5>4. dossiers[last].at \in Nat
          BY <1>8, <4>1
        <5> QED BY <2>1, <5>1, <5>3, <5>4, MillisAre
      <4>6. BeyondCursor(d, walk)'
        BY <2>3, <2>4, <4>1, <4>5
      <4>7. ~walk'.over
        BY <1>11, <4>1
      <4> QED BY <4>4, <4>6, <4>7
    <3> QED BY <3>3, <3>4
  <2> QED BY <2>5, <2>6
<1>15. Walking'
  <2>1. w.shown \o page \in Seq(Dossiers)
    BY <1>2, <1>9, PagesTogether
  <2>2. \A d \in w.had \ disturbed' : d \in InQueue(w.reader)'
    BY <1>1, <1>2, <1>12
  <2> HIDE DEF cursor
  <2>3. InQueue(walk.reader)' = InQueue(w.reader)
    BY <1>1, <1>11 DEF InQueue, Kept, FormsOf
  <2>4. \A d \in walk'.had \ disturbed' : d \in InQueue(walk.reader)'
    BY <1>1, <1>2, <1>11, <2>3
  <2> QED BY <1>10, <1>11, <1>14, <2>1, <2>4 DEF Walking
<1> QED BY <1>13, <1>15 DEF PagesInv

\* Steps beside the walk: what they touch the reader does not count on.
LEMMA BesideTheWalk ==
  ASSUME PagesInv, RowsTyped', UNCHANGED << walk, shadowed >>, disturbed \subseteq disturbed',
         \A m : \A d \in InQueue(m) \ disturbed' : dossiers'[d] = dossiers[d] /\ d \in InQueue(m)'
  PROVE  PagesInv'
<1> SUFFICES ASSUME walk' # NoDossier
             PROVE  /\ walk' = [ reader |-> walk'.reader, shown |-> walk'.shown, cursor |-> walk'.cursor,
                                 had |-> walk'.had, over |-> walk'.over ]
                    /\ walk'.shown \in Seq(Dossiers) /\ walk'.cursor \in Cursor \cup {NoDossier}
                    /\ \A d \in walk'.had \ disturbed' : d \in InQueue(walk.reader)'
                    /\ \A d \in walk'.had \ (disturbed' \cup shadowed') :
                         IF walk'.over \/ ~BeyondCursor(d, walk)' THEN Once(d, walk'.shown) ELSE Never(d, walk'.shown)
  BY DEF PagesInv, Walking
<1>1. /\ walk = [ reader |-> walk.reader, shown |-> walk.shown, cursor |-> walk.cursor,
                  had |-> walk.had, over |-> walk.over ]
      /\ walk.shown \in Seq(Dossiers) /\ walk.cursor \in Cursor \cup {NoDossier}
      /\ \A d \in walk.had \ disturbed : d \in InQueue(walk.reader)
      /\ \A d \in walk.had \ (disturbed \cup shadowed) :
           IF walk.over \/ ~BeyondCursor(d, walk) THEN Once(d, walk.shown) ELSE Never(d, walk.shown)
  BY DEF PagesInv, Walking
<1>2. ASSUME NEW d \in walk.had \ disturbed'
      PROVE  d \in InQueue(walk.reader)' /\ dossiers'[d] = dossiers[d]
  <2>1. d \in InQueue(walk.reader) \ disturbed'
    BY <1>1, <1>2
  <2>2. \A m : m = walk.reader => d \in InQueue(m)' /\ dossiers'[d] = dossiers[d]
    BY <2>1
  <2>3. \A m : m = walk.reader => (d \in InQueue(walk.reader)' <=> d \in InQueue(m)')
    BY DEF InQueue
  <2> QED BY <2>2, <2>3
<1>3. \A d \in walk.had \ (disturbed' \cup shadowed') : BeyondCursor(d, walk)' <=> BeyondCursor(d, walk)
  BY <1>2 DEF BeyondCursor
<1> QED BY <1>1, <1>2, <1>3

LEMMA QueueStays ==
  ASSUME PagesInv, NEW d \in Dossiers, NEW row, UNCHANGED << retired, seat >>,
         dossiers' = [ dossiers EXCEPT ![d] = row ], NEW m, NEW e \in InQueue(m), e # d
  PROVE  dossiers'[e] = dossiers[e] /\ e \in InQueue(m)'
<1>1. e \in Kept /\ e \in Dossiers
  BY KeptIs
<1>2. dossiers'[e] = dossiers[e]
  BY <1>1 DEF PagesInv, RowsTyped
<1>3. e \in Kept'
  BY <1>1, <1>2 DEF Kept
<1> QED BY <1>2, <1>3 DEF InQueue, FormsOf

LEMMA BecomingKeeps ==
  ASSUME PagesInv, NEW d \in Dossiers, NEW row \in Dossier, Becoming(d, row) PROVE PagesInv'
<1>1. /\ dossiers' = [ dossiers EXCEPT ![d] = row ] /\ disturbed' = disturbed \cup {d}
      /\ UNCHANGED << retired, seat, moment, walk, shadowed >>
  BY DEF Becoming
<1>2. RowsTyped'
  <2>1. dossiers' \in [ Dossiers -> Dossier \cup {NoDossier} ] /\ moment' \in Nat
    BY <1>1 DEF PagesInv, RowsTyped
  <2>2. Kept' \subseteq Kept \cup {d}
    BY <1>1 DEF Kept, PagesInv, RowsTyped
  <2>3. IsFiniteSet(Kept \cup {d})
    BY FS_AddElement DEF PagesInv, RowsTyped
  <2>4. IsFiniteSet(Kept')
    BY <2>2, <2>3, FS_Subset
  <2>5. disturbed' \subseteq Dossiers
    BY <1>1 DEF PagesInv, RowsTyped
  <2> QED BY <2>1, <2>4, <2>5 DEF RowsTyped
<1>3. \A m : \A e \in InQueue(m) \ disturbed' : dossiers'[e] = dossiers[e] /\ e \in InQueue(m)'
  BY <1>1, QueueStays
<1> QED BY <1>1, <1>2, <1>3, BesideTheWalk

LEMMA DossiersKeep == ASSUME PagesInv, DossierStep PROVE PagesInv'
<1> PICK d \in Dossiers :
      \/ \E form \in Forms, own \in BOOLEAN, draft \in BOOLEAN : FileDossier(d, form, own, draft)
      \/ \E place \in StatusNames, next \in SeatStages \cup {"none"},
            taker \in Members \cup {NoDossier}, began \in 0..moment :
           MoveDossier(d, place, next, taker, began)
      \/ \E archived \in BOOLEAN : StampDossier(d, archived)
  BY DEF DossierStep
<1>1. moment \in Nat
  BY DEF PagesInv, RowsTyped
<1>2. ASSUME NEW form \in Forms, NEW own \in BOOLEAN, NEW draft \in BOOLEAN, FileDossier(d, form, own, draft)
      PROVE  PagesInv'
  <2> DEFINE place == IF draft THEN "Draft" ELSE "Submitted"
  <2>1. PICK archived \in BOOLEAN :
          Becoming(d, [ place |-> place, next |-> "Initial", form |-> form, own |-> own, archived |-> archived,
                        at |-> moment, taker |-> NoDossier ])
    BY <1>2 DEF FileDossier
  <2>2. place \in StatusNames /\ "Initial" \in SeatStages
    <3>1. StageNames[1] = "Initial" /\ 1 \in 1..5
      BY DEF StageNames
    <3> QED BY <3>1 DEF StatusNames, SeatStages
  <2> HIDE DEF place
  <2> DEFINE row == [ place |-> place, next |-> "Initial", form |-> form, own |-> own, archived |-> archived,
                      at |-> moment, taker |-> NoDossier ]
  <2>3. row \in Dossier
    BY <1>1, <2>2 DEF Dossier
  <2> HIDE DEF row
  <2>4. Becoming(d, row)
    BY <2>1 DEF row
  <2> QED BY <2>3, <2>4, BecomingKeeps
<1>3. ASSUME NEW place \in StatusNames, NEW next \in SeatStages \cup {"none"},
             NEW taker \in Members \cup {NoDossier}, NEW began \in 0..moment,
             MoveDossier(d, place, next, taker, began)
      PROVE  PagesInv'
  <2> DEFINE row == [ dossiers[d] EXCEPT !.place = place, !.next = next, !.taker = taker, !.at = began ]
  <2>1. d \in Kept /\ Becoming(d, row)
    BY <1>3 DEF MoveDossier
  <2>2. dossiers[d] \in Dossier
    BY <2>1, KeptIs
  <2> DEFINE put == [ dossiers[d] EXCEPT !.place = place ]
             then == [ put EXCEPT !.next = next ]
             to == [ then EXCEPT !.taker = taker ]
  <2>3. put \in Dossier
    BY <2>2 DEF Dossier
  <2>4. then \in Dossier
    <3> HIDE DEF put
    <3> QED BY <2>3 DEF Dossier
  <2>5. to \in Dossier
    <3> HIDE DEF then
    <3> QED BY <2>4 DEF Dossier
  <2>6. row = [ to EXCEPT !.at = began ]
    OBVIOUS
  <2>7. began \in Nat
    BY <1>1
  <2> HIDE DEF row, to
  <2>8. row \in Dossier
    BY <2>5, <2>6, <2>7 DEF Dossier
  <2> QED BY <2>1, <2>8, BecomingKeeps
<1>4. ASSUME NEW archived \in BOOLEAN, StampDossier(d, archived) PROVE PagesInv'
  <2> DEFINE row == [ dossiers[d] EXCEPT !.archived = archived, !.at = Millis(moment) ]
  <2>1. d \in Kept /\ Becoming(d, row)
    BY <1>4 DEF StampDossier
  <2>2. dossiers[d] \in Dossier /\ Millis(moment) \in Nat
    BY <1>1, <2>1, KeptIs, MillisAre
  <2> DEFINE put == [ dossiers[d] EXCEPT !.archived = archived ]
  <2>3. put \in Dossier
    BY <2>2 DEF Dossier
  <2>4. row = [ put EXCEPT !.at = Millis(moment) ]
    OBVIOUS
  <2> HIDE DEF row, put
  <2>5. row \in Dossier
    BY <2>2, <2>3, <2>4 DEF Dossier
  <2> QED BY <2>1, <2>5, BecomingKeeps
<1> QED BY <1>2, <1>3, <1>4

LEMMA SeatsKeep == ASSUME PagesInv, SeatStep PROVE PagesInv'
<1>1. ASSUME NEW m \in Members, NEW s \in Seats, GiveSeat(m, s) PROVE PagesInv'
  <2>1. disturbed' = Dossiers /\ UNCHANGED << dossiers, retired, moment, walk, shadowed >>
    BY <1>1 DEF GiveSeat
  <2>2. RowsTyped'
    BY <2>1 DEF PagesInv, RowsTyped, Kept
  <2>3. \A n : InQueue(n) \ disturbed' = {}
    BY <2>1, KeptIs
  <2>4. Walking'
    <3> SUFFICES ASSUME walk' # NoDossier
                 PROVE  /\ walk' = [ reader |-> walk'.reader, shown |-> walk'.shown, cursor |-> walk'.cursor,
                                     had |-> walk'.had, over |-> walk'.over ]
                        /\ walk'.shown \in Seq(Dossiers) /\ walk'.cursor \in Cursor \cup {NoDossier}
                        /\ walk'.had \ disturbed' = {}
      BY DEF Walking
    <3>1. walk.had \ disturbed \subseteq InQueue(walk.reader)
      BY <2>1 DEF PagesInv, Walking
    <3>2. walk.had \ disturbed \subseteq Dossiers
      BY <3>1, KeptIs
    <3>3. /\ walk = [ reader |-> walk.reader, shown |-> walk.shown, cursor |-> walk.cursor,
                      had |-> walk.had, over |-> walk.over ]
          /\ walk.shown \in Seq(Dossiers) /\ walk.cursor \in Cursor \cup {NoDossier}
      BY <2>1 DEF PagesInv, Walking
    <3>4. walk.had \ Dossiers = {}
      <4>1. disturbed \subseteq Dossiers
        BY DEF PagesInv, RowsTyped
      <4> QED BY <3>2, <4>1
    <3> QED BY <2>1, <3>3, <3>4
  <2> QED BY <2>2, <2>4 DEF PagesInv
<1>2. ASSUME NEW form \in Forms, RetireForm(form) PROVE PagesInv'
  <2>1. /\ retired' = (IF form \in retired THEN retired \ {form} ELSE retired \cup {form})
        /\ disturbed' = disturbed \cup { d \in Kept : dossiers[d].form = form }
        /\ UNCHANGED << dossiers, seat, moment, walk, shadowed >>
    BY <1>2 DEF RetireForm
  <2>2. RowsTyped'
    BY <2>1 DEF PagesInv, RowsTyped, Kept
  <2>3. ASSUME NEW m, NEW e \in InQueue(m) \ disturbed' PROVE e \in InQueue(m)'
    <3>1. e \in Kept /\ dossiers[e].form # form
      BY <2>1, <2>3, KeptIs
    <3>2. dossiers[e].form \in FormsOf(seat[m]) => dossiers'[e].form \in FormsOf(seat[m])'
      BY <2>1, <3>1 DEF FormsOf
    <3> QED BY <2>1, <2>3, <3>1, <3>2 DEF InQueue, Kept
  <2> QED BY <2>1, <2>2, <2>3, BesideTheWalk
<1> QED BY <1>1, <1>2 DEF SeatStep

LEMMA TimeKeeps == ASSUME PagesInv, TimePasses \/ UNCHANGED queueVars PROVE PagesInv'
<1>1. UNCHANGED << dossiers, retired, seat, walk, disturbed, shadowed >> /\ moment' \in Nat
  BY DEF TimePasses, queueVars, PagesInv, RowsTyped
<1>2. RowsTyped'
  BY <1>1 DEF PagesInv, RowsTyped, Kept
<1>3. \A m : \A d \in InQueue(m) : d \in InQueue(m)'
  BY <1>1 DEF InQueue, Kept, FormsOf
<1> QED BY <1>1, <1>2, <1>3, BesideTheWalk

\* Through the pages of a queue that moves, no row is shown twice and none that
\* stays as it is and no page end's millisecond hides is left out; and the
\* dashboard counts what the pages hold (staff-queue.service.ts).
THEOREM QueueNeverMisses == QueueSpec => []QueueMissesNothing
<1>1. StaffQueueInit => PagesInv
  <2> SUFFICES ASSUME StaffQueueInit PROVE PagesInv
    OBVIOUS
  <2>1. dossiers = [ d \in Dossiers |-> NoDossier ] /\ moment = 0 /\ walk = NoDossier /\ disturbed = {}
    BY DEF StaffQueueInit
  <2>2. Kept = {}
    BY <2>1 DEF Kept
  <2> QED BY <2>1, <2>2, FS_EmptySet DEF PagesInv, RowsTyped, Walking
<1>2. PagesInv /\ [QueueNext]_queueVars => PagesInv'
  BY OpensKeep, NextKeeps, DossiersKeep, SeatsKeep, TimeKeeps DEF QueueNext, WalkStep
<1>3. PagesInv => QueueMissesNothing
  <2> SUFFICES ASSUME PagesInv PROVE QueueMissesNothing
    OBVIOUS
  <2>1. ASSUME walk # NoDossier, walk.over, NEW d \in walk.had \ (disturbed \cup shadowed)
        PROVE  Once(d, walk.shown)
    BY <2>1 DEF PagesInv, Walking
  <2>2. ASSUME NEW m \in Members
        PROVE  UNION { byStatus(m, status) : status \in StatusNames } = InQueue(m)
    <3>1. \A d \in Kept : dossiers[d].place \in StatusNames
      BY KeptIs
    <3>2. \A d \in InQueue(m) : d \in byStatus(m, dossiers[d].place)
      BY DEF InQueue, byStatus
    <3>3. \A status \in StatusNames : byStatus(m, status) \subseteq InQueue(m)
      BY DEF InQueue, byStatus
    <3>4. \A d \in InQueue(m) : dossiers[d].place \in StatusNames
      BY <3>1, KeptIs
    <3> QED BY <3>2, <3>3, <3>4
  <2> QED BY <2>1, <2>2 DEF QueueMissesNothing, Once
<1> QED BY <1>1, <1>2, <1>3, PTL DEF QueueSpec

-----------------------------------------------------------------------------
(*****************************************************************************)
(* PledgeClock: the processing pledge.                                       *)
(*                                                                           *)
(* On a plain course an application was returned once at most: the trail is  *)
(* a chain and leaves a return only by an answer or an end, so that the      *)
(* first suspension, which is the only one the code reads, is all there is.  *)
(* The days counted from the kept calendar are the days of all that is ever  *)
(* proclaimed when it was read whole.                                        *)
(*****************************************************************************)

\* A set of naturals has a least element, and a greatest when it is bounded.
LEMMA LeastNat ==
  ASSUME NEW T, T \subseteq Nat, T # {}
  PROVE  \E x \in T : \A y \in T : x <= y
<1> DEFINE R == OpToRel(<, Nat)
<1>1. IsWellFoundedOn(R, Nat)
  BY NatLessThanWellFounded
<1>2. \A a, b \in Nat : a < b => << a, b >> \in R
  BY DEF OpToRel
<1> HIDE DEF R
<1>3. PICK x \in T : \A y \in T : ~ (<< y, x >> \in R)
  BY <1>1, WFMin
<1>4. \A y \in T : ~(y < x)
  BY <1>2, <1>3
<1> QED BY <1>4

LEMMA GreatestNat ==
  ASSUME NEW T, T \subseteq Nat, T # {}, NEW n \in Nat, \A y \in T : y <= n
  PROVE  \E x \in T : \A y \in T : y <= x
<1> DEFINE D == { n - y : y \in T }
<1>1. D \subseteq Nat /\ D # {}
  <2>1. \A y \in T : n - y \in Nat
    OBVIOUS
  <2>2. PICK y \in T : n - y \in D
    OBVIOUS
  <2> QED BY <2>1, <2>2
<1>2. PICK m \in D : \A k \in D : m <= k
  <2> HIDE DEF D
  <2> QED BY <1>1, LeastNat
<1>3. PICK x \in T : m = n - x
  OBVIOUS
<1>4. \A y \in T : n - x <= n - y
  BY <1>2, <1>3
<1> QED BY <1>4

LEMMA MinIs ==
  ASSUME NEW T, T \subseteq Nat, T # {} PROVE Min(T) \in T
BY LeastNat DEF Min

LEMMA MaxIs ==
  ASSUME NEW T, T \subseteq Nat, T # {}, NEW n \in Nat, \A y \in T : y <= n PROVE Max(T) \in T
BY GreatestNat DEF Max

LEMMA MinOfOne == ASSUME NEW n \in Nat PROVE Min({n}) = n
BY DEF Min

\* Years follow one another as their dates do.
LEMMA YearsInOrder ==
  ASSUME NEW a \in Nat, NEW b \in Nat, a <= b
  PROVE  YearOf(a) \in Nat /\ YearOf(b) \in Nat /\ YearOf(a) <= YearOf(b)
<1> DEFINE Y == YearLength  p == a \div Y  q == b \div Y
<1>1. Y \in Nat /\ Y > 0
  BY PledgeAssumption DEF PledgeAssumption
<1>2. p \in Int /\ q \in Int /\ p * Y <= a /\ b < (q + 1) * Y /\ p >= 0 /\ q >= 0
  BY <1>1
<1>3. ~ (q < p)
  <2> SUFFICES ASSUME q + 1 <= p PROVE FALSE
    BY <1>2
  <2>1. (q + 1) * Y <= p * Y
    <3> HIDE DEF p, q, Y
    <3> QED BY <1>1, <1>2
  <2> QED BY <1>1, <1>2, <2>1
<1> QED BY <1>2, <1>3 DEF YearOf

-----------------------------------------------------------------------------
\* The moves of the application follow one another, and none starts from a return
\* but an answer or the end of it.
Standings == Told \cup {"with the office"}
HopRow == [ from : Standings, to : Standings, on : Nat ]

Follows ==
  LET trail == subject.trail IN
  /\ trail \in Seq(HopRow)
  /\ \A i \in DOMAIN trail : /\ trail[i].on <= date
                             /\ i > 1 => trail[i].from = trail[i - 1].to
                             /\ trail[i].from = "Revision Required" =>
                                  i > 1 /\ trail[i].to \in {"with the office", "Cancelled", "Expired"}
  /\ IF Len(trail) = 0 THEN subject.place # "Revision Required"
     ELSE subject.place = trail[Len(trail)].to

Matter(r) ==
  /\ r = [ place |-> r.place, entry |-> r.entry, filed |-> r.filed, trail |-> r.trail ]
  /\ r.entry \in Pledged \cup {NoDate} /\ r.filed \in Nat \cup {NoDate}

EntryRow == [ from : Nat, days : Pledged ]

ClockInv ==
  /\ date \in Nat
  /\ charter \in Seq(EntryRow)
  /\ Matter(subject) /\ Follows
  /\ loading = [ years |-> loading.years, days |-> loading.days ]
  /\ loading.days # NoDate => loading.days \subseteq holidays
  /\ calendar # NoDate => calendar.days \subseteq holidays

LEMMA PledgeOnIs == ASSUME ClockInv, NEW d PROVE PledgeOn(d) \in Pledged \cup {NoDate}
<1> DEFINE begun == { i \in DOMAIN charter : charter[i].from <= d }
<1>1. charter \in Seq(EntryRow) /\ DOMAIN charter = 1..Len(charter) /\ Len(charter) \in Nat
  BY DEF ClockInv
<1>2. CASE begun = {}
  BY <1>2 DEF PledgeOn
<1>3. CASE begun # {}
  <2>1. begun \subseteq Nat /\ \A i \in begun : i <= Len(charter)
    BY <1>1
  <2>2. Max(begun) \in begun
    <3> HIDE DEF begun
    <3> QED BY <1>1, <1>3, <2>1, MaxIs
  <2>3. charter[Max(begun)].days \in Pledged
    <3>1. charter[Max(begun)] \in EntryRow
      BY <1>1, <2>2, ElementOfSeq
    <3> QED BY <3>1 DEF EntryRow
  <2> QED BY <1>3, <2>3 DEF PledgeOn
<1> QED BY <1>2, <1>3

\* There is one return at most.
LEMMA OneReturn ==
  ASSUME ClockInv, PlainCourse, NEW i \in DOMAIN subject.trail, NEW k \in DOMAIN subject.trail,
         IsReturn(i), IsReturn(k)
  PROVE  i = k
<1> DEFINE S == { j \in DOMAIN subject.trail : IsReturn(j) }
<1>1. Cardinality(S) <= 1 /\ {i, k} \subseteq S
  BY DEF PlainCourse
<1>2. IsFiniteSet(S)
  <2>0. subject.trail \in Seq(HopRow)
    BY DEF ClockInv, Follows
  <2>1. DOMAIN subject.trail = 1..Len(subject.trail) /\ Len(subject.trail) \in Nat
    BY <2>0
  <2>2. IsFiniteSet(DOMAIN subject.trail)
    BY <2>1, FS_Interval
  <2> QED BY <2>2, FS_Subset
<1> HIDE DEF S
<1>3. SUFFICES ASSUME i # k PROVE FALSE
  OBVIOUS
<1>4. IsFiniteSet({i}) /\ Cardinality({i}) = 1
  BY FS_Singleton
<1>5. Cardinality({i} \cup {k}) = 2
  <2>1. k \notin {i}
    BY <1>3
  <2>2. Cardinality({i} \cup {k}) = Cardinality({i}) + 1
    BY <1>4, <2>1, FS_AddElement
  <2> QED BY <1>4, <2>2
<1>6. {i} \cup {k} = {i, k} /\ Cardinality({i, k}) <= Cardinality(S)
  BY <1>1, <1>2, FS_Subset
<1>7. Cardinality(S) \in Nat
  BY <1>2, FS_CardinalityType
<1> QED BY <1>1, <1>5, <1>6, <1>7

LEMMA HopTyped ==
  ASSUME ClockInv, NEW i \in DOMAIN subject.trail
  PROVE  /\ i \in 1..Len(subject.trail) /\ Len(subject.trail) \in Nat
         /\ subject.trail[i] \in HopRow /\ subject.trail[i].on \in Nat
<1>1. subject.trail \in Seq(HopRow)
  BY DEF ClockInv, Follows
<1>2. i \in 1..Len(subject.trail) /\ Len(subject.trail) \in Nat
  BY <1>1
<1>3. subject.trail[i] \in HopRow
  BY <1>1, <1>2, ElementOfSeq
<1> QED BY <1>2, <1>3 DEF HopRow

\* The clock stands while the applicant had the application, on a plain course.
LEMMA SuspendedWhileReturned ==
  ASSUME ClockInv, PlainCourse, NEW upTo \in Nat, NEW d \in Nat, d <= upTo
  PROVE  d \in suspendedDates(Spell, upTo) <=> HadByApplicant(d)
<1> DEFINE trail == subject.trail
           returns == { i \in DOMAIN trail : IsReturn(i) }
           answers == { i \in DOMAIN trail : IsAnswer(i) }
<1>0. trail \in Seq(HopRow)
  BY DEF ClockInv, Follows
<1>1. trail \in Seq(HopRow) /\ DOMAIN trail = 1..Len(trail) /\ Len(trail) \in Nat
  BY <1>0
<1>2. Spell.from = Earliest(DatesOf(returns)) /\ Spell.to = Earliest(DatesOf(answers))
  BY DEF Spell
<1>3. \A j \in answers : j - 1 \in returns /\ j > 1
  <2> SUFFICES ASSUME NEW j \in DOMAIN trail, IsAnswer(j) PROVE j > 1 /\ j - 1 \in DOMAIN trail /\ IsReturn(j - 1)
    OBVIOUS
  <2>1. trail[j].from = "Revision Required"
    BY DEF IsAnswer
  <2>2. j > 1 /\ trail[j].from = trail[j - 1].to
    BY <1>1, <2>1 DEF ClockInv, Follows
  <2>3. j - 1 \in DOMAIN trail
    BY <1>1, <2>2
  <2> QED BY <2>1, <2>2, <2>3 DEF IsReturn
<1>4. CASE returns = {}
  <2>1. DatesOf(returns) = {}
    BY <1>4 DEF DatesOf
  <2>2. Spell.from = NoDate
    BY <1>2, <2>1 DEF Earliest
  <2>3. d \notin suspendedDates(Spell, upTo)
    BY <2>2 DEF suspendedDates
  <2>4. ~HadByApplicant(d)
    BY <1>4 DEF HadByApplicant
  <2> QED BY <2>3, <2>4
<1>5. CASE returns # {}
  <2>1. PICK i : i \in returns
    BY <1>5
  <2>2. i \in 1..Len(trail) /\ IsReturn(i) /\ trail[i].on \in Nat
    BY <2>1, HopTyped
  <2>3. returns = {i}
    BY <2>1, OneReturn
  <2>4. Spell.from = trail[i].on
    <3>1. DatesOf(returns) = {trail[i].on}
      BY <2>3 DEF DatesOf
    <3> QED BY <1>2, <2>2, <3>1, MinOfOne DEF Earliest
  <2>5. HadByApplicant(d) <=> trail[i].on <= d /\ (i < Len(trail) => d <= trail[i + 1].on)
    BY <1>1, <2>2, <2>3 DEF HadByApplicant
  <2>6. NoDate \notin Nat
    BY PledgeAssumption DEF PledgeAssumption
  <2>7. CASE i = Len(trail)
    <3>1. answers = {}
      <4>1. \A j \in answers : j - 1 = i /\ j \in 1..Len(trail)
        BY <1>1, <1>3, <2>3
      <4> QED BY <1>1, <2>7, <4>1
    <3>2. DatesOf(answers) = {}
      BY <3>1 DEF DatesOf
    <3>3. Spell.to = NoDate
      BY <1>2, <3>2 DEF Earliest
    <3>4. suspendedDates(Spell, upTo) = trail[i].on..upTo
      BY <2>2, <2>4, <2>6, <3>3 DEF suspendedDates
    <3> QED BY <1>1, <2>2, <2>5, <2>7, <3>4
  <2>8. CASE i < Len(trail)
    <3>1. i + 1 \in DOMAIN trail /\ i + 1 > 1 /\ (i + 1) - 1 = i
      BY <1>1, <2>2, <2>8
    <3>2. /\ trail[i + 1].from = "Revision Required"
          /\ trail[i + 1].to \in {"with the office", "Cancelled", "Expired"}
          /\ trail[i + 1].to \notin {"Cancelled", "Expired"}
      <4>1. trail[i].to = "Revision Required"
        BY <2>2 DEF IsReturn
      <4>2. trail[i + 1].from = trail[i].to
        BY <3>1 DEF ClockInv, Follows
      <4>3. trail[i + 1].to \in {"with the office", "Cancelled", "Expired"}
        BY <3>1, <4>1, <4>2 DEF ClockInv, Follows
      <4> QED BY <3>1, <4>1, <4>2, <4>3 DEF PlainCourse
    <3>3. i + 1 \in answers
      BY <3>1, <3>2 DEF IsAnswer, InHands, Told
    <3>4. answers = {i + 1}
      <4>1. \A j \in answers : j - 1 = i /\ j \in 1..Len(trail)
        BY <1>1, <1>3, <2>3
      <4> QED BY <2>2, <3>3, <4>1
    <3>5. trail[i + 1].on \in Nat
      BY <3>1, HopTyped
    <3>6. Spell.to = trail[i + 1].on
      <4>1. DatesOf(answers) = {trail[i + 1].on}
        BY <3>4 DEF DatesOf
      <4> QED BY <1>2, <3>5, <4>1, MinOfOne DEF Earliest
    <3>7. suspendedDates(Spell, upTo) = trail[i].on..trail[i + 1].on
      BY <2>2, <2>4, <2>6, <3>5, <3>6 DEF suspendedDates
    <3> QED BY <2>2, <2>5, <2>8, <3>5, <3>7
  <2> QED BY <1>1, <2>2, <2>7, <2>8
<1> QED BY <1>4, <1>5

\* With a calendar that knows the years, the clock counts the days the office had
\* the application.
LEMMA CountsOfficeDays ==
  ASSUME ClockInv, PlainCourse, ReadWhole, calendar # NoDate, subject.filed \in Nat, NEW to \in Nat,
         \A d \in subject.filed..to : YearOf(d) \in calendar.years
  PROVE  /\ workingDaysBetween(subject.filed, to, calendar.days, suspendedDates(Spell, to)) = OfficeDays(to)
         /\ OfficeDays(to) \in Nat
<1> DEFINE filed == subject.filed
           counted == { d \in (filed + 1)..to : isWorkingDay(d, calendar.days) /\ d \notin suspendedDates(Spell, to) }
           had == { d \in (filed + 1)..to : isWorkingDay(d, holidays) /\ ~HadByApplicant(d) }
<1>1. ASSUME NEW d \in (filed + 1)..to
      PROVE  /\ isWorkingDay(d, calendar.days) <=> isWorkingDay(d, holidays)
             /\ d \in suspendedDates(Spell, to) <=> HadByApplicant(d)
  <2>1. d \in Nat /\ d <= to /\ d \in filed..to
    OBVIOUS
  <2>2. d \in calendar.days <=> d \in holidays
    BY <2>1 DEF ReadWhole, ClockInv
  <2> QED BY <2>1, <2>2, SuspendedWhileReturned DEF isWorkingDay
<1>2. counted = had
  BY <1>1
<1>3. IsFiniteSet(had)
  <2>1. IsFiniteSet((filed + 1)..to)
    BY FS_Interval
  <2> QED BY <2>1, FS_Subset
<1>4. Cardinality(had) \in Nat
  BY <1>3, FS_CardinalityType
<1> QED BY <1>2, <1>4 DEF workingDaysBetween, OfficeDays

LEMMA DueOn ==
  ASSUME NEW start \in Nat, NEW pledge, NEW days, NEW suspended
  PROVE  dueDateFor(start, pledge, days, suspended) \in Nat \cup {NoDate}
<1> DEFINE ends == { d \in start..(start + SearchLimit) :
                       workingDaysBetween(start, d, days, suspended) = pledge }
<1>1. ends \subseteq Nat
  BY PledgeAssumption DEF PledgeAssumption
<1>2. ends # {} => Min(ends) \in Nat
  <2> HIDE DEF ends
  <2> QED BY <1>1, MinIs
<1>3. dueDateFor(start, pledge, days, suspended) = IF ends = {} THEN NoDate ELSE Min(ends)
  BY DEF dueDateFor
<1> HIDE DEF ends
<1> QED BY <1>2, <1>3

\* The row of the clock, field by field.
LEMMA RowOf ==
  ASSUME NEW g, NEW due, NEW s, NEW a, NEW o, NEW row,
         row = [ given |-> g, dueDate |-> due, spare |-> s, approximate |-> a, overdue |-> o ]
  PROVE  row.given = g /\ row.spare = s /\ row.approximate = a /\ row.overdue = o
OBVIOUS

LEMMA ClockIsRight ==
  ASSUME ClockInv, PlainCourse, ReadWhole, calendar # NoDate, subject.filed \in Nat,
         NEW pledge, NEW end \in Nat \cup {NoDate}, NEW row, NEW asOf,
         row = computePledge(pledge, subject.filed, end, Spell, calendar),
         asOf = IF end = NoDate THEN date ELSE end
  PROVE  /\ pledge = NoDate => ~row.given /\ ~row.overdue
         /\ pledge # NoDate => row.given
         /\ row.overdue => OfficeDays(asOf) > pledge
         /\ row.given /\ ~row.approximate => (row.spare <=> OfficeDays(asOf) <= pledge)
<1>1. subject.filed # NoDate /\ asOf \in Nat
  BY PledgeAssumption DEF PledgeAssumption, ClockInv
<1>2. CASE pledge = NoDate
  <2>1. row = NoPledge
    BY <1>2 DEF computePledge
  <2>2. row.given = FALSE /\ row.overdue = FALSE
    BY <2>1, RowOf DEF NoPledge
  <2> QED BY <1>2, <2>2
<1>3. CASE pledge # NoDate
  <2> DEFINE suspended == suspendedDates(Spell, asOf)
             due == dueDateFor(subject.filed, pledge, calendar.days, suspended)
             elapsed == workingDaysBetween(subject.filed, asOf, calendar.days, suspended)
             horizon == IF due # NoDate /\ due > asOf THEN due ELSE asOf
             vague == ~spanIsFullyKnown(subject.filed, horizon, calendar.years)
  <2>1. row = [ given |-> TRUE, dueDate |-> due, spare |-> elapsed <= pledge,
                approximate |-> vague, overdue |-> ~vague /\ elapsed > pledge ]
    BY <1>1, <1>3 DEF computePledge
  <2>2. /\ row.given = TRUE /\ row.spare = (elapsed <= pledge)
        /\ row.approximate = vague /\ row.overdue = (~vague /\ elapsed > pledge)
    <3> HIDE DEF elapsed, vague, due
    <3> QED BY <2>1, RowOf
  <2>3. horizon \in Nat /\ asOf <= horizon
    <3>1. due \in Nat \cup {NoDate}
      BY DueOn
    <3> HIDE DEF due
    <3> QED BY <1>1, <3>1
  <2>4. ASSUME ~vague PROVE elapsed = OfficeDays(asOf)
    <3>1. \A y \in YearOf(subject.filed)..YearOf(horizon) : y \in calendar.years
      BY <2>4 DEF spanIsFullyKnown
    <3> HIDE DEF horizon
    <3>2. ASSUME NEW d \in subject.filed..asOf PROVE YearOf(d) \in calendar.years
      <4>1. d \in Nat /\ subject.filed <= d /\ d <= horizon
        BY <1>1, <2>3
      <4>2. /\ YearOf(subject.filed) \in Nat /\ YearOf(d) \in Nat /\ YearOf(horizon) \in Nat
            /\ YearOf(subject.filed) <= YearOf(d) /\ YearOf(d) <= YearOf(horizon)
        BY <2>3, <4>1, YearsInOrder
      <4> QED BY <3>1, <4>2
    <3> QED BY <1>1, <3>2, CountsOfficeDays
  <2> HIDE DEF vague, elapsed
  <2>5. row.overdue => elapsed > pledge /\ ~vague
    BY <2>2
  <2>6. ~row.approximate => ~vague
    BY <2>2
  <2>7. row.spare <=> elapsed <= pledge
    BY <2>2
  <2>8. row.given
    BY <2>2
  <2> QED BY <1>3, <2>4, <2>5, <2>6, <2>7, <2>8
<1> QED BY <1>2, <1>3

LEMMA CompletedOnADate == ASSUME ClockInv PROVE CompletedAt \in Nat \cup {NoDate}
<1> DEFINE done == DatesOf({ i \in DOMAIN subject.trail : IsFinish(i) })
<1>1. done \subseteq Nat /\ \A d \in done : d <= date
  <2>1. \A i \in DOMAIN subject.trail : subject.trail[i].on \in Nat /\ subject.trail[i].on <= date
    BY HopTyped DEF ClockInv, Follows
  <2> QED BY <2>1 DEF DatesOf
<1>2. date \in Nat
  BY DEF ClockInv
<1>3. CompletedAt = Latest(done)
  BY DEF CompletedAt
<1> HIDE DEF done
<1>4. done # {} => Max(done) \in done
  BY <1>1, <1>2, MaxIs
<1> QED BY <1>1, <1>3, <1>4 DEF Latest

LEMMA NobodyAccusedWrongly == ASSUME ClockInv PROVE NeverAccusedWrongly
<1> SUFFICES ASSUME calendar # NoDate, subject.filed # NoDate, PlainCourse, ReadWhole,
                    NEW end, end = IF CompletedAt = NoDate THEN date ELSE CompletedAt
             PROVE  /\ overdue => OfficeDays(date) > subject.entry
                    /\ complianceReport = "beyond" => OfficeDays(end) > PledgeOn(subject.filed)
                    /\ complianceReport = "within" => OfficeDays(end) <= PledgeOn(subject.filed)
                    /\ PledgeOn(subject.filed) = NoDate => complianceReport = "unclassified"
  BY DEF NeverAccusedWrongly
<1>1. subject.filed \in Nat /\ NoDate \in Nat \cup {NoDate}
  BY DEF ClockInv, Matter
<1> DEFINE live == computePledge(subject.entry, subject.filed, NoDate, Spell, calendar)
           pledge == IF subject.entry = NoDate \/ subject.filed = NoDate THEN NoDate
                     ELSE PledgeOn(subject.filed)
           row == computePledge(pledge, subject.filed, CompletedAt, Spell, calendar)
<1>2. overdue => live.overdue
  BY DEF overdue
<1>3. live.overdue => OfficeDays(date) > subject.entry
  <2> HIDE DEF live
  <2>1. live = computePledge(subject.entry, subject.filed, NoDate, Spell, calendar)
    BY DEF live
  <2> QED BY <1>1, <2>1, ClockIsRight
<1>4. /\ pledge = NoDate => ~row.given
      /\ row.given /\ ~row.approximate => (row.spare <=> OfficeDays(end) <= pledge)
  <2>1. row = computePledge(pledge, subject.filed, CompletedAt, Spell, calendar)
    OBVIOUS
  <2> HIDE DEF row, pledge
  <2> QED BY <1>1, <2>1, CompletedOnADate, ClockIsRight
<1>5. complianceReport = IF ~row.given THEN "unclassified"
                         ELSE IF row.approximate THEN "indeterminate"
                         ELSE IF row.spare THEN "within" ELSE "beyond"
  BY DEF complianceReport
<1>6. /\ PledgeOn(subject.filed) = NoDate => pledge = NoDate
      /\ pledge # NoDate => pledge = PledgeOn(subject.filed) /\ pledge \in Nat
  BY PledgeOnIs, PledgeAssumption DEF PledgeAssumption
<1> HIDE DEF row, pledge, live
<1>7. PledgeOn(subject.filed) = NoDate => complianceReport = "unclassified"
  BY <1>4, <1>5, <1>6
<1>8. complianceReport \in {"beyond", "within"} => row.given /\ ~row.approximate
  BY <1>5
<1>9. complianceReport = "within" => row.spare
  BY <1>5
<1>10. complianceReport = "beyond" => ~row.spare
  BY <1>5
<1>11. row.given => pledge # NoDate
  BY <1>4
<1>12. complianceReport = "within" => OfficeDays(end) <= PledgeOn(subject.filed)
  BY <1>4, <1>6, <1>8, <1>9, <1>11
<1>13. complianceReport = "beyond" => OfficeDays(end) > PledgeOn(subject.filed)
  <2> SUFFICES ASSUME complianceReport = "beyond" PROVE OfficeDays(end) > pledge
    BY <1>6, <1>8, <1>11
  <2>1. ~(OfficeDays(end) <= pledge)
    BY <1>4, <1>8, <1>10
  <2>2. OfficeDays(end) \in Nat
    <3>1. IsFiniteSet((subject.filed + 1)..end)
      <4>1. end \in Nat /\ subject.filed + 1 \in Nat
        BY <1>1, CompletedOnADate DEF ClockInv
      <4>2. end \in Int /\ subject.filed + 1 \in Int
        BY <4>1
      <4> QED BY <4>2, FS_Interval
    <3>2. IsFiniteSet({ d \in (subject.filed + 1)..end : isWorkingDay(d, holidays) /\ ~HadByApplicant(d) })
      BY <3>1, FS_Subset
    <3> QED BY <3>2, FS_CardinalityType DEF OfficeDays
  <2> QED BY <1>6, <1>8, <1>11, <2>1, <2>2
<1> QED BY <1>2, <1>3, <1>7, <1>12, <1>13

-----------------------------------------------------------------------------
\* The steps.
RulesFrom(from, to) ==
  [ from : from, to : to, actors : SUBSET {"applicant", "staff"}, requires : Course!Scope,
    preconditions : SUBSET Course!Preconditions, notifies : BOOLEAN ]

LEMMA TheCourse ==
  Course!TRANSITIONS
    \subseteq RulesFrom(Course!LifecycleStatuses \ {"Revision Required"}, Course!LifecycleStatuses)
             \cup RulesFrom({"Revision Required"}, {"Under Evaluation", "Cancelled", "Expired"})
BY SMTT(60) DEF RulesFrom, Course!TRANSITIONS, Course!Rule, Course!LifecycleStatuses, Course!Scope,
   Course!Preconditions, Course!Both, Course!Staff, Course!Citizen, Course!Documents

LEMMA FromAReturn ==
  ASSUME NEW from, NEW to, << from, to >> \in Hops
  PROVE  /\ from \in Standings /\ to \in Standings
         /\ from = "Revision Required" => to \in {"with the office", "Cancelled", "Expired"}
<1>1. PICK r \in Course!TRANSITIONS : from = InHands(r.from) /\ to = InHands(r.to)
  BY DEF Hops
<1>2. r \in RulesFrom(Course!LifecycleStatuses \ {"Revision Required"}, Course!LifecycleStatuses)
           \cup RulesFrom({"Revision Required"}, {"Under Evaluation", "Cancelled", "Expired"})
  BY TheCourse
<1>3. r.from = "Revision Required" => r.to \in {"Under Evaluation", "Cancelled", "Expired"}
  BY <1>2 DEF RulesFrom
<1>4. InHands(r.from) = "Revision Required" => r.from = "Revision Required"
  BY DEF InHands, Told
<1>5. \A w : InHands(w) \in Standings
  BY DEF InHands, Standings
<1>6. r.to \in {"Under Evaluation", "Cancelled", "Expired"} =>
        InHands(r.to) \in {"with the office", "Cancelled", "Expired"}
  BY DEF InHands, Told
<1> QED BY <1>1, <1>3, <1>4, <1>5, <1>6

LEMMA ClockRest ==
  ASSUME ClockInv, subject' = subject, charter' = charter, date' \in Nat, date <= date',
         loading' = [ years |-> loading'.years, days |-> loading'.days ],
         loading'.days # NoDate => loading'.days \subseteq holidays',
         calendar' # NoDate => calendar'.days \subseteq holidays'
  PROVE  ClockInv'
<1>1. Matter(subject)'
  BY DEF ClockInv, Matter
<1>2. Follows'
  <2>1. \A i \in DOMAIN subject.trail : subject.trail[i].on <= date'
    <3>1. ASSUME NEW i \in DOMAIN subject.trail PROVE subject.trail[i].on <= date'
      <4>1. subject.trail[i].on \in Nat /\ subject.trail[i].on <= date /\ date \in Nat
        BY HopTyped DEF ClockInv, Follows
      <4> QED BY <4>1
    <3> QED BY <3>1
  <2> QED BY <2>1 DEF ClockInv, Follows
<1> QED BY <1>1, <1>2 DEF ClockInv

LEMMA RecordKeeps ==
  ASSUME ClockInv, NEW asDraft \in BOOLEAN, RecordMatter(asDraft) PROVE ClockInv'
<1> DEFINE place == IF asDraft THEN "Draft" ELSE InHands("Submitted")
           filed == IF asDraft THEN NoDate ELSE date
           entry == PledgeOn(date)
<1>1. /\ subject' = [ place |-> place, entry |-> entry, filed |-> filed, trail |-> << >> ]
      /\ UNCHANGED << date, holidays, charter, loading, calendar >>
  BY DEF RecordMatter
<1>2. place # "Revision Required"
  BY DEF InHands, Told
<1>3. filed \in Nat \cup {NoDate} /\ entry \in Pledged \cup {NoDate}
  BY PledgeOnIs DEF ClockInv
<1> HIDE DEF place, filed, entry
<1>4. subject'.place = place /\ subject'.entry = entry /\ subject'.filed = filed /\ subject'.trail = << >>
  BY <1>1
<1>5. Matter(subject)'
  BY <1>1, <1>3, <1>4 DEF Matter
<1>6. Follows'
  <2>1. << >> \in Seq(HopRow) /\ Len(<< >>) = 0 /\ DOMAIN << >> = {}
    OBVIOUS
  <2> QED BY <1>2, <1>4, <2>1 DEF Follows
<1> QED BY <1>1, <1>5, <1>6 DEF ClockInv

LEMMA HopKeeps ==
  ASSUME ClockInv, NEW to, MakeHop(to) PROVE ClockInv'
<1> DEFINE trail == subject.trail
           hop == [ from |-> subject.place, to |-> to, on |-> date ]
           filed == IF subject.place = "Draft" /\ to # "Cancelled" THEN date ELSE subject.filed
<1>1. /\ subject' = [ subject EXCEPT !.place = to, !.filed = filed, !.trail = Append(trail, hop) ]
      /\ UNCHANGED << date, holidays, charter, loading, calendar >>
      /\ << subject.place, to >> \in Hops
  BY DEF MakeHop
<1>2. /\ subject = [ place |-> subject.place, entry |-> subject.entry, filed |-> subject.filed,
                     trail |-> subject.trail ]
      /\ filed \in Nat \cup {NoDate} /\ date \in Nat
  BY DEF ClockInv, Matter
<1>3. /\ subject.place \in Standings /\ to \in Standings
      /\ subject.place = "Revision Required" => to \in {"with the office", "Cancelled", "Expired"}
  BY <1>1, FromAReturn
<1>4. hop \in HopRow /\ hop.from = subject.place /\ hop.to = to /\ hop.on = date
  BY <1>2, <1>3 DEF HopRow
<1>5. trail \in Seq(HopRow)
  BY DEF ClockInv, Follows
<1> HIDE DEF hop, filed
<1> DEFINE longer == Append(trail, hop)
<1>6. /\ longer \in Seq(HopRow) /\ Len(longer) = Len(trail) + 1 /\ longer[Len(longer)] = hop
      /\ \A i \in 1..Len(trail) : longer[i] = trail[i]
  BY <1>4, <1>5, AppendProperties
<1>7. DOMAIN longer = 1..Len(longer) /\ DOMAIN trail = 1..Len(trail) /\ Len(trail) \in Nat
  BY <1>5, <1>6
<1> HIDE DEF longer
<1>8. subject' = [ subject EXCEPT !.place = to, !.filed = filed, !.trail = longer ]
  BY <1>1 DEF longer
<1>9. subject' = [ place |-> to, entry |-> subject.entry, filed |-> filed, trail |-> longer ]
  BY <1>2, <1>8
<1>10. subject'.place = to /\ subject'.entry = subject.entry /\ subject'.filed = filed /\ subject'.trail = longer
  BY <1>9
<1>11. Matter(subject)'
  BY <1>2, <1>9, <1>10 DEF ClockInv, Matter
<1>12. ASSUME NEW i \in DOMAIN longer
       PROVE  /\ longer[i].on <= date
              /\ i > 1 => longer[i].from = longer[i - 1].to
              /\ longer[i].from = "Revision Required" =>
                   i > 1 /\ longer[i].to \in {"with the office", "Cancelled", "Expired"}
  <2>1. CASE i \in 1..Len(trail)
    <3>1. longer[i] = trail[i] /\ (i > 1 => longer[i - 1] = trail[i - 1])
      BY <1>6, <1>7, <2>1
    <3> QED BY <1>7, <2>1, <3>1 DEF ClockInv, Follows
  <2>2. CASE i = Len(trail) + 1
    <3>1. longer[i] = hop
      BY <1>6, <2>2
    <3>2. i > 1 => longer[i - 1] = trail[Len(trail)] /\ Len(trail) # 0
      BY <1>6, <1>7, <2>2
    <3>3. i > 1 => subject.place = longer[i - 1].to
      BY <3>2 DEF ClockInv, Follows
    <3>4. i = 1 => subject.place # "Revision Required"
      <4>1. i = 1 => Len(trail) = 0
        BY <1>7, <2>2
      <4> QED BY <4>1 DEF ClockInv, Follows
    <3>5. i = 1 \/ i > 1
      BY <1>7, <2>2
    <3>6. longer[i].on <= date /\ longer[i].from = subject.place /\ longer[i].to = to
      BY <1>2, <1>4, <3>1
    <3> QED BY <1>3, <3>3, <3>4, <3>5, <3>6
  <2>3. i \in 1..Len(trail) \/ i = Len(trail) + 1
    BY <1>6, <1>7
  <2> QED BY <2>1, <2>2, <2>3
<1>13. Follows'
  <2>1. Len(longer) # 0 /\ longer[Len(longer)].to = to
    BY <1>4, <1>6, <1>7
  <2> QED BY <1>1, <1>6, <1>10, <1>12, <2>1 DEF Follows
<1> QED BY <1>1, <1>11, <1>13 DEF ClockInv

LEMMA EntryKeeps ==
  ASSUME ClockInv, NEW days \in Pledged, PublishEntry(days) PROVE ClockInv'
<1>1. /\ charter' = Append(charter, [ from |-> date, days |-> days ])
      /\ UNCHANGED << date, holidays, subject, loading, calendar >>
  BY DEF PublishEntry
<1>2. [ from |-> date, days |-> days ] \in EntryRow /\ charter \in Seq(EntryRow)
  BY DEF ClockInv, EntryRow
<1>3. charter' \in Seq(EntryRow)
  BY <1>1, <1>2, AppendProperties
<1>4. Matter(subject)' /\ Follows'
  BY <1>1 DEF ClockInv, Matter, Follows
<1> QED BY <1>1, <1>3, <1>4 DEF ClockInv

LEMMA ClockInvariance == ClockSpec => []ClockInv
<1>1. ClockInit => ClockInv
  <2> SUFFICES ASSUME ClockInit PROVE ClockInv
    OBVIOUS
  <2>1. << >> \in Seq(EntryRow) /\ << >> \in Seq(HopRow) /\ Len(<< >>) = 0 /\ DOMAIN << >> = {}
    OBVIOUS
  <2>2. /\ date = 0 /\ charter = << >> /\ calendar = NoDate
        /\ subject = [ place |-> "none", entry |-> NoDate, filed |-> NoDate, trail |-> << >> ]
        /\ loading = [ years |-> NoDate, days |-> NoDate ]
    BY DEF ClockInit
  <2>3. Matter(subject)
    BY <2>2 DEF Matter
  <2>4. Follows
    BY <2>1, <2>2 DEF Follows
  <2>5. loading.years = NoDate /\ loading.days = NoDate
    BY <2>2
  <2> QED BY <2>1, <2>2, <2>3, <2>4, <2>5 DEF ClockInv
<1>2. ClockInv /\ [ClockNext]_clockVars => ClockInv'
  <2> SUFFICES ASSUME ClockInv, [ClockNext]_clockVars PROVE ClockInv'
    OBVIOUS
  <2>0. /\ date \in Nat /\ loading = [ years |-> loading.years, days |-> loading.days ]
        /\ loading.days # NoDate => loading.days \subseteq holidays
        /\ calendar # NoDate => calendar.days \subseteq holidays
    BY DEF ClockInv
  <2>1. CASE DayPasses
    BY <2>0, <2>1, ClockRest DEF DayPasses
  <2>2. ASSUME NEW d \in Proclaimable, Proclaim(d) \/ CompleteYear(YearOf(d)) PROVE ClockInv'
    BY <2>0, <2>2, ClockRest DEF Proclaim, CompleteYear
  <2>3. ASSUME NEW days \in Pledged, PublishEntry(days) PROVE ClockInv'
    BY <2>3, EntryKeeps
  <2>4. ASSUME NEW asDraft \in BOOLEAN, RecordMatter(asDraft) PROVE ClockInv'
    BY <2>4, RecordKeeps
  <2>5. ASSUME NEW hop \in Hops, MakeHop(hop[2]) PROVE ClockInv'
    BY <2>5, HopKeeps
  <2>6. CASE ReadYears
    <3>1. loading' = [ years |-> proclaimed, days |-> loading.days ]
      BY <2>0, <2>6 DEF ReadYears
    <3>2. loading'.years = proclaimed /\ loading'.days = loading.days
      BY <3>1
    <3> QED BY <2>0, <2>6, <3>1, <3>2, ClockRest DEF ReadYears
  <2>7. CASE ReadDays
    <3>1. loading' = [ years |-> loading.years, days |-> holidays ]
      BY <2>0, <2>7 DEF ReadDays
    <3>2. loading'.years = loading.years /\ loading'.days = holidays
      BY <3>1
    <3> QED BY <2>0, <2>7, <3>1, <3>2, ClockRest DEF ReadDays
  <2>8. CASE Keep
    <3>1. loading' = [ years |-> NoDate, days |-> NoDate ] /\ calendar' = loading /\ loading.days # NoDate
      BY <2>8 DEF Keep
    <3>2. loading'.years = NoDate /\ loading'.days = NoDate
      BY <3>1
    <3> QED BY <2>0, <2>8, <3>1, <3>2, ClockRest DEF Keep
  <2>9. CASE Forget
    BY <2>0, <2>9, ClockRest DEF Forget
  <2>10. CASE UNCHANGED clockVars
    BY <2>0, <2>10, ClockRest DEF clockVars
  <2> QED BY <2>1, <2>2, <2>3, <2>4, <2>5, <2>6, <2>7, <2>8, <2>9, <2>10
          DEF ClockNext, YearStep, FilingHop, ReadStep
<1> QED BY <1>1, <1>2, PTL DEF ClockSpec

\* What the office counts as overdue, and what the report says of an application,
\* is so by the working days the office had it, whatever the Charter, the
\* proclamations and the age of the calendar kept (pledge-clock.ts).
THEOREM NobodyEverAccusedWrongly == ClockSpec => []NeverAccusedWrongly
BY ClockInvariance, NobodyAccusedWrongly, PTL
=============================================================================
