---------------------------- MODULE StaffOffice -----------------------------
(***************************************************************************)
(* Staff accounts: how they come to be (staff-directory.service.ts, and    *)
(* access-request.service.ts over the requests anybody may raise), what    *)
(* they may reach, and how they are demoted, disabled and archived, down   *)
(* to the floor of super-admin-floor.ts.                                   *)
(*                                                                         *)
(* Every act is a request that is authenticated, reads what its rules ask, *)
(* and then writes by id in a transaction that asks nothing again, but for *)
(* reject and the unique indexes.                                          *)
(***************************************************************************)
EXTENDS Naturals, FiniteSets

CONSTANTS
  People,      \* addresses, each the name of the account under it
  Founders,    \* super admins the office starts with
  Requests,    \* ids of access_requests
  Levels,      \* access levels, and the forms and stages that go with them
  ViewOnly,    \* those of them that leave sight and take authority away
  Absent,      \* no row
  Tasks,       \* requests being served
  MaxTries     \* bound: attempts to raise a request before they are over the limit

ASSUME StaffAssumption ==
  /\ Founders \subseteq People /\ Founders # {} /\ IsFiniteSet(People)
  /\ ViewOnly \subseteq Levels /\ Absent \notin People \cup Levels /\ MaxTries \in Nat

VARIABLES
  officers,    \* staff rows of accounts, account_roles and staff_access
  asked,       \* access_requests
  tries,       \* access_request_attempts in the window, by address
  task,        \* the requests
  raced        \* a removal committed between another's check and its commit

staffVars == << officers, asked, tries, task, raced >>

Roles == {"super-admin", "administrator", "other"}
Officer == [ roles : SUBSET Roles, disabled : BOOLEAN, removed : BOOLEAN,
             access : Levels \cup {Absent} ]
AccessRequest == [ by : People, status : {"pending", "approved", "rejected"},
                   account : People \cup {Absent} ]
Changes == {"create", "roles", "disable", "enable", "archive", "access"}
Change == [ kind : Changes, pc : {"authenticated", "checked"}, actor : People,
            who : People, roles : SUBSET Roles, access : Levels \cup {Absent} ]
Deciding == [ kind : {"approve", "reject"}, pc : {"authenticated", "checked"},
              actor : People, request : Requests, roles : SUBSET Roles, access : Levels ]
NoTask == [ kind |-> "none", pc |-> "none" ]

ASSUME NoRowAssumption == Absent \notin Officer \cup AccessRequest

-----------------------------------------------------------------------------
\* What the statements read.
Hired == { p \in People : officers[p] # Absent }
byId == { p \in Hired : ~officers[p].removed }
holdsSuperAdmin(p) == p \in Hired /\ "super-admin" \in officers[p].roles

enabledSuperAdmins == { p \in Hired : holdsSuperAdmin(p) /\ ~officers[p].disabled }

\* Mutant: every row that holds the role counts, a disabled one too.
mayRemoveWhileRowsRemain(p) == Cardinality({ o \in Hired : holdsSuperAdmin(o) }) > 1

mayRemoveSuperAdmin(p) == p \in enabledSuperAdmins => Cardinality(enabledSuperAdmins) > 1

\* A change that gives the role, and one that takes the standing of a super admin away.
Grants(t) == t.kind \in {"create", "roles"} /\ "super-admin" \in t.roles
Removes(t) ==
  /\ t.kind \in {"roles", "disable", "archive"} /\ holdsSuperAdmin(t.who)
  /\ t.kind = "roles" => "super-admin" \notin t.roles

-----------------------------------------------------------------------------
StaffInit ==
  /\ officers = [ p \in People |->
       IF p \in Founders THEN [ roles |-> {"super-admin"}, disabled |-> FALSE,
                                removed |-> FALSE, access |-> Absent ] ELSE Absent ]
  /\ asked = [ r \in Requests |-> Absent ] /\ tries = [ p \in People |-> 0 ]
  /\ task = [ k \in Tasks |-> NoTask ] /\ raced = FALSE

\* The guard: an enabled account whose token has staff:administer, which its roles
\* give and a level of 'view' takes away again.
MayAdminister(p) ==
  /\ p \in Hired /\ ~officers[p].disabled
  /\ officers[p].roles \cap {"super-admin", "administrator"} # {}
  /\ officers[p].access \notin ViewOnly

StartChange(k, actor, kind, who, roles, access) ==
  /\ task[k] = NoTask /\ MayAdminister(actor)
  /\ kind \in {"create", "access"} \/ who # actor
  /\ task' = [ task EXCEPT ![k] =
       [ kind |-> kind, pc |-> "authenticated", actor |-> actor, who |-> who,
         roles |-> roles, access |-> access ] ]
  /\ UNCHANGED << officers, asked, tries, raced >>

\* The reads and early returns of create, setRoles, setDisabled, remove, and of
\* setLevel, setForms, setStages and setTeamRole.
CheckChange(k) ==
  LET t == task[k] IN
  /\ t.kind \in Changes /\ t.pc = "authenticated"
  /\ t.kind = "create" => t.who \notin Hired
  /\ t.kind \in {"roles", "disable", "enable", "archive"} => t.who \in byId
  /\ t.kind = "access" => t.who \in Hired
  /\ t.kind = "disable" \/ Removes(t) => mayRemoveSuperAdmin(t.who)
  /\ (t.kind = "archive" \/ Grants(t) \/ holdsSuperAdmin(t.who)) => holdsSuperAdmin(t.actor)
  /\ task' = [ task EXCEPT ![k].pc = "checked" ]
  /\ UNCHANGED << officers, asked, tries, raced >>

\* The transaction.  An address that was taken meanwhile is refused by its index.
CommitChange(k) ==
  LET t == task[k] IN
  /\ t.kind \in Changes /\ t.pc = "checked"
  /\ officers' = [ officers EXCEPT ![t.who] =
       CASE t.kind = "create" -> IF @ = Absent
              THEN [ roles |-> t.roles, disabled |-> FALSE, removed |-> FALSE,
                     access |-> Absent ] ELSE @
         [] t.kind = "roles"   -> [ @ EXCEPT !.roles = t.roles ]
         [] t.kind = "disable" -> [ @ EXCEPT !.disabled = TRUE ]
         [] t.kind = "enable"  -> [ @ EXCEPT !.disabled = FALSE ]
         [] t.kind = "archive" -> [ @ EXCEPT !.disabled = TRUE, !.removed = TRUE ]
         [] t.kind = "access"  -> [ @ EXCEPT !.access = t.access ] ]
  /\ task' = [ task EXCEPT ![k] = NoTask ]
  /\ raced' = (raced \/ (Removes(t) /\ \E o \in Tasks \ {k} :
                            task[o].pc = "checked" /\ Removes(task[o])))
  /\ UNCHANGED << asked, tries >>

\* Refused, or the request dies.
EndTask(k) ==
  /\ task[k] # NoTask /\ task' = [ task EXCEPT ![k] = NoTask ]
  /\ UNCHANGED << officers, asked, tries, raced >>

-----------------------------------------------------------------------------
\* Access requests.

\* "where not exists", and the unique index behind it.
NoneOpen(p) == \A r \in Requests : asked[r] # Absent /\ asked[r].by = p => asked[r].status # "pending"

\* raise: the attempt counts in any case; over the limit, or with one open,
\* nothing more happens.
Raise(r, p) ==
  /\ tries[p] <= MaxTries /\ tries' = [ tries EXCEPT ![p] = @ + 1 ]
  /\ asked' = (IF tries[p] + 1 <= MaxTries /\ asked[r] = Absent /\ NoneOpen(p)
               THEN [ asked EXCEPT ![r] =
                        [ by |-> p, status |-> "pending", account |-> Absent ] ] ELSE asked)
  /\ UNCHANGED << officers, task, raced >>

\* An hour passes.
AttemptsForgotten ==
  /\ \E p \in People : tries[p] > 0
  /\ tries' = [ p \in People |-> 0 ]
  /\ UNCHANGED << officers, asked, task, raced >>

StartDeciding(k, actor, kind, r, roles, access) ==
  /\ task[k] = NoTask /\ MayAdminister(actor) /\ holdsSuperAdmin(actor)
  /\ asked[r] # Absent /\ asked[r].status = "pending"
  /\ task' = [ task EXCEPT ![k] =
       [ kind |-> kind, pc |-> "authenticated", actor |-> actor, request |-> r,
         roles |-> roles, access |-> access ] ]
  /\ UNCHANGED << officers, asked, tries, raced >>

CheckAddress(k) ==
  /\ task[k].kind = "approve" /\ task[k].pc = "authenticated"
  /\ asked[task[k].request].by \notin Hired
  /\ task' = [ task EXCEPT ![k].pc = "checked" ]
  /\ UNCHANGED << officers, asked, tries, raced >>

\* The unique index over email_normalised.
AddressIsFree(p) == p \notin Hired

\* approve writes the account and the decision, whatever the request says by then.
Approve(k) ==
  LET t == task[k]
      p == asked[t.request].by
  IN
  /\ t.kind = "approve" /\ t.pc = "checked" /\ AddressIsFree(p)
  /\ officers' = [ officers EXCEPT ![p] =
       [ roles |-> t.roles, disabled |-> FALSE, removed |-> FALSE, access |-> t.access ] ]
  /\ asked' = [ asked EXCEPT ![t.request].status = "approved", ![t.request].account = p ]
  /\ task' = [ task EXCEPT ![k] = NoTask ]
  /\ UNCHANGED << tries, raced >>

\* reject is conditional: "where status = 'pending'".
Reject(k) ==
  LET r == task[k].request IN
  /\ task[k].kind = "reject"
  /\ asked' = (IF asked[r].status = "pending"
               THEN [ asked EXCEPT ![r].status = "rejected" ] ELSE asked)
  /\ task' = [ task EXCEPT ![k] = NoTask ]
  /\ UNCHANGED << officers, tries, raced >>

-----------------------------------------------------------------------------
DirectoryStep(k) ==
  \/ \E actor \in People, kind \in Changes, who \in People, roles \in SUBSET Roles,
        access \in Levels : StartChange(k, actor, kind, who, roles, access)
  \/ CheckChange(k) \/ CommitChange(k) \/ EndTask(k)

AccessStep(k) ==
  \/ \E actor \in People, kind \in {"approve", "reject"}, r \in Requests,
        roles \in (SUBSET Roles) \ {{}}, access \in Levels :
       StartDeciding(k, actor, kind, r, roles, access)
  \/ CheckAddress(k) \/ Approve(k) \/ Reject(k)

StaffNext ==
  \/ \E k \in Tasks : DirectoryStep(k) \/ AccessStep(k)
  \/ \E r \in Requests, p \in People : Raise(r, p)
  \/ AttemptsForgotten

StaffSpec == StaffInit /\ [][StaffNext]_staffVars

-----------------------------------------------------------------------------
\* Every variable has its type.
StaffTypeOK ==
  /\ officers \in [ People -> Officer \cup {Absent} ]
  /\ asked \in [ Requests -> AccessRequest \cup {Absent} ]
  /\ tries \in [ People -> Nat ]
  /\ task \in [ Tasks -> Change \cup Deciding \cup {NoTask} ]
  /\ raced \in BOOLEAN

\* "The last super admin cannot be removed" (super-admin-floor.ts): whatever
\* demotions, disablings and archivings are under way, also of an actor whose
\* own request is in flight, an enabled account holds the role - as long as no
\* two removals both passed the check before either was written.  When they do,
\* nobody is left: the check and the write are not one act.  The role is what the
\* floor counts and what is stated: a holder whose level is 'view' is counted, can
\* grant nothing, and nothing keeps the last one from being set to it.
FloorHolds == ~raced => enabledSuperAdmins # {}

=============================================================================
