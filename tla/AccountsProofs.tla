--------------------------- MODULE AccountsProofs ---------------------------
(***************************************************************************)
(* Accounts: the floor of super admins, the second factor of an officer,   *)
(* and what a citizen's account says of itself, for any people and any     *)
(* number of requests in flight; and the audit chain, which holds what     *)
(* they all did.                                                           *)
(***************************************************************************)
EXTENDS StaffOffice, CitizenAccount, SecondFactor, AuditChain, Integers,
        FunctionTheorems, FiniteSetTheorems, TLAPS

(***************************************************************************)
(* THE FLOOR OF SUPER ADMINS                                               *)
(*                                                                         *)
(* The check of a removal counts the super admins and its commit comes     *)
(* later, so "somebody is left" is not inductive.  What is: whoever a      *)
(* removal that passed its check is about, somebody else is left.  Only    *)
(* another removal can undo that, and it is then in flight beside this one *)
(* ("raced"); a change that gives the role to the person of a checked      *)
(* request, which becomes a removal by it, takes nobody away.              *)
(***************************************************************************)

\* A request that passed its check finds the rows it read: none is ever deleted.
Ready ==
  \A k \in Tasks :
    /\ task[k].kind \in Changes \ {"create"} /\ task[k].pc = "checked" => task[k].who \in Hired
    /\ task[k].kind \in {"approve", "reject"} => asked[task[k].request] # Absent

\* A removal that passed its check, and has not been written.
Taking(k) == task[k].pc = "checked" /\ Removes(task[k])

Spare ==
  ~raced => /\ enabledSuperAdmins # {}
            /\ \A k \in Tasks : Taking(k) => enabledSuperAdmins \ {task[k].who} # {}

StaffInv == StaffTypeOK /\ Ready /\ Spare

-----------------------------------------------------------------------------
LEMMA SomebodyElse ==
  ASSUME StaffAssumption, NEW p, p \in enabledSuperAdmins, Cardinality(enabledSuperAdmins) > 1
  PROVE  enabledSuperAdmins \ {p} # {}
<1> SUFFICES ASSUME enabledSuperAdmins \subseteq {p} PROVE FALSE
  OBVIOUS
<1>1. IsFiniteSet({p}) /\ Cardinality({p}) = 1
  BY FS_Singleton
<1>2. Cardinality(enabledSuperAdmins) <= 1 /\ Cardinality(enabledSuperAdmins) \in Nat
  BY <1>1, FS_Subset, FS_CardinalityType
<1> QED BY <1>2

\* A step that takes nobody away, and lets no new request pass its check.
LEMMA NothingTaken ==
  ASSUME StaffInv, enabledSuperAdmins \subseteq enabledSuperAdmins', raced' = raced,
         \A k \in Tasks : task'[k] = task[k] \/ task'[k].pc # "checked"
  PROVE  Spare'
<1> SUFFICES ASSUME ~raced
             PROVE  /\ enabledSuperAdmins' # {}
                    /\ \A k \in Tasks : Taking(k)' => enabledSuperAdmins' \ {task'[k].who} # {}
  BY DEF Spare
<1>1. enabledSuperAdmins # {}
  BY DEF StaffInv, Spare
<1>2. ASSUME NEW k \in Tasks, Taking(k)' PROVE enabledSuperAdmins \ {task[k].who} # {}
  <2>1. task'[k] = task[k]
    BY <1>2 DEF Taking
  <2>2. CASE Taking(k)
    BY <2>2 DEF StaffInv, Spare
  <2>3. CASE ~Taking(k)
    <3>1. ~holdsSuperAdmin(task[k].who)
      BY <1>2, <2>1, <2>3 DEF Taking, Removes
    <3> QED BY <1>1, <3>1 DEF enabledSuperAdmins
  <2> QED BY <2>2, <2>3
<1>3. ASSUME NEW k \in Tasks, Taking(k)' PROVE task'[k] = task[k]
  BY <1>3 DEF Taking
<1> QED BY <1>1, <1>2, <1>3

\* What a change writes.
LEMMA RowWritten ==
  ASSUME StaffAssumption, NoRowAssumption, StaffInv, NEW k \in Tasks, CommitChange(k)
  PROVE  LET t == task[k]
             o == officers[t.who]
             n == officers'[t.who] IN
         /\ t \in Change /\ n \in Officer /\ officers' = [ officers EXCEPT ![t.who] = n ]
         /\ t.kind # "create" => o \in Officer
         /\ t.kind = "create" /\ o # Absent => n = o
         /\ t.kind = "roles" => n.roles = t.roles /\ n.disabled = o.disabled
         /\ t.kind \in {"disable", "archive"} => n.roles = o.roles
         /\ t.kind = "enable" => n.roles = o.roles /\ ~n.disabled
         /\ t.kind = "access" => n.roles = o.roles /\ n.disabled = o.disabled
<1> DEFINE t == task[k]
           o == officers[t.who]
           n == officers'[t.who]
<1>1. t \in Change
  <2>1. t.kind \in Changes /\ t \in Change \cup Deciding \cup {NoTask}
    BY DEF CommitChange, StaffInv, StaffTypeOK
  <2> QED BY <2>1 DEF Changes, Deciding, NoTask
<1>2. t.who \in People /\ o \in Officer \cup {Absent} /\ t.roles \in SUBSET Roles
      /\ t.access \in Levels \cup {Absent} /\ t.kind \in Changes
  BY <1>1 DEF StaffInv, StaffTypeOK, Change
<1>3. t.kind # "create" => o \in Officer
  BY <1>2 DEF StaffInv, Ready, CommitChange, Hired
<1> DEFINE row == CASE t.kind = "create" -> IF o = Absent
                    THEN [ roles |-> t.roles, disabled |-> FALSE, removed |-> FALSE,
                           access |-> Absent ] ELSE o
               [] t.kind = "roles"   -> [ o EXCEPT !.roles = t.roles ]
               [] t.kind = "disable" -> [ o EXCEPT !.disabled = TRUE ]
               [] t.kind = "enable"  -> [ o EXCEPT !.disabled = FALSE ]
               [] t.kind = "archive" -> [ o EXCEPT !.disabled = TRUE, !.removed = TRUE ]
               [] t.kind = "access"  -> [ o EXCEPT !.access = t.access ]
<1>4. n = row /\ officers' = [ officers EXCEPT ![t.who] = n ]
  <2>1. officers' = [ officers EXCEPT ![t.who] = row ]
    BY DEF CommitChange
  <2>2. t.who \in DOMAIN officers
    BY <1>2 DEF StaffInv, StaffTypeOK
  <2> HIDE DEF row
  <2> QED BY <2>1, <2>2
<1> HIDE DEF t, o, n
<1>5. CASE t.kind = "create"
  BY <1>1, <1>2, <1>4, <1>5 DEF Officer, t, o, n
<1>6. CASE t.kind = "roles"
  BY <1>1, <1>2, <1>3, <1>4, <1>6 DEF Officer, t, o, n
<1>7. CASE t.kind = "disable"
  BY <1>1, <1>2, <1>3, <1>4, <1>7 DEF Officer, t, o, n
<1>8. CASE t.kind = "enable"
  BY <1>1, <1>2, <1>3, <1>4, <1>8 DEF Officer, t, o, n
<1>9. CASE t.kind = "archive"
  BY <1>1, <1>2, <1>3, <1>4, <1>9, ZenonT(60) DEF Officer, t, o, n
<1>10. CASE t.kind = "access"
  BY <1>1, <1>2, <1>3, <1>4, <1>10 DEF Officer, t, o, n
<1> QED BY <1>2, <1>5, <1>6, <1>7, <1>8, <1>9, <1>10 DEF Changes

\* A removal takes at most the person it is about, and gives nobody the role.
LEMMA Taken ==
  ASSUME StaffAssumption, NoRowAssumption, StaffInv, NEW k \in Tasks, CommitChange(k)
  PROVE  /\ enabledSuperAdmins \ {task[k].who} \subseteq enabledSuperAdmins'
         /\ ~Removes(task[k]) => enabledSuperAdmins \subseteq enabledSuperAdmins'
         /\ Removes(task[k]) =>
              \A p \in People : holdsSuperAdmin(p)' => holdsSuperAdmin(p)
         /\ Hired \subseteq Hired'
<1> DEFINE t == task[k]
           w == t.who
           n == officers'[w]
<1>1. w \in People /\ n \in Officer /\ officers \in [ People -> Officer \cup {Absent} ]
      /\ officers' = [ officers EXCEPT ![w] = n ] /\ n # Absent
  BY RowWritten DEF StaffInv, StaffTypeOK, Change, NoRowAssumption
<1>2. \A p \in People \ {w} : officers'[p] = officers[p]
  BY <1>1
<1>3. enabledSuperAdmins \ {w} \subseteq enabledSuperAdmins'
  BY <1>1, <1>2 DEF enabledSuperAdmins, holdsSuperAdmin, Hired
<1>4. ASSUME ~Removes(t), w \in enabledSuperAdmins PROVE w \in enabledSuperAdmins'
  <2>1. officers[w] # Absent /\ "super-admin" \in officers[w].roles /\ ~officers[w].disabled
    BY <1>4 DEF enabledSuperAdmins, holdsSuperAdmin, Hired
  <2>2. t.kind \notin {"disable", "archive"} /\ (t.kind = "roles" => "super-admin" \in t.roles)
    BY <1>4 DEF Removes, enabledSuperAdmins
  <2>3. t.kind \in {"create", "roles", "enable", "access"}
    BY <2>2 DEF CommitChange, Changes
  <2>4. "super-admin" \in n.roles /\ ~n.disabled
    BY <2>1, <2>2, <2>3, RowWritten
  <2> QED BY <1>1, <2>4 DEF enabledSuperAdmins, holdsSuperAdmin, Hired
<1>5. ASSUME Removes(t), NEW p \in People, holdsSuperAdmin(p)' PROVE holdsSuperAdmin(p)
  <2>1. CASE p = w
    BY <1>5, <2>1 DEF Removes
  <2>2. CASE p # w
    BY <1>2, <1>5, <2>2 DEF holdsSuperAdmin, Hired
  <2> QED BY <2>1, <2>2
<1>6. Hired \subseteq Hired'
  BY <1>1, <1>2 DEF Hired
<1> QED BY <1>3, <1>4, <1>5, <1>6

LEMMA CommitSpares ==
  ASSUME StaffAssumption, NoRowAssumption, StaffInv, NEW k \in Tasks, CommitChange(k)
  PROVE  Spare'
<1> DEFINE t == task[k]
<1>1. t \in Change /\ t.pc = "checked"
      /\ \A o \in Tasks : task'[o] = IF o = k THEN NoTask ELSE task[o]
  BY RowWritten DEF CommitChange, StaffInv, StaffTypeOK
<1>2. CASE ~Removes(t)
  <2>1. raced' = raced
    BY <1>2 DEF CommitChange, StaffInv, StaffTypeOK
  <2>2. \A o \in Tasks : task'[o] = task[o] \/ task'[o].pc # "checked"
    BY <1>1 DEF NoTask
  <2> QED BY <1>2, <2>1, <2>2, NothingTaken, Taken
<1>3. CASE Removes(t)
  <2> SUFFICES ASSUME ~raced'
               PROVE  /\ enabledSuperAdmins' # {}
                      /\ \A o \in Tasks : ~Taking(o)'
    BY DEF Spare
  <2>1. ~raced /\ \A o \in Tasks \ {k} : ~Taking(o)
    BY <1>3 DEF CommitChange, Taking
  <2>2. enabledSuperAdmins \ {t.who} # {}
    BY <1>1, <1>3, <2>1 DEF StaffInv, Spare, Taking
  <2>3. enabledSuperAdmins' # {}
    BY <2>2, Taken
  <2>4. ASSUME NEW o \in Tasks, Taking(o)' PROVE FALSE
    <3>1. o # k /\ task'[o] = task[o]
      BY <1>1, <2>4 DEF Taking, NoTask
    <3>2. holdsSuperAdmin(task[o].who)'
      BY <2>4, <3>1 DEF Taking, Removes
    <3>3. task[o].who \in People
      <4>1. task[o].kind \in {"roles", "disable", "archive"}
        BY <2>4, <3>1 DEF Taking, Removes
      <4>2. task[o] \in Change \cup Deciding \cup {NoTask}
        BY DEF StaffInv, StaffTypeOK
      <4> QED BY <4>1, <4>2 DEF Change, Deciding, NoTask
    <3>4. Taking(o)
      BY <1>3, <2>4, <3>1, <3>2, <3>3, Taken DEF Taking, Removes
    <3> QED BY <2>1, <3>1, <3>4
  <2> QED BY <2>3, <2>4
<1> QED BY <1>2, <1>3

-----------------------------------------------------------------------------
\* A step under which requests only start or end keeps what they rely on.
LEMMA ReadyKept ==
  ASSUME StaffInv, Hired \subseteq Hired',
         \A r \in Requests : asked[r] # Absent => asked'[r] # Absent,
         \A k \in Tasks : \/ task'[k] = task[k] \/ task'[k].kind = "none"
                          \/ task'[k].kind \in Changes /\ task'[k].pc = "authenticated"
  PROVE  Ready'
<1> SUFFICES ASSUME NEW k \in Tasks
             PROVE  /\ task'[k].kind \in Changes \ {"create"} /\ task'[k].pc = "checked"
                         => task'[k].who \in Hired'
                    /\ task'[k].kind \in {"approve", "reject"} => asked'[task'[k].request] # Absent
  BY DEF Ready
<1>1. CASE task'[k] = task[k]
  <2>1. task[k].kind \in {"approve", "reject"} => task[k].request \in Requests
    BY DEF StaffInv, StaffTypeOK, Change, Deciding, NoTask, Changes
  <2> QED BY <1>1, <2>1 DEF StaffInv, Ready
<1>2. CASE task'[k] # task[k]
  BY <1>2 DEF Changes
<1> QED BY <1>1, <1>2

LEMMA StaffStarts == ASSUME StaffAssumption, NoRowAssumption, StaffInit PROVE StaffInv
<1>1. StaffTypeOK
  BY DEF StaffInit, StaffTypeOK, Officer, Roles
<1>2. \A k \in Tasks : task[k].kind = "none" /\ task[k].pc = "none"
  BY DEF StaffInit, NoTask
<1>3. Ready
  BY <1>2 DEF Ready, Changes
<1>4. Spare
  <2>1. PICK p \in Founders : p \in People
    BY DEF StaffAssumption
  <2>2. officers[p] = [ roles |-> {"super-admin"}, disabled |-> FALSE, removed |-> FALSE,
                        access |-> Absent ]
    BY <2>1 DEF StaffInit
  <2>3. officers[p] # Absent
    <3>1. officers[p] \in Officer
      BY <2>2 DEF Officer, Roles
    <3> QED BY <3>1 DEF NoRowAssumption
  <2>4. p \in enabledSuperAdmins
    BY <2>1, <2>2, <2>3 DEF enabledSuperAdmins, holdsSuperAdmin, Hired
  <2> QED BY <1>2, <2>4 DEF Spare, Taking
<1> QED BY <1>1, <1>3, <1>4 DEF StaffInv

LEMMA StartChangeKeeps ==
  ASSUME StaffInv, NEW k \in Tasks, NEW actor \in People, NEW kind \in Changes,
         NEW who \in People, NEW roles \in SUBSET Roles, NEW access \in Levels,
         StartChange(k, actor, kind, who, roles, access)
  PROVE  StaffInv'
<1> DEFINE new == [ kind |-> kind, pc |-> "authenticated", actor |-> actor, who |-> who,
                    roles |-> roles, access |-> access ]
<1>1. new \in Change /\ new.kind \in Changes /\ new.pc = "authenticated"
  BY DEF Change
<1>2. task' = [ task EXCEPT ![k] = new ] /\ UNCHANGED << officers, asked, tries, raced >>
  BY DEF StartChange
<1> HIDE DEF new
<1>3. StaffTypeOK'
  BY <1>1, <1>2 DEF StaffInv, StaffTypeOK
<1>4. \A o \in Tasks : task'[o] = IF o = k THEN new ELSE task[o]
  BY <1>2 DEF StaffInv, StaffTypeOK
<1>5. Hired' = Hired /\ enabledSuperAdmins' = enabledSuperAdmins
  BY <1>2 DEF Hired, enabledSuperAdmins, holdsSuperAdmin
<1>6. Ready'
  BY <1>1, <1>2, <1>4, <1>5, ReadyKept
<1>7. Spare'
  BY <1>1, <1>2, <1>4, <1>5, NothingTaken
<1> QED BY <1>3, <1>6, <1>7 DEF StaffInv

LEMMA CheckChangeKeeps ==
  ASSUME StaffAssumption, StaffInv, NEW k \in Tasks, CheckChange(k)
  PROVE  StaffInv'
<1> DEFINE t == task[k]
<1>1. t \in Change /\ t.kind \in Changes /\ t.who \in People
  <2>1. t.kind \in Changes /\ t \in Change \cup Deciding \cup {NoTask}
    BY DEF CheckChange, StaffInv, StaffTypeOK
  <2> QED BY <2>1 DEF Changes, Change, Deciding, NoTask
<1> DEFINE new == [ t EXCEPT !.pc = "checked" ]
<1>2. new \in Change /\ new.kind = t.kind /\ new.who = t.who /\ new.roles = t.roles
  BY <1>1 DEF Change
<1>3. task' = [ task EXCEPT ![k] = new ] /\ UNCHANGED << officers, asked, tries, raced >>
  BY DEF CheckChange
<1>4. /\ t.kind # "create" => t.who \in Hired
      /\ Removes(t) => mayRemoveSuperAdmin(t.who)
  BY <1>1 DEF CheckChange, Changes, byId
<1>5. Removes(new) => Removes(t)
  BY <1>2 DEF Removes
<1> HIDE DEF new, t
<1>6. StaffTypeOK'
  BY <1>2, <1>3 DEF StaffInv, StaffTypeOK
<1>7. \A o \in Tasks : task'[o] = IF o = k THEN new ELSE task[o]
  BY <1>3 DEF StaffInv, StaffTypeOK
<1>8. Hired' = Hired /\ enabledSuperAdmins' = enabledSuperAdmins
      /\ \A p : holdsSuperAdmin(p)' = holdsSuperAdmin(p)
  BY <1>3 DEF Hired, enabledSuperAdmins, holdsSuperAdmin
<1>9. Ready'
  <2> SUFFICES ASSUME NEW o \in Tasks
               PROVE  /\ task'[o].kind \in Changes \ {"create"} /\ task'[o].pc = "checked"
                           => task'[o].who \in Hired'
                      /\ task'[o].kind \in {"approve", "reject"} => asked'[task'[o].request] # Absent
    BY DEF Ready
  <2>1. CASE o = k
    BY <1>1, <1>2, <1>4, <1>7, <1>8, <2>1 DEF Changes
  <2>2. CASE o # k
    BY <1>3, <1>7, <1>8, <2>2 DEF StaffInv, Ready
  <2> QED BY <2>1, <2>2
<1>10. ASSUME ~raced, NEW o \in Tasks, Taking(o)' PROVE enabledSuperAdmins \ {task'[o].who} # {}
  <2>0. enabledSuperAdmins # {}
    BY <1>10 DEF StaffInv, Spare
  <2>1. CASE o = k
    <3>1. Removes(new)
      BY <1>7, <1>8, <1>10, <2>1 DEF Taking, Removes
    <3>2. mayRemoveSuperAdmin(t.who)
      BY <1>4, <1>5, <3>1
    <3>3. enabledSuperAdmins \ {t.who} # {}
      BY <2>0, <3>2, SomebodyElse DEF mayRemoveSuperAdmin
    <3> QED BY <1>2, <1>7, <2>1, <3>3
  <2>2. CASE o # k
    <3>1. task'[o] = task[o] /\ Taking(o)
      BY <1>7, <1>8, <1>10, <2>2 DEF Taking, Removes
    <3> QED BY <1>10, <3>1 DEF StaffInv, Spare
  <2> QED BY <2>1, <2>2
<1>11. Spare'
  BY <1>3, <1>8, <1>10 DEF StaffInv, Spare
<1> QED BY <1>6, <1>9, <1>11 DEF StaffInv

LEMMA CommitChangeKeeps ==
  ASSUME StaffAssumption, NoRowAssumption, StaffInv, NEW k \in Tasks, CommitChange(k)
  PROVE  StaffInv'
<1> DEFINE w == task[k].who
           n == officers'[w]
<1>1. w \in People /\ n \in Officer /\ officers' = [ officers EXCEPT ![w] = n ]
  BY RowWritten DEF Change
<1>2. /\ task' = [ task EXCEPT ![k] = NoTask ] /\ raced' \in BOOLEAN
      /\ UNCHANGED << asked, tries >>
  BY DEF CommitChange, StaffInv, StaffTypeOK
<1> HIDE DEF n
<1>3. StaffTypeOK'
  BY <1>1, <1>2 DEF StaffInv, StaffTypeOK
<1>4. \A o \in Tasks : task'[o] = task[o] \/ task'[o].kind = "none"
  BY <1>2 DEF StaffInv, StaffTypeOK, NoTask
<1>5. Ready'
  BY <1>2, <1>4, Taken, ReadyKept
<1> QED BY <1>3, <1>5, CommitSpares DEF StaffInv

\* A request that ends without a write: refused, or dead.
LEMMA EndTaskKeeps ==
  ASSUME StaffInv, NEW k \in Tasks, EndTask(k)
  PROVE  StaffInv'
<1>1. task' = [ task EXCEPT ![k] = NoTask ] /\ UNCHANGED << officers, asked, tries, raced >>
  BY DEF EndTask
<1>2. StaffTypeOK'
  BY <1>1 DEF StaffInv, StaffTypeOK
<1>3. \A o \in Tasks : \/ task'[o] = task[o]
                       \/ task'[o].kind = "none" /\ task'[o].pc # "checked"
  BY <1>1 DEF StaffInv, StaffTypeOK, NoTask
<1>4. Hired' = Hired /\ enabledSuperAdmins' = enabledSuperAdmins
  BY <1>1 DEF Hired, enabledSuperAdmins, holdsSuperAdmin
<1>5. Ready'
  BY <1>1, <1>3, <1>4, ReadyKept
<1>6. Spare'
  BY <1>1, <1>3, <1>4, NothingTaken
<1> QED BY <1>2, <1>5, <1>6 DEF StaffInv

LEMMA StartDecidingKeeps ==
  ASSUME StaffInv, NEW k \in Tasks, NEW actor \in People, NEW kind \in {"approve", "reject"},
         NEW r \in Requests, NEW roles \in SUBSET Roles, NEW access \in Levels,
         StartDeciding(k, actor, kind, r, roles, access)
  PROVE  StaffInv'
<1> DEFINE new == [ kind |-> kind, pc |-> "authenticated", actor |-> actor, request |-> r,
                    roles |-> roles, access |-> access ]
<1>1. new \in Deciding /\ new.kind \notin Changes /\ new.pc # "checked" /\ new.request = r
  BY DEF Deciding, Changes
<1>2. task' = [ task EXCEPT ![k] = new ] /\ UNCHANGED << officers, asked, tries, raced >>
      /\ asked[r] # Absent
  BY DEF StartDeciding
<1> HIDE DEF new
<1>3. StaffTypeOK'
  BY <1>1, <1>2 DEF StaffInv, StaffTypeOK
<1>4. \A o \in Tasks : task'[o] = IF o = k THEN new ELSE task[o]
  BY <1>2 DEF StaffInv, StaffTypeOK
<1>5. Hired' = Hired /\ enabledSuperAdmins' = enabledSuperAdmins
  BY <1>2 DEF Hired, enabledSuperAdmins, holdsSuperAdmin
<1>6. Ready'
  BY <1>1, <1>2, <1>4, <1>5 DEF StaffInv, Ready
<1>7. Spare'
  BY <1>1, <1>2, <1>4, <1>5, NothingTaken
<1> QED BY <1>3, <1>6, <1>7 DEF StaffInv

LEMMA CheckAddressKeeps ==
  ASSUME StaffInv, NEW k \in Tasks, CheckAddress(k)
  PROVE  StaffInv'
<1> DEFINE t == task[k]
           new == [ t EXCEPT !.pc = "checked" ]
<1>1. t \in Deciding /\ t.kind = "approve"
  <2>1. t.kind = "approve" /\ t \in Change \cup Deciding \cup {NoTask}
    BY DEF CheckAddress, StaffInv, StaffTypeOK
  <2> QED BY <2>1 DEF Change, Changes, NoTask
<1>2. new \in Deciding /\ new.kind = "approve" /\ new.request = t.request
  BY <1>1 DEF Deciding
<1>3. task' = [ task EXCEPT ![k] = new ] /\ UNCHANGED << officers, asked, tries, raced >>
  BY DEF CheckAddress
<1> HIDE DEF new, t
<1>4. StaffTypeOK'
  BY <1>2, <1>3 DEF StaffInv, StaffTypeOK
<1>5. \A o \in Tasks : task'[o] = IF o = k THEN new ELSE task[o]
  BY <1>3 DEF StaffInv, StaffTypeOK
<1>6. Hired' = Hired /\ enabledSuperAdmins' = enabledSuperAdmins
      /\ \A p : holdsSuperAdmin(p)' = holdsSuperAdmin(p)
  BY <1>3 DEF Hired, enabledSuperAdmins, holdsSuperAdmin
<1>7. Ready'
  <2> SUFFICES ASSUME NEW o \in Tasks
               PROVE  /\ task'[o].kind \in Changes \ {"create"} /\ task'[o].pc = "checked"
                           => task'[o].who \in Hired'
                      /\ task'[o].kind \in {"approve", "reject"} => asked'[task'[o].request] # Absent
    BY DEF Ready
  <2>1. CASE o = k
    BY <1>1, <1>2, <1>3, <1>5, <2>1 DEF StaffInv, Ready, Changes, t
  <2>2. CASE o # k
    BY <1>3, <1>5, <1>6, <2>2 DEF StaffInv, Ready
  <2> QED BY <2>1, <2>2
<1>8. \A o \in Tasks : Taking(o)' => Taking(o) /\ task'[o] = task[o]
  BY <1>2, <1>5, <1>6 DEF Taking, Removes
<1>9. Spare'
  BY <1>3, <1>6, <1>8 DEF StaffInv, Spare
<1> QED BY <1>4, <1>7, <1>9 DEF StaffInv

\* An approval writes an account where there was none: nobody is taken away.
LEMMA ApproveKeeps ==
  ASSUME StaffAssumption, NoRowAssumption, StaffInv, NEW k \in Tasks, Approve(k)
  PROVE  StaffInv'
<1> DEFINE t == task[k]
           r == t.request
           p == asked[r].by
           row == [ roles |-> t.roles, disabled |-> FALSE, removed |-> FALSE,
                    access |-> t.access ]
           decided == [ asked[r] EXCEPT !.status = "approved", !.account = p ]
<1>1. t \in Deciding /\ r \in Requests /\ asked[r] \in AccessRequest
  <2>1. t.kind = "approve" /\ t \in Change \cup Deciding \cup {NoTask}
    BY DEF Approve, StaffInv, StaffTypeOK
  <2>2. t \in Deciding
    BY <2>1 DEF Change, Changes, NoTask
  <2> QED BY <2>1, <2>2 DEF Deciding, StaffInv, StaffTypeOK, Ready
<1>2. p \in People /\ row \in Officer /\ decided \in AccessRequest
  BY <1>1 DEF Deciding, Officer, AccessRequest
<1>3. row # Absent /\ decided # Absent
  BY <1>2 DEF NoRowAssumption
<1>4. officers' = [ officers EXCEPT ![p] = row ] /\ p \notin Hired
      /\ task' = [ task EXCEPT ![k] = NoTask ] /\ UNCHANGED << tries, raced >>
  BY DEF Approve, AddressIsFree
<1>5. asked' = [ asked EXCEPT ![r] = decided ]
  BY DEF Approve
<1> HIDE DEF row, decided, p, r, t
<1>6. StaffTypeOK'
  BY <1>1, <1>2, <1>4, <1>5 DEF StaffInv, StaffTypeOK
<1>7. \A o \in Tasks : \/ task'[o] = task[o]
                       \/ task'[o].kind = "none" /\ task'[o].pc # "checked"
  BY <1>4 DEF StaffInv, StaffTypeOK, NoTask
<1>8. \A q \in People : officers'[q] = IF q = p THEN row ELSE officers[q]
  BY <1>4 DEF StaffInv, StaffTypeOK
<1>9. Hired \subseteq Hired' /\ enabledSuperAdmins \subseteq enabledSuperAdmins'
  BY <1>3, <1>4, <1>8 DEF Hired, enabledSuperAdmins, holdsSuperAdmin
<1>10. \A o \in Requests : asked[o] # Absent => asked'[o] # Absent
  BY <1>3, <1>5 DEF StaffInv, StaffTypeOK
<1>11. Ready'
  BY <1>7, <1>9, <1>10, ReadyKept
<1>12. Spare'
  BY <1>4, <1>7, <1>9, NothingTaken
<1> QED BY <1>6, <1>11, <1>12 DEF StaffInv

LEMMA RejectKeeps ==
  ASSUME NoRowAssumption, StaffInv, NEW k \in Tasks, Reject(k)
  PROVE  StaffInv'
<1> DEFINE r == task[k].request
           decided == [ asked[r] EXCEPT !.status = "rejected" ]
<1>1. r \in Requests /\ asked[r] \in AccessRequest
  <2>1. task[k].kind = "reject" /\ task[k] \in Change \cup Deciding \cup {NoTask}
    BY DEF Reject, StaffInv, StaffTypeOK
  <2>2. task[k] \in Deciding
    BY <2>1 DEF Change, Changes, NoTask
  <2> QED BY <2>1, <2>2 DEF Deciding, StaffInv, StaffTypeOK, Ready
<1>2. decided \in AccessRequest /\ decided # Absent
  BY <1>1 DEF AccessRequest, NoRowAssumption
<1>3. /\ asked' = [ asked EXCEPT ![r] = decided ] \/ asked' = asked
      /\ task' = [ task EXCEPT ![k] = NoTask ] /\ UNCHANGED << officers, tries, raced >>
  BY DEF Reject
<1> HIDE DEF decided, r
<1>4. StaffTypeOK'
  BY <1>1, <1>2, <1>3 DEF StaffInv, StaffTypeOK
<1>5. \A o \in Tasks : \/ task'[o] = task[o]
                       \/ task'[o].kind = "none" /\ task'[o].pc # "checked"
  BY <1>3 DEF StaffInv, StaffTypeOK, NoTask
<1>6. Hired' = Hired /\ enabledSuperAdmins' = enabledSuperAdmins
  BY <1>3 DEF Hired, enabledSuperAdmins, holdsSuperAdmin
<1>7. \A o \in Requests : asked[o] # Absent => asked'[o] # Absent
  BY <1>2, <1>3 DEF StaffInv, StaffTypeOK
<1>8. Ready'
  BY <1>5, <1>6, <1>7, ReadyKept
<1>9. Spare'
  BY <1>3, <1>5, <1>6, NothingTaken
<1> QED BY <1>4, <1>8, <1>9 DEF StaffInv

\* The public form, and the window of its attempts.
LEMMA AskingKeeps ==
  ASSUME NoRowAssumption, StaffInv,
         (\E r \in Requests, p \in People : Raise(r, p)) \/ AttemptsForgotten
  PROVE  StaffInv'
<1>1. UNCHANGED << officers, task, raced >> /\ tries' \in [ People -> Nat ]
  BY DEF Raise, AttemptsForgotten, StaffInv, StaffTypeOK
<1>2. asked' \in [ Requests -> AccessRequest \cup {Absent} ]
      /\ \A r \in Requests : asked[r] # Absent => asked'[r] # Absent
  <2>1. CASE AttemptsForgotten
    BY <2>1 DEF AttemptsForgotten, StaffInv, StaffTypeOK
  <2>2. ASSUME NEW r \in Requests, NEW p \in People, Raise(r, p)
        PROVE  /\ asked' \in [ Requests -> AccessRequest \cup {Absent} ]
               /\ \A o \in Requests : asked[o] # Absent => asked'[o] # Absent
    <3> DEFINE new == [ by |-> p, status |-> "pending", account |-> Absent ]
    <3>1. new \in AccessRequest /\ new # Absent
      BY DEF AccessRequest, NoRowAssumption
    <3>2. asked' = [ asked EXCEPT ![r] = new ] \/ asked' = asked
      BY <2>2 DEF Raise
    <3> HIDE DEF new
    <3> QED BY <3>1, <3>2 DEF StaffInv, StaffTypeOK
  <2> QED BY <2>1, <2>2
<1>3. StaffTypeOK'
  BY <1>1, <1>2 DEF StaffInv, StaffTypeOK
<1>4. Hired' = Hired /\ enabledSuperAdmins' = enabledSuperAdmins
  BY <1>1 DEF Hired, enabledSuperAdmins, holdsSuperAdmin
<1>5. Ready'
  BY <1>1, <1>2, <1>4, ReadyKept
<1>6. Spare'
  BY <1>1, <1>4, NothingTaken
<1> QED BY <1>3, <1>5, <1>6 DEF StaffInv

LEMMA StaffInvKept ==
  ASSUME StaffAssumption, NoRowAssumption, StaffInv, [StaffNext]_staffVars
  PROVE  StaffInv'
<1>1. ASSUME NEW k \in Tasks, DirectoryStep(k) PROVE StaffInv'
  BY <1>1, StartChangeKeeps, CheckChangeKeeps, CommitChangeKeeps, EndTaskKeeps DEF DirectoryStep
<1>2. ASSUME NEW k \in Tasks, AccessStep(k) PROVE StaffInv'
  BY <1>2, StartDecidingKeeps, CheckAddressKeeps, ApproveKeeps, RejectKeeps DEF AccessStep
<1>3. CASE UNCHANGED staffVars
  BY <1>3 DEF staffVars, StaffInv, StaffTypeOK, Ready, Spare, Taking, Removes,
              enabledSuperAdmins, holdsSuperAdmin, Hired
<1> QED BY <1>1, <1>2, <1>3, AskingKeeps DEF StaffNext

\* Accounts, requests for access and the requests in flight keep their types
\* whatever administrators do at once.
THEOREM StaffTypesHold == StaffSpec => []StaffTypeOK
<1>1. StaffInit => StaffInv
  BY StaffStarts, StaffAssumption, NoRowAssumption
<1>2. StaffInv /\ [StaffNext]_staffVars => StaffInv'
  BY StaffInvKept, StaffAssumption, NoRowAssumption
<1>3. StaffInv => StaffTypeOK
  BY DEF StaffInv
<1> QED BY <1>1, <1>2, <1>3, PTL DEF StaffSpec

\* "The last super admin cannot be removed": for any people and any number of
\* requests in flight, as long as no two removals both passed the check before
\* either was written, somebody who may grant the role is left.
THEOREM FloorAlwaysHolds == StaffSpec => []FloorHolds
<1>1. StaffInit => StaffInv
  BY StaffStarts, StaffAssumption, NoRowAssumption
<1>2. StaffInv /\ [StaffNext]_staffVars => StaffInv'
  BY StaffInvKept, StaffAssumption, NoRowAssumption
<1>3. StaffInv => FloorHolds
  BY DEF StaffInv, Spare, FloorHolds
<1> QED BY <1>1, <1>2, <1>3, PTL DEF StaffSpec

(***************************************************************************)
(* THE SECOND FACTOR                                                       *)
(*                                                                         *)
(* A secret becomes the account's when it is proved, from the hands of     *)
(* somebody who was shown it or by the re-issue that made it.  What has to *)
(* be carried is that a request which made an offer still holds its secret *)
(* when it answers.                                                        *)
(***************************************************************************)

\* What a request has in hand when it is about to offer, activate or answer.
Holds(row) ==
  /\ row.pc \in {"activating", "answering"} => row.secret \in Secrets
  /\ row.pc \in {"offering", "activating"} => row.kind \in {"enrol", "reissue"}
  /\ row.pc = "activating" => row.kind = "reissue"

Offering == \A r \in Calls : Holds(ask[r])

FactorInv == FactorTypeOK /\ Offering /\ FactorIsHeld

LEMMA AskKept ==
  ASSUME FactorInv, NEW r \in Calls, NEW row \in Asked,
         ask' = [ ask EXCEPT ![r] = row ]
  PROVE  /\ ask' \in [ Calls -> Asked ] /\ ask'[r] = row
         /\ \A q \in Calls : q # r => ask'[q] = ask[q]
         /\ Holds(row) => Offering'
BY DEF FactorInv, FactorTypeOK, Offering

\* A request that writes nothing of the factor, and was not about to say what it activated.
LEMMA FactorLeft ==
  ASSUME FactorInv, factor'.secret = factor.secret, handed \subseteq handed', lost \subseteq lost',
         \A r \in Calls : Asking(r, "reissue", "answering") =>
                            ask'[r] = ask[r] \/ ask[r].secret \in handed' \cup lost'
  PROVE  FactorIsHeld'
<1> SUFFICES ASSUME factor'.secret # Nothing, factor'.secret \notin handed' \cup lost'
             PROVE  \E r \in Calls : Asking(r, "reissue", "answering")' /\ ask'[r].secret = factor'.secret
  BY DEF FactorIsHeld, Enrolled
<1>1. PICK r \in Calls : Asking(r, "reissue", "answering") /\ ask[r].secret = factor.secret
  BY DEF FactorInv, FactorIsHeld, Enrolled
<1>2. ask'[r] = ask[r]
  BY <1>1
<1> QED BY <1>1, <1>2 DEF Asking

\* A step of one request that leaves the account's factor and the answers alone.
LEMMA RequestGoesOn ==
  ASSUME SecondFactorAssumption, FactorInv, NEW r \in Calls, NEW row \in Asked,
         ask' = [ ask EXCEPT ![r] = row ], factor'.secret = factor.secret,
         factor' \in Factor, offer' \in Enrolment, inside' \in BOOLEAN, UNCHANGED << demanded, now, handed, lost >>,
         ask[r].pc # "answering",
         Holds(row)
  PROVE  FactorInv'
<1>1. ask' \in [ Calls -> Asked ] /\ Offering' /\ \A q \in Calls : q # r => ask'[q] = ask[q]
  BY AskKept
<1>2. FactorIsHeld'
  <2>1. \A q \in Calls : Asking(q, "reissue", "answering") => ask'[q] = ask[q]
    BY <1>1 DEF Asking
  <2> QED BY <2>1, FactorLeft
<1>3. FactorTypeOK'
  <2>1. now' \in Nat /\ handed' \in SUBSET Secrets /\ lost' \in SUBSET Secrets
    BY DEF FactorInv, FactorTypeOK
  <2>2. demanded' \in BOOLEAN
    BY DEF FactorInv, FactorTypeOK
  <2> QED BY <1>1, <2>1, <2>2 DEF FactorTypeOK
<1> QED BY <1>1, <1>2, <1>3 DEF FactorInv

LEMMA Spends ==
  ASSUME SecondFactorAssumption, FactorInv, NEW r \in Calls, SignInWithCode(r) PROVE FactorInv'
<1>1. CASE \E s \in handed, step \in now - 1..now + 1 : ReadFactor(r, s, step)
  <2>1. PICK s \in handed, step \in now - 1..now + 1 : ReadFactor(r, s, step)
    BY <1>1
  <2>2. s \in Secrets /\ step \in Nat
    <3>1. handed \subseteq Secrets /\ now \in Nat /\ factor.last \in Nat
      BY DEF FactorInv, FactorTypeOK, Factor
    <3>2. step \in Int /\ step > factor.last
      <4>1. Verifies(factor, s, step)
        BY <2>1 DEF ReadFactor
      <4>2. step \in Int
        BY <3>1
      <4> QED BY <4>1, <4>2 DEF Verifies
    <3> QED BY <3>1, <3>2
  <2> DEFINE row == [ kind |-> "sign in", secret |-> s, step |-> step, pc |-> "spending" ]
  <2>3. row \in Asked /\ Holds(row) /\ row.pc = "spending"
    BY <2>2 DEF Holds, Asked, OrNothing
  <2>4. ask' = [ ask EXCEPT ![r] = row ] /\ ask[r].pc = "idle"
    BY <2>1 DEF ReadFactor, Asking
  <2>5. factor' = factor /\ offer' = offer /\ inside' = inside /\ UNCHANGED << demanded, now, handed, lost >>
    BY <2>1 DEF ReadFactor
  <2>6. factor' \in Factor /\ offer' \in Enrolment /\ inside' \in BOOLEAN
    BY <2>5 DEF FactorInv, FactorTypeOK
  <2> HIDE DEF row
  <2> QED BY <2>3, <2>4, <2>5, <2>6, RequestGoesOn
<1>2. CASE SpendStep(r)
  <2>1. AskNothing \in Asked /\ Holds(AskNothing)
    BY DEF Holds, AskNothing, Asked, OrNothing
  <2>2. ask' = [ ask EXCEPT ![r] = AskNothing ] /\ ask[r].pc = "spending" /\ ask[r].step \in Nat
    BY <1>2 DEF SpendStep, Asking, AskEnds, FactorInv, FactorTypeOK, Asked
  <2>3. factor'.secret = factor.secret /\ factor' \in Factor
    BY <1>2, <2>2 DEF SpendStep, FactorInv, FactorTypeOK, Factor
  <2>4. offer' \in Enrolment /\ inside' \in BOOLEAN /\ UNCHANGED << demanded, now, handed, lost >>
    BY <1>2 DEF SpendStep, FactorInv, FactorTypeOK
  <2> QED BY <2>1, <2>2, <2>3, <2>4, RequestGoesOn
<1> QED BY <1>1, <1>2 DEF SignInWithCode

LEMMA Enrols ==
  ASSUME SecondFactorAssumption, FactorInv, NEW r \in Calls, EnrolStep(r) PROVE FactorInv'
<1>1. CASE BeginEnrolment(r)
  <2> DEFINE row == [ AskNothing EXCEPT !.kind = "enrol", !.pc = "offering" ]
  <2>1. row \in Asked /\ Holds(row)
    BY DEF Holds, AskNothing, Asked, OrNothing
  <2>2. ask' = [ ask EXCEPT ![r] = row ] /\ ask[r].pc = "idle"
    BY <1>1 DEF BeginEnrolment, Asking
  <2>3. factor' = factor /\ offer' = offer /\ inside' = inside /\ UNCHANGED << demanded, now, handed, lost >>
    BY <1>1 DEF BeginEnrolment
  <2>4. factor' \in Factor /\ offer' \in Enrolment /\ inside' \in BOOLEAN
    BY <2>3 DEF FactorInv, FactorTypeOK
  <2> HIDE DEF row
  <2> QED BY <2>1, <2>2, <2>3, <2>4, RequestGoesOn
<1>2. CASE AnswerOffer(r)
  <2>1. AskNothing \in Asked /\ Holds(AskNothing)
    BY DEF Holds, AskNothing, Asked, OrNothing
  <2>2. ask' = [ ask EXCEPT ![r] = AskNothing ] /\ ask[r].secret \in Secrets /\ handed' = handed \cup {ask[r].secret}
    BY <1>2 DEF AnswerOffer, AskEnds, FactorInv, Offering, Holds
  <2>3. ask' \in [ Calls -> Asked ] /\ Offering' /\ \A q \in Calls : q # r => ask'[q] = ask[q]
    BY <2>1, <2>2, AskKept
  <2>4. UNCHANGED << factor, offer, demanded, inside, now, lost >>
    BY <1>2 DEF AnswerOffer
  <2>5. FactorIsHeld'
    BY <2>2, <2>3, <2>4, FactorLeft
  <2>6. FactorTypeOK'
    BY <2>2, <2>3, <2>4 DEF FactorInv, FactorTypeOK
  <2> QED BY <2>3, <2>5, <2>6 DEF FactorInv
<1>3. CASE \E s \in Secrets : WriteOffer(r, s)
  <2>1. PICK s \in Secrets : WriteOffer(r, s)
    BY <1>3
  <2> DEFINE row == [ ask[r] EXCEPT !.secret = s, !.pc = IF ask[r].kind = "enrol" THEN "answering" ELSE "activating" ]
  <2>2. ask[r] \in Asked /\ ask[r].pc = "offering"
    BY <2>1 DEF WriteOffer, FactorInv, FactorTypeOK
  <2>3. row \in Asked /\ row.secret \in Secrets
    BY <2>2 DEF Asked, OrNothing
  <2>4. Holds(row)
    BY <2>2, <2>3 DEF FactorInv, Offering, Holds, Asked
  <2>5. ask' = [ ask EXCEPT ![r] = row ]
    BY <2>1, <2>2 DEF WriteOffer
  <2>6. offer' \in Enrolment
    BY <2>1 DEF WriteOffer, Enrolment, OrNothing
  <2>7. factor' = factor /\ inside' = inside /\ UNCHANGED << demanded, now, handed, lost >>
    BY <2>1 DEF WriteOffer
  <2>8. factor' \in Factor /\ inside' \in BOOLEAN
    BY <2>7 DEF FactorInv, FactorTypeOK
  <2> HIDE DEF row
  <2> QED BY <2>2, <2>3, <2>4, <2>5, <2>6, <2>7, <2>8, RequestGoesOn
<1> QED BY <1>1, <1>2, <1>3 DEF EnrolStep

\* activate: the secret that becomes the factor is the one that was proved.
LEMMA ActivatedWrites ==
  ASSUME FactorInv, NEW s \in Secrets, NEW step \in Int, Activated(s, step)
  PROVE  factor' \in Factor /\ factor'.secret = s /\ offer' \in Enrolment
<1>1. step > 0 /\ step \in Nat
  BY DEF Activated, Verifies
<1>2. factor' = [ secret |-> s, last |-> step ] /\ offer' = NoOffer
  BY DEF Activated
<1> QED BY <1>1, <1>2 DEF Factor, Enrolment, NoOffer, OrNothing

LEMMA Activates ==
  ASSUME SecondFactorAssumption, FactorInv, ActivateStep PROVE FactorInv'
<1>1. PICK s \in handed, step \in now - 1..now + 1 : Activate(s, step)
  BY DEF ActivateStep
<1>2. s \in Secrets /\ step \in Int
  BY DEF FactorInv, FactorTypeOK
<1>3. UNCHANGED << demanded, inside, now, handed, lost, ask >>
  BY <1>1 DEF Activate
<1>4. Offering'
  BY <1>3 DEF FactorInv, Offering
<1>5. CASE Activated(s, step)
  <2>1. factor' \in Factor /\ factor'.secret = s /\ offer' \in Enrolment
    BY <1>2, <1>5, ActivatedWrites
  <2>2. FactorTypeOK'
    BY <1>3, <2>1 DEF FactorInv, FactorTypeOK
  <2>3. FactorIsHeld'
    BY <1>3, <2>1 DEF FactorIsHeld
  <2> QED BY <1>4, <2>2, <2>3 DEF FactorInv
<1>6. CASE offer' = NoOffer /\ UNCHANGED factor
  <2>1. FactorTypeOK'
    BY <1>3, <1>6 DEF FactorInv, FactorTypeOK, Enrolment, NoOffer, OrNothing
  <2>2. FactorIsHeld'
    BY <1>3, <1>6 DEF FactorInv, FactorIsHeld, Enrolled, Asking
  <2> QED BY <1>4, <2>1, <2>2 DEF FactorInv
<1> QED BY <1>1, <1>5, <1>6 DEF Activate

LEMMA Reissues ==
  ASSUME SecondFactorAssumption, FactorInv, NEW r \in Calls, ReissueStep(r) PROVE FactorInv'
<1>1. CASE \E by \in Managers : BeginReissue(r, by)
  <2>1. PICK by \in Managers : BeginReissue(r, by)
    BY <1>1
  <2> DEFINE row == [ AskNothing EXCEPT !.kind = "reissue", !.pc = "clearing" ]
  <2>2. row \in Asked /\ Holds(row)
    BY DEF Holds, AskNothing, Asked, OrNothing
  <2>3. ask' = [ ask EXCEPT ![r] = row ] /\ ask[r].pc = "idle"
    BY <2>1 DEF BeginReissue, Asking
  <2>4. factor' = factor /\ offer' = offer /\ inside' = inside /\ UNCHANGED << demanded, now, handed, lost >>
    BY <2>1 DEF BeginReissue
  <2>5. factor' \in Factor /\ offer' \in Enrolment /\ inside' \in BOOLEAN
    BY <2>4 DEF FactorInv, FactorTypeOK
  <2> HIDE DEF row
  <2> QED BY <2>2, <2>3, <2>4, <2>5, RequestGoesOn
<1>2. CASE ClearFactor(r)
  <2> DEFINE row == [ ask[r] EXCEPT !.pc = "beginning" ]
  <2>1. ask[r] \in Asked /\ ask' = [ ask EXCEPT ![r] = row ]
    BY <1>2 DEF ClearFactor, AskGoes, FactorInv, FactorTypeOK
  <2>2. row \in Asked /\ Holds(row)
    BY <2>1 DEF Asked, Holds
  <2>3. UNCHANGED << demanded, inside, now, handed, lost >> /\ factor' = NoFactor /\ offer' = NoOffer
    BY <1>2 DEF ClearFactor
  <2> HIDE DEF row
  <2>4. ask' \in [ Calls -> Asked ] /\ Offering'
    BY <2>1, <2>2, AskKept
  <2>5. FactorTypeOK'
    BY <2>3, <2>4 DEF FactorInv, FactorTypeOK, NoFactor, NoOffer, Factor, Enrolment, OrNothing
  <2>6. FactorIsHeld'
    BY <2>3 DEF FactorIsHeld, Enrolled, NoFactor
  <2> QED BY <2>4, <2>5, <2>6 DEF FactorInv
<1>3. CASE BeginForThem(r)
  <2>1. PICK row \in Asked : row \in {AskNothing, [ ask[r] EXCEPT !.pc = "offering" ]} /\ ask' = [ ask EXCEPT ![r] = row ]
    <3>1. ask[r] \in Asked
      BY DEF FactorInv, FactorTypeOK
    <3>2. AskNothing \in Asked /\ [ ask[r] EXCEPT !.pc = "offering" ] \in Asked
      BY <3>1 DEF Asked, AskNothing, OrNothing
    <3> QED BY <1>3, <3>2 DEF BeginForThem, AskEnds, AskGoes
  <2>2. ask[r].kind = "reissue" /\ ask[r].pc = "beginning" /\ ask[r] \in Asked
    BY <1>3 DEF BeginForThem, Asking, FactorInv, FactorTypeOK
  <2>3. Holds(row)
    <3>1. CASE row = AskNothing
      BY <3>1 DEF Holds, AskNothing
    <3>2. CASE row = [ ask[r] EXCEPT !.pc = "offering" ]
      BY <2>2, <3>2 DEF Holds, Asked
    <3> QED BY <2>1, <3>1, <3>2
  <2>4. factor' = factor /\ offer' = offer /\ inside' = inside /\ UNCHANGED << demanded, now, handed, lost >>
    BY <1>3 DEF BeginForThem
  <2>5. factor' \in Factor /\ offer' \in Enrolment /\ inside' \in BOOLEAN
    BY <2>4 DEF FactorInv, FactorTypeOK
  <2> QED BY <2>1, <2>2, <2>3, <2>4, <2>5, RequestGoesOn
<1>4. CASE ActivateForThem(r)
  <2>1. ask[r] \in Asked /\ ask[r].kind = "reissue" /\ ask[r].pc = "activating" /\ ask[r].secret \in Secrets
    BY <1>4 DEF ActivateForThem, Asking, FactorInv, FactorTypeOK, Offering, Holds
  <2>2. UNCHANGED << demanded, inside, now, handed, lost >>
    BY <1>4 DEF ActivateForThem
  <2>3. CASE Activated(ask[r].secret, now) /\ AskGoes(r, "answering")
    <3> DEFINE row == [ ask[r] EXCEPT !.pc = "answering" ]
    <3>1. row \in Asked /\ Holds(row) /\ row.kind = "reissue" /\ row.pc = "answering" /\ row.secret = ask[r].secret
      BY <2>1 DEF Asked, Holds
    <3>2. ask' = [ ask EXCEPT ![r] = row ]
      BY <2>3 DEF AskGoes
    <3>3. now \in Int
      BY DEF FactorInv, FactorTypeOK
    <3>4. factor' \in Factor /\ factor'.secret = ask[r].secret /\ offer' \in Enrolment
      BY <2>1, <2>3, <3>3, ActivatedWrites
    <3> HIDE DEF row
    <3>5. ask' \in [ Calls -> Asked ] /\ Offering' /\ ask'[r] = row
      BY <3>1, <3>2, AskKept
    <3>6. FactorTypeOK'
      BY <2>2, <3>4, <3>5 DEF FactorInv, FactorTypeOK
    <3>7. FactorIsHeld'
      BY <3>1, <3>4, <3>5 DEF FactorIsHeld, Asking
    <3> QED BY <3>5, <3>6, <3>7 DEF FactorInv
  <2>4. CASE AskEnds(r) /\ offer' \in {offer, NoOffer} /\ UNCHANGED factor
    <3>1. AskNothing \in Asked /\ Holds(AskNothing)
      BY DEF Holds, AskNothing, Asked, OrNothing
    <3>2. factor' \in Factor /\ offer' \in Enrolment /\ inside' \in BOOLEAN
      <4>1. NoOffer \in Enrolment
        BY DEF NoOffer, Enrolment, OrNothing
      <4>2. factor \in Factor /\ offer \in Enrolment /\ inside \in BOOLEAN
        BY DEF FactorInv, FactorTypeOK
      <4> QED BY <2>2, <2>4, <4>1, <4>2
    <3>3. ask' = [ ask EXCEPT ![r] = AskNothing ] /\ factor'.secret = factor.secret
      BY <2>4 DEF AskEnds
    <3> QED BY <2>1, <2>2, <3>1, <3>2, <3>3, RequestGoesOn
  <2> QED BY <1>4, <2>3, <2>4 DEF ActivateForThem
<1>5. CASE AskDies(r)
  <2>1. AskNothing \in Asked /\ Holds(AskNothing)
    BY DEF Holds, AskNothing, Asked, OrNothing
  <2>2. ask' = [ ask EXCEPT ![r] = AskNothing ] /\ UNCHANGED << factor, offer, demanded, inside, now, handed >>
    BY <1>5 DEF AskDies, AskEnds
  <2>3. ask' \in [ Calls -> Asked ] /\ Offering' /\ \A q \in Calls : q # r => ask'[q] = ask[q]
    BY <2>1, <2>2, AskKept
  <2>4. lost \subseteq lost' /\ lost' \subseteq Secrets
        /\ (Asking(r, "reissue", "answering") => ask[r].secret \in lost')
    BY <1>5 DEF AskDies, Asking, FactorInv, FactorTypeOK, Offering, Holds
  <2>5. FactorIsHeld'
    BY <2>2, <2>3, <2>4, FactorLeft
  <2>6. FactorTypeOK'
    BY <2>2, <2>3, <2>4 DEF FactorInv, FactorTypeOK
  <2> QED BY <2>3, <2>5, <2>6 DEF FactorInv
<1> QED BY <1>1, <1>2, <1>3, <1>4, <1>5 DEF ReissueStep

\* A step of nobody's request.
LEMMA FactorRests ==
  ASSUME FactorInv, UNCHANGED << factor, handed, lost, ask >>,
         offer' \in Enrolment, demanded' \in BOOLEAN, inside' \in BOOLEAN, now' \in Nat
  PROVE  FactorInv'
BY DEF FactorInv, FactorTypeOK, Offering, FactorIsHeld, Enrolled, Asking

LEMMA FactorStep ==
  ASSUME SecondFactorAssumption, FactorInv, [FactorNext]_factorVars PROVE FactorInv'
<1>1. CASE SignInPlain
  BY <1>1, FactorRests DEF SignInPlain, FactorInv, FactorTypeOK
<1>2. CASE OfferExpires
  <2>1. offer' \in Enrolment
    BY <1>2 DEF OfferExpires, Enrolment, FactorInv, FactorTypeOK
  <2> QED BY <1>2, <2>1, FactorRests DEF OfferExpires, FactorInv, FactorTypeOK
<1>3. CASE RolesChange
  <2>1. demanded' \in BOOLEAN
    BY <1>3 DEF RolesChange
  <2> QED BY <1>3, <2>1, FactorRests DEF RolesChange, FactorInv, FactorTypeOK
<1>4. CASE SessionEnds
  BY <1>4, FactorRests DEF SessionEnds, FactorInv, FactorTypeOK
<1>5. CASE StepPasses
  BY <1>5, FactorRests DEF StepPasses, FactorInv, FactorTypeOK
<1>6. CASE UNCHANGED factorVars
  BY <1>6, FactorRests DEF factorVars, FactorInv, FactorTypeOK
<1> QED BY <1>1, <1>2, <1>3, <1>4, <1>5, <1>6, Spends, Enrols, Activates, Reissues DEF FactorNext

\* The authenticator an account answers to was shown to somebody, is about to
\* be by the re-issue that activated it, or would have been had that request
\* not died: an offer replaced by another's never becomes the factor, however
\* enrolments, activations and re-issues meet (totp.service.ts).
THEOREM FactorAlwaysHeld == FactorSpec => []FactorIsHeld
<1>1. FactorInit => FactorInv
  <2> SUFFICES ASSUME FactorInit PROVE FactorInv
    OBVIOUS
  <2>1. AskNothing \in Asked /\ Holds(AskNothing)
    BY DEF AskNothing, Asked, OrNothing, Holds
  <2>2. Offering
    BY <2>1 DEF FactorInit, Offering
  <2>3. FactorTypeOK
    BY <2>1 DEF FactorInit, FactorTypeOK, NoFactor, NoOffer, Factor, Enrolment, OrNothing
  <2> QED BY <2>2, <2>3 DEF FactorInit, FactorInv, FactorIsHeld, Enrolled, NoFactor
<1>2. FactorInv /\ [FactorNext]_factorVars => FactorInv'
  BY SecondFactorAssumption, FactorStep
<1>3. FactorInv => FactorIsHeld
  BY DEF FactorInv
<1> QED BY <1>1, <1>2, <1>3, PTL DEF FactorSpec

(***************************************************************************)
(* THE CITIZEN'S ACCOUNT                                                   *)
(*                                                                         *)
(* None of the four properties is inductive.  A verified number needs that *)
(* the code outstanding was sent to the number there is; one exchange,     *)
(* that a request which won has consumed its token and is alone with it,   *)
(* and that the id of a token somebody still names is not given again; and *)
(* what an erasure leaves, that whatever can be withdrawn is still on the  *)
(* way to be.                                                              *)
(***************************************************************************)
\* TYPES

\* A request that exchanges a refresh token names it and its family.
Exchanges == {"exchanging", "won", "lost", "minted"}
NamesToken(row) == row.step \in Exchanges => row.token \in Tokens /\ row.family \in Tokens

ActsTyped == act \in [ Acts -> ActRecord ] /\ \A u \in Acts : NamesToken(act[u])
AccountTyped == AccountTypeOK /\ ActsTyped

LEMMA ActReplaced ==
  ASSUME ActsTyped, NEW u \in Acts, NEW row \in ActRecord, NamesToken(row),
         act' = [ act EXCEPT ![u] = row ]
  PROVE  ActsTyped'
BY DEF ActsTyped, NamesToken

LEMMA ActMoved ==
  ASSUME ActsTyped, NEW u \in Acts, NEW step \in Step, ActGoes(u, step),
         step \notin Exchanges \/ act[u].step \in Exchanges
  PROVE  ActsTyped'
<1> DEFINE row == [ act[u] EXCEPT !.step = step ]
<1>1. act[u] \in ActRecord /\ NamesToken(act[u])
  BY DEF ActsTyped
<1>2. row \in ActRecord /\ NamesToken(row)
  BY <1>1 DEF ActRecord, NamesToken
<1>3. act' = [ act EXCEPT ![u] = row ]
  BY DEF ActGoes
<1> HIDE DEF row
<1> QED BY <1>2, <1>3, ActReplaced

LEMMA ActEnded == ASSUME ActsTyped, NEW u \in Acts, ActEnds(u) PROVE ActsTyped'
<1>1. NoAct \in ActRecord /\ NamesToken(NoAct)
  BY DEF NoAct, ActRecord, Maybe, Step, NamesToken, Exchanges
<1> QED BY <1>1, ActReplaced DEF ActEnds


\* Any request starts, and any officer's, with a row of its own.
LEMMA BegunTyped ==
  ASSUME AccountTyped, NEW u \in Acts, NEW step \in Step \ Exchanges,
         BeginOwn(u, step) \/ BeginOffice(u, step)
  PROVE  AccountTyped'
<1>1. CASE BeginOwn(u, step)
  <2> DEFINE row == [ NoAct EXCEPT !.step = step,
          !.old = IF step \in {"choosing photo", "removing photo"} THEN account.photo ELSE Nil ]
  <2>1. account.photo \in Maybe(Photos)
    BY DEF AccountTyped, AccountTypeOK, AccountRow
  <2>2. row \in ActRecord /\ NamesToken(row)
    BY <2>1 DEF NoAct, ActRecord, Maybe, NamesToken
  <2>3. act' = [ act EXCEPT ![u] = row ]
    BY <1>1 DEF BeginOwn
  <2> HIDE DEF row
  <2>4. ActsTyped'
    BY <2>2, <2>3, ActReplaced DEF AccountTyped
  <2>5. UNCHANGED << account, contactVars, sessionVars, bucket, filingVars, erasureVars >>
    BY <1>1 DEF BeginOwn
  <2> QED BY <2>4, <2>5 DEF AccountTyped, AccountTypeOK, ActsTyped, contactVars, sessionVars, filingVars, erasureVars
<1>2. CASE BeginOffice(u, step)
  <2>1. ActsTyped'
    BY <1>2, ActMoved DEF BeginOffice, AccountTyped
  <2> QED BY <1>2, <2>1 DEF BeginOffice, AccountTyped, AccountTypeOK, ActsTyped, contactVars, sessionVars, filingVars, erasureVars
<1> QED BY <1>1, <1>2

LEMMA ContactTyped ==
  ASSUME AccountAssumption, AccountTyped, NEW u \in Acts, ContactStep(u) PROVE AccountTyped'
<1> USE DEF AccountTyped, AccountTypeOK, ActsTyped
<1>1. ASSUME NEW step \in {"asking", "answering", "correcting"}, BeginOwn(u, step) \/ BeginOffice(u, step)
      PROVE  AccountTyped'
  BY <1>1, BegunTyped DEF Step, Exchanges
<1>2. ASSUME ActEnds(u) PROVE ActsTyped'
  BY <1>2, ActEnded
<1>3. CASE RequestCode(u)
  <2>1. [ sent |-> account.mobile, attempts |-> 0 ] \in Challenge
    BY DEF Challenge, AccountRow
  <2> QED BY <1>2, <1>3, <2>1 DEF RequestCode, ChannelStatus, contactVars, sessionVars, filingVars, erasureVars
<1>4. CASE ConfirmExpired(u)
  BY <1>2, <1>4 DEF ConfirmExpired, sessionVars, filingVars, erasureVars
<1>5. ASSUME NEW right \in BOOLEAN, ConfirmCode(u, right) PROVE AccountTyped'
  <2>1. challenge # Nil =>
          /\ [ challenge EXCEPT !.attempts = @ + 1 ] \in Challenge
          /\ [ account EXCEPT !.verified = challenge.sent ] \in AccountRow
    BY DEF Challenge, AccountRow
  <2>2. UNCHANGED << sessionVars, bucket, filingVars, erasureVars >> /\ ActEnds(u)
    BY <1>5 DEF ConfirmCode
  <2>3. account' \in AccountRow /\ channel' \in ChannelStatus /\ challenge' \in Challenge \cup {Nil}
    BY <1>5, <2>1 DEF ConfirmCode, ChannelStatus, contactVars
  <2> QED BY <1>2, <2>2, <2>3 DEF sessionVars, filingVars, erasureVars
<1>6. ASSUME NEW n \in Numbers, Rectify(u, n) PROVE AccountTyped'
  <2>1. [ account EXCEPT !.mobile = n, !.verified = Nil ] \in AccountRow
    BY DEF AccountRow, Maybe
  <2> QED BY <1>2, <1>6, <2>1 DEF Rectify, sessionVars, filingVars, erasureVars
<1> QED BY <1>1, <1>3, <1>4, <1>5, <1>6 DEF ContactStep, VerifyStep, CorrectStep, OfficeCorrects

LEMMA MintTyped ==
  ASSUME AccountTyped, NEW t \in Tokens, NEW family \in Tokens, NEW parent \in Maybe(Tokens),
         Mint(t, family, parent)
  PROVE  tokens' \in [ Tokens -> Token \cup {Nil} ]
BY DEF Mint, Token, AccountTyped, AccountTypeOK

LEMMA EndTyped ==
  ASSUME AccountTyped, NEW family \in Tokens, EndSession(family)
  PROVE  tokens' \in [ Tokens -> Token \cup {Nil} ] /\ ended' \subseteq Tokens
BY DEF EndSession, Issued, Token, AccountTyped, AccountTypeOK

LEMMA SessionTyped ==
  ASSUME AccountAssumption, AccountTyped, NEW u \in Acts, SessionStep(u) PROVE AccountTyped'
<1> USE DEF AccountTyped, AccountTypeOK, ActsTyped
<1>1. ASSUME NEW step \in {"signing in", "ending", "setting password", "forgetting"},
             BeginOwn(u, step) \/ BeginOffice(u, step)
      PROVE  AccountTyped'
  BY <1>1, BegunTyped DEF Step, Exchanges
<1>2. ASSUME ActEnds(u) PROVE ActsTyped'
  BY <1>2, ActEnded
<1>3. ASSUME NEW t \in Tokens, t \in Issued PROVE tokens[t] \in Token
  BY <1>3 DEF Issued
<1>4. ASSUME NEW t \in Tokens, StartSession(u, t) PROVE AccountTyped'
  BY <1>2, <1>4, MintTyped DEF StartSession, contactVars, filingVars, erasureVars, Maybe
<1>5. ASSUME NEW t \in Tokens, BeginExchange(u, t) PROVE AccountTyped'
  <2> DEFINE row == [ NoAct EXCEPT !.token = t, !.family = tokens[t].family,
                        !.step = IF tokens[t].consumed THEN "lost" ELSE "exchanging" ]
  <2>1. tokens[t].family \in Tokens
    BY <1>3, <1>5 DEF BeginExchange, Token
  <2>2. row \in ActRecord /\ NamesToken(row)
    BY <2>1 DEF NoAct, ActRecord, Maybe, Step, NamesToken
  <2>3. act' = [ act EXCEPT ![u] = row ]
    BY <1>5 DEF BeginExchange
  <2>4. UNCHANGED << account, contactVars, sessionVars, bucket, filingVars, erasureVars >>
    BY <1>5 DEF BeginExchange
  <2> HIDE DEF row
  <2>5. ActsTyped'
    BY <2>2, <2>3, ActReplaced
  <2> QED BY <2>4, <2>5 DEF contactVars, sessionVars, filingVars, erasureVars
<1>6. ASSUME NEW t \in Tokens, MintNext(u, t) PROVE AccountTyped'
  <2>1. act[u].token \in Tokens /\ act[u].family \in Tokens
    BY <1>6 DEF MintNext, ActAt, NamesToken, Exchanges
  <2>2. ActsTyped'
    BY <1>6, ActMoved DEF MintNext, ActAt, Exchanges, Step
  <2>3. tokens' \in [ Tokens -> Token \cup {Nil} ]
    BY <1>6, <2>1, MintTyped DEF MintNext, Maybe
  <2> QED BY <1>6, <2>2, <2>3 DEF MintNext, contactVars, filingVars, erasureVars
<1>7. CASE Consume(u)
  <2>1. act[u].token \in Tokens /\ act[u].family \in Tokens
    BY <1>7 DEF Consume, ActAt, NamesToken, Exchanges
  <2>2. ActsTyped'
    BY <1>7, ActMoved DEF Consume, ActAt, Exchanges, Step
  <2>3. act[u].token \in Issued => [ tokens[act[u].token] EXCEPT !.consumed = TRUE ] \in Token
    <3>1. \A token \in Token : [ token EXCEPT !.consumed = TRUE ] \in Token
      BY DEF Token
    <3> QED BY <2>1, <1>3, <3>1
  <2>4. tokens' \in [ Tokens -> Token \cup {Nil} ]
    BY <1>7, <2>1, <2>3 DEF Consume
  <2> QED BY <1>7, <2>2, <2>4 DEF Consume, contactVars, filingVars, erasureVars
<1>8. CASE RevokeReplayed(u)
  <2>1. act[u].family \in Tokens
    BY <1>8 DEF RevokeReplayed, ActAt, NamesToken, Exchanges
  <2> QED BY <1>2, <1>8, <2>1, EndTyped DEF RevokeReplayed, contactVars, filingVars, erasureVars
<1>9. CASE AnswerRefresh(u)
  <2>1. act[u].family \in Tokens
    BY <1>9 DEF AnswerRefresh, ActAt, NamesToken, Exchanges
  <2>2. tokens' \in [ Tokens -> Token \cup {Nil} ] /\ ended' \subseteq Tokens
    BY <1>9, <2>1, EndTyped DEF AnswerRefresh
  <2> QED BY <1>2, <1>9, <2>2 DEF AnswerRefresh, contactVars, filingVars, erasureVars
<1>10. CASE EndAllSessions(u)
  <2>1. \A t \in Issued : [ tokens[t] EXCEPT !.revoked = TRUE ] \in Token /\ tokens[t].family \in Tokens
    BY <1>3 DEF Token, Issued
  <2>2. tokens' \in [ Tokens -> Token \cup {Nil} ] /\ ended' \subseteq Tokens
    BY <1>10, <2>1 DEF EndAllSessions
  <2> QED BY <1>2, <1>10, <2>2 DEF EndAllSessions, contactVars, filingVars, erasureVars
<1>11. ASSUME NEW t \in Tokens, SignOut(t) PROVE AccountTyped'
  BY <1>11, EndTyped DEF SignOut, contactVars, filingVars, erasureVars
<1>12. CASE PurgeTokens
  BY <1>12, <1>3 DEF PurgeTokens, contactVars, filingVars, erasureVars
<1>13. CASE IssueTicket(u)
  BY <1>2, <1>13 DEF IssueTicket, contactVars, filingVars, erasureVars
<1>14. ASSUME NEW weak \in BOOLEAN, RedeemTicket(u, weak) PROVE AccountTyped'
  <2>1. ActsTyped'
    BY <1>14, ActMoved DEF RedeemTicket, Step, Exchanges
  <2> QED BY <1>14, <2>1 DEF RedeemTicket, contactVars, filingVars, erasureVars
<1>15. CASE SetPassword(u)
  <2>1. ActsTyped'
    BY <1>2, <1>15, ActMoved DEF SetPassword, Step, Exchanges
  <2>2. [ account EXCEPT !.password = "set" ] \in AccountRow
    BY DEF AccountRow
  <2> QED BY <1>15, <2>1, <2>2 DEF SetPassword, contactVars, sessionVars, filingVars, erasureVars
<1> QED BY <1>1, <1>4, <1>5, <1>6, <1>7, <1>8, <1>9, <1>10, <1>11, <1>12, <1>13, <1>14, <1>15
        DEF SessionStep, SignInStep, RefreshStep, SignOutStep, OfficeSignsOut, RecoverStep, OfficeSendsLink, PasswordStep

LEMMA StandingTyped ==
  ASSUME AccountAssumption, AccountTyped, NEW u \in Acts, StandingStep(u) PROVE AccountTyped'
<1> USE DEF AccountTyped, AccountTypeOK, ActsTyped
<1>1. ASSUME NEW step \in {"disabling", "enabling"}, BeginOffice(u, step) PROVE AccountTyped'
  BY <1>1, BegunTyped DEF Step, Exchanges
<1>2. ASSUME ActEnds(u) PROVE ActsTyped'
  BY <1>2, ActEnded
<1>3. CASE SetDisabled(u)
  <2>1. ActsTyped'
    BY <1>2, <1>3, ActMoved DEF SetDisabled, Step, Exchanges
  <2>2. [ account EXCEPT !.disabled = ActAt(u, "disabling") ] \in AccountRow
    <3>1. ActAt(u, "disabling") \in BOOLEAN
      BY DEF ActAt
    <3> HIDE DEF ActAt
    <3> QED BY <3>1 DEF AccountRow
  <2>3. account' \in AccountRow
    BY <1>3, <2>2 DEF SetDisabled
  <2> QED BY <1>3, <2>1, <2>3 DEF SetDisabled, contactVars, sessionVars, filingVars, erasureVars
<1>4. CASE ActDies(u)
  BY <1>2, <1>4 DEF ActDies, contactVars, sessionVars, filingVars
<1>5. CASE BeginArchive(u)
  <2>1. ActsTyped'
    BY <1>5, ActMoved DEF BeginArchive, Step, Exchanges
  <2> QED BY <1>5, <2>1 DEF BeginArchive, contactVars, sessionVars, filingVars, erasureVars
<1>6. CASE ArchiveCitizen(u)
  <2>1. [ account EXCEPT !.disabled = TRUE, !.archived = TRUE ] \in AccountRow
    BY DEF AccountRow
  <2> QED BY <1>2, <1>6, <2>1 DEF ArchiveCitizen, contactVars, sessionVars, filingVars, erasureVars
<1>7. CASE RestoreCitizen
  <2>1. [ account EXCEPT !.disabled = FALSE, !.archived = FALSE ] \in AccountRow
    BY DEF AccountRow
  <2> QED BY <1>7, <2>1 DEF RestoreCitizen, contactVars, sessionVars, filingVars, erasureVars
<1> QED BY <1>1, <1>3, <1>4, <1>5, <1>6, <1>7 DEF StandingStep

LEMMA PhotoTyped ==
  ASSUME AccountAssumption, AccountTyped, NEW u \in Acts, PhotoStep(u) PROVE AccountTyped'
<1> USE DEF AccountTyped, AccountTypeOK, ActsTyped
<1>1. ASSUME NEW step \in {"choosing photo", "removing photo"}, BeginOwn(u, step) PROVE AccountTyped'
  BY <1>1, BegunTyped DEF Step, Exchanges
<1>2. ASSUME NEW k \in Photos, StorePhoto(u, k) PROVE AccountTyped'
  <2> DEFINE row == [ act[u] EXCEPT !.step = "photo stored", !.photo = k ]
  <2>1. row \in ActRecord /\ NamesToken(row)
    <3>1. \A r \in ActRecord : [ r EXCEPT !.step = "photo stored", !.photo = k ] \in ActRecord
      BY DEF ActRecord, Step, Maybe
    <3>2. row.step = "photo stored"
      BY DEF ActRecord
    <3> QED BY <3>1, <3>2 DEF NamesToken, Exchanges
  <2>2. act' = [ act EXCEPT ![u] = row ]
    BY <1>2 DEF StorePhoto
  <2> HIDE DEF row
  <2>3. ActsTyped'
    BY <2>1, <2>2, ActReplaced
  <2>4. bucket' \subseteq Photos
    BY <1>2 DEF StorePhoto
  <2>5. UNCHANGED << account, contactVars, sessionVars, filingVars, erasureVars >>
    BY <1>2 DEF StorePhoto
  <2> QED BY <2>3, <2>4, <2>5 DEF contactVars, sessionVars, filingVars, erasureVars
<1>3. CASE SavePhoto(u)
  <2>1. ActsTyped'
    BY <1>3, ActMoved DEF SavePhoto, Step, Exchanges
  <2>2. act[u].photo \in Maybe(Photos)
    BY DEF ActRecord
  <2>3. [ account EXCEPT !.photo = act[u].photo ] \in AccountRow
    BY <2>2 DEF AccountRow
  <2> QED BY <1>3, <2>1, <2>3 DEF SavePhoto, contactVars, sessionVars, filingVars, erasureVars
<1>4. ASSUME NEW reached \in BOOLEAN, DropOldPhoto(u, reached) PROVE AccountTyped'
  <2>1. ActsTyped'
    BY <1>4, ActEnded DEF DropOldPhoto
  <2> QED BY <1>4, <2>1 DEF DropOldPhoto, contactVars, sessionVars, filingVars, erasureVars
<1> QED BY <1>1, <1>2, <1>3, <1>4 DEF PhotoStep, RemovesPhoto

LEMMA FilingTyped ==
  ASSUME AccountAssumption, AccountTyped, NEW u \in Acts, FilingStep(u) PROVE AccountTyped'
<1> USE DEF AccountTyped, AccountTypeOK, ActsTyped
<1>1. CASE BeginOwn(u, "filing")
  BY <1>1, BegunTyped DEF Step, Exchanges
<1>2. ASSUME NEW a \in Applications, NEW to \in Rules!LifecycleStatuses, CitizenFiles(u, a, to) PROVE AccountTyped'
  <2>1. ActsTyped'
    BY <1>2, ActEnded DEF CitizenFiles
  <2> QED BY <1>2, <2>1 DEF CitizenFiles, Came, FilingStatus, contactVars, sessionVars, erasureVars
<1>3. ASSUME NEW a \in Applications, NEW to \in Rules!LifecycleStatuses, OfficeMoves(a, to) PROVE AccountTyped'
  BY <1>3 DEF OfficeMoves, Came, FilingStatus, contactVars, sessionVars, erasureVars
<1> QED BY <1>1, <1>2, <1>3 DEF FilingStep

LEMMA ErasureTyped ==
  ASSUME AccountAssumption, AccountTyped, NEW u \in Acts, ErasureStep(u) PROVE AccountTyped'
<1> USE DEF AccountTyped, AccountTypeOK, ActsTyped
<1>1. CASE BeginOwn(u, "erasing") \/ BeginOffice(u, "erasing")
  BY <1>1, BegunTyped DEF Step, Exchanges
<1>2. CASE Erase(u)
  <2>1. CASE account.erased
    <3>1. ActsTyped'
      BY <1>2, <2>1, ActEnded DEF Erase
    <3> QED BY <1>2, <2>1, <3>1 DEF Erase, contactVars, filingVars
  <2>2. CASE ~account.erased
    <3> DEFINE row == [ act[u] EXCEPT !.step = "erased", !.old = account.photo ]
    <3>1. row \in ActRecord /\ NamesToken(row)
      <4>1. account.photo \in Maybe(Photos)
        BY DEF AccountRow
      <4>2. \A r \in ActRecord, k \in Maybe(Photos) : [ r EXCEPT !.step = "erased", !.old = k ] \in ActRecord
        BY DEF ActRecord, Step
      <4>3. row.step = "erased"
        BY DEF ActRecord
      <4> QED BY <4>1, <4>2, <4>3 DEF NamesToken, Exchanges
    <3>2. act' = [ act EXCEPT ![u] = row ]
      BY <1>2, <2>2 DEF Erase
    <3> HIDE DEF row
    <3>3. ActsTyped'
      BY <3>1, <3>2, ActReplaced
    <3>4. [ account EXCEPT !.mobile = Nil, !.password = "erased", !.photo = Nil,
                           !.disabled = TRUE, !.erased = TRUE ] \in AccountRow
      BY DEF AccountRow, Maybe
    <3>5. /\ account' \in AccountRow /\ channel' \in ChannelStatus /\ challenge' \in Challenge \cup {Nil}
          /\ ticket' \in {"none", "live", "used"} /\ receipts' \in Nat
      <4>1. receipts' = receipts + 1 /\ receipts \in Nat
        BY <1>2, <2>2 DEF Erase
      <4>2. account' \in AccountRow /\ challenge' = Nil /\ channel' = "Unverified" /\ ticket' = "none"
        BY <1>2, <2>2, <3>4 DEF Erase
      <4>3. receipts' \in Nat
        BY <4>1
      <4> QED BY <4>2, <4>3 DEF ChannelStatus
    <3>6. tokens' \in [ Tokens -> Token \cup {Nil} ]
      BY <1>2, <2>2 DEF Erase
    <3>7. UNCHANGED << ended, bucket, filings, later, cutShort >>
      BY <1>2 DEF Erase, filingVars
    <3> QED BY <3>3, <3>5, <3>6, <3>7
  <2> QED BY <2>1, <2>2
<1>3. CASE ListOpen(u)
  <2> DEFINE open == { a \in Applications : filings[a] # "none" /\ ~Rules!isTerminal(filings[a]) }
             row == [ act[u] EXCEPT !.step = "withdrawing", !.todo = open ]
  <2>1. open \subseteq Applications
    OBVIOUS
  <2>2. act' = [ act EXCEPT ![u] = row ]
    BY <1>3 DEF ListOpen
  <2> HIDE DEF open
  <2>3. row \in ActRecord /\ NamesToken(row)
    <3>1. \A r \in ActRecord : [ r EXCEPT !.step = "withdrawing", !.todo = open ] \in ActRecord
      BY <2>1 DEF ActRecord, Step
    <3>2. row.step = "withdrawing"
      BY DEF ActRecord
    <3> QED BY <3>1, <3>2 DEF NamesToken, Exchanges
  <2> HIDE DEF row
  <2>4. ActsTyped'
    BY <2>2, <2>3, ActReplaced
  <2>5. UNCHANGED << account, contactVars, sessionVars, bucket, filingVars, erasureVars >>
    BY <1>3 DEF ListOpen
  <2> QED BY <2>4, <2>5 DEF contactVars, sessionVars, filingVars, erasureVars
<1>4. CASE ErasureAnswered(u)
  <2>1. ActsTyped'
    BY <1>4, ActEnded DEF ErasureAnswered
  <2> QED BY <1>4, <2>1 DEF ErasureAnswered, contactVars, sessionVars, filingVars, erasureVars
<1>5. ASSUME NEW reached \in BOOLEAN, ErasePhoto(u, reached) PROVE AccountTyped'
  <2>1. ActsTyped'
    BY <1>5, ActMoved DEF ErasePhoto, Step, Exchanges
  <2> QED BY <1>5, <2>1 DEF ErasePhoto, contactVars, sessionVars, filingVars, erasureVars
<1>6. ASSUME NEW a \in Applications, Withdraw(u, a) PROVE AccountTyped'
  <2> DEFINE row == [ act[u] EXCEPT !.todo = @ \ {a} ]
  <2>1. row \in ActRecord /\ NamesToken(row)
    BY DEF ActRecord, NamesToken
  <2>2. act' = [ act EXCEPT ![u] = row ]
    BY <1>6 DEF Withdraw
  <2> HIDE DEF row
  <2>3. ActsTyped'
    BY <2>1, <2>2, ActReplaced
  <2>4. filings' \in [ Applications -> FilingStatus ]
    BY <1>6 DEF Withdraw, FilingStatus, Rules!LifecycleStatuses
  <2> QED BY <1>6, <2>3, <2>4 DEF Withdraw, contactVars, sessionVars, erasureVars
<1> QED BY <1>1, <1>2, <1>3, <1>4, <1>5, <1>6 DEF ErasureStep, EraseStep, OfficeErases

LEMMA AccountStaysTyped ==
  ASSUME AccountAssumption, AccountTyped, [AccountNext]_accountVars PROVE AccountTyped'
<1>1. CASE UNCHANGED accountVars
  BY <1>1 DEF AccountTyped, AccountTypeOK, ActsTyped, accountVars
<1>2. CASE AccountNext
  BY <1>2, ContactTyped, SessionTyped, StandingTyped, PhotoTyped, FilingTyped, ErasureTyped
     DEF AccountNext
<1> QED BY <1>1, <1>2

LEMMA AccountTypedAtFirst == ASSUME AccountAssumption, AccountInit PROVE AccountTyped
<1>1. NoAct \in ActRecord /\ NamesToken(NoAct)
  BY DEF NoAct, ActRecord, Maybe, Step, NamesToken, Exchanges
<1>2. ActsTyped
  BY <1>1 DEF AccountInit, ActsTyped
<1>3. account \in AccountRow
  <2>1. PICK n \in Maybe(Numbers) :
          account = [ mobile |-> n, verified |-> Nil, password |-> "set", photo |-> Nil,
                      disabled |-> FALSE, erased |-> FALSE, archived |-> FALSE ]
    BY DEF AccountInit
  <2> QED BY <2>1 DEF AccountRow, Maybe
<1>4. tokens \in [ Tokens -> Token \cup {Nil} ] /\ filings \in [ Applications -> FilingStatus ]
  BY DEF AccountInit, FilingStatus
<1> QED BY <1>2, <1>3, <1>4 DEF AccountInit, AccountTyped, AccountTypeOK, ActsTyped, ChannelStatus

-----------------------------------------------------------------------------
\* WHAT THE ACCOUNT SAYS OF ITSELF

\* While the account lives, the code outstanding was sent to the number it has.
SentToIt == ~account.erased /\ challenge # Nil => challenge.sent = account.mobile

AccountSound == VerifiedWasProven /\ SentToIt /\ ErasedStaysErased

LEMMA SoundUntouched ==
  ASSUME AccountSound, UNCHANGED << account, challenge, receipts >> PROVE AccountSound'
BY DEF AccountSound, VerifiedWasProven, SentToIt, ErasedStaysErased

\* A statement that writes the row of a living account or what the check lets
\* it write of an erased one, and neither of its number and the code.
LEMMA SoundElsewhere ==
  ASSUME AccountTyped, AccountSound, UNCHANGED << challenge, receipts >>, Allows(account'),
         account'.erased = account.erased, account'.mobile = account.mobile,
         account'.verified = account.verified
  PROVE  AccountSound'
BY DEF AccountSound, VerifiedWasProven, SentToIt, ErasedStaysErased, Allows

LEMMA ContactSound ==
  ASSUME AccountAssumption, AccountTyped, AccountSound, NEW u \in Acts, ContactStep(u) PROVE AccountSound'
<1>1. ASSUME NEW step, BeginOwn(u, step) \/ BeginOffice(u, step) PROVE AccountSound'
  BY <1>1, SoundUntouched DEF BeginOwn, BeginOffice, contactVars, erasureVars
<1>2. CASE RequestCode(u)
  <2>1. UNCHANGED << account, receipts >>
        /\ challenge' \in {challenge, [ sent |-> account.mobile, attempts |-> 0 ]}
    BY <1>2 DEF RequestCode, contactVars, erasureVars
  <2> QED BY <2>1 DEF AccountSound, VerifiedWasProven, SentToIt, ErasedStaysErased
<1>3. CASE ConfirmExpired(u)
  BY <1>3 DEF ConfirmExpired, erasureVars, AccountSound, VerifiedWasProven, SentToIt, ErasedStaysErased
<1>4. ASSUME NEW right \in BOOLEAN, ConfirmCode(u, right) PROVE AccountSound'
  <2>1. receipts' = receipts
    BY <1>4 DEF ConfirmCode, erasureVars
  <2>2. CASE challenge = Nil
    BY <1>4, <2>1, <2>2, SoundUntouched DEF ConfirmCode, contactVars
  <2>3. CASE challenge # Nil /\ right
    <3>1. challenge' = Nil /\ account' = [ account EXCEPT !.verified = challenge.sent ]
      BY <1>4, <2>3 DEF ConfirmCode
    <3>2. /\ account'.erased = account.erased /\ account'.mobile = account.mobile
          /\ account'.password = account.password /\ account'.disabled = account.disabled
          /\ account'.verified = challenge.sent
      BY <3>1 DEF AccountTyped, AccountTypeOK, AccountRow
    <3> QED BY <2>1, <2>3, <3>1, <3>2
            DEF AccountSound, VerifiedWasProven, SentToIt, ErasedStaysErased
  <2>4. CASE challenge # Nil /\ ~right
    <3>1. account' = account /\ (challenge' = Nil \/ challenge' = [ challenge EXCEPT !.attempts = @ + 1 ])
      BY <1>4, <2>4 DEF ConfirmCode
    <3>2. challenge' # Nil => challenge'.sent = challenge.sent
      BY <2>4, <3>1 DEF AccountTyped, AccountTypeOK, Challenge
    <3> QED BY <2>1, <2>4, <3>1, <3>2
            DEF AccountSound, VerifiedWasProven, SentToIt, ErasedStaysErased
  <2> QED BY <2>2, <2>3, <2>4
<1>5. ASSUME NEW n \in Numbers, Rectify(u, n) PROVE AccountSound'
  <2> DEFINE row == [ account EXCEPT !.mobile = n, !.verified = Nil ]
  <2>1. receipts' = receipts
    BY <1>5 DEF Rectify, erasureVars
  <2>2. CASE n # account.mobile /\ Allows(row)
    <3>1. account' = row /\ challenge' = Nil
      BY <1>5, <2>2 DEF Rectify
    <3>2. /\ row.erased = account.erased /\ row.verified = Nil /\ row.mobile = n
          /\ row.password = account.password /\ row.disabled = account.disabled
      BY DEF AccountTyped, AccountTypeOK, AccountRow
    <3>3. ~account.erased
      BY <2>2, <3>2 DEF Allows, AccountAssumption
    <3> HIDE DEF row
    <3> QED BY <2>1, <3>1, <3>2, <3>3 DEF AccountSound, VerifiedWasProven, SentToIt, ErasedStaysErased
  <2>3. CASE ~(n # account.mobile /\ Allows(row))
    BY <1>5, <2>1, <2>3, SoundUntouched DEF Rectify
  <2> QED BY <2>2, <2>3
<1> QED BY <1>1, <1>2, <1>3, <1>4, <1>5 DEF ContactStep, VerifyStep, CorrectStep, OfficeCorrects

LEMMA SessionSound ==
  ASSUME AccountAssumption, AccountTyped, AccountSound, NEW u \in Acts, SessionStep(u) PROVE AccountSound'
<1>1. ASSUME NEW step, BeginOwn(u, step) \/ BeginOffice(u, step) PROVE AccountSound'
  BY <1>1, SoundUntouched DEF BeginOwn, BeginOffice, contactVars, erasureVars
<1>2. ASSUME NEW t, StartSession(u, t) \/ BeginExchange(u, t) \/ MintNext(u, t) \/ SignOut(t) PROVE AccountSound'
  BY <1>2, SoundUntouched DEF StartSession, BeginExchange, MintNext, SignOut, contactVars, erasureVars
<1>3. CASE Consume(u) \/ RevokeReplayed(u) \/ AnswerRefresh(u) \/ EndAllSessions(u) \/ PurgeTokens
  BY <1>3, SoundUntouched DEF Consume, RevokeReplayed, AnswerRefresh, EndAllSessions, PurgeTokens,
     contactVars, erasureVars
<1>4. ASSUME NEW weak, IssueTicket(u) \/ RedeemTicket(u, weak) PROVE AccountSound'
  BY <1>4, SoundUntouched DEF IssueTicket, RedeemTicket, contactVars, erasureVars
<1>5. CASE SetPassword(u)
  <2> DEFINE row == [ account EXCEPT !.password = "set" ]
  <2>1. UNCHANGED << challenge, receipts >> /\ (account' = account \/ (Allows(row) /\ account' = row))
    BY <1>5 DEF SetPassword, contactVars, erasureVars
  <2>2. row.erased = account.erased /\ row.mobile = account.mobile /\ row.verified = account.verified
    BY DEF AccountTyped, AccountTypeOK, AccountRow
  <2> HIDE DEF row
  <2> QED BY <2>1, <2>2, SoundUntouched, SoundElsewhere
<1> QED BY <1>1, <1>2, <1>3, <1>4, <1>5
        DEF SessionStep, SignInStep, RefreshStep, SignOutStep, OfficeSignsOut, RecoverStep, OfficeSendsLink, PasswordStep

LEMMA StandingSound ==
  ASSUME AccountAssumption, AccountTyped, AccountSound, NEW u \in Acts, StandingStep(u) PROVE AccountSound'
<1>1. ASSUME NEW step, BeginOffice(u, step) PROVE AccountSound'
  BY <1>1, SoundUntouched DEF BeginOffice, contactVars, erasureVars
<1>2. CASE ActDies(u) \/ BeginArchive(u)
  BY <1>2, SoundUntouched DEF ActDies, BeginArchive, contactVars, erasureVars
<1>3. CASE SetDisabled(u)
  <2> DEFINE row == [ account EXCEPT !.disabled = ActAt(u, "disabling") ]
  <2>1. UNCHANGED << challenge, receipts >> /\ (account' = account \/ (Allows(row) /\ account' = row))
    BY <1>3 DEF SetDisabled, contactVars, erasureVars
  <2>2. row.erased = account.erased /\ row.mobile = account.mobile /\ row.verified = account.verified
    BY DEF AccountTyped, AccountTypeOK, AccountRow
  <2> HIDE DEF row
  <2> QED BY <2>1, <2>2, SoundUntouched, SoundElsewhere
<1>4. CASE ArchiveCitizen(u)
  <2>1. UNCHANGED << challenge, receipts >> /\ account' = [ account EXCEPT !.disabled = TRUE, !.archived = TRUE ]
    BY <1>4 DEF ArchiveCitizen, contactVars, erasureVars
  <2>2. /\ account'.erased = account.erased /\ account'.mobile = account.mobile
        /\ account'.verified = account.verified /\ account'.password = account.password /\ account'.disabled
    BY <2>1 DEF AccountTyped, AccountTypeOK, AccountRow
  <2>3. Allows(account')
    BY <2>2 DEF Allows, AccountSound, ErasedStaysErased
  <2> QED BY <2>1, <2>2, <2>3, SoundElsewhere
<1>5. CASE RestoreCitizen
  <2>1. /\ UNCHANGED << challenge, receipts >> /\ ~account.erased
        /\ account' = [ account EXCEPT !.disabled = FALSE, !.archived = FALSE ]
    BY <1>5 DEF RestoreCitizen, contactVars, erasureVars
  <2>2. /\ account'.erased = account.erased /\ account'.mobile = account.mobile
        /\ account'.verified = account.verified
    BY <2>1 DEF AccountTyped, AccountTypeOK, AccountRow
  <2>3. Allows(account')
    BY <2>1, <2>2 DEF Allows
  <2> QED BY <2>1, <2>2, <2>3, SoundElsewhere
<1> QED BY <1>1, <1>2, <1>3, <1>4, <1>5 DEF StandingStep

LEMMA PhotoSound ==
  ASSUME AccountAssumption, AccountTyped, AccountSound, NEW u \in Acts, PhotoStep(u) PROVE AccountSound'
<1>1. ASSUME NEW step, BeginOwn(u, step) PROVE AccountSound'
  BY <1>1, SoundUntouched DEF BeginOwn, contactVars, erasureVars
<1>2. ASSUME NEW k, StorePhoto(u, k) \/ DropOldPhoto(u, k) PROVE AccountSound'
  BY <1>2, SoundUntouched DEF StorePhoto, DropOldPhoto, contactVars, erasureVars
<1>3. CASE SavePhoto(u)
  <2>1. UNCHANGED << challenge, receipts >> /\ account' = [ account EXCEPT !.photo = act[u].photo ]
    BY <1>3 DEF SavePhoto, contactVars, erasureVars
  <2>2. /\ account'.erased = account.erased /\ account'.mobile = account.mobile
        /\ account'.verified = account.verified /\ account'.password = account.password
        /\ account'.disabled = account.disabled
    BY <2>1 DEF AccountTyped, AccountTypeOK, AccountRow
  <2>3. Allows(account')
    BY <2>2 DEF Allows, AccountSound, ErasedStaysErased
  <2> QED BY <2>1, <2>2, <2>3, SoundElsewhere
<1> QED BY <1>1, <1>2, <1>3 DEF PhotoStep, RemovesPhoto

LEMMA ErasureSound ==
  ASSUME AccountAssumption, AccountTyped, AccountSound, NEW u \in Acts, ErasureStep(u) PROVE AccountSound'
<1>1. ASSUME NEW step, BeginOwn(u, step) \/ BeginOffice(u, step) PROVE AccountSound'
  BY <1>1, SoundUntouched DEF BeginOwn, BeginOffice, contactVars, erasureVars
<1>2. CASE Erase(u)
  <2>1. CASE account.erased
    BY <1>2, <2>1, SoundUntouched DEF Erase, contactVars
  <2>2. CASE ~account.erased
    <3>1. /\ account' = [ account EXCEPT !.mobile = Nil, !.password = "erased", !.photo = Nil,
                                         !.disabled = TRUE, !.erased = TRUE ]
          /\ challenge' = Nil /\ receipts' = receipts + 1
      BY <1>2, <2>2 DEF Erase
    <3>2. account'.mobile = Nil /\ account'.password = "erased" /\ account'.disabled /\ account'.erased
      BY <3>1 DEF AccountTyped, AccountTypeOK, AccountRow
    <3> QED BY <2>2, <3>1, <3>2 DEF AccountSound, VerifiedWasProven, SentToIt, ErasedStaysErased
  <2> QED BY <2>1, <2>2
<1>3. CASE ListOpen(u) \/ ErasureAnswered(u)
  BY <1>3, SoundUntouched DEF ListOpen, ErasureAnswered, contactVars, erasureVars
<1>4. ASSUME NEW x, ErasePhoto(u, x) \/ Withdraw(u, x) PROVE AccountSound'
  BY <1>4, SoundUntouched DEF ErasePhoto, Withdraw, contactVars, erasureVars
<1> QED BY <1>1, <1>2, <1>3, <1>4 DEF ErasureStep, EraseStep, OfficeErases

LEMMA FilingSound ==
  ASSUME AccountTyped, AccountSound, NEW u \in Acts, FilingStep(u) PROVE AccountSound'
<1>1. ASSUME NEW step, BeginOwn(u, step) PROVE AccountSound'
  BY <1>1, SoundUntouched DEF BeginOwn, contactVars, erasureVars
<1>2. ASSUME NEW a, NEW to, CitizenFiles(u, a, to) \/ OfficeMoves(a, to) PROVE AccountSound'
  BY <1>2, SoundUntouched DEF CitizenFiles, OfficeMoves, contactVars, erasureVars
<1> QED BY <1>1, <1>2 DEF FilingStep

LEMMA AccountStaysSound ==
  ASSUME AccountAssumption, AccountTyped, AccountSound, [AccountNext]_accountVars PROVE AccountSound'
<1>1. CASE UNCHANGED accountVars
  BY <1>1, SoundUntouched DEF accountVars
<1>2. CASE AccountNext
  BY <1>2, ContactSound, SessionSound, StandingSound, PhotoSound, FilingSound, ErasureSound
     DEF AccountNext
<1> QED BY <1>1, <1>2

-----------------------------------------------------------------------------
\* ONE TOKEN FOR ANOTHER

Parent(c) == tokens[c].parent
Won(u) == act[u].step = "won"

\* A request that won its exchange is the only one to mint for its token, and
\* nothing was minted for it yet.
Claims ==
  \A u \in Acts : Won(u) =>
    /\ act[u].token \in Issued => tokens[act[u].token].consumed
    /\ \A c \in Issued : Parent(c) # act[u].token
    /\ \A v \in Acts \ {u} : Won(v) => act[v].token # act[u].token

\* What was exchanged stays consumed for as long as it is kept.
Consumed == \A c \in Issued : Parent(c) \in Issued => tokens[Parent(c)].consumed

Exchanged == Claims /\ Consumed /\ OneExchange

\* Sessions end, tokens are purged, requests begin and end: no token is minted
\* or made good again, and nobody wins.
LEMMA ExchangedThins ==
  ASSUME AccountTyped, Exchanged, Issued' \subseteq Issued,
         \A c \in Issued' : /\ tokens'[c].parent = tokens[c].parent
                            /\ tokens'[c].consumed = tokens[c].consumed,
         \A u \in Acts : act'[u].step = "won" => act'[u] = act[u]
  PROVE  Exchanged'
<1>1. Claims'
  <2> SUFFICES ASSUME NEW u \in Acts, act'[u].step = "won"
               PROVE  /\ act'[u].token \in Issued' => tokens'[act'[u].token].consumed
                      /\ \A c \in Issued' : tokens'[c].parent # act'[u].token
                      /\ \A v \in Acts \ {u} : act'[v].step = "won" => act'[v].token # act'[u].token
    BY DEF Claims, Won, Parent
  <2>1. act'[u] = act[u] /\ Won(u)
    BY DEF Won
  <2>2. /\ act[u].token \in Issued => tokens[act[u].token].consumed
        /\ \A c \in Issued : tokens[c].parent # act[u].token
        /\ \A v \in Acts \ {u} : Won(v) => act[v].token # act[u].token
    BY <2>1 DEF Exchanged, Claims, Parent
  <2>3. \A v \in Acts \ {u} : act'[v].step = "won" => act'[v].token # act'[u].token
    BY <2>1, <2>2 DEF Won
  <2> QED BY <2>1, <2>2, <2>3
<1>2. Consumed'
  BY DEF Exchanged, Consumed, Parent
<1>3. OneExchange'
  BY DEF Exchanged, OneExchange
<1> QED BY <1>1, <1>2, <1>3 DEF Exchanged

LEMMA ExchangedUntouched ==
  ASSUME AccountTyped, Exchanged, UNCHANGED tokens,
         \A u \in Acts : act'[u].step = "won" => act'[u] = act[u]
  PROVE  Exchanged'
<1>1. Issued' = Issued
  BY DEF Issued
<1> QED BY <1>1, ExchangedThins

\* How the requests move: one at a time.
LEMMA OthersWait ==
  ASSUME AccountTyped, NEW u \in Acts, NEW row, row.step # "won",
         act' = [ act EXCEPT ![u] = row ]
  PROVE  \A v \in Acts : act'[v].step = "won" => act'[v] = act[v]
BY DEF AccountTyped, ActsTyped

LEMMA OthersWaitMoved ==
  ASSUME AccountTyped, NEW u \in Acts, NEW step, step # "won", ActGoes(u, step)
  PROVE  \A v \in Acts : act'[v].step = "won" => act'[v] = act[v]
BY DEF AccountTyped, ActsTyped, ActGoes, ActRecord

LEMMA OthersWaitEnded ==
  ASSUME AccountTyped, NEW u \in Acts, ActEnds(u)
  PROVE  \A v \in Acts : act'[v].step = "won" => act'[v] = act[v]
BY DEF AccountTyped, ActsTyped, ActEnds, NoAct

LEMMA OthersWaitBegun ==
  ASSUME AccountTyped, NEW u \in Acts, NEW step, step # "won", BeginOwn(u, step) \/ BeginOffice(u, step)
  PROVE  UNCHANGED tokens /\ \A v \in Acts : act'[v].step = "won" => act'[v] = act[v]
<1>1. UNCHANGED tokens
  BY DEF BeginOwn, BeginOffice, sessionVars
<1>2. CASE BeginOwn(u, step)
  BY <1>1, <1>2 DEF BeginOwn, NoAct, AccountTyped, ActsTyped
<1>3. CASE BeginOffice(u, step)
  BY <1>1, <1>3, OthersWaitMoved DEF BeginOffice
<1> QED BY <1>2, <1>3

\* The rows of refresh_tokens that stay are what they were, but for being good.
Revoked ==
  \A t \in Tokens : tokens'[t] # Nil =>
    t \in Issued /\ tokens'[t].parent = tokens[t].parent /\ tokens'[t].consumed = tokens[t].consumed

LEMMA RevokedThins ==
  ASSUME AccountTyped, Exchanged, Revoked, \A u \in Acts : act'[u].step = "won" => act'[u] = act[u]
  PROVE  Exchanged'
<1>1. Issued' \subseteq Issued
  BY DEF Issued, Revoked
<1>2. \A c \in Issued' : tokens'[c].parent = tokens[c].parent /\ tokens'[c].consumed = tokens[c].consumed
  BY DEF Issued, Revoked
<1> QED BY <1>1, <1>2, ExchangedThins

LEMMA RowRevoked ==
  ASSUME AccountTyped, NEW t \in Issued
  PROVE  [ tokens[t] EXCEPT !.revoked = TRUE ].parent = tokens[t].parent
         /\ [ tokens[t] EXCEPT !.revoked = TRUE ].consumed = tokens[t].consumed
BY DEF Issued, AccountTyped, AccountTypeOK, Token

LEMMA EndRevokes == ASSUME AccountTyped, NEW family, EndSession(family) PROVE Revoked
<1>1. ASSUME NEW t \in Tokens, tokens'[t] # Nil
      PROVE  t \in Issued /\ tokens'[t] \in {tokens[t], [ tokens[t] EXCEPT !.revoked = TRUE ]}
  BY <1>1 DEF EndSession, Issued
<1> QED BY <1>1, RowRevoked DEF Revoked

\* markConsumed: the only one to have read the token unconsumed and still to
\* find it so.
LEMMA ConsumeExchanged ==
  ASSUME AccountTyped, Exchanged, NEW u \in Acts, Consume(u) PROVE Exchanged'
<1> DEFINE t == act[u].token
<1>1. t \in Tokens /\ act[u] \in ActRecord /\ ~Won(u)
  BY DEF Consume, ActAt, AccountTyped, ActsTyped, NamesToken, Exchanges, Won
<1>2. CASE ~(t \in Issued /\ ~tokens[t].consumed)
  <2>1. UNCHANGED tokens /\ ActGoes(u, "lost")
    BY <1>2 DEF Consume
  <2> QED BY <2>1, OthersWaitMoved, ExchangedUntouched
<1>3. CASE t \in Issued /\ ~tokens[t].consumed
  <2>1. tokens' = [ tokens EXCEPT ![t].consumed = TRUE ] /\ ActGoes(u, "won")
    BY <1>3 DEF Consume
  <2>2. \A row \in Token : /\ [ row EXCEPT !.consumed = TRUE ].parent = row.parent
                           /\ [ row EXCEPT !.consumed = TRUE ].consumed
    BY DEF Token
  <2>3. tokens[t] \in Token
    BY <1>1, <1>3 DEF Issued, AccountTyped, AccountTypeOK
  <2>4. \A c \in Tokens \ {t} : tokens'[c] = tokens[c]
    BY <2>1 DEF AccountTyped, AccountTypeOK
  <2>5. tokens'[t].parent = tokens[t].parent /\ tokens'[t].consumed
    BY <1>1, <2>1, <2>2, <2>3 DEF AccountTyped, AccountTypeOK
  <2>6. Issued' \subseteq Issued
    BY <1>1, <1>3, <2>4 DEF Issued
  <2>7. \A c \in Issued' : /\ tokens'[c].parent = tokens[c].parent
                           /\ tokens[c].consumed => tokens'[c].consumed
    <3> TAKE c \in Issued'
    <3>1. CASE c = t
      BY <2>5, <3>1
    <3>2. CASE c # t
      BY <2>4, <2>6, <3>2 DEF Issued
    <3> QED BY <3>1, <3>2
  <2>8. act'[u].step = "won" /\ act'[u].token = t /\ \A v \in Acts \ {u} : act'[v] = act[v]
    BY <1>1, <2>1 DEF ActGoes, AccountTyped, ActsTyped, ActRecord
  <2>9. \A v \in Acts \ {u} : Won(v) => act[v].token # t
    BY <1>3 DEF Exchanged, Claims
  <2>10. \A c \in Issued : Parent(c) # t
    BY <1>3 DEF Exchanged, Consumed
  <2>11. Claims'
    <3> SUFFICES ASSUME NEW w \in Acts, act'[w].step = "won"
                 PROVE  /\ act'[w].token \in Issued' => tokens'[act'[w].token].consumed
                        /\ \A c \in Issued' : tokens'[c].parent # act'[w].token
                        /\ \A v \in Acts \ {w} : act'[v].step = "won" => act'[v].token # act'[w].token
      BY DEF Claims, Won, Parent
    <3>1. CASE w = u
      BY <2>5, <2>6, <2>7, <2>8, <2>9, <2>10, <3>1 DEF Won, Parent
    <3>2. CASE w # u
      <4>1. act'[w] = act[w] /\ Won(w)
        BY <2>8, <3>2 DEF Won
      <4>2. /\ act[w].token \in Issued => tokens[act[w].token].consumed
            /\ \A c \in Issued : tokens[c].parent # act[w].token
            /\ \A v \in Acts \ {w} : Won(v) => act[v].token # act[w].token
        BY <4>1 DEF Exchanged, Claims, Parent
      <4>3. \A v \in Acts \ {w} : act'[v].step = "won" => act'[v].token # act'[w].token
        BY <2>8, <2>9, <4>1, <4>2 DEF Won
      <4> QED BY <2>6, <2>7, <4>1, <4>2, <4>3
    <3> QED BY <3>1, <3>2
  <2>12. Consumed'
    BY <2>6, <2>7 DEF Exchanged, Consumed, Parent
  <2>13. OneExchange'
    BY <2>6, <2>7 DEF Exchanged, OneExchange
  <2> QED BY <2>11, <2>12, <2>13 DEF Exchanged
<1> QED BY <1>2, <1>3

\* A row of its own for a token nobody knows, with the parent it is minted for.
LEMMA MintExchanged ==
  ASSUME AccountAssumption, AccountTyped, Exchanged, NEW t \in FreshTokens, NEW family, NEW parent,
         Mint(t, family, parent), parent \in Maybe(Tokens),
         parent # Nil => parent # t,
         \A u \in Acts : act'[u].step = "won" => act'[u] = act[u] /\ act[u].token # parent,
         \/ parent = Nil
         \/ \E u \in Acts : Won(u) /\ act[u].token = parent
  PROVE  Exchanged'
<1> DEFINE row == [ family |-> family, parent |-> parent, consumed |-> FALSE, revoked |-> FALSE ]
<1>1. /\ t \in Tokens /\ t \notin Issued
      /\ \A c \in Issued : tokens[c].parent # t
      /\ \A u \in Acts : act[u].token # t
  BY DEF FreshTokens
<1>2. \A c \in Tokens : tokens'[c] = IF c = t THEN row ELSE tokens[c]
  BY DEF Mint, AccountTyped, AccountTypeOK
<1>3. row.parent = parent
  OBVIOUS
<1> HIDE DEF row
<1>4. \A c \in Issued' : c # t => c \in Issued /\ tokens'[c] = tokens[c]
  BY <1>2 DEF Issued
<1>5. tokens'[t].parent = parent
  BY <1>1, <1>2, <1>3
<1>6. Nil \notin Tokens
  BY DEF AccountAssumption
<1>7. parent # Nil => /\ \A c \in Issued : tokens[c].parent # parent
                      /\ parent \in Issued => tokens[parent].consumed
  BY DEF Exchanged, Claims, Parent
<1>8. Claims'
  <2> SUFFICES ASSUME NEW w \in Acts, act'[w].step = "won"
               PROVE  /\ act'[w].token \in Issued' => tokens'[act'[w].token].consumed
                      /\ \A c \in Issued' : tokens'[c].parent # act'[w].token
                      /\ \A v \in Acts \ {w} : act'[v].step = "won" => act'[v].token # act'[w].token
    BY DEF Claims, Won, Parent
  <2>1. act'[w] = act[w] /\ Won(w) /\ act[w].token # parent
    BY DEF Won
  <2>2. /\ act[w].token \in Issued => tokens[act[w].token].consumed
        /\ \A c \in Issued : tokens[c].parent # act[w].token
        /\ \A v \in Acts \ {w} : Won(v) => act[v].token # act[w].token
    BY <2>1 DEF Exchanged, Claims, Parent
  <2>3. \A v \in Acts \ {w} : act'[v].step = "won" => act'[v].token # act'[w].token
    BY <2>1, <2>2 DEF Won
  <2>4. act[w].token # t
    BY <1>1
  <2>5. \A c \in Issued' : tokens'[c].parent # act[w].token
    BY <1>4, <1>5, <2>1, <2>2
  <2> QED BY <1>4, <2>1, <2>2, <2>3, <2>4, <2>5
<1>9. Consumed'
  <2> SUFFICES ASSUME NEW c \in Issued', tokens'[c].parent \in Issued'
               PROVE  tokens'[tokens'[c].parent].consumed
    BY DEF Consumed, Parent
  <2>1. tokens'[c].parent \in Tokens
    BY DEF Issued
  <2>2. CASE c = t
    <3>1. parent \in Tokens /\ parent # Nil /\ parent # t /\ parent \in Issued'
      BY <1>5, <1>6, <2>1, <2>2
    <3>2. parent \in Issued /\ tokens'[parent] = tokens[parent]
      BY <1>4, <3>1
    <3>3. tokens[parent].consumed
      BY <1>7, <3>1, <3>2
    <3> QED BY <1>5, <2>2, <3>2, <3>3
  <2>3. CASE c # t
    <3>1. c \in Issued /\ tokens'[c].parent = tokens[c].parent /\ tokens[c].parent # t
      BY <1>1, <1>4, <2>3
    <3> QED BY <1>4, <3>1 DEF Exchanged, Consumed, Parent
  <2> QED BY <2>2, <2>3
<1>10. OneExchange'
  <2> SUFFICES ASSUME NEW p \in Issued', NEW q \in Issued', tokens'[p].parent # Nil,
                      tokens'[p].parent = tokens'[q].parent
               PROVE  p = q
    BY DEF OneExchange
  <2>1. CASE p # t /\ q # t
    BY <1>4, <2>1 DEF Exchanged, OneExchange
  <2>2. ASSUME NEW c \in Issued', c # t, tokens'[c].parent = parent PROVE parent = Nil
    BY <1>4, <1>7, <2>2
  <2>3. CASE p = t /\ q # t
    BY <1>5, <2>2, <2>3
  <2>4. CASE q = t /\ p # t
    BY <1>5, <2>2, <2>4
  <2> QED BY <2>1, <2>3, <2>4
<1> QED BY <1>8, <1>9, <1>10 DEF Exchanged

LEMMA MintNextExchanged ==
  ASSUME AccountAssumption, AccountTyped, Exchanged, NEW u \in Acts, NEW t \in Tokens, MintNext(u, t)
  PROVE  Exchanged'
<1>1. /\ Won(u) /\ t \in FreshTokens /\ Mint(t, act[u].family, act[u].token)
      /\ ActGoes(u, "minted")
  BY DEF MintNext, ActAt, Won
<1>2. act[u].token \in Tokens /\ act[u].token # t
  BY <1>1 DEF AccountTyped, ActsTyped, NamesToken, Exchanges, Won, FreshTokens
<1>3. \A v \in Acts : act'[v].step = "won" => act'[v] = act[v]
  BY <1>1, OthersWaitMoved
<1>4. \A v \in Acts : act'[v].step = "won" => v # u
  BY <1>1 DEF ActGoes, AccountTyped, ActsTyped, ActRecord
<1>5. \A v \in Acts : act'[v].step = "won" => act[v].token # act[u].token
  BY <1>1, <1>3, <1>4 DEF Exchanged, Claims, Won
<1> QED BY <1>1, <1>2, <1>3, <1>5, MintExchanged DEF Maybe

LEMMA StartExchanged ==
  ASSUME AccountAssumption, AccountTyped, Exchanged, NEW u \in Acts, NEW t \in Tokens, StartSession(u, t)
  PROVE  Exchanged'
<1>1. t \in FreshTokens /\ Mint(t, t, Nil)
  BY DEF StartSession
<1>2. \A v \in Acts : act'[v].step = "won" => act'[v] = act[v]
  BY OthersWaitEnded DEF StartSession
<1>3. \A v \in Acts : act'[v].step = "won" => act[v].token # Nil
  BY <1>2 DEF AccountTyped, ActsTyped, NamesToken, Exchanges, AccountAssumption
<1> QED BY <1>1, <1>2, <1>3, MintExchanged DEF Maybe

LEMMA SessionExchanged ==
  ASSUME AccountAssumption, AccountTyped, Exchanged, NEW u \in Acts, SessionStep(u) PROVE Exchanged'
<1>1. ASSUME NEW step \in {"signing in", "ending", "setting password", "forgetting"},
             BeginOwn(u, step) \/ BeginOffice(u, step)
      PROVE  Exchanged'
  BY <1>1, OthersWaitBegun, ExchangedUntouched
<1>2. ASSUME NEW t \in Tokens, BeginExchange(u, t) PROVE Exchanged'
  <2>1. UNCHANGED tokens
    BY <1>2 DEF BeginExchange, sessionVars
  <2>2. \A v \in Acts : act'[v].step = "won" => act'[v] = act[v]
    BY <1>2 DEF BeginExchange, NoAct, AccountTyped, ActsTyped
  <2> QED BY <2>1, <2>2, ExchangedUntouched
<1>3. CASE RevokeReplayed(u)
  BY <1>3, EndRevokes, OthersWaitEnded, RevokedThins DEF RevokeReplayed
<1>4. CASE AnswerRefresh(u)
  <2>1. CASE account.disabled
    BY <1>4, <2>1, EndRevokes, OthersWaitEnded, RevokedThins DEF AnswerRefresh
  <2>2. CASE ~account.disabled
    BY <1>4, <2>2, OthersWaitEnded, ExchangedUntouched DEF AnswerRefresh
  <2> QED BY <2>1, <2>2
<1>5. CASE EndAllSessions(u)
  <2>1. \A t \in Tokens : tokens'[t] # Nil =>
          t \in Issued /\ tokens'[t] = [ tokens[t] EXCEPT !.revoked = TRUE ]
    BY <1>5 DEF EndAllSessions
  <2>2. Revoked
    BY <2>1, RowRevoked DEF Revoked
  <2> QED BY <1>5, <2>2, OthersWaitEnded, RevokedThins DEF EndAllSessions
<1>6. ASSUME NEW t \in Tokens, SignOut(t) PROVE Exchanged'
  BY <1>6, EndRevokes, RevokedThins DEF SignOut
<1>7. CASE PurgeTokens
  <2>1. \A t \in Tokens : tokens'[t] # Nil => t \in Issued /\ tokens'[t] = tokens[t]
    BY <1>7 DEF PurgeTokens
  <2>2. Revoked /\ act' = act
    BY <1>7, <2>1 DEF PurgeTokens, Revoked
  <2> QED BY <2>2, RevokedThins
<1>8. CASE IssueTicket(u)
  BY <1>8, OthersWaitEnded, ExchangedUntouched DEF IssueTicket
<1>9. ASSUME NEW weak \in BOOLEAN, RedeemTicket(u, weak) PROVE Exchanged'
  BY <1>9, OthersWaitMoved, ExchangedUntouched DEF RedeemTicket
<1>10. CASE SetPassword(u)
  BY <1>10, OthersWaitMoved, OthersWaitEnded, ExchangedUntouched DEF SetPassword, sessionVars
<1> QED BY <1>1, <1>2, <1>3, <1>4, <1>5, <1>6, <1>7, <1>8, <1>9, <1>10,
           StartExchanged, MintNextExchanged, ConsumeExchanged
        DEF SessionStep, SignInStep, RefreshStep, SignOutStep, OfficeSignsOut, RecoverStep,
            OfficeSendsLink, PasswordStep

LEMMA ContactExchanged ==
  ASSUME AccountTyped, Exchanged, NEW u \in Acts, ContactStep(u) PROVE Exchanged'
<1>1. ASSUME NEW step \in {"asking", "answering", "correcting"}, BeginOwn(u, step) \/ BeginOffice(u, step)
      PROVE  Exchanged'
  BY <1>1, OthersWaitBegun, ExchangedUntouched
<1>2. ASSUME NEW x, RequestCode(u) \/ ConfirmExpired(u) \/ ConfirmCode(u, x) \/ Rectify(u, x)
      PROVE  Exchanged'
  <2>1. ActEnds(u) /\ UNCHANGED tokens
    BY <1>2 DEF RequestCode, ConfirmExpired, ConfirmCode, Rectify, sessionVars
  <2> QED BY <2>1, OthersWaitEnded, ExchangedUntouched
<1> QED BY <1>1, <1>2 DEF ContactStep, VerifyStep, CorrectStep, OfficeCorrects

LEMMA StandingExchanged ==
  ASSUME AccountTyped, Exchanged, NEW u \in Acts, StandingStep(u) PROVE Exchanged'
<1>1. ASSUME NEW step \in {"disabling", "enabling"}, BeginOffice(u, step) PROVE Exchanged'
  BY <1>1, OthersWaitBegun, ExchangedUntouched
<1>2. CASE SetDisabled(u) \/ ActDies(u) \/ BeginArchive(u) \/ ArchiveCitizen(u)
  <2>1. UNCHANGED tokens /\ (ActEnds(u) \/ ActGoes(u, "ending") \/ ActGoes(u, "archiving"))
    BY <1>2 DEF SetDisabled, ActDies, BeginArchive, ArchiveCitizen, sessionVars
  <2> QED BY <2>1, OthersWaitEnded, OthersWaitMoved, ExchangedUntouched
<1>3. CASE RestoreCitizen
  BY <1>3, ExchangedUntouched DEF RestoreCitizen, sessionVars
<1> QED BY <1>1, <1>2, <1>3 DEF StandingStep

LEMMA PhotoExchanged ==
  ASSUME AccountTyped, Exchanged, NEW u \in Acts, PhotoStep(u) PROVE Exchanged'
<1>1. ASSUME NEW step \in {"choosing photo", "removing photo"}, BeginOwn(u, step) PROVE Exchanged'
  BY <1>1, OthersWaitBegun, ExchangedUntouched
<1>2. ASSUME NEW k \in Photos, StorePhoto(u, k) PROVE Exchanged'
  <2>1. UNCHANGED tokens
    BY <1>2 DEF StorePhoto, sessionVars
  <2>2. \A v \in Acts : act'[v].step = "won" => act'[v] = act[v]
    BY <1>2 DEF StorePhoto, AccountTyped, ActsTyped, ActRecord
  <2> QED BY <2>1, <2>2, ExchangedUntouched
<1>3. CASE SavePhoto(u)
  BY <1>3, OthersWaitMoved, ExchangedUntouched DEF SavePhoto, sessionVars
<1>4. ASSUME NEW reached, DropOldPhoto(u, reached) PROVE Exchanged'
  BY <1>4, OthersWaitEnded, ExchangedUntouched DEF DropOldPhoto, sessionVars
<1> QED BY <1>1, <1>2, <1>3, <1>4 DEF PhotoStep, RemovesPhoto

LEMMA FilingExchanged ==
  ASSUME AccountTyped, Exchanged, NEW u \in Acts, FilingStep(u) PROVE Exchanged'
<1>1. CASE BeginOwn(u, "filing")
  BY <1>1, OthersWaitBegun, ExchangedUntouched
<1>2. ASSUME NEW a, NEW to, CitizenFiles(u, a, to) PROVE Exchanged'
  BY <1>2, OthersWaitEnded, ExchangedUntouched DEF CitizenFiles, sessionVars
<1>3. ASSUME NEW a, NEW to, OfficeMoves(a, to) PROVE Exchanged'
  BY <1>3, ExchangedUntouched DEF OfficeMoves, sessionVars
<1> QED BY <1>1, <1>2, <1>3 DEF FilingStep

LEMMA ErasureExchanged ==
  ASSUME AccountTyped, Exchanged, NEW u \in Acts, ErasureStep(u) PROVE Exchanged'
<1>1. CASE BeginOwn(u, "erasing") \/ BeginOffice(u, "erasing")
  BY <1>1, OthersWaitBegun, ExchangedUntouched
<1>2. CASE Erase(u)
  <2>1. CASE account.erased
    BY <1>2, <2>1, OthersWaitEnded, ExchangedUntouched DEF Erase
  <2>2. CASE ~account.erased
    <3>1. Revoked
      BY <1>2, <2>2 DEF Erase, Revoked
    <3>2. \A v \in Acts : act'[v].step = "won" => act'[v] = act[v]
      BY <1>2, <2>2 DEF Erase, AccountTyped, ActsTyped, ActRecord
    <3> QED BY <3>1, <3>2, RevokedThins
  <2> QED BY <2>1, <2>2
<1>3. CASE ListOpen(u)
  <2>1. UNCHANGED tokens
    BY <1>3 DEF ListOpen, sessionVars
  <2>2. \A v \in Acts : act'[v].step = "won" => act'[v] = act[v]
    BY <1>3 DEF ListOpen, AccountTyped, ActsTyped, ActRecord
  <2> QED BY <2>1, <2>2, ExchangedUntouched
<1>4. CASE ErasureAnswered(u)
  BY <1>4, OthersWaitEnded, ExchangedUntouched DEF ErasureAnswered, sessionVars
<1>5. ASSUME NEW reached, ErasePhoto(u, reached) PROVE Exchanged'
  BY <1>5, OthersWaitMoved, ExchangedUntouched DEF ErasePhoto, sessionVars
<1>6. ASSUME NEW a, Withdraw(u, a) PROVE Exchanged'
  <2>1. UNCHANGED tokens
    BY <1>6 DEF Withdraw, sessionVars
  <2>2. \A v \in Acts : act'[v].step = "won" => act'[v] = act[v]
    BY <1>6 DEF Withdraw, ActAt, AccountTyped, ActsTyped, ActRecord
  <2> QED BY <2>1, <2>2, ExchangedUntouched
<1> QED BY <1>1, <1>2, <1>3, <1>4, <1>5, <1>6 DEF ErasureStep, EraseStep, OfficeErases

LEMMA StaysExchanged ==
  ASSUME AccountAssumption, AccountTyped, Exchanged, [AccountNext]_accountVars PROVE Exchanged'
<1>1. CASE UNCHANGED accountVars
  BY <1>1, ExchangedUntouched DEF accountVars
<1>2. CASE AccountNext
  BY <1>2, ContactExchanged, SessionExchanged, StandingExchanged, PhotoExchanged, FilingExchanged, ErasureExchanged
     DEF AccountNext
<1> QED BY <1>1, <1>2

-----------------------------------------------------------------------------
\* WHAT AN ERASURE LEAVES

\* A move to Cancelled starts where the citizen's own work is under way.
Open == {"Draft", "Submitted", "Received", "Revision Required", "Assessed"}
RulesBetween(from, to) ==
  [ from : from, to : to, actors : SUBSET {"applicant", "staff"}, requires : Rules!Scope,
    preconditions : SUBSET Rules!Preconditions, notifies : BOOLEAN ]

LEMMA TableOfCancels ==
  Rules!TRANSITIONS \subseteq RulesBetween(Open, Rules!LifecycleStatuses)
                             \cup RulesBetween(Rules!LifecycleStatuses, Rules!LifecycleStatuses \ {"Cancelled"})
BY SMTT(60) DEF Rules!TRANSITIONS, Rules!Rule, Rules!LifecycleStatuses, Rules!Scope, Rules!Both,
   Rules!Staff, Rules!Citizen, Rules!Documents, Rules!Preconditions, RulesBetween, Open

LEMMA OpenIsWithdrawn ==
  ASSUME NEW a \in Applications, Withdrawable(a)
  PROVE  filings[a] # "none" /\ ~Rules!isTerminal(filings[a])
<1>1. PICK r \in Rules!TRANSITIONS : r.from = filings[a] /\ r.to = "Cancelled"
  BY DEF Withdrawable, Rules!RuleFor
<1>3. filings[a] \in {"Draft", "Submitted", "Received", "Revision Required", "Assessed"}
  BY <1>1, TableOfCancels DEF RulesBetween, Open
<1> QED BY <1>3 DEF Rules!isTerminal, Rules!TERMINAL

\* The steps of an erasure that has yet to see to what was filed.
Following == {"erased", "listing", "withdrawing"}

\* Somebody is on the way to withdraw it.
Pursued(a) ==
  \E u \in Acts : \/ act[u].step \in {"erased", "listing"}
                  \/ act[u].step = "withdrawing" /\ a \in act[u].todo

Pursuit ==
  account.erased /\ cutShort = 0 => \A a \in Applications \ later : Withdrawable(a) => Pursued(a)

\* Requests other than an erasure: they neither end one nor stop following it.
Aside == \A u \in Acts : act[u].step \in Following => act'[u] = act[u]

LEMMA PursuitKept ==
  ASSUME Pursuit, account'.erased = account.erased, cutShort' = cutShort, UNCHANGED filings,
         later \subseteq later', Aside
  PROVE  Pursuit'
<1> SUFFICES ASSUME account'.erased, cutShort' = 0, NEW a \in Applications, a \notin later', Withdrawable(a)'
             PROVE  Pursued(a)'
  BY DEF Pursuit
<1>1. Withdrawable(a)
  BY DEF Withdrawable
<1>2. Pursued(a)
  BY <1>1 DEF Pursuit
<1> QED BY <1>2 DEF Pursued, Aside, Following

LEMMA AsideReplaced ==
  ASSUME AccountTyped, NEW u \in Acts, NEW row, act[u].step \notin Following, act' = [ act EXCEPT ![u] = row ]
  PROVE  Aside
BY DEF AccountTyped, ActsTyped, Aside

LEMMA AsideBegun ==
  ASSUME AccountTyped, NEW u \in Acts, NEW step, BeginOwn(u, step) \/ BeginOffice(u, step) PROVE Aside
<1>1. act[u].step \notin Following
  BY DEF BeginOwn, BeginOffice, ActAt, Following
<1>2. CASE BeginOwn(u, step)
  BY <1>1, <1>2, AsideReplaced DEF BeginOwn
<1>3. CASE BeginOffice(u, step)
  BY <1>1, <1>3, AsideReplaced DEF BeginOffice, ActGoes
<1> QED BY <1>2, <1>3

\* Every request but an erasure in its course stands aside, and leaves what is
\* filed and what was cut short as they are.
Elsewhere == UNCHANGED << filings, later, cutShort >> /\ Aside

LEMMA ContactElsewhere == ASSUME AccountTyped, NEW u \in Acts, ContactStep(u) PROVE Elsewhere
<1>1. ASSUME NEW step, BeginOwn(u, step) \/ BeginOffice(u, step) PROVE Elsewhere
  BY <1>1, AsideBegun DEF BeginOwn, BeginOffice, filingVars, erasureVars, Elsewhere
<1>2. ASSUME NEW x, RequestCode(u) \/ ConfirmExpired(u) \/ ConfirmCode(u, x) \/ Rectify(u, x)
      PROVE  Elsewhere
  <2>1. act[u].step \notin Following /\ ActEnds(u)
    BY <1>2 DEF RequestCode, ConfirmExpired, ConfirmCode, Rectify, ActAt, Following
  <2>2. Aside
    BY <2>1, AsideReplaced DEF ActEnds
  <2> QED BY <1>2, <2>2 DEF RequestCode, ConfirmExpired, ConfirmCode, Rectify, filingVars, erasureVars, Elsewhere
<1> QED BY <1>1, <1>2 DEF ContactStep, VerifyStep, CorrectStep, OfficeCorrects

LEMMA SessionElsewhere == ASSUME AccountTyped, NEW u \in Acts, SessionStep(u) PROVE Elsewhere
<1>1. ASSUME NEW step, BeginOwn(u, step) \/ BeginOffice(u, step) PROVE Elsewhere
  BY <1>1, AsideBegun DEF BeginOwn, BeginOffice, filingVars, erasureVars, Elsewhere
<1>2. ASSUME NEW t, StartSession(u, t) \/ BeginExchange(u, t) \/ MintNext(u, t) PROVE Elsewhere
  <2>1. act[u].step \notin Following
    BY <1>2 DEF StartSession, BeginExchange, MintNext, ActAt, Following
  <2>2. Aside
    BY <1>2, <2>1, AsideReplaced DEF StartSession, BeginExchange, MintNext, ActEnds, ActGoes
  <2> QED BY <1>2, <2>2 DEF StartSession, BeginExchange, MintNext, filingVars, erasureVars, Elsewhere
<1>3. CASE Consume(u) \/ RevokeReplayed(u) \/ AnswerRefresh(u) \/ EndAllSessions(u)
  <2>1. act[u].step \notin Following
    BY <1>3 DEF Consume, RevokeReplayed, AnswerRefresh, EndAllSessions, ActAt, Following
  <2>2. Aside
    BY <1>3, <2>1, AsideReplaced DEF Consume, RevokeReplayed, AnswerRefresh, EndAllSessions, ActEnds, ActGoes
  <2> QED BY <1>3, <2>2 DEF Consume, RevokeReplayed, AnswerRefresh, EndAllSessions, filingVars, erasureVars, Elsewhere
<1>4. ASSUME NEW t, SignOut(t) \/ PurgeTokens PROVE Elsewhere
  BY <1>4 DEF SignOut, PurgeTokens, filingVars, erasureVars, Elsewhere, Aside
<1>5. ASSUME NEW weak, IssueTicket(u) \/ RedeemTicket(u, weak) \/ SetPassword(u) PROVE Elsewhere
  <2>1. act[u].step \notin Following
    BY <1>5 DEF IssueTicket, RedeemTicket, SetPassword, ActAt, Following
  <2>2. act' = act \/ ActEnds(u) \/ ActGoes(u, "setting password") \/ ActGoes(u, "ending")
    BY <1>5 DEF IssueTicket, RedeemTicket, SetPassword
  <2>3. Aside
    BY <2>1, <2>2, AsideReplaced DEF ActEnds, ActGoes, Aside
  <2> QED BY <1>5, <2>3 DEF IssueTicket, RedeemTicket, SetPassword, filingVars, erasureVars, Elsewhere
<1> QED BY <1>1, <1>2, <1>3, <1>4, <1>5
        DEF SessionStep, SignInStep, RefreshStep, SignOutStep, OfficeSignsOut, RecoverStep,
            OfficeSendsLink, PasswordStep

LEMMA PhotoElsewhere == ASSUME AccountTyped, NEW u \in Acts, PhotoStep(u) PROVE Elsewhere
<1>1. ASSUME NEW step, BeginOwn(u, step) PROVE Elsewhere
  BY <1>1, AsideBegun DEF BeginOwn, filingVars, erasureVars, Elsewhere
<1>2. ASSUME NEW x, StorePhoto(u, x) \/ SavePhoto(u) \/ DropOldPhoto(u, x) PROVE Elsewhere
  <2>1. act[u].step \notin Following
    BY <1>2 DEF StorePhoto, SavePhoto, DropOldPhoto, ActAt, Following
  <2>2. Aside
    <3>1. CASE StorePhoto(u, x)
      <4> DEFINE row == [ act[u] EXCEPT !.step = "photo stored", !.photo = x ]
      <4>1. act' = [ act EXCEPT ![u] = row ]
        BY <3>1 DEF StorePhoto
      <4> HIDE DEF row
      <4> QED BY <2>1, <4>1, AsideReplaced
    <3>2. CASE SavePhoto(u) \/ DropOldPhoto(u, x)
      BY <2>1, <3>2, AsideReplaced DEF SavePhoto, DropOldPhoto, ActEnds, ActGoes
    <3> QED BY <1>2, <3>1, <3>2
  <2> QED BY <1>2, <2>2 DEF StorePhoto, SavePhoto, DropOldPhoto, filingVars, erasureVars, Elsewhere
<1> QED BY <1>1, <1>2 DEF PhotoStep, RemovesPhoto

\* A request that dies in the middle of an erasure is one that was cut short.
LEMMA StandingPursues ==
  ASSUME AccountTyped, AccountTyped', AccountSound, AccountSound', Pursuit, NEW u \in Acts, StandingStep(u)
  PROVE  Pursuit'
<1>1. receipts' = receipts /\ UNCHANGED << filings, later >>
  BY DEF StandingStep, BeginOffice, SetDisabled, ActDies, BeginArchive, ArchiveCitizen, RestoreCitizen,
     filingVars, erasureVars
<1>2. account'.erased = account.erased
  BY <1>1 DEF AccountSound, ErasedStaysErased, AccountTyped, AccountTypeOK, AccountRow
<1>3. CASE ActDies(u)
  <2>1. CASE act[u].step \in Following
    <3>1. cutShort' = cutShort + 1 /\ cutShort \in Nat
      BY <1>3, <2>1 DEF ActDies, Following, AccountTyped, AccountTypeOK
    <3> QED BY <3>1 DEF Pursuit
  <2>2. CASE act[u].step \notin Following
    <3>1. Aside
      BY <1>3, <2>2, AsideReplaced DEF ActDies, ActEnds
    <3>2. cutShort' = cutShort
      BY <1>3, <2>2 DEF ActDies, Following
    <3> QED BY <1>1, <1>2, <3>1, <3>2, PursuitKept
  <2> QED BY <2>1, <2>2
<1>4. ASSUME NEW step, BeginOffice(u, step) PROVE Pursuit'
  BY <1>1, <1>2, <1>4, AsideBegun, PursuitKept DEF BeginOffice, erasureVars
<1>5. CASE SetDisabled(u) \/ BeginArchive(u) \/ ArchiveCitizen(u)
  <2>1. act[u].step \notin Following
    BY <1>5 DEF SetDisabled, BeginArchive, ArchiveCitizen, ActAt, Following
  <2>2. ActEnds(u) \/ ActGoes(u, "ending") \/ ActGoes(u, "archiving")
    BY <1>5 DEF SetDisabled, BeginArchive, ArchiveCitizen
  <2>3. Aside
    BY <2>1, <2>2, AsideReplaced DEF ActEnds, ActGoes
  <2> QED BY <1>1, <1>2, <1>5, <2>3, PursuitKept DEF SetDisabled, BeginArchive, ArchiveCitizen, erasureVars
<1>6. CASE RestoreCitizen
  BY <1>1, <1>2, <1>6, PursuitKept DEF RestoreCitizen, erasureVars, Aside
<1> QED BY <1>3, <1>4, <1>5, <1>6 DEF StandingStep

\* What moves after an erasure has come after it.
LEMMA FilingPursues ==
  ASSUME AccountTyped, Pursuit, NEW u \in Acts, FilingStep(u) PROVE Pursuit'
<1>1. CASE BeginOwn(u, "filing")
  BY <1>1, AsideBegun, PursuitKept DEF BeginOwn, filingVars, erasureVars
<1>2. ASSUME NEW a \in Applications, NEW to \in Rules!LifecycleStatuses, CitizenFiles(u, a, to) \/ OfficeMoves(a, to)
      PROVE  Pursuit'
  <2>1. UNCHANGED << account, cutShort >> /\ Came(a) /\ filings' = [ filings EXCEPT ![a] = to ]
    BY <1>2 DEF CitizenFiles, OfficeMoves, erasureVars
  <2>2. Aside
    BY <1>2, AsideReplaced DEF CitizenFiles, OfficeMoves, ActEnds, ActAt, Following, Aside
  <2>3. SUFFICES ASSUME account.erased, cutShort = 0, NEW b \in Applications, b \notin later', Withdrawable(b)'
                 PROVE  Pursued(b)'
    BY <2>1 DEF Pursuit
  <2>4. b # a /\ b \notin later
    BY <2>1, <2>3 DEF Came
  <2>5. filings'[b] = filings[b]
    BY <2>1, <2>4 DEF AccountTyped, AccountTypeOK
  <2>6. Pursued(b)
    BY <2>3, <2>4, <2>5 DEF Pursuit, Withdrawable
  <2> QED BY <2>2, <2>6 DEF Pursued, Aside, Following
<1> QED BY <1>1, <1>2 DEF FilingStep

\* The withdrawal of a: it is Cancelled, or cannot be withdrawn by the citizen.
LEMMA WithdrawnIsNotOpen ==
  ASSUME AccountTyped, NEW u \in Acts, NEW a \in Applications, Withdraw(u, a) PROVE ~Withdrawable(a)'
<1>1. CASE Withdrawable(a)
  <2>1. filings'[a] = "Cancelled"
    BY <1>1 DEF Withdraw, Withdrawable, AccountTyped, AccountTypeOK
  <2> SUFFICES ASSUME Withdrawable(a)' PROVE FALSE
    OBVIOUS
  <2>2. PICK r \in Rules!TRANSITIONS : r.from = filings'[a] /\ r.to = "Cancelled"
    BY DEF Withdrawable, Rules!RuleFor
  <2> QED BY <2>1, <2>2, TableOfCancels DEF RulesBetween, Open
<1>2. CASE ~Withdrawable(a)
  <2>1. filings' = filings
    BY <1>2 DEF Withdraw, Withdrawable
  <2> QED BY <1>2, <2>1 DEF Withdrawable
<1> QED BY <1>1, <1>2

LEMMA ErasurePursues ==
  ASSUME AccountTyped, AccountTyped', AccountSound, AccountSound', Pursuit, NEW u \in Acts, ErasureStep(u)
  PROVE  Pursuit'
<1>1. ASSUME NEW step, BeginOwn(u, step) \/ BeginOffice(u, step) PROVE Pursuit'
  <2>1. UNCHANGED << account, filings, later, cutShort >>
    BY <1>1 DEF BeginOwn, BeginOffice, filingVars, erasureVars
  <2> QED BY <1>1, <2>1, AsideBegun, PursuitKept
<1>2. CASE Erase(u)
  <2>1. UNCHANGED << filings, later, cutShort >> /\ ActAt(u, "erasing")
    BY <1>2 DEF Erase, filingVars
  <2>2. CASE account.erased
    <3>1. account' = account /\ ActEnds(u)
      BY <1>2, <2>2 DEF Erase
    <3>2. Aside
      BY <2>1, <3>1, AsideReplaced DEF ActEnds, ActAt, Following
    <3> QED BY <2>1, <3>1, <3>2, PursuitKept
  <2>3. CASE ~account.erased
    <3>1. act'[u].step = "erased"
      BY <1>2, <2>3 DEF Erase, AccountTyped, ActsTyped, ActRecord
    <3>2. act'[u].step \in {"erased", "listing"}
      BY <3>1
    <3>3. \A a \in Applications : Pursued(a)'
      BY <3>2 DEF Pursued
    <3> QED BY <3>3 DEF Pursuit
  <2> QED BY <2>2, <2>3
<1>3. ASSUME NEW reached, ErasePhoto(u, reached) PROVE Pursuit'
  <2>1. UNCHANGED << account, filings, later, cutShort >>
    BY <1>3 DEF ErasePhoto, filingVars, erasureVars
  <2>2. act'[u].step = "listing"
    BY <1>3 DEF ErasePhoto, ActGoes, AccountTyped, ActsTyped, ActRecord
  <2>3. act'[u].step \in {"erased", "listing"}
    BY <2>2
  <2>4. \A a \in Applications : Pursued(a)'
    BY <2>3 DEF Pursued
  <2> QED BY <2>4 DEF Pursuit
<1>4. CASE ListOpen(u)
  <2>1. UNCHANGED << account, filings, later, cutShort >>
    BY <1>4 DEF ListOpen, filingVars, erasureVars
  <2> DEFINE open == { a \in Applications : filings[a] # "none" /\ ~Rules!isTerminal(filings[a]) }
  <2>2. act' = [ act EXCEPT ![u].step = "withdrawing", ![u].todo = open ]
    BY <1>4 DEF ListOpen
  <2>3. \A a \in Applications : Withdrawable(a) => a \in open
    BY OpenIsWithdrawn
  <2> HIDE DEF open
  <2>4. act'[u].step = "withdrawing" /\ act'[u].todo = open
    BY <2>2 DEF AccountTyped, ActsTyped, ActRecord
  <2>5. \A a \in Applications : Withdrawable(a) => Pursued(a)'
    BY <2>3, <2>4 DEF Pursued
  <2>6. \A a \in Applications : Withdrawable(a)' => Withdrawable(a)
    BY <2>1 DEF Withdrawable
  <2> QED BY <2>5, <2>6 DEF Pursuit
<1>5. CASE ErasureAnswered(u)
  <2>1. UNCHANGED << account, filings, later, cutShort >>
    BY <1>5 DEF ErasureAnswered, filingVars, erasureVars
  <2>2. \A v \in Acts : v # u => act'[v] = act[v]
    BY <1>5 DEF ErasureAnswered, ActEnds, AccountTyped, ActsTyped
  <2>3. act[u].step = "withdrawing" /\ act[u].todo = {}
    BY <1>5 DEF ErasureAnswered, ActAt
  <2>4. \A a \in Applications : Pursued(a) => Pursued(a)'
    BY <2>2, <2>3 DEF Pursued
  <2>5. \A a \in Applications : Withdrawable(a)' => Withdrawable(a)
    BY <2>1 DEF Withdrawable
  <2> QED BY <2>1, <2>4, <2>5 DEF Pursuit
<1>6. ASSUME NEW a \in Applications, Withdraw(u, a) PROVE Pursuit'
  <2>1. UNCHANGED << account, later, cutShort >> /\ act' = [ act EXCEPT ![u].todo = @ \ {a} ] /\ ActAt(u, "withdrawing")
    BY <1>6 DEF Withdraw, erasureVars
  <2>2. SUFFICES ASSUME account.erased, cutShort = 0, NEW b \in Applications, b \notin later, Withdrawable(b)'
                 PROVE  Pursued(b)'
    BY <2>1 DEF Pursuit
  <2>3. b # a
    BY <1>6, <2>2, WithdrawnIsNotOpen
  <2>4. filings'[b] = filings[b]
    BY <1>6, <2>3 DEF Withdraw, AccountTyped, AccountTypeOK
  <2>5. PICK v \in Acts : \/ act[v].step \in {"erased", "listing"}
                          \/ act[v].step = "withdrawing" /\ b \in act[v].todo
    BY <2>2, <2>4 DEF Pursuit, Pursued, Withdrawable
  <2>6. act'[v].step = act[v].step /\ (b \in act[v].todo => b \in act'[v].todo)
    <3>1. CASE v = u
      <4>1. act'[u].step = act[u].step /\ act'[u].todo = act[u].todo \ {a}
        BY <2>1 DEF AccountTyped, ActsTyped, ActRecord
      <4> QED BY <2>3, <3>1, <4>1
    <3>2. CASE v # u
      BY <2>1, <3>2 DEF AccountTyped, ActsTyped
    <3> QED BY <3>1, <3>2
  <2>7. \/ act'[v].step \in {"erased", "listing"}
        \/ act'[v].step = "withdrawing" /\ b \in act'[v].todo
    BY <2>5, <2>6
  <2> QED BY <2>7 DEF Pursued
<1> QED BY <1>1, <1>2, <1>3, <1>4, <1>5, <1>6 DEF ErasureStep, EraseStep, OfficeErases

LEMMA ElsewherePursues ==
  ASSUME AccountTyped, AccountTyped', AccountSound, AccountSound', Pursuit, receipts' = receipts, Elsewhere
  PROVE  Pursuit'
<1>1. account'.erased = account.erased
  BY DEF AccountSound, ErasedStaysErased, AccountTyped, AccountTypeOK, AccountRow
<1> QED BY <1>1, PursuitKept DEF Elsewhere

LEMMA ReceiptsOfErasures ==
  ASSUME NEW u \in Acts, ContactStep(u) \/ SessionStep(u) \/ PhotoStep(u) PROVE receipts' = receipts
<1>1. ASSUME NEW step, BeginOwn(u, step) \/ BeginOffice(u, step) PROVE receipts' = receipts
  BY <1>1 DEF BeginOwn, BeginOffice, erasureVars
<1>2. CASE ContactStep(u)
  BY <1>1, <1>2 DEF ContactStep, VerifyStep, CorrectStep, OfficeCorrects, RequestCode, ConfirmExpired,
     ConfirmCode, Rectify, erasureVars
<1>3. CASE PhotoStep(u)
  BY <1>1, <1>3 DEF PhotoStep, RemovesPhoto, StorePhoto, SavePhoto, DropOldPhoto, erasureVars
<1>4. CASE SessionStep(u)
  BY <1>1, <1>4 DEF SessionStep, SignInStep, RefreshStep, SignOutStep, OfficeSignsOut, RecoverStep,
     OfficeSendsLink, PasswordStep, StartSession, BeginExchange, MintNext, Consume, RevokeReplayed,
     AnswerRefresh, EndAllSessions, SignOut, PurgeTokens, IssueTicket, RedeemTicket, SetPassword, erasureVars
<1> QED BY <1>2, <1>3, <1>4

LEMMA StaysPursued ==
  ASSUME AccountTyped, AccountTyped', AccountSound, AccountSound', Pursuit, [AccountNext]_accountVars
  PROVE  Pursuit'
<1>1. CASE UNCHANGED accountVars
  BY <1>1, PursuitKept DEF accountVars, Aside
<1>2. ASSUME NEW u \in Acts, ContactStep(u) \/ SessionStep(u) \/ PhotoStep(u) PROVE Pursuit'
  BY <1>2, ContactElsewhere, SessionElsewhere, PhotoElsewhere, ReceiptsOfErasures, ElsewherePursues
<1>3. CASE AccountNext
  BY <1>2, <1>3, StandingPursues, FilingPursues, ErasurePursues DEF AccountNext
<1> QED BY <1>1, <1>3

-----------------------------------------------------------------------------
AccountInv == AccountTyped /\ AccountSound /\ Exchanged /\ Pursuit

LEMMA AccountInvAtFirst == ASSUME AccountAssumption, AccountInit PROVE AccountInv
<1>1. AccountTyped
  BY AccountTypedAtFirst
<1>2. PICK n \in Maybe(Numbers) :
        account = [ mobile |-> n, verified |-> Nil, password |-> "set", photo |-> Nil,
                    disabled |-> FALSE, erased |-> FALSE, archived |-> FALSE ]
  BY DEF AccountInit
<1>3. account.verified = Nil /\ ~account.erased /\ challenge = Nil /\ receipts = 0
  BY <1>2 DEF AccountInit
<1>4. AccountSound
  BY <1>3 DEF AccountSound, VerifiedWasProven, SentToIt, ErasedStaysErased
<1>5. Issued = {} /\ \A u \in Acts : act[u].step = "nothing"
  BY DEF AccountInit, Issued, NoAct
<1>6. Exchanged
  BY <1>5 DEF Exchanged, Claims, Consumed, OneExchange, Won
<1>7. Pursuit
  BY <1>3 DEF Pursuit
<1> QED BY <1>1, <1>4, <1>6, <1>7 DEF AccountInv

LEMMA AccountInvKept ==
  ASSUME AccountAssumption, AccountInv, [AccountNext]_accountVars PROVE AccountInv'
<1>1. AccountTyped'
  BY AccountStaysTyped DEF AccountInv
<1>2. AccountSound'
  BY AccountStaysSound DEF AccountInv
<1>3. Exchanged'
  BY StaysExchanged DEF AccountInv
<1>4. Pursuit'
  BY <1>1, <1>2, StaysPursued DEF AccountInv
<1> QED BY <1>1, <1>2, <1>3, <1>4 DEF AccountInv

THEOREM AccountInvariance == AccountSpec => []AccountInv
<1>1. AccountInit => AccountInv
  BY AccountAssumption, AccountInvAtFirst
<1>2. AccountInv /\ [AccountNext]_accountVars => AccountInv'
  BY AccountAssumption, AccountInvKept
<1> QED BY <1>1, <1>2, PTL DEF AccountSpec

\* A mobile number counts as verified only while it is the one a code was
\* answered for, whatever corrections, new codes and answers come between.
THEOREM VerifiedAlwaysProven == AccountSpec => []VerifiedWasProven
<1>1. AccountInv => VerifiedWasProven
  BY DEF AccountInv, AccountSound
<1> QED BY <1>1, AccountInvariance, PTL

\* An erased account stays erased, holds nothing, and is erased once.
THEOREM ErasedAlwaysStays == AccountSpec => []ErasedStaysErased
<1>1. AccountInv => ErasedStaysErased
  BY DEF AccountInv, AccountSound
<1> QED BY <1>1, AccountInvariance, PTL

\* No refresh token is exchanged for two, however many clients present it, and
\* however purges, erasures and replays come between.
THEOREM ExchangedOnce == AccountSpec => []OneExchange
<1>1. AccountInv => OneExchange
  BY DEF AccountInv, Exchanged
<1> QED BY <1>1, AccountInvariance, PTL

\* An erasure that ran its course leaves nothing to be withdrawn but what came
\* after it.
THEOREM NoneEverLeftBehind == AccountSpec => []NoneLeftBehind
<1>1. AccountInv => NoneLeftBehind
  BY DEF AccountInv, Pursuit, Pursued, NoneLeftBehind
<1> QED BY <1>1, AccountInvariance, PTL

(***************************************************************************)
(* THE AUDIT CHAIN                                                         *)
(*                                                                         *)
(* That the chain implements the log, and that the walk tells the truth.   *)
(* Whoever holds the row of the head holds it alone and saw its last       *)
(* value, so what a commit writes starts from the head in force.  Rows may *)
(* be edited or removed, but what a row says of its place - its hash and   *)
(* the one before it - is what the head committed to there: an edited row  *)
(* no longer follows from them, and needs no neighbour to be found out.    *)
(***************************************************************************)

\* The head, and the transaction that holds its row.
HeadOK == /\ head \in ChainHead /\ head.sequence = Len(head.hash)
          /\ writing \in [ Writers -> Writing ]

OneHolder ==
  \A w \in Writers : writing[w].pc = "holding" =>
    /\ writing[w].base = head
    /\ \A u \in Writers : writing[u].pc = "holding" => u = w

\* The row the service wrote at a place of a history.
Honest(history, i) ==
  [ sequence |-> i, event |-> history[i],
    previous |-> SubSeq(history, 1, i - 1), hash |-> SubSeq(history, 1, i) ]

\* What nobody can change about a row without being found out.
Placed ==
  \A r \in events :
    /\ r \in AuditEvent /\ r.sequence \in 1..Len(head.hash)
    /\ r.previous = SubSeq(head.hash, 1, r.sequence - 1)
    /\ r.hash = SubSeq(head.hash, 1, r.sequence)

Untouched == touched = 0 => events = { Honest(head.hash, i) : i \in 1..Len(head.hash) }

ChainInv == HeadOK /\ OneHolder /\ Placed /\ Untouched
Counters == windowStart \in Nat /\ touched \in Nat

-----------------------------------------------------------------------------
\* The history that a transaction leaves behind, and the rows it adds.
LEMMA LongerHistory ==
  ASSUME NEW h \in Seq(Entries), NEW p \in Seq(Entries)
  PROVE  /\ h \o p \in Seq(Entries) /\ Len(h \o p) = Len(h) + Len(p)
         /\ \A i \in 1..Len(h) : /\ (h \o p)[i] = h[i]
                                 /\ SubSeq(h \o p, 1, i) = SubSeq(h, 1, i)
                                 /\ SubSeq(h \o p, 1, i - 1) = SubSeq(h, 1, i - 1)
<1>1. h \o p \in Seq(Entries) /\ Len(h \o p) = Len(h) + Len(p)
  OBVIOUS
<1>2. ASSUME NEW i \in 1..Len(h)
      PROVE  /\ (h \o p)[i] = h[i] /\ SubSeq(h \o p, 1, i) = SubSeq(h, 1, i)
             /\ SubSeq(h \o p, 1, i - 1) = SubSeq(h, 1, i - 1)
  OBVIOUS
<1> QED BY <1>1, <1>2

LEMMA SamePlace ==
  ASSUME NEW h \in Seq(Entries), NEW p \in Seq(Entries), NEW i \in 1..Len(h)
  PROVE  Honest(h \o p, i) = Honest(h, i)
  BY LongerHistory DEF Honest

LEMMA NewRow ==
  ASSUME NEW t \in Writing, t.base.sequence = Len(t.base.hash), NEW i \in 1..Len(t.pending)
  PROVE  RowAt(t, i) = Honest(t.base.hash \o t.pending, Len(t.base.hash) + i)
<1> DEFINE h == t.base.hash
           p == t.pending
           n == Len(h) + i
<1>1. h \in Seq(Entries) /\ p \in Seq(Entries) /\ Len(h) \in Nat /\ i \in 1..Len(p)
  BY DEF Writing, ChainHead
<1> HIDE DEF h, p
<1>2. (h \o p)[n] = p[i]
  BY <1>1
<1>3. SubSeq(h \o p, 1, n - 1) = h \o SubSeq(p, 1, i - 1)
  BY <1>1
<1>4. SubSeq(h \o p, 1, n) = Append(h \o SubSeq(p, 1, i - 1), p[i])
  BY <1>1, SMTT(30)
<1>5. RowAt(t, i) = [ sequence |-> n, event |-> p[i], previous |-> h \o SubSeq(p, 1, i - 1),
                      hash |-> Append(h \o SubSeq(p, 1, i - 1), p[i]) ]
  BY DEF RowAt, hashEntry, h, p
<1> QED BY <1>2, <1>3, <1>4, <1>5 DEF Honest, h, p

LEMMA HonestRow ==
  ASSUME NEW h \in Seq(Entries), NEW i \in 1..Len(h)
  PROVE  /\ Honest(h, i) \in AuditEvent /\ Honest(h, i).sequence = i
         /\ Honest(h, i).previous = SubSeq(h, 1, i - 1)
         /\ Honest(h, i).hash = SubSeq(h, 1, i) /\ Honest(h, i).event = h[i]
<1>1. h[i] \in Entries /\ i \in Nat
  OBVIOUS
<1>2. SubSeq(h, 1, i - 1) \in Seq(Entries) /\ SubSeq(h, 1, i) \in Seq(Entries)
  OBVIOUS
<1> QED BY <1>1, <1>2 DEF Honest, AuditEvent

-----------------------------------------------------------------------------
LEMMA ChainStarts == ChainInit => ChainInv /\ Counters
<1> SUFFICES ASSUME ChainInit PROVE ChainInv /\ Counters
  OBVIOUS
<1>1. <<>> \in Seq(Entries) /\ Len(<<>>) = 0
  OBVIOUS
<1>2. NoHead \in ChainHead /\ NoHead.sequence = Len(NoHead.hash)
  BY <1>1 DEF NoHead, ChainHead, GENESIS
<1>3. Resting \in Writing /\ Resting.pc # "holding"
  BY <1>1, <1>2 DEF Resting, Writing
<1>4. HeadOK /\ OneHolder
  BY <1>2, <1>3 DEF ChainInit, HeadOK, OneHolder
<1>5. Placed
  BY DEF ChainInit, Placed
<1>6. Untouched
  BY <1>1 DEF ChainInit, Untouched, NoHead, GENESIS
<1>7. Counters
  BY DEF ChainInit, Counters
<1> QED BY <1>4, <1>5, <1>6, <1>7 DEF ChainInv

\* What a commit does to the head and the rows, in terms of histories.
LEMMA Committed ==
  ASSUME ChainInv, NEW w \in Writers, Commit(w)
  PROVE  \E p \in Seq(Entries) :
           /\ head' \in ChainHead /\ head'.hash = head.hash \o p
           /\ head'.sequence = Len(head'.hash)
           /\ events' = events \cup { Honest(head'.hash, Len(head.hash) + i) : i \in 1..Len(p) }
<1> DEFINE t == writing[w]
           h == head.hash
           p == t.pending
<1>1. t \in Writing /\ t.base = head /\ p \in Seq(Entries)
  BY DEF ChainInv, HeadOK, OneHolder, Commit, Writing
<1>2. h \in Seq(Entries) /\ head.sequence = Len(h) /\ head = [ hash |-> h, sequence |-> Len(h) ]
  BY DEF ChainInv, HeadOK, ChainHead
<1>3. h \o p \in Seq(Entries) /\ Len(h \o p) = Len(h) + Len(p) /\ Len(h) \in Nat
      /\ Len(p) \in Nat
  BY <1>1, <1>2
<1>4. head' = [ hash |-> h \o p, sequence |-> Len(h) + Len(p) ]
  <2>1. CASE p # <<>>
    BY <1>1, <1>2, <2>1 DEF Commit, HeadAfter
  <2>2. CASE p = <<>>
    <3>1. h \o p = h /\ Len(p) = 0
      BY <1>2, <2>2
    <3> QED BY <1>2, <1>3, <2>2, <3>1 DEF Commit
  <2> QED BY <2>1, <2>2
<1>5. NewRows(t) = { Honest(h \o p, Len(h) + i) : i \in 1..Len(p) }
  BY <1>1, <1>2, NewRow DEF NewRows
<1>6. head' \in ChainHead /\ head'.hash = h \o p /\ head'.sequence = Len(head'.hash)
  <2> HIDE DEF h, p, t
  <2>1. head'.hash = h \o p /\ head'.sequence = Len(h) + Len(p)
    BY <1>4
  <2>2. head' \in ChainHead
    BY <1>3, <1>4 DEF ChainHead
  <2> QED BY <1>3, <2>1, <2>2
<1>7. events' = events \cup { Honest(head'.hash, Len(h) + i) : i \in 1..Len(p) }
  BY <1>5, <1>6 DEF Commit
<1> QED BY <1>1, <1>6, <1>7

\* Steps that leave the head and the rows alone, and hold the head's row alone.
LEMMA OnlyWriters ==
  ASSUME ChainInv, UNCHANGED << events, head, touched >>,
         writing' \in [ Writers -> Writing ],
         \A w \in Writers : writing'[w].pc = "holding" =>
           /\ writing'[w].base = head
           /\ writing[w].pc = "holding" \/ HeadIsFree
           /\ \A u \in Writers \ {w} : writing'[u].pc = "holding" => writing[u].pc = "holding"
  PROVE  ChainInv'
<1>1. HeadOK'
  BY DEF ChainInv, HeadOK
<1>2. OneHolder'
  BY DEF ChainInv, OneHolder, HeadIsFree
<1>3. Placed' /\ Untouched'
  BY DEF ChainInv, Placed, Untouched
<1> QED BY <1>1, <1>2, <1>3 DEF ChainInv

LEMMA HeadStep ==
  ASSUME ChainInv, NEW w \in Writers, TakeHead(w) \/ Abort(w)
  PROVE  ChainInv'
<1> DEFINE t == writing[w]
<1>1. t \in Writing /\ head \in ChainHead
  BY DEF ChainInv, HeadOK
<1>2. CASE TakeHead(w)
  <2> DEFINE n == [ t EXCEPT !.pc = "holding", !.base = head ]
  <2>1. n \in Writing /\ n.pc = "holding" /\ n.base = head
    BY <1>1 DEF Writing
  <2>2. writing' = [ writing EXCEPT ![w] = n ]
    BY <1>2 DEF TakeHead
  <2> HIDE DEF n
  <2> QED BY <1>2, <2>1, <2>2, OnlyWriters, ZenonT(60) DEF TakeHead, ChainInv, HeadOK, HeadIsFree
<1>3. CASE Abort(w)
  <2>1. Resting \in Writing /\ Resting.pc # "holding"
    BY DEF Resting, Writing, NoHead, ChainHead, GENESIS
  <2> QED BY <1>3, <2>1, OnlyWriters DEF Abort, ChainInv, HeadOK, OneHolder
<1> QED BY <1>2, <1>3

LEMMA EntryStep ==
  ASSUME ChainInv, NEW w \in Writers, NEW e \in Entries, DueOnce(w, e) \/ AppendEntry(w, e)
  PROVE  ChainInv'
<1> DEFINE t == writing[w]
<1>1. t \in Writing /\ head \in ChainHead
  BY DEF ChainInv, HeadOK
<1>2. CASE DueOnce(w, e)
  <2> DEFINE n == [ t EXCEPT !.pc = "due", !.refusal = {e} ]
  <2>1. n \in Writing /\ n.pc # "holding"
    BY <1>1, <1>2 DEF Writing, DueOnce
  <2>2. writing' = [ writing EXCEPT ![w] = n ]
    BY <1>2 DEF DueOnce
  <2> HIDE DEF n
  <2> QED BY <1>2, <2>1, <2>2, OnlyWriters DEF DueOnce, ChainInv, HeadOK, OneHolder
<1>3. CASE AppendEntry(w, e)
  <2> DEFINE n == [ t EXCEPT !.pending = Append(@, e) ]
  <2>1. n \in Writing /\ n.pc = t.pc /\ n.base = t.base
    <3>1. Append(t.pending, e) \in Seq(Entries)
      BY <1>1 DEF Writing
    <3> QED BY <1>1, <3>1 DEF Writing
  <2>2. writing' = [ writing EXCEPT ![w] = n ]
    BY <1>3 DEF AppendEntry
  <2> HIDE DEF n
  <2> QED BY <1>3, <2>1, <2>2, OnlyWriters DEF AppendEntry, ChainInv, HeadOK, OneHolder
<1> QED BY <1>2, <1>3

LEMMA CommitStep ==
  ASSUME ChainInv, NEW w \in Writers, Commit(w)
  PROVE  ChainInv'
<1>1. PICK p \in Seq(Entries) :
        /\ head' \in ChainHead /\ head'.hash = head.hash \o p
        /\ head'.sequence = Len(head'.hash)
        /\ events' = events \cup { Honest(head'.hash, Len(head.hash) + i) : i \in 1..Len(p) }
  BY Committed
<1> DEFINE h == head.hash
           k == head'.hash
<1>2. h \in Seq(Entries) /\ k \in Seq(Entries) /\ Len(k) = Len(h) + Len(p) /\ k = h \o p
      /\ Len(h) \in Nat /\ Len(p) \in Nat
  <2>1. h \in Seq(Entries)
    BY DEF ChainInv, HeadOK, ChainHead
  <2> QED BY <1>1, <2>1, LongerHistory
<1>3. touched' = touched /\ writing' = [ writing EXCEPT ![w] = Resting ]
  BY DEF Commit
<1>4. HeadOK'
  <2>1. Resting \in Writing
    BY DEF Resting, Writing, NoHead, ChainHead, GENESIS
  <2> QED BY <1>1, <1>3, <2>1 DEF ChainInv, HeadOK
<1>5. OneHolder'
  <2>1. \A u \in Writers : writing'[u].pc # "holding"
    BY <1>3 DEF ChainInv, HeadOK, OneHolder, Commit, Resting
  <2> QED BY <2>1 DEF OneHolder
<1>6. Placed'
  <2> SUFFICES ASSUME NEW r \in events'
               PROVE  /\ r \in AuditEvent /\ r.sequence \in 1..Len(k)
                      /\ r.previous = SubSeq(k, 1, r.sequence - 1)
                      /\ r.hash = SubSeq(k, 1, r.sequence)
    BY DEF Placed
  <2>1. CASE r \in events
    <3>1. /\ r \in AuditEvent /\ r.sequence \in 1..Len(h)
          /\ r.previous = SubSeq(h, 1, r.sequence - 1) /\ r.hash = SubSeq(h, 1, r.sequence)
      BY <2>1 DEF ChainInv, Placed
    <3> QED BY <1>2, <3>1, LongerHistory
  <2>2. CASE r \notin events
    <3>1. PICK i \in 1..Len(p) : r = Honest(k, Len(h) + i)
      BY <1>1, <2>2
    <3>2. Len(h) + i \in 1..Len(k)
      BY <1>2
    <3> DEFINE n == Len(h) + i
    <3>3. /\ Honest(k, n) \in AuditEvent /\ Honest(k, n).sequence = n
          /\ Honest(k, n).previous = SubSeq(k, 1, n - 1) /\ Honest(k, n).hash = SubSeq(k, 1, n)
      BY <1>2, <3>2, HonestRow
    <3> HIDE DEF k, h, n
    <3> QED BY <3>1, <3>2, <3>3 DEF n
  <2> QED BY <2>1, <2>2
<1>7. Untouched'
  <2> SUFFICES ASSUME touched = 0 PROVE events' = { Honest(k, i) : i \in 1..Len(k) }
    BY <1>3 DEF Untouched
  <2>1. events = { Honest(h, i) : i \in 1..Len(h) }
    BY DEF ChainInv, Untouched
  <2>2. \A i \in 1..Len(h) : Honest(k, i) = Honest(h, i)
    BY <1>2, SamePlace
  <2>3. events = { Honest(k, i) : i \in 1..Len(h) }
    BY <2>1, <2>2
  <2>4. \A i \in 1..Len(k) : i \in 1..Len(h) \/ \E j \in 1..Len(p) : i = Len(h) + j
    <3> SUFFICES ASSUME NEW i \in 1..Len(k), i \notin 1..Len(h)
                 PROVE  \E j \in 1..Len(p) : i = Len(h) + j
      OBVIOUS
    <3>1. i - Len(h) \in 1..Len(p) /\ i = Len(h) + (i - Len(h))
      BY <1>2
    <3> QED BY <3>1
  <2>5. \A j \in 1..Len(p) : Len(h) + j \in 1..Len(k)
    BY <1>2
  <2>6. 1..Len(h) \subseteq 1..Len(k)
    BY <1>2
  <2> HIDE DEF h, k
  <2>7. events' = events \cup { Honest(k, Len(h) + i) : i \in 1..Len(p) }
    BY <1>1 DEF h, k
  <2> QED BY <2>3, <2>4, <2>5, <2>6, <2>7
<1> QED BY <1>4, <1>5, <1>6, <1>7 DEF ChainInv

LEMMA TamperStep ==
  ASSUME ChainInv, Counters, NEW r \in events,
         Remove(r) \/ \E e \in Entries : Edit(r, e)
  PROVE  ChainInv'
<1>1. HeadOK' /\ OneHolder'
  BY DEF ChainInv, HeadOK, OneHolder, Remove, Edit
<1>2. Untouched'
  BY DEF Counters, Untouched, Remove, Edit
<1>3. CASE Remove(r)
  BY <1>1, <1>2, <1>3 DEF ChainInv, Placed, Remove
<1>4. ASSUME NEW e \in Entries, Edit(r, e) PROVE ChainInv'
  <2> DEFINE n == [ r EXCEPT !.event = e ]
  <2>1. r \in AuditEvent
    BY DEF ChainInv, Placed
  <2>2. n \in AuditEvent /\ n.sequence = r.sequence /\ n.previous = r.previous /\ n.hash = r.hash
    BY <2>1 DEF AuditEvent
  <2>3. events' = (events \ {r}) \cup {n} /\ head' = head
    BY <1>4 DEF Edit
  <2> HIDE DEF n
  <2>4. Placed'
    BY <2>2, <2>3 DEF ChainInv, Placed
  <2> QED BY <1>1, <1>2, <2>4 DEF ChainInv
<1> QED BY <1>3, <1>4

LEMMA ChainKeeps ==
  ASSUME ChainInv, Counters, [ChainNext]_chainVars
  PROVE  ChainInv' /\ Counters'
<1>1. Counters'
  <2>1. head.sequence \in Nat
    BY DEF ChainInv, HeadOK, ChainHead
  <2>2. CASE UNCHANGED << windowStart, touched >>
    BY <2>2 DEF Counters
  <2>3. CASE WindowPasses
    BY <2>1, <2>3 DEF Counters, WindowPasses
  <2>4. CASE touched' = touched + 1 /\ UNCHANGED windowStart
    BY <2>4 DEF Counters
  <2> QED BY <2>2, <2>3, <2>4 DEF ChainNext, chainVars, TakeHead, Commit, Abort, DueOnce,
             AppendEntry, Remove, Edit
<1>2. ChainInv'
  <2>1. ASSUME NEW w \in Writers, TakeHead(w) \/ Abort(w)
        PROVE  ChainInv'
    BY <2>1, HeadStep
  <2>2. ASSUME NEW w \in Writers, NEW e \in Entries, DueOnce(w, e) \/ AppendEntry(w, e)
        PROVE  ChainInv'
    BY <2>2, EntryStep
  <2>3. ASSUME NEW w \in Writers, Commit(w) PROVE ChainInv'
    BY <2>3, CommitStep
  <2>4. CASE WindowPasses \/ UNCHANGED chainVars
    BY <2>4 DEF WindowPasses, chainVars, ChainInv, HeadOK, OneHolder, Placed, Untouched
  <2>5. ASSUME NEW r \in events, Remove(r) \/ \E e \in Entries : Edit(r, e)
        PROVE  ChainInv'
    BY <2>5, TamperStep
  <2> QED BY <2>1, <2>2, <2>3, <2>4, <2>5 DEF ChainNext
<1> QED BY <1>1, <1>2

\* The head and the rows of the chain agree, whoever appends and whatever is done
\* to the rows behind the service.
THEOREM ChainAgrees == ChainSpec => [](ChainInv /\ Counters)
<1>1. ChainInv /\ Counters /\ [ChainNext]_chainVars => (ChainInv /\ Counters)'
  BY ChainKeeps
<1> QED BY ChainStarts, <1>1, PTL DEF ChainSpec

-----------------------------------------------------------------------------
\* A chain nobody touched has a row for each place, and each follows from the
\* one before it.
LEMMA UntouchedIsIntact == ASSUME ChainInv, touched = 0 PROVE intact(events)
<1> DEFINE h == head.hash
           n == Len(h)
<1>1. h \in Seq(Entries) /\ n \in Nat
  BY DEF ChainInv, HeadOK, ChainHead
<1>2. events = { Honest(h, i) : i \in 1..n }
  BY DEF ChainInv, Untouched
<1>3. \A i \in 1..n : Honest(h, i).sequence = i
  BY DEF Honest
<1>4. Cardinality(events) = n
  <2> DEFINE place == [ i \in 1..n |-> Honest(h, i) ]
  <2>1. place \in [ 1..n -> events ]
    BY <1>2
  <2>2. \A r \in events : \E i \in 1..n : place[i] = r
    BY <1>2
  <2>3. \A i, j \in 1..n : place[i] = place[j] => i = j
    BY <1>3
  <2> HIDE DEF place
  <2>4. place \in Bijection(1..n, events)
    BY <2>1, <2>2, <2>3, Fun_IsBij
  <2>5. ExistsBijection(1..n, events)
    BY <2>4, Fun_ExistsBij
  <2> QED BY <1>1, <2>5, FS_CountingElements
<1> SUFFICES ASSUME NEW i \in 1..n
             PROVE  LET r == Honest(h, i) IN
                    /\ r.sequence \in 1..Cardinality(events)
                    /\ IF r.sequence = 1 THEN r.previous = GENESIS
                       ELSE \E q \in events : q.sequence = r.sequence - 1 /\ r.previous = q.hash
                    /\ hashEntry(r.previous, r.event) = r.hash
  BY <1>2 DEF intact
<1>5. CASE i = 1
  <2>1. SubSeq(h, 1, i - 1) = <<>>
    BY <1>1, <1>5
  <2> QED BY <1>1, <1>4, <1>5, <2>1 DEF Honest, GENESIS, hashEntry
<1>6. CASE i # 1
  <2>1. i - 1 \in 1..n
    BY <1>1, <1>6
  <2>2. Append(SubSeq(h, 1, i - 1), h[i]) = SubSeq(h, 1, i)
    BY <1>1
  <2>3. Honest(h, i).sequence = i /\ Honest(h, i).sequence \in 1..Cardinality(events)
    BY <1>4 DEF Honest
  <2>4. Honest(h, i - 1) \in events /\ Honest(h, i - 1).sequence = i - 1
        /\ Honest(h, i - 1).hash = Honest(h, i).previous
    BY <1>2, <2>1 DEF Honest
  <2>5. hashEntry(Honest(h, i).previous, Honest(h, i).event) = Honest(h, i).hash
    BY <2>2 DEF Honest, hashEntry
  <2> HIDE DEF h, n
  <2> QED BY <1>6, <2>3, <2>4, <2>5
<1> QED BY <1>5, <1>6

\* An intact row says what the head committed to at its place.
LEMMA IntactIsTrue ==
  ASSUME ChainInv, intact(events), NEW r \in events
  PROVE  r.sequence \in 1..Len(head.hash) /\ r.event = head.hash[r.sequence]
<1> DEFINE h == head.hash
           n == r.sequence
<1>1. h \in Seq(Entries) /\ n \in 1..Len(h)
  BY DEF ChainInv, HeadOK, ChainHead, Placed
<1>2. Append(SubSeq(h, 1, n - 1), r.event) = SubSeq(h, 1, n)
  BY DEF ChainInv, Placed, intact, hashEntry
<1>3. Append(SubSeq(h, 1, n - 1), r.event)[n] = r.event
  <2>1. SubSeq(h, 1, n - 1) \in Seq(Entries) /\ Len(SubSeq(h, 1, n - 1)) = n - 1
    BY <1>1
  <2>2. r.event \in Entries
    BY DEF ChainInv, Placed, AuditEvent
  <2> HIDE DEF h, n
  <2> QED BY <1>1, <2>1, <2>2
<1>4. SubSeq(h, 1, n)[n] = h[n]
  BY <1>1
<1> QED BY <1>1, <1>2, <1>3, <1>4

\* What verifyChain answers is true, for any writers, entries and tampering.
THEOREM VerdictIsAlwaysRight == ChainSpec => []VerdictIsRight
<1>1. ChainInv => VerdictIsRight
  BY UntouchedIsIntact, IntactIsTrue DEF VerdictIsRight
<1> QED BY ChainAgrees, <1>1, PTL

\* The chain implements the log: append within the transactions of others only
\* ever adds to what the head commits to.
THEOREM ChainImplementsLog == ChainSpec => ChainIsALog
<1>1. ChainInit => Log!LogInit
  BY DEF ChainInit, NoHead, GENESIS, Log!LogInit
<1>2. ASSUME ChainInv, [ChainNext]_chainVars PROVE [Log!LogNext]_(head.hash)
  <2>1. ASSUME NEW w \in Writers, Commit(w) PROVE Log!LogNext
    <3>1. PICK p \in Seq(Entries) : head'.hash = head.hash \o p
      BY <1>2, <2>1, Committed
    <3>2. head.hash \in Seq(Entries)
      BY <1>2 DEF ChainInv, HeadOK, ChainHead
    <3> QED BY <3>1, <3>2, LongerHistory DEF Log!LogNext, Log!Extends
  <2>2. CASE UNCHANGED head
    BY <2>2
  <2> QED BY <1>2, <2>1, <2>2 DEF ChainNext, chainVars, TakeHead, Abort, DueOnce,
             AppendEntry, WindowPasses, Remove, Edit
<1> QED BY <1>1, <1>2, ChainAgrees, PTL DEF ChainSpec, ChainIsALog, Log!LogSpec
=============================================================================
