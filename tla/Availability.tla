---------------------------- MODULE Availability ----------------------------
(***************************************************************************)
(* How much time a day has and what must be done in it                     *)
(* (goalflow/scheduling/service.py): versions of the weekly quota, one     *)
(* override per day, and task constraints that must fit into the day.      *)
(*                                                                         *)
(* A client opens a form, and saves it later with the revision it saw.     *)
(* The weekly quota is one number of minutes here, the same for each day   *)
(* of the week, and every command is one write transaction.                *)
(***************************************************************************)
EXTENDS Naturals, FiniteSets, FiniteSetsExt

CONSTANTS
  Dates,        \* local dates, as numbers
  Tasks,        \* the tasks of active goals that are not finished
  Need,         \* the minutes of each task
  Fixed,        \* the tasks each day has to do without a constraint: in progress or due
  Quotas,       \* minutes a client may enter
  Clients,
  Forms,        \* bound: the rows that clients open forms for
  MaxVersions,  \* bound of the versions of the weekly quota
  MaxRowRevision   \* bound of the revision of an override or constraint

ASSUME AvailabilityAssumption ==
  /\ Dates \subseteq Nat \ {0} /\ Quotas \subseteq Nat
  /\ IsFiniteSet(Tasks) /\ Need \in [Tasks -> Nat] /\ Fixed \in [Dates -> SUBSET Tasks]
  /\ MaxVersions \in Nat /\ MaxRowRevision \in Nat

VARIABLES
  versions,    \* table availability_versions
  override,    \* table daily_overrides; revision 0 without a row
  constraint,  \* table task_day_constraints; revision 0 without a row
  form,        \* what each client has open, and the revision it saw
  touched      \* history: a save has changed the form's row since it was opened

tables == <<versions, override, constraint>>
availVars == <<versions, override, constraint, form, touched>>

Versions == [from : Dates, no : 1 .. MaxVersions, minutes : Quotas]
Kinds == {"none", "must_do_today", "locked"}

\* The rows a form can be about: a tuple of the table's name and the key.
Weekly == <<"availability">>
OverrideOf(d) == <<"override", d>>
ConstraintOf(t, d) == <<"constraint", t, d>>
TableRows == {Weekly} \cup {OverrideOf(d) : d \in Dates}
                 \cup {ConstraintOf(t, d) : t \in Tasks, d \in Dates}
NoForm == << >>

ASSUME FormsAssumption == Forms \subseteq TableRows

Counter == 0 .. MaxRowRevision

AvailTypeOK ==
  /\ versions \subseteq Versions
  /\ override \in [Dates -> [minutes : Quotas \cup {0}, revision : Counter]]
  /\ constraint \in [Tasks \X Dates -> [kind : Kinds, revision : Counter]]
  /\ form \in [Clients -> [row : TableRows \cup {NoForm}, token : Nat]]
  /\ touched \in [Clients -> BOOLEAN]

Closed == [row |-> NoForm, token |-> 0]

AvailInit ==
  /\ versions = {}
  /\ override = [d \in Dates |-> [minutes |-> 0, revision |-> 0]]
  /\ constraint = [r \in Tasks \X Dates |-> [kind |-> "none", revision |-> 0]]
  /\ form = [c \in Clients |-> Closed]
  /\ touched = [c \in Clients |-> FALSE]

-----------------------------------------------------------------------------
\* Definitions named X_Y are mutants of X: plausible mistakes that the runs are
\* shown to detect.  No action uses them.
\* The last effective_from, then the last number.
LastOf(S) ==
  CHOOSE v \in S : \A u \in S : u.from < v.from \/ (u.from = v.from /\ u.no <= v.no)

\* _latest_availability(): versions that are still to come count as well.
Latest == LastOf(versions)

CurrentNo_StartsAtOne == IF versions = {} THEN 1 ELSE Latest.no

CurrentNo == IF versions = {} THEN 0 ELSE Latest.no

\* _effective_capacity_for()
Capacity(d) ==
  IF override[d].revision > 0 THEN override[d].minutes
  ELSE IF versions = {} THEN 0 ELSE Latest.minutes

Minutes(tasks) == MapThenSumSet(LAMBDA t : Need[t], tasks)

Mandatory(d) == Fixed[d] \cup {t \in Tasks : constraint[<<t, d>>].kind # "none"}

MandatoryExcept_MustDoOnly(t, d) ==
  (Fixed[d] \cup {u \in Tasks : constraint[<<u, d>>].kind = "must_do_today"}) \ {t}

\* _mandatory_minutes_excluding(): the tasks it sums.
MandatoryExcept(t, d) == Mandatory(d) \ {t}

\* The revision of a row that a command compares with expected_revision.
Token(row) ==
  CASE row = Weekly -> CurrentNo
    [] row[1] = "override"   -> override[row[2]].revision
    [] row[1] = "constraint" -> constraint[<<row[2], row[3]>>].revision

Open(c, row) ==
  /\ form[c] = Closed
  /\ form' = [form EXCEPT ![c] = [row |-> row, token |-> Token(row)]]
  /\ touched' = [touched EXCEPT ![c] = FALSE]
  /\ UNCHANGED tables

\* The command of a client is over; a save has touched the forms of the others.
Submit(c, saved) ==
  LET row == form[c].row
  IN  /\ form' = [form EXCEPT ![c] = Closed]
      /\ touched' = [x \in Clients |-> IF x = c THEN FALSE
                                       ELSE touched[x] \/ (saved /\ form[x].row = row)]

MaySave(c) == form[c].token = Token(form[c].row)

\* UNIQUE (owner_id, version_no)
NumberIsFree == \A v \in versions : v.no # CurrentNo + 1

\* update_availability()
UpdateAvailability(c, from, minutes) ==
  /\ form[c].row = Weekly
  /\ MaySave(c) /\ NumberIsFree
  /\ Cardinality(versions) < MaxVersions
  /\ versions' = versions \cup {[from |-> from, no |-> CurrentNo + 1, minutes |-> minutes]}
  /\ Submit(c, TRUE)
  /\ UNCHANGED <<override, constraint>>

\* override_day()
OverrideDay(c, d, minutes) ==
  /\ form[c].row = OverrideOf(d)
  /\ MaySave(c)
  /\ override[d].revision < MaxRowRevision
  /\ override' = [override EXCEPT ![d] = [minutes |-> minutes, revision |-> @.revision + 1]]
  /\ Submit(c, TRUE)
  /\ UNCHANGED <<versions, constraint>>

Fits(t, d) == Minutes(MandatoryExcept(t, d)) + Need[t] <= Capacity(d)

\* constrain_task() with a kind: refused with BUDGET_CONFLICT unless it fits.
SetConstraint(c, t, d, kind) ==
  /\ form[c].row = ConstraintOf(t, d)
  /\ MaySave(c) /\ Fits(t, d)
  /\ constraint[<<t, d>>].revision < MaxRowRevision
  /\ constraint' = [constraint EXCEPT ![<<t, d>>] = [kind |-> kind, revision |-> @.revision + 1]]
  /\ Submit(c, TRUE)
  /\ UNCHANGED <<versions, override>>

ClearedRevision_Restarts(revision) == 0

\* A cleared row stays, and so does its count.
ClearedRevision(revision) == revision + 1

\* constrain_task() without a kind.
ClearConstraint(c, t, d) ==
  /\ form[c].row = ConstraintOf(t, d)
  /\ MaySave(c)
  /\ constraint[<<t, d>>].kind # "none"
  /\ constraint[<<t, d>>].revision < MaxRowRevision
  /\ constraint' = [constraint EXCEPT
       ![<<t, d>>] = [kind |-> "none", revision |-> ClearedRevision(@.revision)]]
  /\ Submit(c, TRUE)
  /\ UNCHANGED <<versions, override>>

\* Refused with any of the errors above, or given up by the client.
Refused(c) ==
  /\ form[c] # Closed
  /\ Submit(c, FALSE)
  /\ UNCHANGED tables

AvailNext ==
  \E c \in Clients :
    \/ \E row \in Forms : Open(c, row)
    \/ \E d \in Dates, m \in Quotas : UpdateAvailability(c, d, m) \/ OverrideDay(c, d, m)
    \/ \E t \in Tasks, d \in Dates :
         \/ \E kind \in Kinds \ {"none"} : SetConstraint(c, t, d, kind)
         \/ ClearConstraint(c, t, d)
    \/ Refused(c)

AvailSpec == AvailInit /\ [][AvailNext]_availVars

-----------------------------------------------------------------------------
\* A save only succeeds if nobody has saved the same thing since the client
\* opened its form.  For the weekly quota the version that is compared may be
\* an older one than the last saved; there the uniqueness of the number decides.
NoLostUpdate ==
  [][\A c \in Clients : touched[c] /\ form'[c] = Closed => tables' = tables]_availVars

\* The version the documents mean (03, section 4; models.py, AvailabilityVersion): the
\* last of those that have taken effect.
Begun(d) == {v \in versions : v.from <= d}
QuotaInForce(d) == IF Begun(d) = {} THEN 0 ELSE LastOf(Begun(d)).minutes
MinutesInForce(d) == IF override[d].revision > 0 THEN override[d].minutes ELSE QuotaInForce(d)

\* No version is saved ahead that would be taken in place of the one in force.
NoVersionAhead(d) == override[d].revision > 0 \/ \A v \in versions : v.from <= d

\* A constraint is never what makes a day overfull, whichever mixture of kinds,
\* cleared constraints and tasks in progress the day has (05, constrain_task),
\* measured with the quota that is in force on the day.  It is not so while a version
\* of a later date is saved: the code then goes by that one, on every day before it too
\* (_latest_availability has no condition on the date).
ConstraintsFit ==
  [][\A d \in Dates :
       Minutes(Mandatory(d))' > Minutes(Mandatory(d)) /\ NoVersionAhead(d) =>
         Minutes(Mandatory(d))' <= MinutesInForce(d)']_availVars

\* What the command's description says (a client that has seen the current version
\* may save the next one): the next number is free.
NextVersionIsFree == NumberIsFree
=============================================================================
