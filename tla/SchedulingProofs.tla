-------------------------- MODULE SchedulingProofs --------------------------
(***************************************************************************)
(* Theorems about Availability and AgendaEngine, one part each, and about  *)
(* the composition of the modules on scheduling (MCScheduling): each of    *)
(* the three behaves there as it does alone.                               *)
(***************************************************************************)
EXTENDS MCScheduling, PlanningProofs, SumTheorems

(***************************************************************************)
(* Availability.  A form is up to date until its row is saved by another   *)
(* client; from then on the revision it was opened with is behind, or, for *)
(* the weekly quota, the next number is taken.                             *)
(***************************************************************************)
\* The revision of a row as a function of what the tables hold.
TokenIn(no, overrides, constraints, row) ==
  CASE row = Weekly -> no
    [] row[1] = "override"   -> overrides[row[2]].revision
    [] row[1] = "constraint" -> constraints[<<row[2], row[3]>>].revision

Now(row) == TokenIn(CurrentNo, override, constraint, row)
Later(row) == TokenIn(CurrentNo', override', constraint', row)

Overtaken(f) ==
  IF f.row = Weekly THEN \E v \in versions : v.no = f.token + 1 ELSE f.token < Now(f.row)

FormFits(c) ==
  /\ form[c].row = NoForm => form[c] = Closed /\ ~touched[c]
  /\ form[c].row # NoForm =>
       /\ touched[c] => Overtaken(form[c])
       /\ ~touched[c] => form[c].token = Now(form[c].row)

FormsFit == \A c \in Clients : FormFits(c)

\* There are at least as many versions as any of them has for a number.
NumbersFit == IsFiniteSet(versions) /\ \A v \in versions : v.no <= Cardinality(versions)

AvailInv == AvailTypeOK /\ FormsFit /\ NumbersFit

\* The names of the rows are different, and none is the name of no row.
LEMMA RowNames ==
  /\ Weekly \in TableRows /\ Weekly # NoForm
  /\ \A d \in Dates : /\ OverrideOf(d) \in TableRows
                      /\ OverrideOf(d) \notin {Weekly, NoForm}
                      /\ \A e \in Dates : OverrideOf(d) = OverrideOf(e) => d = e
                      /\ \A t \in Tasks, e \in Dates : OverrideOf(d) # ConstraintOf(t, e)
  /\ \A t \in Tasks, d \in Dates :
       /\ ConstraintOf(t, d) \in TableRows
       /\ ConstraintOf(t, d) \notin {Weekly, NoForm}
       /\ \A u \in Tasks, e \in Dates : ConstraintOf(t, d) = ConstraintOf(u, e) => t = u /\ d = e
BY DEF Weekly, NoForm, OverrideOf, ConstraintOf, TableRows

LEMMA NowIs ==
  /\ Now(Weekly) = CurrentNo
  /\ \A d \in Dates : Now(OverrideOf(d)) = override[d].revision
  /\ \A t \in Tasks, d \in Dates : Now(ConstraintOf(t, d)) = constraint[<<t, d>>].revision
BY DEF Now, TokenIn, Weekly, OverrideOf, ConstraintOf

LEMMA LaterIs ==
  /\ Later(Weekly) = CurrentNo'
  /\ \A d \in Dates : Later(OverrideOf(d)) = override'[d].revision
  /\ \A t \in Tasks, d \in Dates : Later(ConstraintOf(t, d)) = constraint'[<<t, d>>].revision
BY DEF Later, TokenIn, Weekly, OverrideOf, ConstraintOf

LEMMA SameCurrentNo ==
  ASSUME UNCHANGED versions
  PROVE  CurrentNo' = CurrentNo
BY DEF CurrentNo, Latest

LEMMA TokenIs ==
  ASSUME NEW row
  PROVE  Token(row) = TokenIn(CurrentNo, override, constraint, row)
BY DEF Token, TokenIn

LEMMA RowKinds ==
  ASSUME NEW row \in TableRows
  PROVE  \/ row = Weekly
         \/ \E d \in Dates : row = OverrideOf(d)
         \/ \E t \in Tasks, d \in Dates : row = ConstraintOf(t, d)
BY DEF TableRows

\* A version that is the latest can always be found.
LEMMA LatestExists ==
  ASSUME NEW vs, IsFiniteSet(vs), vs \subseteq Versions, vs # {}
  PROVE  \E v \in vs : \A u \in vs : u.from < v.from \/ (u.from = v.from /\ u.no <= v.no)
<1> DEFINE UpTo(u, v) == u.from < v.from \/ (u.from = v.from /\ u.no <= v.no)
           G == {A \in SUBSET vs : A # {} => \E v \in A : \A u \in A : UpTo(u, v)}
<1>1. \A v \in vs : v.from \in Nat /\ v.no \in Nat
  <2>1. Dates \subseteq Nat /\ 1 .. MaxVersions \subseteq Nat
    BY AvailabilityAssumption
  <2>2. \A v \in Versions : v.from \in Dates /\ v.no \in 1 .. MaxVersions
    BY DEF Versions
  <2> QED
    BY <2>1, <2>2
<1>2. \A u \in vs : UpTo(u, u)
  BY <1>1
<1>6. \A u, v \in vs : UpTo(u, v) \/ UpTo(v, u)
  BY <1>1
<1>7. ASSUME NEW u \in vs, NEW v \in vs, NEW x \in vs, UpTo(u, v), UpTo(v, x)
      PROVE  UpTo(u, x)
  BY <1>1, <1>7
<1> HIDE DEF Behind
<1>3. {} \in G
  OBVIOUS
<1>4. ASSUME NEW A \in SUBSET vs, NEW x \in vs \ A, A \in G
      PROVE  A \cup {x} \in G
  <2>1. CASE A = {}
    <3>1. A \cup {x} = {x}
      BY <2>1
    <3> QED
      BY <1>2, <3>1
  <2>2. CASE A # {}
    <3>1. PICK v \in A : \A u \in A : UpTo(u, v)
      BY <1>4, <2>2
    <3>2. CASE UpTo(x, v)
      <4>1. \A u \in A \cup {x} : UpTo(u, v)
        BY <3>1, <3>2
      <4> QED
        BY <4>1
    <3>3. CASE UpTo(v, x)
      <4>1. ASSUME NEW u \in A \cup {x}
            PROVE  UpTo(u, x)
        <5>1. CASE u = x
          BY <1>2, <5>1
        <5>2. CASE u \in A
          BY <1>7, <3>1, <3>3, <5>2
        <5> QED
          BY <5>1, <5>2
      <4> QED
        BY <4>1
    <3> QED
      BY <1>6, <3>2, <3>3
  <2> QED
    BY <2>1, <2>2
<1>5. vs \in G
  <2> HIDE DEF G
  <2> QED
    BY <1>3, <1>4, FiniteInduction
<1> QED
  BY <1>5 DEF Behind

LEMMA CurrentNumber ==
  ASSUME AvailTypeOK, NumbersFit
  PROVE  CurrentNo \in Nat /\ CurrentNo <= Cardinality(versions) /\ Cardinality(versions) \in Nat
<1>1. Cardinality(versions) \in Nat
  BY FS_CardinalityType DEF NumbersFit
<1>2. CASE versions = {}
  BY <1>1, <1>2 DEF CurrentNo
<1>3. CASE versions # {}
  <2>1. Latest \in versions
    BY <1>3, LatestExists DEF Latest, LastOf, AvailTypeOK, NumbersFit
  <2>2. Latest.no \in Nat /\ Latest.no <= Cardinality(versions)
    BY <2>1, AvailabilityAssumption DEF AvailTypeOK, Versions, NumbersFit
  <2> QED
    BY <1>1, <1>3, <2>2 DEF CurrentNo
<1> QED
  BY <1>2, <1>3

LEMMA TokensAreNumbers ==
  ASSUME AvailTypeOK, NumbersFit, NEW row \in TableRows
  PROVE  Now(row) \in Nat
<1>1. CurrentNo \in Nat
  BY CurrentNumber
<1>2. MaxRowRevision \in Nat
  BY AvailabilityAssumption
<1>3. \A d \in Dates : override[d].revision \in Nat
  BY <1>2 DEF AvailTypeOK, Counter
<1>4. \A t \in Tasks, d \in Dates : constraint[<<t, d>>].revision \in Nat
  BY <1>2 DEF AvailTypeOK, Counter
<1> QED
  BY <1>1, <1>3, <1>4, RowKinds, NowIs

\* What the end of a command does to the forms.
LEMMA SubmitForms ==
  ASSUME AvailTypeOK, NEW c \in Clients, NEW saved \in BOOLEAN, Submit(c, saved)
  PROVE  /\ form' \in [Clients -> [row : TableRows \cup {NoForm}, token : Nat]]
         /\ touched' \in [Clients -> BOOLEAN]
         /\ form'[c] = Closed /\ touched'[c] = FALSE
         /\ \A x \in Clients \ {c} :
              /\ form'[x] = form[x]
              /\ touched'[x] <=> touched[x] \/ (saved /\ form[x].row = form[c].row)
<1>1. Closed \in [row : TableRows \cup {NoForm}, token : Nat]
  BY DEF Closed
<1>2. form' = [form EXCEPT ![c] = Closed]
  BY DEF Submit
<1>3. touched' = [x \in Clients |-> IF x = c THEN FALSE
                                   ELSE touched[x] \/ (saved /\ form[x].row = form[c].row)]
  BY DEF Submit
<1>4. \A x \in Clients : touched[x] \in BOOLEAN
  BY DEF AvailTypeOK
<1>5. touched' \in [Clients -> BOOLEAN]
  <2>1. \A x \in Clients :
          (IF x = c THEN FALSE ELSE touched[x] \/ (saved /\ form[x].row = form[c].row)) \in BOOLEAN
    BY Zenon
  <2> QED
    BY <1>3, <2>1, Zenon
<1>6. ASSUME NEW x \in Clients \ {c}
      PROVE  touched'[x] <=> touched[x] \/ (saved /\ form[x].row = form[c].row)
  <2>1. touched'[x] = IF x = c THEN FALSE ELSE touched[x] \/ (saved /\ form[x].row = form[c].row)
    BY <1>3, Zenon
  <2> QED
    BY <1>6, <2>1, Zenon
<1>7. touched'[c] = FALSE
  BY <1>3
<1> QED
  BY <1>1, <1>2, <1>5, <1>6, <1>7 DEF AvailTypeOK

\* A saved row is behind for everybody who has it open, and no other row is.
LEMMA SavedFormsFit ==
  ASSUME AvailInv, NEW c \in Clients, form[c].row # NoForm, Submit(c, TRUE),
         versions \subseteq versions',
         \A row \in TableRows \ {form[c].row} : Later(row) = Now(row),
         form[c].row # Weekly => Later(form[c].row) = Now(form[c].row) + 1,
         form[c].row = Weekly => \E v \in versions' : v.no = Now(Weekly) + 1
  PROVE  FormsFit'
<1>1. /\ form'[c] = Closed /\ touched'[c] = FALSE
      /\ \A x \in Clients \ {c} :
           /\ form'[x] = form[x]
           /\ touched'[x] <=> touched[x] \/ form[x].row = form[c].row
  BY SubmitForms DEF AvailInv
<1>2. FormFits(c)'
  BY <1>1 DEF FormFits, Closed
<1>3. ASSUME NEW x \in Clients \ {c}
      PROVE  FormFits(x)'
  <2> DEFINE row == form[x].row
             token == form[x].token
  <2>1. form'[x] = form[x] /\ (touched'[x] <=> touched[x] \/ row = form[c].row)
    BY <1>1
  <2>2. FormFits(x) /\ (row # NoForm => row \in TableRows)
    BY DEF AvailInv, AvailTypeOK, FormsFit
  <2>3. CASE row = NoForm
    BY <2>1, <2>2, <2>3 DEF FormFits
  <2>4. CASE row # NoForm /\ row # form[c].row
    <3>1. Later(row) = Now(row)
      BY <2>2, <2>4
    <3>2. Overtaken(form[x]) => Overtaken(form[x])'
      BY <2>1, <3>1 DEF Overtaken, Now, Later
    <3> QED
      BY <2>1, <2>2, <2>4, <3>1, <3>2 DEF FormFits, Overtaken, Now, Later
  <2>5. CASE row = form[c].row
    <3>1. row # NoForm /\ row \in TableRows /\ touched'[x]
      BY <2>1, <2>2, <2>5
    <3>2. token \in Nat
      BY DEF AvailInv, AvailTypeOK
    <3>3. CASE row = Weekly
      <4>1. \E v \in versions' : v.no = token + 1
        BY <2>2, <2>5, <3>1, <3>3 DEF FormFits, Overtaken, Now, Later
      <4> QED
        BY <2>1, <3>1, <3>3, <4>1 DEF FormFits, Overtaken, Now, Later
    <3>4. CASE row # Weekly
      <4>1. token <= Now(row) /\ Now(row) \in Nat
        BY <2>2, <3>1, <3>2, <3>4, TokensAreNumbers DEF FormFits, Overtaken, Now, Later, AvailInv
      <4>2. token < Later(row)
        BY <2>5, <3>2, <3>4, <4>1
      <4> QED
        BY <2>1, <3>1, <3>4, <4>2 DEF FormFits, Overtaken, Now, Later
    <3> QED
      BY <3>3, <3>4
  <2> QED
    BY <2>3, <2>4, <2>5
<1> QED
  BY <1>2, <1>3 DEF FormsFit

LEMMA OpenKeeps ==
  ASSUME AvailInv, NEW c \in Clients, NEW row \in Forms, Open(c, row)
  PROVE  AvailInv'
<1>1. row \in TableRows /\ row # NoForm /\ Now(row) \in Nat
  BY TokensAreNumbers, FormsAssumption, RowNames DEF AvailInv, TableRows
<1> DEFINE f == [row |-> row, token |-> Token(row)]
<1>2. /\ f \in [row : TableRows \cup {NoForm}, token : Nat]
      /\ f.row = row /\ f.token = Now(row)
  <2>1. Token(row) = Now(row)
    BY TokenIs DEF Now
  <2> QED
    BY <1>1, <2>1
<1>3. /\ form' = [form EXCEPT ![c] = f] /\ touched' = [touched EXCEPT ![c] = FALSE]
      /\ UNCHANGED <<versions, override, constraint>>
  BY DEF Open, tables
<1>4. \A r \in TableRows : Later(r) = Now(r)
  BY <1>3, RowKinds, NowIs, LaterIs, SameCurrentNo
<1> HIDE DEF f
<1>5. AvailTypeOK'
  BY <1>2, <1>3 DEF AvailInv, AvailTypeOK
<1>6. FormFits(c)'
  <2>1. form'[c] = f /\ touched'[c] = FALSE
    BY <1>3 DEF AvailInv, AvailTypeOK
  <2> QED
    BY <1>1, <1>2, <1>4, <2>1 DEF FormFits, Now, Later
<1>7. ASSUME NEW x \in Clients \ {c}
      PROVE  FormFits(x)'
  <2>1. form'[x] = form[x] /\ touched'[x] = touched[x] /\ FormFits(x)
    BY <1>3 DEF AvailInv, AvailTypeOK, FormsFit
  <2>2. form[x].row \in TableRows \cup {NoForm}
    BY DEF AvailInv, AvailTypeOK
  <2> QED
    BY <1>3, <1>4, <2>1, <2>2 DEF FormFits, Overtaken, Now, Later
<1>8. NumbersFit'
  BY <1>3 DEF AvailInv, NumbersFit
<1> QED
  BY <1>5, <1>6, <1>7, <1>8 DEF AvailInv, FormsFit

LEMMA UpdateKeeps ==
  ASSUME AvailInv, NEW c \in Clients, NEW d \in Dates, NEW m \in Quotas, UpdateAvailability(c, d, m)
  PROVE  AvailInv'
<1> DEFINE v == [from |-> d, no |-> CurrentNo + 1, minutes |-> m]
<1>1. /\ form[c].row = Weekly /\ Submit(c, TRUE) /\ UNCHANGED <<override, constraint>>
      /\ versions' = versions \cup {v}
      /\ \A u \in versions : u.no # CurrentNo + 1
      /\ Cardinality(versions) < MaxVersions
  BY DEF UpdateAvailability, NumberIsFree
<1>2. /\ CurrentNo \in Nat /\ CurrentNo <= Cardinality(versions) /\ Cardinality(versions) \in Nat
      /\ IsFiniteSet(versions) /\ MaxVersions \in Nat
  BY CurrentNumber, AvailabilityAssumption DEF AvailInv, NumbersFit
<1>3. v \in Versions /\ v.no = CurrentNo + 1
  BY <1>1, <1>2 DEF Versions
<1> HIDE DEF v
<1>4. v \notin versions
  BY <1>1, <1>3
<1>5. IsFiniteSet(versions') /\ Cardinality(versions') = Cardinality(versions) + 1
  BY <1>1, <1>2, <1>4, FS_AddElement
<1>6. NumbersFit'
  <2>1. \A u \in versions : u.no \in Nat /\ u.no <= Cardinality(versions)
    BY AvailabilityAssumption DEF AvailInv, AvailTypeOK, Versions, NumbersFit
  <2> QED
    BY <1>1, <1>2, <1>3, <1>5, <2>1 DEF NumbersFit
<1>7. AvailTypeOK'
  BY <1>1, <1>3, SubmitForms DEF AvailInv, AvailTypeOK
<1>8. ASSUME NEW row \in TableRows \ {Weekly}
      PROVE  Later(row) = Now(row)
  <2>1. CASE \E e \in Dates : row = OverrideOf(e)
    BY <1>1, <2>1, NowIs, LaterIs
  <2>2. CASE \E t \in Tasks, e \in Dates : row = ConstraintOf(t, e)
    BY <1>1, <2>2, NowIs, LaterIs
  <2> QED
    BY <1>8, <2>1, <2>2, RowKinds
<1>9. \E u \in versions' : u.no = Now(Weekly) + 1
  BY <1>1, <1>3, NowIs
<1>10. FormsFit'
  BY <1>1, <1>8, <1>9, RowNames, SavedFormsFit
<1> QED
  BY <1>6, <1>7, <1>10 DEF AvailInv

\* A row of the two other tables is saved with the next revision.
LEMMA RowSaveKeeps ==
  ASSUME AvailInv, NEW c \in Clients, form[c].row \in TableRows \ {Weekly}, Submit(c, TRUE),
         UNCHANGED versions,
         override' \in [Dates -> [minutes : Quotas \cup {0}, revision : Counter]],
         constraint' \in [Tasks \X Dates -> [kind : Kinds, revision : Counter]],
         \A row \in TableRows \ {form[c].row} : Later(row) = Now(row),
         Later(form[c].row) = Now(form[c].row) + 1
  PROVE  AvailInv'
<1>1. form[c].row # NoForm
  BY RowNames DEF TableRows
<1>4. FormsFit'
  BY <1>1, SavedFormsFit
<1>5. AvailTypeOK'
  BY SubmitForms DEF AvailInv, AvailTypeOK
<1>6. NumbersFit'
  BY DEF AvailInv, NumbersFit
<1> QED
  BY <1>4, <1>5, <1>6 DEF AvailInv

LEMMA OverrideKeeps ==
  ASSUME AvailInv, NEW c \in Clients, NEW d \in Dates, NEW m \in Quotas, OverrideDay(c, d, m)
  PROVE  AvailInv'
<1> DEFINE n == override[d].revision
           o == [minutes |-> m, revision |-> n + 1]
<1>1. /\ form[c].row = OverrideOf(d) /\ Submit(c, TRUE) /\ UNCHANGED <<versions, constraint>>
      /\ override' = [override EXCEPT ![d] = o] /\ n < MaxRowRevision
  BY DEF OverrideDay
<1>2. n \in 0 .. MaxRowRevision /\ MaxRowRevision \in Nat
  BY AvailabilityAssumption DEF AvailInv, AvailTypeOK, Counter
<1>3. o \in [minutes : Quotas \cup {0}, revision : Counter] /\ o.revision = n + 1
  BY <1>1, <1>2 DEF Counter
<1> HIDE DEF o
<1>4. override' \in [Dates -> [minutes : Quotas \cup {0}, revision : Counter]]
  BY <1>1, <1>3 DEF AvailInv, AvailTypeOK
<1>5. override'[d] = o /\ \A e \in Dates \ {d} : override'[e] = override[e]
  BY <1>1 DEF AvailInv, AvailTypeOK
<1>6. Later(OverrideOf(d)) = Now(OverrideOf(d)) + 1
  BY <1>3, <1>5, NowIs, LaterIs
<1>7. ASSUME NEW row \in TableRows \ {OverrideOf(d)}
      PROVE  Later(row) = Now(row)
  <2>1. CASE row = Weekly
    BY <1>1, <2>1, NowIs, LaterIs, SameCurrentNo
  <2>2. ASSUME NEW e \in Dates, row = OverrideOf(e)
        PROVE  Later(row) = Now(row)
    <3>1. e # d
      BY <1>7, <2>2
    <3> QED
      BY <1>5, <2>2, <3>1, NowIs, LaterIs
  <2>3. ASSUME NEW t \in Tasks, NEW e \in Dates, row = ConstraintOf(t, e)
        PROVE  Later(row) = Now(row)
    <3>1. constraint' = constraint
      BY <1>1
    <3> QED
      BY <2>3, <3>1, NowIs, LaterIs
  <2> QED
    BY <2>1, <2>2, <2>3, RowKinds
<1>8. OverrideOf(d) \in TableRows \ {Weekly}
  BY RowNames
<1>9. constraint' \in [Tasks \X Dates -> [kind : Kinds, revision : Counter]]
  BY <1>1 DEF AvailInv, AvailTypeOK
<1> QED
  BY <1>1, <1>4, <1>6, <1>7, <1>8, <1>9, RowSaveKeeps

LEMMA ConstraintKeeps ==
  ASSUME AvailInv, NEW c \in Clients, NEW t \in Tasks, NEW d \in Dates,
         (\E kind \in Kinds \ {"none"} : SetConstraint(c, t, d, kind)) \/ ClearConstraint(c, t, d)
  PROVE  AvailInv'
<1> DEFINE n == constraint[<<t, d>>].revision
<1>1. PICK kind \in Kinds :
        /\ form[c].row = ConstraintOf(t, d) /\ Submit(c, TRUE)
        /\ UNCHANGED <<versions, override>>
        /\ constraint' = [constraint EXCEPT ![<<t, d>>] = [kind |-> kind, revision |-> n + 1]]
        /\ n < MaxRowRevision
  <2>1. CASE ClearConstraint(c, t, d)
    BY <2>1 DEF ClearConstraint, ClearedRevision, Kinds
  <2>2. ASSUME NEW k \in Kinds \ {"none"}, SetConstraint(c, t, d, k)
        PROVE  /\ form[c].row = ConstraintOf(t, d) /\ Submit(c, TRUE)
               /\ UNCHANGED <<versions, override>>
               /\ constraint' = [constraint EXCEPT ![<<t, d>>] = [kind |-> k, revision |-> n + 1]]
               /\ n < MaxRowRevision
    BY <2>2 DEF SetConstraint
  <2> QED
    BY <2>1, <2>2
<1> DEFINE o == [kind |-> kind, revision |-> n + 1]
<1>2. n \in 0 .. MaxRowRevision /\ MaxRowRevision \in Nat /\ <<t, d>> \in Tasks \X Dates
  BY AvailabilityAssumption DEF AvailInv, AvailTypeOK, Counter
<1>3. o \in [kind : Kinds, revision : Counter] /\ o.revision = n + 1
  BY <1>1, <1>2 DEF Counter
<1>4. constraint' = [constraint EXCEPT ![<<t, d>>] = o]
  BY <1>1
<1> HIDE DEF o
<1>5. constraint' \in [Tasks \X Dates -> [kind : Kinds, revision : Counter]]
  BY <1>3, <1>4 DEF AvailInv, AvailTypeOK
<1>6. /\ constraint'[<<t, d>>] = o
      /\ \A u \in Tasks, e \in Dates : <<u, e>> # <<t, d>> =>
           constraint'[<<u, e>>] = constraint[<<u, e>>]
  BY <1>2, <1>4 DEF AvailInv, AvailTypeOK
<1>7. Later(ConstraintOf(t, d)) = Now(ConstraintOf(t, d)) + 1
  BY <1>3, <1>6, NowIs, LaterIs
<1>8. ASSUME NEW row \in TableRows \ {ConstraintOf(t, d)}
      PROVE  Later(row) = Now(row)
  <2>1. CASE row = Weekly
    BY <1>1, <2>1, NowIs, LaterIs, SameCurrentNo
  <2>2. ASSUME NEW e \in Dates, row = OverrideOf(e)
        PROVE  Later(row) = Now(row)
    BY <1>1, <2>2, NowIs, LaterIs
  <2>3. ASSUME NEW u \in Tasks, NEW e \in Dates, row = ConstraintOf(u, e)
        PROVE  Later(row) = Now(row)
    <3>1. <<u, e>> # <<t, d>>
      BY <1>8, <2>3
    <3>2. constraint'[<<u, e>>] = constraint[<<u, e>>]
      BY <1>6, <3>1
    <3> QED
      BY <2>3, <3>2, NowIs, LaterIs
  <2> QED
    BY <2>1, <2>2, <2>3 DEF TableRows
<1>9. ConstraintOf(t, d) \in TableRows \ {Weekly}
  BY RowNames
<1>10. override' \in [Dates -> [minutes : Quotas \cup {0}, revision : Counter]]
  BY <1>1 DEF AvailInv, AvailTypeOK
<1> QED
  BY <1>1, <1>5, <1>7, <1>8, <1>9, <1>10, RowSaveKeeps

LEMMA RefusedKeeps ==
  ASSUME AvailInv, (\E c \in Clients : Refused(c)) \/ UNCHANGED availVars
  PROVE  AvailInv'
<1>1. UNCHANGED <<versions, override, constraint>>
  BY DEF Refused, tables, availVars
<1>2. \A row \in TableRows : Later(row) = Now(row)
  BY <1>1, RowKinds, NowIs, LaterIs, SameCurrentNo
<1>3. ASSUME NEW x \in Clients, form'[x] = form[x], touched'[x] <=> touched[x]
      PROVE  FormFits(x)'
  <2>1. FormFits(x) /\ form[x].row \in TableRows \cup {NoForm}
    BY DEF AvailInv, AvailTypeOK, FormsFit
  <2> QED
    BY <1>1, <1>2, <1>3, <2>1 DEF FormFits, Overtaken, Now, Later
<1>4. ASSUME NEW c \in Clients, Refused(c)
      PROVE  AvailInv'
  <2>1. /\ form' \in [Clients -> [row : TableRows \cup {NoForm}, token : Nat]]
        /\ touched' \in [Clients -> BOOLEAN]
        /\ form'[c] = Closed /\ touched'[c] = FALSE
        /\ \A x \in Clients \ {c} : form'[x] = form[x] /\ (touched'[x] <=> touched[x])
    BY <1>4, SubmitForms DEF Refused, AvailInv
  <2>2. FormFits(c)'
    BY <2>1 DEF FormFits, Closed
  <2> QED
    BY <1>1, <1>3, <2>1, <2>2 DEF AvailInv, AvailTypeOK, FormsFit, NumbersFit
<1>5. CASE UNCHANGED availVars
  <2>1. form' = form /\ touched' = touched
    BY <1>5 DEF availVars
  <2> QED
    BY <1>1, <1>3, <2>1 DEF AvailInv, AvailTypeOK, FormsFit, NumbersFit
<1> QED
  BY <1>4, <1>5

LEMMA AvailInitInv == AvailInit => AvailInv
<1> SUFFICES ASSUME AvailInit PROVE AvailInv
  OBVIOUS
<1>1. 0 \in Counter
  BY AvailabilityAssumption DEF Counter
<1>2. Closed \in [row : TableRows \cup {NoForm}, token : Nat] /\ Closed.row = NoForm
  BY DEF Closed
<1>3. AvailTypeOK
  BY <1>1, <1>2 DEF AvailInit, AvailTypeOK, Kinds
<1>4. FormsFit
  BY <1>2 DEF AvailInit, FormsFit, FormFits
<1>5. NumbersFit
  BY FS_EmptySet DEF AvailInit, NumbersFit
<1> QED
  BY <1>3, <1>4, <1>5 DEF AvailInv

LEMMA AvailNextInv == AvailInv /\ [AvailNext]_availVars => AvailInv'
<1> SUFFICES ASSUME AvailInv, [AvailNext]_availVars PROVE AvailInv'
  OBVIOUS
<1>1. CASE UNCHANGED availVars
  BY <1>1, RefusedKeeps
<1>2. CASE AvailNext
  BY <1>2, OpenKeeps, UpdateKeeps, OverrideKeeps, ConstraintKeeps, RefusedKeeps DEF AvailNext
<1> QED
  BY <1>1, <1>2

\* A form is up to date until its row is saved by another client, in every reachable
\* state (update_availability, override_day, constrain_task).
THEOREM AvailInvariance == AvailSpec => []AvailInv
BY AvailInitInv, AvailNextInv, PTL DEF AvailSpec

\* The rows of Availability have the types of AvailTypeOK (_latest_availability,
\* the CHECK constraints of the three tables and the forms' revisions).
THEOREM AvailTypeCorrect == AvailSpec => []AvailTypeOK
<1>1. AvailInv => AvailTypeOK
  BY DEF AvailInv
<1> QED
  BY <1>1, AvailInvariance, PTL

\* Only the end of a client's command closes its form.
LEMMA ClosedBySubmit ==
  ASSUME AvailInv, AvailNext, NEW c \in Clients, form[c].row # NoForm, form'[c] = Closed
  PROVE  \/ MaySave(c) /\ (form[c].row = Weekly => NumberIsFree)
         \/ UNCHANGED tables
<1>1. ASSUME NEW x \in Clients, NEW row \in Forms, Open(x, row)
      PROVE  FALSE
  <2>1. form' = [form EXCEPT ![x] = [row |-> row, token |-> Token(row)]] /\ form[x] = Closed
    BY <1>1 DEF Open
  <2>2. x # c /\ form'[c] = form[c]
    BY <2>1 DEF Closed, AvailInv, AvailTypeOK
  <2> QED
    BY <2>2 DEF Closed
<1>2. ASSUME NEW x \in Clients, NEW saved \in BOOLEAN, Submit(x, saved)
      PROVE  x = c
  <2>1. x # c => form'[c] = form[c]
    BY <1>2, SubmitForms DEF AvailInv
  <2> QED
    BY <2>1 DEF Closed
<1>3. ASSUME NEW x \in Clients, NEW d \in Dates, NEW m \in Quotas,
             UpdateAvailability(x, d, m) \/ OverrideDay(x, d, m)
      PROVE  MaySave(c) /\ (form[c].row = Weekly => NumberIsFree)
  <2>1. Submit(x, TRUE) /\ MaySave(x)
    BY <1>3 DEF UpdateAvailability, OverrideDay
  <2>2. UpdateAvailability(x, d, m) => NumberIsFree
    BY DEF UpdateAvailability
  <2>3. OverrideDay(x, d, m) => form[x].row # Weekly
    BY RowNames DEF OverrideDay
  <2> QED
    BY <1>2, <1>3, <2>1, <2>2, <2>3
<1>4. ASSUME NEW x \in Clients, NEW t \in Tasks, NEW d \in Dates,
             (\E kind \in Kinds \ {"none"} : SetConstraint(x, t, d, kind))
               \/ ClearConstraint(x, t, d)
      PROVE  MaySave(c) /\ (form[c].row = Weekly => NumberIsFree)
  <2>1. Submit(x, TRUE) /\ MaySave(x) /\ form[x].row = ConstraintOf(t, d)
    BY <1>4 DEF SetConstraint, ClearConstraint
  <2> QED
    BY <1>2, <2>1, RowNames
<1>5. ASSUME NEW x \in Clients, Refused(x)
      PROVE  UNCHANGED tables
  BY <1>5 DEF Refused
<1> QED
  BY <1>1, <1>3, <1>4, <1>5 DEF AvailNext

\* A save never replaces what somebody else has saved since the form was opened
\* (expected_revision in update_availability, override_day and constrain_task).
THEOREM SavesOverwriteNothing == AvailSpec => NoLostUpdate
<1>1. ASSUME AvailInv, [AvailNext]_availVars
      PROVE  [\A c \in Clients : touched[c] /\ form'[c] = Closed => tables' = tables]_availVars
  <2>1. CASE UNCHANGED availVars
    BY <2>1
  <2>2. ASSUME AvailNext, NEW c \in Clients, touched[c], form'[c] = Closed
        PROVE  tables' = tables
    <3>1. form[c].row \in TableRows /\ form[c].row # NoForm /\ Overtaken(form[c])
      BY <1>1, <2>2 DEF AvailInv, AvailTypeOK, FormsFit, FormFits
    <3>2. CASE MaySave(c) /\ (form[c].row = Weekly => NumberIsFree)
      <4>1. form[c].token = Now(form[c].row) /\ Now(form[c].row) \in Nat
        BY <1>1, <3>1, <3>2, TokenIs, TokensAreNumbers DEF MaySave, Now, AvailInv
      <4>2. form[c].row = Weekly
        BY <3>1, <4>1 DEF Overtaken
      <4>3. form[c].token = CurrentNo
        BY <4>1, <4>2, NowIs
      <4> QED
        BY <3>1, <3>2, <4>2, <4>3 DEF Overtaken, NumberIsFree
    <3> QED
      BY <1>1, <2>2, <3>1, <3>2, ClosedBySubmit DEF tables
  <2> QED
    BY <1>1, <2>1, <2>2
<1> QED
  BY <1>1, AvailInvariance, PTL DEF AvailSpec, NoLostUpdate

\* The minutes of a set of tasks.
LEMMA MinutesAreTotals ==
  ASSUME NEW S
  PROVE  Minutes(S) = Total(Need, S)
BY DEF Minutes, Total

LEMMA MandatoryIsFinite ==
  ASSUME NEW d \in Dates
  PROVE  Mandatory(d) \subseteq Tasks /\ IsFiniteSet(Mandatory(d))
<1>1. Mandatory(d) \subseteq Tasks
  BY AvailabilityAssumption DEF Mandatory
<1> QED
  BY <1>1, FS_Subset, AvailabilityAssumption

\* A day's minutes, now and after a step, are sums over what it has to do.
LEMMA DayIsTotal ==
  ASSUME NEW d \in Dates
  PROVE  /\ Minutes(Mandatory(d)) = Total(Need, Mandatory(d))
         /\ Minutes(Mandatory(d))' = Total(Need, Mandatory(d)')
<1>1. Minutes(Mandatory(d)) = Total(Need, Mandatory(d))
  BY DEF Minutes, Total
<1>2. Minutes(Mandatory(d))' = Total(Need, Mandatory(d)')
  BY DEF Minutes, Total, MapThenSumSet, MapThenFoldSet
<1> QED
  BY <1>1, <1>2

\* A command that is not about tasks leaves them as they are.
LEMMA SameMinutes ==
  ASSUME UNCHANGED constraint, NEW d \in Dates
  PROVE  Minutes(Mandatory(d))' = Minutes(Mandatory(d))
<1>1. Mandatory(d)' = Mandatory(d)
  BY DEF Mandatory
<1> QED
  BY <1>1, DayIsTotal

LEMMA MinutesGrow ==
  ASSUME NEW S \in SUBSET Tasks, NEW A \in SUBSET S
  PROVE  /\ Total(Need, A) \in Nat /\ Total(Need, S) \in Nat
         /\ Total(Need, A) <= Total(Need, S)
<1>1. IsFiniteSet(S) /\ \A t \in S : Need[t] \in Nat
  BY FS_Subset, AvailabilityAssumption
<1> QED
  BY <1>1, TotalGrows

\* What setting or clearing the constraint of a task does to a day.
LEMMA KindsAfter ==
  ASSUME AvailInv, NEW t \in Tasks, NEW e \in Dates, NEW o, o.kind \in Kinds,
         constraint' = [constraint EXCEPT ![<<t, e>>] = o], NEW d \in Dates
  PROVE  /\ d # e => Mandatory(d)' = Mandatory(d)
         /\ Mandatory(e)' = IF o.kind = "none" THEN Fixed[e] \cup (Mandatory(e) \ {t})
                            ELSE MandatoryExcept(t, e) \cup {t}
<1>1. /\ constraint'[<<t, e>>] = o
      /\ \A u \in Tasks, x \in Dates : <<u, x>> # <<t, e>> =>
           constraint'[<<u, x>>] = constraint[<<u, x>>]
  BY DEF AvailInv, AvailTypeOK
<1>2. ASSUME d # e
      PROVE  Mandatory(d)' = Mandatory(d)
  <2>1. \A u \in Tasks : constraint'[<<u, d>>] = constraint[<<u, d>>]
    BY <1>1, <1>2
  <2> QED
    BY <2>1 DEF Mandatory
<1>3. ASSUME NEW u \in Tasks
      PROVE  constraint'[<<u, e>>].kind # "none" <=>
               IF u = t THEN o.kind # "none" ELSE constraint[<<u, e>>].kind # "none"
  BY <1>1
<1>4. Fixed[e] \subseteq Tasks
  BY AvailabilityAssumption
<1>5. Mandatory(e)' = Fixed[e] \cup {u \in Tasks : constraint'[<<u, e>>].kind # "none"}
  BY DEF Mandatory
<1>6. CASE o.kind = "none"
  <2>1. {u \in Tasks : constraint'[<<u, e>>].kind # "none"}
          = {u \in Tasks : constraint[<<u, e>>].kind # "none"} \ {t}
    BY <1>3, <1>6
  <2> QED
    BY <1>2, <1>5, <1>6, <2>1 DEF Mandatory
<1>7. CASE o.kind # "none"
  <2>1. {u \in Tasks : constraint'[<<u, e>>].kind # "none"}
          = {u \in Tasks : constraint[<<u, e>>].kind # "none"} \cup {t}
    BY <1>3, <1>7
  <2> QED
    BY <1>2, <1>5, <1>7, <2>1 DEF Mandatory, MandatoryExcept
<1> QED
  BY <1>6, <1>7

LEMMA SetConstraintFits ==
  ASSUME AvailInv, NEW c \in Clients, NEW t \in Tasks, NEW e \in Dates,
         NEW kind \in Kinds \ {"none"}, SetConstraint(c, t, e, kind),
         NEW d \in Dates, Minutes(Mandatory(d))' > Minutes(Mandatory(d))
  PROVE  Minutes(Mandatory(d))' <= Capacity(d)'
<1> DEFINE n == constraint[<<t, e>>].revision
           o == [kind |-> kind, revision |-> n + 1]
           rest == MandatoryExcept(t, e)
<1>1. /\ Fits(t, e) /\ UNCHANGED <<versions, override>>
      /\ constraint' = [constraint EXCEPT ![<<t, e>>] = o]
  BY DEF SetConstraint
<1>2. o.kind = kind
  OBVIOUS
<1> HIDE DEF o, n
<1>3. /\ d # e => Mandatory(d)' = Mandatory(d)
      /\ Mandatory(e)' = rest \cup {t}
  <2>1. o.kind \in Kinds /\ o.kind # "none"
    BY <1>2
  <2> HIDE DEF rest
  <2>2. /\ d # e => Mandatory(d)' = Mandatory(d)
        /\ Mandatory(e)' = IF o.kind = "none" THEN Fixed[e] \cup (Mandatory(e) \ {t})
                           ELSE MandatoryExcept(t, e) \cup {t}
    BY <1>1, <2>1, KindsAfter, Zenon
  <2> QED
    BY <2>1, <2>2 DEF rest
<1>4. rest \in SUBSET Tasks /\ t \notin rest
  BY MandatoryIsFinite DEF MandatoryExcept
<1> HIDE DEF rest
<1>5. Minutes(Mandatory(d)) = Total(Need, Mandatory(d))
      /\ Minutes(Mandatory(d))' = Total(Need, Mandatory(d)')
  BY DayIsTotal
<1>6. d = e
  <2>1. Total(Need, Mandatory(d)) \in Nat
    BY MandatoryIsFinite, MinutesGrow
  <2> QED
    BY <1>3, <1>5, <2>1
<1>7. Capacity(d)' = Capacity(d)
  BY <1>1 DEF Capacity, Latest
<1>8. Total(Need, rest \cup {t}) = Need[t] + Total(Need, rest)
  <2>1. IsFiniteSet(rest) /\ \A y \in rest \cup {t} : Need[y] \in Int
    BY <1>4, FS_Subset, AvailabilityAssumption
  <2> QED
    BY <1>4, <2>1, TotalWithOneMore
<1>9. Total(Need, rest) + Need[t] <= Capacity(d)
  BY <1>1, <1>6, MinutesAreTotals DEF Fits, rest
<1>10. Total(Need, rest) \in Nat /\ Need[t] \in Nat
  BY <1>4, MinutesGrow, AvailabilityAssumption
<1>11. Minutes(Mandatory(d))' = Total(Need, rest \cup {t})
  BY <1>3, <1>5, <1>6
<1> QED
  BY <1>7, <1>8, <1>9, <1>10, <1>11

LEMMA ClearConstraintFits ==
  ASSUME AvailInv, NEW c \in Clients, NEW t \in Tasks, NEW e \in Dates,
         ClearConstraint(c, t, e), NEW d \in Dates
  PROVE  ~ (Minutes(Mandatory(d))' > Minutes(Mandatory(d)))
<1> DEFINE n == constraint[<<t, e>>].revision
           o == [kind |-> "none", revision |-> ClearedRevision(n)]
<1>1. constraint' = [constraint EXCEPT ![<<t, e>>] = o]
  BY DEF ClearConstraint
<1>2. o.kind = "none" /\ o.kind \in Kinds
  BY DEF Kinds
<1> HIDE DEF o, n
<1>3. /\ d # e => Mandatory(d)' = Mandatory(d)
      /\ Mandatory(e)' = Fixed[e] \cup (Mandatory(e) \ {t})
  <2>1. /\ d # e => Mandatory(d)' = Mandatory(d)
        /\ Mandatory(e)' = IF o.kind = "none" THEN Fixed[e] \cup (Mandatory(e) \ {t})
                           ELSE MandatoryExcept(t, e) \cup {t}
    BY <1>1, <1>2, KindsAfter, Zenon
  <2> QED
    BY <1>2, <2>1
<1>4. Mandatory(d)' \subseteq Mandatory(d) /\ Mandatory(d) \subseteq Tasks
  BY <1>3, MandatoryIsFinite DEF Mandatory
<1>5. Minutes(Mandatory(d)) = Total(Need, Mandatory(d))
      /\ Minutes(Mandatory(d))' = Total(Need, Mandatory(d)')
  BY DayIsTotal
<1> DEFINE A == Mandatory(d)'
           S == Mandatory(d)
<1>6. A \in SUBSET S /\ S \in SUBSET Tasks
  BY <1>4
<1>7. Total(Need, A) \in Nat /\ Total(Need, S) \in Nat /\ Total(Need, A) <= Total(Need, S)
  <2> HIDE DEF A, S
  <2> QED
    BY <1>6, MinutesGrow
<1> QED
  BY <1>5, <1>7

\* Without a version of a later date the code goes by the version that is in force.
LEMMA CapacityIsInForce ==
  ASSUME NEW d \in Dates, NoVersionAhead(d)
  PROVE  Capacity(d) = MinutesInForce(d)
<1>1. CASE override[d].revision > 0
  BY <1>1 DEF Capacity, MinutesInForce
<1>2. CASE \A v \in versions : v.from <= d
  <2>1. Begun(d) = versions
    <3>1. \A v : v \in Begun(d) <=> v \in versions
      BY <1>2 DEF Begun
    <3> QED
      BY <3>1
  <2>2. LastOf(Begun(d)) = Latest
    BY <2>1 DEF Latest
  <2>3. QuotaInForce(d) = IF versions = {} THEN 0 ELSE Latest.minutes
    BY <2>1, <2>2 DEF QuotaInForce
  <2> QED
    BY <2>3 DEF Capacity, MinutesInForce
<1> QED
  BY <1>1, <1>2 DEF NoVersionAhead

\* A task constraint is accepted only if the day's mandatory minutes stay within
\* its capacity (constrain_task, BUDGET_CONFLICT), whatever else the day holds: within
\* the quota in force on the day, while no version of a later date is saved.
THEOREM ConstraintsNeverOverfill == AvailSpec => ConstraintsFit
<1>1. ASSUME AvailInv, [AvailNext]_availVars
      PROVE  [\A d \in Dates :
                Minutes(Mandatory(d))' > Minutes(Mandatory(d)) /\ NoVersionAhead(d) =>
                  Minutes(Mandatory(d))' <= MinutesInForce(d)']_availVars
  <2>1. CASE UNCHANGED availVars
    BY <2>1
  <2>2. ASSUME AvailNext, NEW d \in Dates, Minutes(Mandatory(d))' > Minutes(Mandatory(d)),
               NoVersionAhead(d)
        PROVE  Minutes(Mandatory(d))' <= MinutesInForce(d)'
    <3>1. CASE UNCHANGED constraint
      <4>1. Minutes(Mandatory(d)) \in Nat
        BY DayIsTotal, MandatoryIsFinite, MinutesGrow
      <4> QED
        BY <2>2, <3>1, <4>1, SameMinutes
    <3>2. ASSUME NEW c \in Clients, NEW t \in Tasks, NEW e \in Dates,
                 (\E kind \in Kinds \ {"none"} : SetConstraint(c, t, e, kind))
                   \/ ClearConstraint(c, t, e)
          PROVE  Minutes(Mandatory(d))' <= MinutesInForce(d)'
      <4>1. Minutes(Mandatory(d))' <= Capacity(d)'
        BY <1>1, <2>2, <3>2, SetConstraintFits, ClearConstraintFits
      <4>2. UNCHANGED <<versions, override>>
        BY <3>2 DEF SetConstraint, ClearConstraint
      <4>3. /\ Capacity(d)' = Capacity(d) /\ MinutesInForce(d)' = MinutesInForce(d)
        BY <4>2 DEF Capacity, Latest, MinutesInForce, QuotaInForce, Begun
      <4> QED
        BY <2>2, <4>1, <4>3, CapacityIsInForce
    <3>3. \/ UNCHANGED constraint
          \/ \E c \in Clients, t \in Tasks, e \in Dates :
               (\E kind \in Kinds \ {"none"} : SetConstraint(c, t, e, kind))
                 \/ ClearConstraint(c, t, e)
      <4>1. \A c \in Clients, row \in Forms : Open(c, row) => UNCHANGED constraint
        BY DEF Open, tables
      <4>2. \A c \in Clients, e \in Dates, m \in Quotas :
              UpdateAvailability(c, e, m) \/ OverrideDay(c, e, m) => UNCHANGED constraint
        BY DEF UpdateAvailability, OverrideDay
      <4>3. \A c \in Clients : Refused(c) => UNCHANGED constraint
        BY DEF Refused, tables
      <4> QED
        BY <2>2, <4>1, <4>2, <4>3 DEF AvailNext
    <3> QED
      BY <3>1, <3>2, <3>3
  <2> QED
    BY <1>1, <2>1, <2>2
<1> QED
  BY <1>1, AvailInvariance, PTL DEF AvailSpec, ConstraintsFit

-----------------------------------------------------------------------------
(***************************************************************************)
(* AgendaEngine.  The invariant says, phase by phase, what the loop has    *)
(* done with the tasks it has looked at, in terms of Got: the minutes each *)
(* task has in the agenda, which the model adds up from the items.         *)
(***************************************************************************)
Got == [t \in EngineTasks |->
          IF t \in Placed
            THEN agenda[CHOOSE i \in DOMAIN agenda : agenda[i].task = t].minutes
            ELSE 0]

WantedOf == [t \in EngineTasks |-> Wanted(t)]

\* Sums over the agenda, and over what must be done.
Used == Total(Got, Placed)
ToDoMinutes == Total(WantedOf, todo)
Demand == Total(WantedOf, MandatoryTasks)

\* What has to be in the agenda before t is looked at, and the room that it leaves.
Ahead(t) == {u \in Placed : u \in MandatoryTasks \/ Urgency(u) <= Urgency(t)}
UsedAhead(t) == Total(Got, Ahead(t))

\* t does not fit into the minutes of a day.
Unfit(t, room) ==
  \/ room <= 0
  \/ room < Task(t).minutes /\ ~Task(t).splittable
  \/ Least(room, Task(t).minutes) < SessionFloor(t) /\ Task(t).splittable

Waiting == Flexible \ (todo \cup Placed)
Late == {u \in Flexible : Task(u).minutes - Got[u] > CapacityUntil(Task(u).due)}

Before ==
  /\ phase = "start" =>
       agenda = << >> /\ todo = {} /\ deferred = {} /\ conflicts = {}
  /\ phase # "start" /\ Demand > DayCapacity =>
       /\ phase = "done" /\ agenda = << >> /\ todo = {}
       /\ conflicts = {<<"MANDATORY_CAPACITY_CONFLICT", MandatoryTasks>>}
       /\ deferred = Flexible \X {"MANDATORY_CAPACITY_CONFLICT"}

Items ==
  /\ \A i, k \in DOMAIN agenda : agenda[i].task = agenda[k].task => i = k
  /\ \A i, k \in DOMAIN agenda :
       agenda[i].task \in Flexible /\ agenda[k].task \in MandatoryTasks => k < i
  /\ todo \cap Placed = {}
  /\ phase # "start" => left + Used = DayCapacity

WithMandatory ==
  phase = "mandatory" =>
    /\ todo \subseteq MandatoryTasks /\ Placed = MandatoryTasks \ todo
    /\ \A t \in Placed : Got[t] = Wanted(t)
    /\ left >= ToDoMinutes
    /\ deferred = Blocked \X {"DEPENDENCY_BLOCKED"} /\ conflicts = {}

WithFlexible ==
  phase \in {"flexible", "report", "done"} /\ Demand <= DayCapacity =>
    /\ todo \subseteq Flexible /\ (phase # "flexible" => todo = {})
    /\ Placed \subseteq MandatoryTasks \cup Flexible
    /\ \A t \in MandatoryTasks : Got[t] = Wanted(t)
    /\ \A t \in Placed \cap Flexible :
         /\ \/ Got[t] = Task(t).minutes
            \/ Task(t).splittable /\ 0 < Got[t] /\ Got[t] < Task(t).minutes
         /\ Task(t).splittable => Got[t] >= SessionFloor(t)
    /\ deferred = (Blocked \X {"DEPENDENCY_BLOCKED"})
                    \cup (Waiting \X {"MINIMUM_SESSION_UNFIT"})
    /\ \A u \in Flexible \ todo, v \in todo : Urgency(u) <= Urgency(v)
    /\ \A t \in Waiting : Unfit(t, DayCapacity - UsedAhead(t))

Reported ==
  phase = "done" /\ Demand <= DayCapacity =>
    \A t \in EngineTasks : Verdict(t, "DEADLINE_RISK") <=> t \in Overdue \cup Late

EngineInv ==
  /\ EngineTypeOK /\ Before /\ Items
  /\ WithMandatory /\ WithFlexible /\ Reported

\* The sums of the model are sums of the functions above.
LEMMA WantedNumbers ==
  ASSUME EngineTypeOK
  PROVE  /\ \A t \in EngineTasks : Wanted(t) \in Nat
         /\ WantedOf \in [EngineTasks -> Nat]
         /\ \A t \in EngineTasks : WantedOf[t] = Wanted(t)
<1>1. day.tasks \in [EngineTasks -> TaskInputs]
  BY EngineSnapshots DEF EngineTypeOK
<1>2. \A t \in EngineTasks : Wanted(t) \in Nat
  <2> TAKE t \in EngineTasks
  <2>1. day.tasks[t] \in TaskInputs
    BY <1>1
  <2>2. day.tasks[t].minutes \in Nat /\ day.tasks[t].locked \in OptionalMinutes
    BY <2>1 DEF TaskInputs
  <2> QED
    BY <2>2 DEF Wanted, Task, OptionalMinutes
<1> QED
  BY <1>2 DEF WantedOf

LEMMA WantedSums ==
  ASSUME EngineTypeOK, NEW S \in SUBSET EngineTasks
  PROVE  MapThenSumSet(Wanted, S) = Total(WantedOf, S)
<1> DEFINE E(f) == f = [s \in SUBSET S |->
                       IF s = {} THEN 0 ELSE Wanted(Picked(s)) + f[s \ {Picked(s)}]]
<1>1. IsFiniteSet(S) /\ \A t \in S : WantedOf[t] \in Int /\ WantedOf[t] = Wanted(t)
  <2>1. IsFiniteSet(S)
    BY FS_Subset, EngineIds
  <2> QED
    BY <2>1, WantedNumbers
<1>2. PICK g : Additive(g, WantedOf, S)
  BY <1>1, AdditiveExists
<1>3. ASSUME NEW f
      PROVE  E(f) <=> Folds(f, WantedOf, S)
  <2>1. \A s \in SUBSET S : s # {} => Wanted(Picked(s)) = WantedOf[Picked(s)]
    BY <1>1 DEF Picked
  <2>2. [s \in SUBSET S |-> IF s = {} THEN 0 ELSE Wanted(Picked(s)) + f[s \ {Picked(s)}]]
        = [s \in SUBSET S |-> IF s = {} THEN 0 ELSE WantedOf[Picked(s)] + f[s \ {Picked(s)}]]
    BY <2>1
  <2> QED
    BY <2>2 DEF Folds
<1>4. MapThenSumSet(Wanted, S) = (CHOOSE f : E(f))[S]
  BY DEF MapThenSumSet, MapThenFoldSet, Picked
<1> HIDE DEF E
<1>5. E(CHOOSE f : E(f))
  BY <1>1, <1>2, <1>3, FoldIsAdditive
<1>6. (CHOOSE f : E(f)) = g
  BY <1>1, <1>2, <1>3, <1>5, FoldIsAdditive
<1> QED
  BY <1>1, <1>2, <1>4, <1>6, TotalIsFold

\* At most one item is about a task, and the model's sum is what it says.
OneItemEach == \A i, k \in DOMAIN agenda : agenda[i].task = agenda[k].task => i = k

LEMMA ItemTypes ==
  ASSUME EngineTypeOK
  PROVE  /\ \A i \in DOMAIN agenda : agenda[i].task \in EngineTasks /\ agenda[i].minutes \in Nat
         /\ Len(agenda) \in Nat /\ DOMAIN agenda = 1 .. Len(agenda)
<1> DEFINE X == [task : EngineTasks, minutes : Nat]
<1>1. agenda \in Seq(X)
  BY DEF EngineTypeOK
<1>2. \A x \in X : x.task \in EngineTasks /\ x.minutes \in Nat
  OBVIOUS
<1> HIDE DEF X
<1>3. \A i \in DOMAIN agenda : agenda[i] \in X
  BY <1>1
<1>4. Len(agenda) \in Nat /\ DOMAIN agenda = 1 .. Len(agenda)
  BY <1>1
<1> QED
  BY <1>2, <1>3, <1>4

LEMMA GotNumbers ==
  ASSUME EngineTypeOK
  PROVE  Placed \subseteq EngineTasks /\ IsFiniteSet(Placed) /\ Got \in [EngineTasks -> Nat]
<1>1. \A i \in DOMAIN agenda : agenda[i].task \in EngineTasks /\ agenda[i].minutes \in Nat
  BY ItemTypes
<1>2. Placed \subseteq EngineTasks
  BY <1>1 DEF Placed
<1>3. IsFiniteSet(Placed)
  BY <1>2, FS_Subset, EngineIds
<1>4. ASSUME NEW t \in Placed
      PROVE  agenda[CHOOSE i \in DOMAIN agenda : agenda[i].task = t].minutes \in Nat
  BY <1>1 DEF Placed
<1> QED
  BY <1>2, <1>3, <1>4 DEF Got

LEMMA GotOfItem ==
  ASSUME EngineTypeOK, OneItemEach, NEW i \in DOMAIN agenda
  PROVE  Got[agenda[i].task] = agenda[i].minutes
<1>1. agenda[i].task \in Placed /\ agenda[i].task \in EngineTasks
  BY GotNumbers DEF Placed
<1>2. (CHOOSE k \in DOMAIN agenda : agenda[k].task = agenda[i].task) = i
  BY DEF OneItemEach
<1> QED
  BY <1>1, <1>2 DEF Got

LEMMA AllottedIsGot ==
  ASSUME EngineTypeOK, OneItemEach, NEW t \in EngineTasks
  PROVE  Allotted(t) = Got[t]
<1> DEFINE S == {i \in DOMAIN agenda : agenda[i].task = t}
           w == [i \in DOMAIN agenda |-> agenda[i].minutes]
           E(f) == f = [s \in SUBSET S |-> IF s = {} THEN 0
                                          ELSE agenda[Picked(s)].minutes + f[s \ {Picked(s)}]]
<1>1. S = {} \/ \E i \in DOMAIN agenda : S = {i}
  BY DEF OneItemEach
<1>2. IsFiniteSet(S)
  BY <1>1, FS_EmptySet, FS_Singleton
<1>3. \A i \in DOMAIN agenda : w[i] = agenda[i].minutes /\ w[i] \in Int
  BY ItemTypes
<1>4. \A i \in S : w[i] \in Int
  BY <1>3
<1>5. ASSUME NEW f
      PROVE  E(f) <=> Folds(f, w, S)
  <2>1. \A s \in SUBSET S : s # {} => agenda[Picked(s)].minutes = w[Picked(s)]
    BY <1>3 DEF Picked
  <2> HIDE DEF w
  <2>2. [s \in SUBSET S |-> IF s = {} THEN 0 ELSE agenda[Picked(s)].minutes + f[s \ {Picked(s)}]]
        = [s \in SUBSET S |-> IF s = {} THEN 0 ELSE w[Picked(s)] + f[s \ {Picked(s)}]]
    BY <2>1
  <2> QED
    BY <2>2 DEF Folds
<1>6. Allotted(t) = (CHOOSE f : E(f))[S]
  BY DEF Allotted, MapThenSumSet, MapThenFoldSet, Picked
<1> HIDE DEF E, w, S
<1>7. PICK g : Additive(g, w, S)
  BY <1>2, <1>4, AdditiveExists
<1>8. E(CHOOSE f : E(f))
  BY <1>2, <1>5, <1>7, FoldIsAdditive
<1>9. (CHOOSE f : E(f)) = g
  BY <1>2, <1>5, <1>7, <1>8, FoldIsAdditive
<1>10. Allotted(t) = Total(w, S)
  BY <1>2, <1>6, <1>7, <1>9, TotalIsFold
<1>11. CASE S = {}
  <2>1. t \notin Placed
    BY <1>11 DEF Placed, S
  <2> QED
    BY <1>10, <1>11, <2>1, TotalOfNothing DEF Got
<1>12. ASSUME NEW i \in DOMAIN agenda, S = {i}
       PROVE  Allotted(t) = Got[t]
  <2>1. Total(w, S) = w[i] + Total(w, S \ {i})
    BY <1>2, <1>4, <1>12, TotalWithout
  <2>2. S \ {i} = {} /\ agenda[i].task = t
    BY <1>12 DEF S
  <2> QED
    BY <1>3, <1>10, <2>1, <2>2, TotalOfNothing, GotOfItem
<1> QED
  BY <1>1, <1>11, <1>12

LEMMA UsedSums ==
  ASSUME EngineTypeOK, OneItemEach, NEW S \in SUBSET EngineTasks
  PROVE  UsedBy(S) = Total(Got, S)
<1> DEFINE E(f) == f = [s \in SUBSET S |->
                       IF s = {} THEN 0 ELSE Allotted(Picked(s)) + f[s \ {Picked(s)}]]
<1>1. IsFiniteSet(S)
  BY FS_Subset, EngineIds
<1>2. \A t \in S : Got[t] \in Int /\ Got[t] = Allotted(t)
  BY GotNumbers, AllottedIsGot
<1>3. PICK g : Additive(g, Got, S)
  BY <1>1, <1>2, AdditiveExists
<1>4. ASSUME NEW f
      PROVE  E(f) <=> Folds(f, Got, S)
  <2>1. \A s \in SUBSET S : s # {} => Allotted(Picked(s)) = Got[Picked(s)]
    BY <1>2 DEF Picked
  <2>2. [s \in SUBSET S |-> IF s = {} THEN 0 ELSE Allotted(Picked(s)) + f[s \ {Picked(s)}]]
        = [s \in SUBSET S |-> IF s = {} THEN 0 ELSE Got[Picked(s)] + f[s \ {Picked(s)}]]
    BY <2>1
  <2> QED
    BY <2>2 DEF Folds
<1>5. UsedBy(S) = (CHOOSE f : E(f))[S]
  BY DEF UsedBy, MapThenSumSet, MapThenFoldSet, Picked
<1> HIDE DEF E
<1>6. E(CHOOSE f : E(f))
  BY <1>1, <1>3, <1>4, FoldIsAdditive
<1>7. (CHOOSE f : E(f)) = g
  BY <1>1, <1>3, <1>4, <1>6, FoldIsAdditive
<1> QED
  BY <1>1, <1>3, <1>5, <1>7, TotalIsFold

LEMMA ForecastIsANumber ==
  ASSUME EngineTypeOK, NEW due \in Int
  PROVE  CapacityUntil(due) \in Nat
<1> DEFINE S == {i \in DOMAIN day.forecast : i <= due}
<1>1. day.forecast \in Seq(Nat)
  BY EngineSnapshots DEF EngineTypeOK
<1>2. IsFiniteSet(S) /\ \A i \in S : day.forecast[i] \in Nat
  <2>1. Len(day.forecast) \in Nat /\ DOMAIN day.forecast = 1 .. Len(day.forecast)
        /\ \A i \in 1 .. Len(day.forecast) : day.forecast[i] \in Nat
    BY <1>1
  <2>2. IsFiniteSet(1 .. Len(day.forecast))
    BY <2>1, FS_Interval
  <2>3. S \subseteq 1 .. Len(day.forecast)
    BY <2>1
  <2> QED
    BY <2>1, <2>2, <2>3, FS_Subset
<1>3. Total(day.forecast, S) \in Nat
  <2> HIDE DEF S
  <2>1. S \in SUBSET S
    OBVIOUS
  <2> QED
    BY <1>2, <2>1, TotalGrows
<1> QED
  BY <1>3 DEF CapacityUntil, Total

LEMMA TaskTypes ==
  ASSUME EngineTypeOK, NEW t \in EngineTasks
  PROVE  /\ Task(t).minutes \in Nat /\ Task(t).due \in Int /\ Task(t).starts \in Int
         /\ Task(t).splittable \in BOOLEAN /\ SessionFloor(t) \in Nat
         /\ DayCapacity \in Nat
<1>1. /\ day.tasks \in [EngineTasks -> TaskInputs]
      /\ day.quota \in Nat /\ day.spent \in Nat
  BY EngineSnapshots DEF EngineTypeOK
<1>2. day.tasks[t] \in TaskInputs
  BY <1>1
<1>3. DayCapacity \in Nat
  BY <1>1 DEF DayCapacity
<1>4. DefaultSession \in Nat
  BY EngineThresholds
<1>5. SessionFloor(t) \in Nat
  BY <1>2, <1>4 DEF SessionFloor, Task, TaskInputs, OptionalMinutes
<1> QED
  BY <1>2, <1>3, <1>5 DEF Task, TaskInputs

LEMMA CapacityIsANumber ==
  ASSUME EngineTypeOK
  PROVE  DayCapacity \in Nat
<1>1. day.quota \in Nat /\ day.spent \in Nat
  BY EngineSnapshots DEF EngineTypeOK
<1> QED
  BY <1>1 DEF DayCapacity

\* How the tasks are classified.
LEMMA Classes ==
  /\ MandatoryTasks \subseteq EngineTasks /\ Flexible \subseteq EngineTasks
  /\ Blocked \subseteq EngineTasks /\ Overdue \subseteq EngineTasks
  /\ MandatoryTasks \cap Flexible = {} /\ MandatoryTasks \cap Blocked = {}
  /\ Flexible \cap Blocked = {}
  /\ \A t \in Candidates : t \notin MandatoryTasks => Wanted(t) = Task(t).minutes
  /\ \A t \in Candidates : Task(t).started => t \in MandatoryTasks /\ Wanted(t) = Task(t).minutes
<1>1. /\ MandatoryTasks \subseteq EngineTasks /\ Flexible \subseteq EngineTasks
      /\ Blocked \subseteq EngineTasks /\ Overdue \subseteq EngineTasks
  BY DEF Candidates, MandatoryTasks, Flexible, Blocked, Overdue, Startable
<1>2. /\ \A t \in MandatoryTasks : MustBeToday(t)
      /\ \A t \in Flexible : ~MustBeToday(t) /\ Task(t).ready /\ Task(t).due >= 0
      /\ \A t \in Blocked : ~MustBeToday(t) /\ ~Task(t).ready
      /\ \A t \in Overdue : Task(t).due < 0
  BY DEF MandatoryTasks, Flexible, Blocked, Overdue, Startable
<1>4. /\ MandatoryTasks \cap Flexible = {} /\ MandatoryTasks \cap Blocked = {}
      /\ Flexible \cap Blocked = {}
  BY <1>2
<1>5. \A t \in Candidates : t \notin MandatoryTasks => Wanted(t) = Task(t).minutes
  BY DEF MandatoryTasks, MustBeToday, Wanted
<1>6. \A t \in Candidates : Task(t).started => t \in MandatoryTasks /\ Wanted(t) = Task(t).minutes
  BY DEF MandatoryTasks, MustBeToday, Wanted
<1> QED
  BY <1>1, <1>4, <1>5, <1>6

LEMMA OverdueIsNotFlexible ==
  ASSUME EngineTypeOK
  PROVE  Overdue \cap Flexible = {}
<1>1. ASSUME NEW t \in Overdue, t \in Flexible
      PROVE  FALSE
  <2>1. t \in EngineTasks /\ Task(t).due < 0 /\ Task(t).due >= 0
    BY <1>1 DEF Flexible, Overdue, Startable, Candidates
  <2> QED
    BY <2>1, TaskTypes
<1> QED
  BY <1>1

LEMMA Classified ==
  ASSUME EngineTypeOK, NEW t \in Candidates
  PROVE  t \in MandatoryTasks \/ t \in Blocked \/ t \in Flexible
         \/ Task(t).starts > 0 \/ Task(t).due < 0
<1>1. t \in EngineTasks
  BY DEF Candidates
<1>2. Task(t).due \in Int /\ Task(t).starts \in Int
  BY <1>1, TaskTypes
<1> QED
  BY <1>2 DEF MandatoryTasks, Flexible, Blocked, Startable

LEMMA DemandIsMandatory ==
  ASSUME EngineTypeOK
  PROVE  MandatoryTotal = Demand /\ Demand \in Nat
<1>1. MandatoryTasks \in SUBSET EngineTasks
  BY Classes
<1>2. MandatoryTotal = Demand
  BY <1>1, WantedSums DEF MandatoryTotal, Demand
<1>3. IsFiniteSet(MandatoryTasks) /\ \A t \in MandatoryTasks : WantedOf[t] \in Nat
  <2>1. IsFiniteSet(MandatoryTasks)
    BY <1>1, FS_Subset, EngineIds
  <2> QED
    BY <1>1, <2>1, WantedNumbers
<1>4. Total(WantedOf, MandatoryTasks) \in Nat
  <2>1. MandatoryTasks \in SUBSET MandatoryTasks
    OBVIOUS
  <2> QED
    BY <1>3, <2>1, TotalGrows
<1> QED
  BY <1>2, <1>4 DEF Demand

LEMMA ItemsAreOneEach ==
  ASSUME EngineInv
  PROVE  OneItemEach /\ EngineTypeOK
BY DEF EngineInv, Items, OneItemEach

LEMMA InvFitsTheDay ==
  ASSUME EngineInv
  PROVE  AgendaFitsTheDay
<1>1. EngineTypeOK /\ OneItemEach
  BY ItemsAreOneEach
<1>2. Placed \in SUBSET EngineTasks
  BY <1>1, GotNumbers
<1>3. phase # "start" => left >= 0 /\ left + UsedBy(Placed) = DayCapacity
  <2>1. phase # "start" => left + Used = DayCapacity
    BY DEF EngineInv, Items
  <2>2. UsedBy(Placed) = Used
    BY <1>1, <1>2, UsedSums DEF Used
  <2>3. left \in Nat
    BY <1>1 DEF EngineTypeOK
  <2> QED
    BY <2>1, <2>2, <2>3
<1>4. ASSUME NEW t \in Placed \ MandatoryTasks
      PROVE  /\ Allotted(t) <= Task(t).minutes
             /\ ~Task(t).splittable => Allotted(t) = Task(t).minutes
             /\ Task(t).splittable => Allotted(t) >= SessionFloor(t)
  <2>1. Allotted(t) = Got[t]
    BY <1>1, <1>2, AllottedIsGot
  <2>2. agenda # << >>
    BY <1>4 DEF Placed
  <2>3. phase \in {"flexible", "report", "done"} /\ Demand <= DayCapacity
    <3>1. Demand \in Nat /\ DayCapacity \in Nat
      BY <1>1, DemandIsMandatory, CapacityIsANumber
    <3>2. phase # "start" /\ ~(Demand > DayCapacity)
      BY <2>2 DEF EngineInv, Before
    <3>3. phase # "mandatory"
      BY <1>4 DEF EngineInv, WithMandatory
    <3> QED
      BY <1>1, <3>1, <3>2, <3>3 DEF EngineTypeOK
  <2>4. t \in Placed \cap Flexible
    BY <1>4, <2>3 DEF EngineInv, WithFlexible
  <2>5. /\ \/ Got[t] = Task(t).minutes
           \/ Task(t).splittable /\ 0 < Got[t] /\ Got[t] < Task(t).minutes
        /\ Task(t).splittable => Got[t] >= SessionFloor(t)
    BY <2>3, <2>4 DEF EngineInv, WithFlexible
  <2>6. Task(t).minutes \in Nat /\ Got[t] \in Nat
    BY <1>1, <1>2, <1>4, GotNumbers, TaskTypes
  <2> QED
    BY <2>1, <2>5, <2>6
<1>5. \A i, k \in DOMAIN agenda : agenda[i].task = agenda[k].task => i = k
  BY <1>1 DEF OneItemEach
<1> QED
  BY <1>3, <1>4, <1>5 DEF AgendaFitsTheDay

LEMMA InvUrgentFirst ==
  ASSUME EngineInv
  PROVE  UrgentComeFirst
<1>1. EngineTypeOK /\ OneItemEach
  BY ItemsAreOneEach
<1>2. Demand \in Nat /\ DayCapacity \in Nat
  BY <1>1, DemandIsMandatory, CapacityIsANumber
<1>3. ASSUME NEW t \in Flexible, <<t, "MINIMUM_SESSION_UNFIT">> \in deferred
      PROVE  Unfit(t, DayCapacity - UsedBy(Ahead(t)))
  <2>1. phase # "start"
    BY <1>3 DEF EngineInv, Before
  <2>2. ~(Demand > DayCapacity)
    BY <1>3, <2>1 DEF EngineInv, Before
  <2>3. phase # "mandatory"
    BY <1>3 DEF EngineInv, WithMandatory
  <2>4. phase \in {"flexible", "report", "done"} /\ Demand <= DayCapacity
    BY <1>1, <1>2, <2>1, <2>2, <2>3 DEF EngineTypeOK
  <2>5. t \in Waiting /\ Unfit(t, DayCapacity - UsedAhead(t))
    BY <1>3, <2>4 DEF EngineInv, WithFlexible
  <2>6. Ahead(t) \in SUBSET EngineTasks
    BY <1>1, GotNumbers DEF Ahead
  <2>7. UsedBy(Ahead(t)) = UsedAhead(t)
    BY <1>1, <2>6, UsedSums DEF UsedAhead
  <2> QED
    BY <2>5, <2>7
<1> QED
  BY <1>3 DEF UrgentComeFirst, Unfit, Ahead

LEMMA InvLosesNothing ==
  ASSUME EngineInv
  PROVE  NothingIsLostIfAllFits
<1> SUFFICES ASSUME phase = "done" PROVE NothingIsLostIfAllFits
  BY DEF NothingIsLostIfAllFits
<1>1. EngineTypeOK /\ OneItemEach
  BY ItemsAreOneEach
<1>2. Demand \in Nat /\ DayCapacity \in Nat /\ MandatoryTotal = Demand
  BY <1>1, DemandIsMandatory, CapacityIsANumber
<1>3. CASE MandatoryTotal > DayCapacity
  <2>1. /\ agenda = << >>
        /\ conflicts = {<<"MANDATORY_CAPACITY_CONFLICT", MandatoryTasks>>}
        /\ deferred = Flexible \X {"MANDATORY_CAPACITY_CONFLICT"}
    BY <1>2, <1>3 DEF EngineInv, Before
  <2>2. \A t \in MandatoryTasks : Verdict(t, "MANDATORY_CAPACITY_CONFLICT")
    <3>1. MandatoryTasks \in SUBSET EngineTasks
      BY Classes
    <3>2. <<"MANDATORY_CAPACITY_CONFLICT", MandatoryTasks>> \in conflicts
      BY <2>1
    <3> QED
      BY <3>1, <3>2 DEF Verdict
  <2>3. \A t \in Flexible : IsDeferred(t)
    BY <2>1 DEF IsDeferred, Reasons
  <2> QED
    BY <1>3, <2>1, <2>2, <2>3 DEF NothingIsLostIfAllFits
<1>4. CASE ~(MandatoryTotal > DayCapacity)
  <2>1. phase \in {"flexible", "report", "done"} /\ Demand <= DayCapacity
    BY <1>2, <1>4
  <2>2. /\ todo = {} /\ Placed \subseteq MandatoryTasks \cup Flexible
        /\ \A t \in MandatoryTasks : Got[t] = Wanted(t)
        /\ \A t \in Placed \cap Flexible :
             Got[t] = Task(t).minutes \/ (0 < Got[t] /\ Got[t] < Task(t).minutes)
        /\ deferred = (Blocked \X {"DEPENDENCY_BLOCKED"})
                        \cup (Waiting \X {"MINIMUM_SESSION_UNFIT"})
    BY <2>1 DEF EngineInv, WithFlexible
  <2>3. /\ \A i, k \in DOMAIN agenda :
              agenda[i].task \in Flexible /\ agenda[k].task \in MandatoryTasks => k < i
        /\ \A t \in EngineTasks : Verdict(t, "DEADLINE_RISK") <=> t \in Overdue \cup Late
    BY <2>1 DEF EngineInv, Items, Reported
  <2>4. \A t \in EngineTasks : Allotted(t) = Got[t] /\ Got[t] \in Nat /\ Wanted(t) \in Nat
    BY <1>1, AllottedIsGot, GotNumbers, WantedNumbers
  <2>5. \A t \in MandatoryTasks : Allotted(t) = Wanted(t)
    BY <2>2, <2>4, Classes
  <2>6. \A t \in Candidates : Task(t).started => Allotted(t) = Task(t).minutes
    BY <2>5, Classes
  <2>7. \A t \in Overdue : Verdict(t, "DEADLINE_RISK")
    BY <2>3, Classes
  <2>8. ASSUME NEW t \in Flexible
        PROVE  Verdict(t, "DEADLINE_RISK") <=>
                  Task(t).minutes - Allotted(t) > CapacityUntil(Task(t).due)
    BY <1>1, <2>3, <2>4, Classes, OverdueIsNotFlexible DEF Late
  <2>9. ASSUME NEW t \in EngineTasks
        PROVE  IsDeferred(t) <=> t \in Blocked \/ t \in Waiting
    BY <2>2 DEF IsDeferred, Reasons
  <2>10. ASSUME NEW t \in Candidates
         PROVE  \/ Task(t).starts > 0 \/ Task(t).due < 0
                \/ (Allotted(t) > 0) # IsDeferred(t)
                \/ Wanted(t) = 0
    <3> DEFINE n == Got[t]
    <3>0. t \in EngineTasks
      BY DEF Candidates
    <3>1. Allotted(t) = n /\ n \in Nat /\ Wanted(t) \in Nat /\ Task(t).minutes \in Nat
      BY <1>1, <2>4, <3>0, TaskTypes
    <3>2. t \notin Placed => n = 0
      BY <3>0 DEF Got
    <3>7. ASSUME n > 0, ~IsDeferred(t)
          PROVE  (Allotted(t) > 0) # IsDeferred(t)
      <4>1. Allotted(t) > 0
        BY <3>1, <3>7
      <4>2. (Allotted(t) > 0) = TRUE
        BY <3>1, <4>1
      <4>3. IsDeferred(t) = FALSE
        BY <3>7 DEF IsDeferred
      <4> QED
        BY <4>2, <4>3, Zenon
    <3>8. ASSUME n = 0, IsDeferred(t)
          PROVE  (Allotted(t) > 0) # IsDeferred(t)
      <4>1. ~(Allotted(t) > 0)
        BY <3>1, <3>8
      <4>2. (Allotted(t) > 0) = FALSE
        BY <3>1, <4>1
      <4>3. IsDeferred(t) = TRUE
        BY <3>8 DEF IsDeferred
      <4> QED
        BY <4>2, <4>3, Zenon
    <3>9. n = 0 \/ n > 0
      BY <3>1
    <3> HIDE DEF n
    <3>3. CASE t \in MandatoryTasks
      <4>1. n = Wanted(t) /\ ~IsDeferred(t)
        BY <2>2, <2>9, <3>0, <3>3, Classes DEF Waiting, n
      <4> QED
        BY <3>7, <3>9, <4>1, Zenon
    <3>4. CASE t \in Blocked
      <4>1. t \notin Placed /\ IsDeferred(t)
        BY <2>2, <2>9, <3>0, <3>4, Classes
      <4> QED
        BY <3>2, <3>8, <4>1, Zenon
    <3>5. CASE t \in Flexible /\ t \notin Placed
      <4>1. IsDeferred(t)
        BY <2>2, <2>9, <3>0, <3>5 DEF Waiting
      <4> QED
        BY <3>2, <3>5, <3>8, <4>1, Zenon
    <3>6. CASE t \in Flexible /\ t \in Placed
      <4>1. ~IsDeferred(t)
        BY <2>9, <3>0, <3>6, Classes DEF Waiting
      <4>2. n = Task(t).minutes \/ (0 < n /\ n < Task(t).minutes)
        BY <2>2, <3>6 DEF n
      <4>3. Wanted(t) = Task(t).minutes
        BY <3>6, Classes
      <4>4. n > 0 \/ Wanted(t) = 0
        BY <3>1, <3>9, <4>2, <4>3
      <4> QED
        BY <3>7, <4>1, <4>4, Zenon
    <3> QED
      BY <1>1, <3>3, <3>4, <3>5, <3>6, Classified
  <2> QED
    BY <1>4, <2>2, <2>3, <2>5, <2>6, <2>7, <2>8, <2>10 DEF NothingIsLostIfAllFits
<1> QED
  BY <1>3, <1>4

\* What stays the same on the same day, and while the agenda does.
LEMMA SameDay ==
  ASSUME day' = day
  PROVE  /\ MandatoryTasks' = MandatoryTasks /\ Flexible' = Flexible
         /\ Blocked' = Blocked /\ Overdue' = Overdue
         /\ DayCapacity' = DayCapacity /\ WantedOf' = WantedOf
         /\ \A t \in EngineTasks :
              /\ Wanted(t)' = Wanted(t) /\ Urgency(t)' = Urgency(t)
              /\ Task(t)' = Task(t) /\ SessionFloor(t)' = SessionFloor(t)
<1>1. Candidates' = Candidates
  BY DEF Candidates, Goal
<1>2. \A t \in EngineTasks : Task(t)' = Task(t) /\ (MustBeToday(t)' <=> MustBeToday(t))
  BY DEF Task, MustBeToday
<1>3. MandatoryTasks' = MandatoryTasks
  BY <1>1 DEF MandatoryTasks, MustBeToday, Task
<1>4. Startable' = Startable /\ Overdue' = Overdue
  BY <1>1 DEF Startable, Overdue, MustBeToday, Task
<1>5. Flexible' = Flexible /\ Blocked' = Blocked
  BY <1>4 DEF Flexible, Blocked, Task
<1>6. DayCapacity' = DayCapacity
  BY DEF DayCapacity
<1>7. WantedOf' = WantedOf
  BY DEF WantedOf, Wanted, Task
<1>8. \A t \in EngineTasks : Wanted(t)' = Wanted(t)
  BY DEF Wanted, Task
<1>9. \A t \in EngineTasks : Urgency(t)' = Urgency(t)
  BY DEF Urgency, Tier, Task
<1>10. \A t \in EngineTasks : SessionFloor(t)' = SessionFloor(t)
  BY DEF SessionFloor, Task
<1> QED
  BY <1>2, <1>3, <1>4, <1>5, <1>6, <1>7, <1>8, <1>9, <1>10

LEMMA SameAgenda ==
  ASSUME agenda' = agenda
  PROVE  Placed' = Placed /\ Got' = Got
<1>1. Placed' = Placed
  BY DEF Placed
<1>2. Got' = Got
  BY <1>1 DEF Got
<1> QED
  BY <1>1, <1>2

LEMMA SumsLater ==
  /\ Used' = Total(Got', Placed')
  /\ ToDoMinutes' = Total(WantedOf', todo')
  /\ Demand' = Total(WantedOf', MandatoryTasks')
  /\ \A t \in EngineTasks : UsedAhead(t)' = Total(Got', Ahead(t)')
<1>1. Used' = Total(Got', Placed')
  BY DEF Used, Total, MapThenSumSet, MapThenFoldSet
<1>2. ToDoMinutes' = Total(WantedOf', todo')
  BY DEF ToDoMinutes, Total, MapThenSumSet, MapThenFoldSet
<1>3. Demand' = Total(WantedOf', MandatoryTasks')
  BY DEF Demand, Total, MapThenSumSet, MapThenFoldSet
<1>4. ASSUME NEW t \in EngineTasks
      PROVE  UsedAhead(t)' = Total(Got', Ahead(t)')
  BY DEF UsedAhead, Total, MapThenSumSet, MapThenFoldSet
<1> QED
  BY <1>1, <1>2, <1>3, <1>4

LEMMA SameSums ==
  ASSUME day' = day, agenda' = agenda
  PROVE  /\ Used' = Used /\ Demand' = Demand
         /\ todo' = todo => ToDoMinutes' = ToDoMinutes
         /\ \A t \in EngineTasks : UsedAhead(t)' = UsedAhead(t)
         /\ Late' = Late
<1>1. Used' = Used /\ Demand' = Demand /\ (todo' = todo => ToDoMinutes' = ToDoMinutes)
  BY SameDay, SameAgenda, SumsLater DEF Used, Demand, ToDoMinutes
<1>2. ASSUME NEW t \in EngineTasks
      PROVE  UsedAhead(t)' = UsedAhead(t)
  <2>1. Ahead(t)' = Ahead(t)
    BY SameAgenda, SameDay DEF Ahead, Urgency, Tier, Task
  <2> QED
    BY <2>1, SameAgenda, SumsLater DEF UsedAhead
<1>3. Late' = Late
  BY SameAgenda, SameDay DEF Late, Task, CapacityUntil, MapThenSumSet, MapThenFoldSet
<1> QED
  BY <1>1, <1>2, <1>3

\* One more item.
LEMMA OneMoreItem ==
  ASSUME EngineTypeOK, OneItemEach, NEW t \in EngineTasks \ Placed, NEW n \in Nat,
         agenda' = Append(agenda, [task |-> t, minutes |-> n])
  PROVE  /\ agenda' \in Seq([task : EngineTasks, minutes : Nat])
         /\ OneItemEach'
         /\ Len(agenda) \in Nat /\ DOMAIN agenda = 1 .. Len(agenda)
         /\ DOMAIN agenda' = 1 .. Len(agenda) + 1 /\ agenda'[Len(agenda) + 1].task = t
         /\ \A i \in DOMAIN agenda : agenda'[i] = agenda[i]
         /\ Placed' = Placed \cup {t}
         /\ Got' \in [EngineTasks -> Nat]
         /\ Got'[t] = n /\ \A u \in EngineTasks \ {t} : Got'[u] = Got[u]
         /\ Used' = n + Used
<1> DEFINE X == [task : EngineTasks, minutes : Nat]
           x == [task |-> t, minutes |-> n]
           m == Len(agenda) + 1
<1>1. agenda \in Seq(X) /\ x \in X /\ x.task = t /\ x.minutes = n
  BY DEF EngineTypeOK
<1>2. agenda' = Append(agenda, x)
  OBVIOUS
<1> HIDE DEF X, x
<1>3. /\ agenda' \in Seq(X) /\ Len(agenda) \in Nat
      /\ DOMAIN agenda = 1 .. Len(agenda) /\ DOMAIN agenda' = 1 .. m
      /\ agenda'[m] = x /\ \A i \in DOMAIN agenda : agenda'[i] = agenda[i]
  BY <1>1, <1>2
<1>4. DOMAIN agenda' = DOMAIN agenda \cup {m} /\ m \notin DOMAIN agenda
  BY <1>3
<1>5. Placed' = Placed \cup {t}
  BY <1>1, <1>3, <1>4 DEF Placed
<1>6. \A i \in DOMAIN agenda : agenda[i].task # t
  BY DEF Placed
<1>7. OneItemEach'
  <2>1. ASSUME NEW i \in DOMAIN agenda', NEW k \in DOMAIN agenda', agenda'[i].task = agenda'[k].task
        PROVE  i = k
    BY <1>1, <1>3, <1>4, <1>6, <2>1 DEF OneItemEach
  <2> QED
    BY <2>1 DEF OneItemEach
<1>9. Got'[t] = n
  <2>1. (CHOOSE i \in DOMAIN agenda' : agenda'[i].task = t) = m
    BY <1>1, <1>3, <1>4, <1>6
  <2>2. Got'[t] = agenda'[m].minutes
    BY <1>5, <2>1 DEF Got
  <2> QED
    BY <1>1, <1>3, <2>2
<1>10. ASSUME NEW u \in EngineTasks \ {t}
       PROVE  Got'[u] = Got[u]
  <2>1. CASE u \notin Placed
    <3>1. Got[u] = 0
      BY <2>1 DEF Got
    <3>2. Got'[u] = 0
      BY <1>5, <2>1 DEF Got
    <3> QED
      BY <3>1, <3>2
  <2>2. CASE u \in Placed
    <3>1. PICK i \in DOMAIN agenda : agenda[i].task = u
      BY <2>2 DEF Placed
    <3>2. \A k \in DOMAIN agenda' : agenda'[k].task = u => k = i
      BY <1>1, <1>3, <1>4, <3>1 DEF OneItemEach
    <3>3. (CHOOSE k \in DOMAIN agenda' : agenda'[k].task = u) = i
      BY <1>3, <1>4, <3>1, <3>2
    <3>4. Got'[u] = agenda'[i].minutes
      BY <1>5, <2>2, <3>3 DEF Got
    <3>5. Got[u] = agenda[i].minutes
      BY <3>1, GotOfItem
    <3> QED
      BY <1>3, <3>4, <3>5
  <2> QED
    BY <2>1, <2>2
<1>11. Got' \in [EngineTasks -> Nat]
  <2> DEFINE F(u) == IF u \in Placed'
                     THEN agenda'[CHOOSE i \in DOMAIN agenda' : agenda'[i].task = u].minutes ELSE 0
  <2>4. Got' = [u \in EngineTasks |-> F(u)]
    BY DEF Got
  <2> HIDE DEF F
  <2>1. Got' = [u \in EngineTasks |-> Got'[u]]
    BY <2>4
  <2>2. Got \in [EngineTasks -> Nat]
    BY GotNumbers
  <2>3. \A u \in EngineTasks : Got'[u] \in Nat
    BY <1>9, <1>10, <2>2
  <2> QED
    BY <2>1, <2>3
<1>12. Used' = n + Used
  <2>1. Used' = Total(Got', Placed \cup {t})
    BY <1>5, SumsLater
  <2>2. Placed \subseteq EngineTasks /\ IsFiniteSet(Placed) /\ Got \in [EngineTasks -> Nat]
    BY GotNumbers
  <2>3. Total(Got', Placed \cup {t}) = Got'[t] + Total(Got', Placed)
    <3>1. \A u \in Placed \cup {t} : Got'[u] \in Int
      BY <1>11, <2>2
    <3> QED
      BY <2>2, <3>1, TotalWithOneMore
  <2>4. Total(Got', Placed) = Total(Got, Placed)
    <3>1. \A u \in Placed : Got'[u] = Got[u] /\ Got[u] \in Int
      BY <1>10, <2>2
    <3> QED
      BY <2>2, <3>1, TotalOfEqual
  <2> QED
    BY <1>9, <2>1, <2>3, <2>4 DEF Used
<1> QED
  BY <1>1, <1>3, <1>5, <1>7, <1>9, <1>10, <1>11, <1>12 DEF X

\* A step of the engine that neither allots minutes nor takes a task from the list.
LEMMA OverflowKeeps ==
  ASSUME EngineInv, Overflow
  PROVE  EngineInv'
<1>1. /\ phase = "start" /\ MandatoryTotal > DayCapacity /\ phase' = "done"
      /\ conflicts' = {<<"MANDATORY_CAPACITY_CONFLICT", MandatoryTasks>>}
      /\ deferred' = Flexible \X {"MANDATORY_CAPACITY_CONFLICT"}
      /\ left' = DayCapacity /\ day' = day /\ todo' = todo /\ agenda' = agenda
  BY DEF Overflow
<1>2. EngineTypeOK /\ agenda = << >> /\ todo = {}
  BY <1>1 DEF EngineInv, Before
<1>3. Demand \in Nat /\ DayCapacity \in Nat /\ Demand > DayCapacity
  BY <1>1, <1>2, DemandIsMandatory, CapacityIsANumber
<1>4. Demand' = Demand /\ DayCapacity' = DayCapacity /\ Used' = Used
      /\ Flexible' = Flexible /\ MandatoryTasks' = MandatoryTasks
  BY <1>1, SameDay, SameSums
<1>5. EngineTypeOK'
  BY <1>1, <1>2, <1>3, Classes DEF EngineTypeOK, Reasons, ConflictCodes
<1>6. Placed = {} /\ Used = 0
  <2>1. Placed = {}
    BY <1>2 DEF Placed
  <2> QED
    BY <2>1, TotalOfNothing DEF Used
<1>7. Before'
  BY <1>1, <1>2, <1>4 DEF Before
<1>8. Items'
  <2>1. left' + Used' = DayCapacity'
    BY <1>1, <1>3, <1>4, <1>6
  <2>2. DOMAIN agenda' = {} /\ Placed' = {}
    BY <1>1, <1>2, <1>6, SameAgenda
  <2> QED
    BY <2>1, <2>2 DEF Items
<1>9. ~(Demand' <= DayCapacity') /\ phase' # "mandatory"
  BY <1>1, <1>3, <1>4
<1>10. WithMandatory' /\ WithFlexible' /\ Reported'
  BY <1>9 DEF WithMandatory, WithFlexible, Reported
<1> QED
  BY <1>5, <1>7, <1>8, <1>10 DEF EngineInv

LEMMA BeginKeeps ==
  ASSUME EngineInv, Begin
  PROVE  EngineInv'
<1>1. /\ phase = "start" /\ MandatoryTotal <= DayCapacity /\ phase' = "mandatory"
      /\ deferred' = Blocked \X {"DEPENDENCY_BLOCKED"} /\ conflicts' = conflicts
      /\ left' = DayCapacity /\ day' = day /\ todo' = MandatoryTasks /\ agenda' = agenda
  BY DEF Begin
<1>2. EngineTypeOK /\ agenda = << >> /\ conflicts = {}
  BY <1>1 DEF EngineInv, Before
<1>3. Demand \in Nat /\ DayCapacity \in Nat /\ Demand <= DayCapacity
  BY <1>1, <1>2, DemandIsMandatory, CapacityIsANumber
<1>4. Demand' = Demand /\ DayCapacity' = DayCapacity /\ Used' = Used
      /\ Blocked' = Blocked /\ MandatoryTasks' = MandatoryTasks /\ WantedOf' = WantedOf
  BY <1>1, SameDay, SameSums
<1>5. EngineTypeOK'
  BY <1>1, <1>2, <1>3, Classes DEF EngineTypeOK, Reasons
<1>6. Placed = {} /\ Used = 0
  <2>1. Placed = {}
    BY <1>2 DEF Placed
  <2> QED
    BY <2>1, TotalOfNothing DEF Used
<1>7. ~(Demand' > DayCapacity') /\ phase' = "mandatory"
  BY <1>1, <1>3, <1>4
<1>8. Before' /\ WithFlexible' /\ Reported'
  BY <1>7 DEF Before, WithFlexible, Reported
<1>9. DOMAIN agenda' = {} /\ Placed' = {}
  BY <1>1, <1>2, <1>6, SameAgenda
<1>10. Items'
  <2>1. left' + Used' = DayCapacity'
    BY <1>1, <1>3, <1>4, <1>6
  <2> QED
    BY <1>9, <2>1 DEF Items
<1>11. WithMandatory'
  <2>1. ToDoMinutes' = Demand
    BY <1>1, <1>4, SumsLater DEF Demand
  <2>2. left' >= ToDoMinutes'
    BY <1>1, <1>3, <2>1
  <2> QED
    BY <1>1, <1>2, <1>4, <1>9, <2>2 DEF WithMandatory
<1> QED
  BY <1>5, <1>8, <1>10, <1>11 DEF EngineInv

\* The sum of what is still to do bounds what each task wants.
LEMMA ToDoSum ==
  ASSUME EngineTypeOK, NEW t \in todo
  PROVE  /\ ToDoMinutes \in Nat /\ Wanted(t) \in Nat /\ Wanted(t) <= ToDoMinutes
         /\ Total(WantedOf, todo \ {t}) = ToDoMinutes - Wanted(t)
<1>1. todo \subseteq EngineTasks /\ IsFiniteSet(todo)
  BY FS_Subset, EngineIds DEF EngineTypeOK
<1>2. \A u \in todo : WantedOf[u] \in Nat
  BY <1>1, WantedNumbers
<1>3. WantedOf[t] = Wanted(t) /\ Wanted(t) \in Nat
  BY <1>1, WantedNumbers
<1>4. ToDoMinutes = WantedOf[t] + Total(WantedOf, todo \ {t})
  BY <1>1, <1>2, TotalWithout DEF ToDoMinutes
<1>5. Total(WantedOf, todo \ {t}) \in Nat
  <2>1. todo \ {t} \in SUBSET todo
    OBVIOUS
  <2> QED
    BY <1>1, <1>2, <2>1, TotalGrows
<1> QED
  BY <1>3, <1>4, <1>5

LEMMA PlaceMandatoryKeeps ==
  ASSUME EngineInv, NEW t \in EngineTasks, PlaceMandatory(t)
  PROVE  EngineInv'
<1> DEFINE n == Least(Wanted(t), left)
<1>1. /\ phase = "mandatory" /\ t \in todo
      /\ agenda' = Append(agenda, [task |-> t, minutes |-> n])
      /\ left' = left - n /\ todo' = todo \ {t}
      /\ UNCHANGED <<day, phase, deferred, conflicts>>
  BY DEF PlaceMandatory, Allot, NextMandatory, IsFirst
<1>2. EngineTypeOK /\ OneItemEach
  BY ItemsAreOneEach
<1>3. /\ todo \subseteq MandatoryTasks /\ Placed = MandatoryTasks \ todo
      /\ \A u \in Placed : Got[u] = Wanted(u)
      /\ left >= ToDoMinutes
      /\ deferred = Blocked \X {"DEPENDENCY_BLOCKED"} /\ conflicts = {}
  BY <1>1 DEF EngineInv, WithMandatory
<1>4. /\ ToDoMinutes \in Nat /\ Wanted(t) \in Nat /\ Wanted(t) <= ToDoMinutes
      /\ Total(WantedOf, todo \ {t}) = ToDoMinutes - Wanted(t) /\ left \in Nat
  BY <1>1, <1>2, ToDoSum DEF EngineTypeOK
<1>5. n = Wanted(t) /\ n \in Nat
  BY <1>3, <1>4 DEF Least
<1> HIDE DEF n
<1>6. t \in EngineTasks \ Placed
  BY <1>1, <1>3
<1>7. /\ agenda' \in Seq([task : EngineTasks, minutes : Nat]) /\ OneItemEach'
      /\ Placed' = Placed \cup {t}
      /\ Got'[t] = n /\ \A u \in EngineTasks \ {t} : Got'[u] = Got[u]
      /\ Used' = n + Used
  BY <1>1, <1>2, <1>5, <1>6, OneMoreItem
<1>8. /\ Demand' = Total(WantedOf, MandatoryTasks) /\ DayCapacity' = DayCapacity
      /\ MandatoryTasks' = MandatoryTasks /\ Flexible' = Flexible /\ Blocked' = Blocked
      /\ \A u \in EngineTasks : Wanted(u)' = Wanted(u)
      /\ ToDoMinutes' = ToDoMinutes - n
  BY <1>1, <1>4, <1>5, SameDay, SumsLater
<1>9. Placed \subseteq EngineTasks /\ Used \in Nat
  <2>1. IsFiniteSet(Placed) /\ Placed \subseteq EngineTasks /\ \A u \in Placed : Got[u] \in Nat
    BY <1>2, GotNumbers
  <2>2. Placed \in SUBSET Placed
    OBVIOUS
  <2> QED
    BY <2>1, <2>2, TotalGrows DEF Used
<1>10. EngineTypeOK'
  <2>1. left' \in Nat
    BY <1>1, <1>3, <1>4, <1>5
  <2> QED
    BY <1>1, <1>2, <1>7, <2>1 DEF EngineTypeOK
<1>11. Before'
  <2>1. phase # "start" /\ ~(Demand > DayCapacity)
    BY <1>1 DEF EngineInv, Before
  <2> QED
    BY <1>1, <1>8, <2>1 DEF Before, Demand
<1>12. Placed' = MandatoryTasks' \ todo' /\ todo' \subseteq MandatoryTasks'
  BY <1>1, <1>3, <1>7, <1>8
<1>13. Items'
  <2>1. left + Used = DayCapacity /\ todo \cap Placed = {}
    BY <1>1 DEF EngineInv, Items
  <2>2. left' + Used' = DayCapacity'
    BY <1>1, <1>4, <1>5, <1>7, <1>8, <1>9, <2>1
  <2>3. \A i \in DOMAIN agenda' : agenda'[i].task \notin Flexible'
    <3>1. \A i \in DOMAIN agenda' : agenda'[i].task \in Placed'
      BY DEF Placed
    <3> QED
      BY <1>8, <1>12, <3>1, Classes
  <2>4. \A i, k \in DOMAIN agenda' : agenda'[i].task = agenda'[k].task => i = k
    BY <1>7 DEF OneItemEach
  <2> QED
    BY <1>12, <2>2, <2>3, <2>4 DEF Items
<1>14. WithMandatory'
  <2>1. \A u \in Placed' : Got'[u] = Wanted(u)'
    BY <1>3, <1>5, <1>7, <1>8, <1>9
  <2>2. left' >= ToDoMinutes'
    BY <1>1, <1>3, <1>4, <1>5, <1>8
  <2> QED
    BY <1>1, <1>3, <1>8, <1>12, <2>1, <2>2 DEF WithMandatory
<1>15. WithFlexible' /\ Reported'
  BY <1>1 DEF WithFlexible, Reported
<1> QED
  BY <1>10, <1>11, <1>13, <1>14, <1>15 DEF EngineInv

\* As long as something must still be done there is a task to do first.
LEMMA FirstExists ==
  ASSUME EngineTypeOK, todo # {}
  PROVE  \E t \in todo : NextMandatory(t) /\ \A u \in todo : Wanted(u) <= Wanted(t)
<1>1. \A u \in todo : u \in Nat /\ u \in EngineTasks /\ Wanted(u) \in Nat
  BY EngineIds, WantedNumbers DEF EngineTypeOK
<1>2. ToDoMinutes \in Nat /\ \A u \in todo : Wanted(u) <= ToDoMinutes
  BY ToDoSum
<1> DEFINE lack == {ToDoMinutes - Wanted(u) : u \in todo}
<1>3. lack \in SUBSET Nat /\ lack # {}
  BY <1>1, <1>2
<1>4. PICK n \in lack : \A m \in lack : n <= m
  BY <1>3, LeastNumber
<1>5. PICK v \in todo : \A u \in todo : Wanted(u) <= Wanted(v)
  <2>1. PICK v \in todo : n = ToDoMinutes - Wanted(v)
    BY <1>4
  <2>2. \A u \in todo : n <= ToDoMinutes - Wanted(u)
    BY <1>4
  <2> QED
    BY <1>1, <1>2, <2>1, <2>2
<1> DEFINE most == {u \in todo : Wanted(u) = Wanted(v)}
<1>6. most \in SUBSET Nat /\ most # {}
  BY <1>1
<1>7. PICK t \in most : \A u \in most : t <= u
  BY <1>6, LeastNumber
<1>8. t \in todo /\ Wanted(t) = Wanted(v) /\ \A u \in todo : Wanted(u) = Wanted(v) => t <= u
  BY <1>7
<1> DEFINE key == [u \in todo |-> MandatoryKey(u)]
<1>9. ASSUME NEW u \in todo \ {t}
      PROVE  Precedes(key, t, u)
  <2>1. /\ key[t] = <<-Wanted(t), t>> /\ key[u] = <<-Wanted(u), u>>
    BY <1>8 DEF MandatoryKey
  <2> HIDE DEF key
  <2>2. /\ DOMAIN key[t] = 1 .. 2 /\ key[t][1] = -Wanted(t) /\ key[t][2] = t
        /\ key[u][1] = -Wanted(u) /\ key[u][2] = u
    BY <2>1
  <2>3. CASE Wanted(u) < Wanted(t)
    <3>1. key[t][1] < key[u][1] /\ 1 \in DOMAIN key[t] /\ \A k \in 1 .. 1 - 1 : FALSE
      BY <1>1, <1>8, <2>2, <2>3
    <3> QED
      BY <3>1 DEF Precedes
  <2>4. CASE Wanted(u) = Wanted(t)
    <3>1. t < u
      BY <1>1, <1>8, <1>9, <2>4
    <3>2. key[t][2] < key[u][2] /\ 2 \in DOMAIN key[t]
          /\ \A k \in 1 .. 2 - 1 : key[t][k] = key[u][k]
      BY <1>1, <2>2, <2>4, <3>1
    <3> QED
      BY <3>2 DEF Precedes
  <2> QED
    BY <1>1, <1>5, <1>8, <2>3, <2>4
<1>10. NextMandatory(t)
  BY <1>8, <1>9 DEF NextMandatory, IsFirst
<1> QED
  BY <1>5, <1>8, <1>10

LEMMA MandatoryDoneKeeps ==
  ASSUME EngineInv, MandatoryDone
  PROVE  EngineInv'
<1>1. /\ phase = "mandatory" /\ phase' = "flexible" /\ todo' = Flexible
      /\ \A t \in todo : NextMandatory(t) => Least(Wanted(t), left) <= 0
      /\ UNCHANGED <<day, agenda, deferred, conflicts, left>>
  BY DEF MandatoryDone
<1>2. EngineTypeOK /\ OneItemEach
  BY ItemsAreOneEach
<1>3. /\ todo \subseteq MandatoryTasks /\ Placed = MandatoryTasks \ todo
      /\ \A u \in Placed : Got[u] = Wanted(u)
      /\ left >= ToDoMinutes
      /\ deferred = Blocked \X {"DEPENDENCY_BLOCKED"}
  BY <1>1 DEF EngineInv, WithMandatory
<1>4. ASSUME NEW u \in todo
      PROVE  Wanted(u) = 0
  <2>1. PICK t \in todo : NextMandatory(t) /\ \A v \in todo : Wanted(v) <= Wanted(t)
    BY <1>2, <1>4, FirstExists
  <2>2. /\ Wanted(u) \in Nat /\ Wanted(t) \in Nat /\ left \in Nat
        /\ Wanted(u) <= Wanted(t) /\ Wanted(t) <= left
    <3>1. Wanted(u) \in Nat
      BY <1>2, <1>4, ToDoSum
    <3>2. Wanted(t) \in Nat /\ Wanted(t) <= ToDoMinutes /\ ToDoMinutes \in Nat
      BY <1>2, <2>1, ToDoSum
    <3>3. left \in Nat
      BY <1>2 DEF EngineTypeOK
    <3> QED
      BY <1>3, <1>4, <2>1, <3>1, <3>2, <3>3
  <2>3. Least(Wanted(t), left) <= 0
    BY <1>1, <2>1
  <2> QED
    BY <2>2, <2>3 DEF Least
<1>5. /\ Demand' = Demand /\ DayCapacity' = DayCapacity /\ Used' = Used
      /\ MandatoryTasks' = MandatoryTasks /\ Flexible' = Flexible /\ Blocked' = Blocked
      /\ Placed' = Placed /\ Got' = Got
      /\ \A u \in EngineTasks : Wanted(u)' = Wanted(u)
  BY <1>1, SameDay, SameAgenda, SameSums
<1>6. MandatoryTasks \subseteq EngineTasks /\ Flexible \subseteq EngineTasks
      /\ MandatoryTasks \cap Flexible = {}
  BY Classes
<1>7. EngineTypeOK'
  BY <1>1, <1>2, <1>6 DEF EngineTypeOK
<1>8. Before'
  <2>1. ~(Demand > DayCapacity)
    BY <1>1 DEF EngineInv, Before
  <2> QED
    BY <1>1, <1>5, <2>1 DEF Before
<1>9. Items'
  <2>1. todo' \cap Placed' = {}
    BY <1>1, <1>3, <1>5, <1>6
  <2>2. left' + Used' = DayCapacity'
    BY <1>1, <1>5 DEF EngineInv, Items
  <2>3. \A i, k \in DOMAIN agenda' :
          agenda'[i].task \in Flexible' /\ agenda'[k].task \in MandatoryTasks' => k < i
    BY <1>1, <1>5 DEF EngineInv, Items
  <2> QED
    BY <1>1, <1>2, <2>1, <2>2, <2>3 DEF Items, OneItemEach
<1>10. WithFlexible'
  <2>1. \A u \in MandatoryTasks' : Got'[u] = Wanted(u)'
    <3>1. \A u \in MandatoryTasks : u \notin Placed => Got[u] = 0 /\ Wanted(u) = 0
      BY <1>3, <1>4, <1>6 DEF Got
    <3> QED
      BY <1>3, <1>5, <1>6, <3>1
  <2>2. Waiting' = {} /\ Placed' \cap Flexible' = {} /\ Flexible' \ todo' = {}
    BY <1>1, <1>3, <1>5, <1>6 DEF Waiting
  <2>3. deferred' = (Blocked' \X {"DEPENDENCY_BLOCKED"})
                      \cup (Waiting' \X {"MINIMUM_SESSION_UNFIT"})
    BY <1>1, <1>3, <1>5, <2>2
  <2>4. todo' \subseteq Flexible' /\ phase' = "flexible"
        /\ Placed' \subseteq MandatoryTasks' \cup Flexible'
    BY <1>1, <1>3, <1>5
  <2> QED
    BY <2>1, <2>2, <2>3, <2>4 DEF WithFlexible
<1>11. WithMandatory' /\ Reported'
  BY <1>1 DEF WithMandatory, Reported
<1> QED
  BY <1>7, <1>8, <1>9, <1>10, <1>11 DEF EngineInv

\* The task at the head of the list is as urgent as any other on it.
LEMMA UrgencyOrders ==
  ASSUME EngineTypeOK, NEW t \in todo, NextFlexible(t), NEW v \in todo \ {t}
  PROVE  Urgency(t) <= Urgency(v)
<1> DEFINE key == [u \in todo |-> SortKey(u)]
<1>1. \A u \in EngineTasks : SortKey(u)[1] = Urgency(u)
  BY DEF SortKey, Urgency
<1>2. \A u \in EngineTasks : DOMAIN SortKey(u) = 1 .. 9
  BY DEF SortKey
<1>3. \A u \in EngineTasks : Urgency(u) \in Nat
  BY DEF Urgency, Tier
<1>4. t \in EngineTasks /\ v \in EngineTasks
  BY DEF EngineTypeOK
<1>5. Precedes(key, t, v) /\ key[t] = SortKey(t) /\ key[v] = SortKey(v)
  BY DEF NextFlexible, IsFirst
<1>6. PICK i \in 1 .. 9 : /\ SortKey(t)[i] < SortKey(v)[i]
                         /\ \A k \in 1 .. i - 1 : SortKey(t)[k] = SortKey(v)[k]
  <2> HIDE DEF key
  <2> QED
    BY <1>2, <1>4, <1>5 DEF Precedes
<1>7. CASE i = 1
  BY <1>1, <1>3, <1>4, <1>6, <1>7
<1>8. CASE i # 1
  <2>1. 1 \in 1 .. i - 1
    BY <1>8
  <2> QED
    BY <1>1, <1>3, <1>4, <1>6, <2>1
<1> QED
  BY <1>7, <1>8

\* What does not fit into some room does not fit into less.
LEMMA UnfitInLess ==
  ASSUME EngineTypeOK, NEW t \in EngineTasks, NEW n \in Int, NEW m \in Int, n <= m, Unfit(t, m)
  PROVE  Unfit(t, n)
<1>1. Task(t).minutes \in Nat /\ SessionFloor(t) \in Nat
  BY TaskTypes
<1> QED
  BY <1>1 DEF Unfit, Least

LEMMA UsedAheadIsANumber ==
  ASSUME EngineTypeOK, NEW t \in EngineTasks
  PROVE  UsedAhead(t) \in Nat
<1>1. Ahead(t) \subseteq Placed
  BY DEF Ahead
<1>2. IsFiniteSet(Placed) /\ \A u \in Placed : Got[u] \in Nat
  BY GotNumbers
<1> QED
  BY <1>1, <1>2, TotalGrows DEF UsedAhead

\* An item of a task that is on the list leaves no more room to the others.
LEMMA LessRoom ==
  ASSUME EngineTypeOK, NEW t \in EngineTasks \ Placed, day' = day,
         Placed' = Placed \cup {t}, Got' \in [EngineTasks -> Nat],
         \A u \in EngineTasks \ {t} : Got'[u] = Got[u],
         NEW v \in EngineTasks
  PROVE  UsedAhead(v)' \in Nat /\ UsedAhead(v) <= UsedAhead(v)'
<1>1. UsedAhead(v)' = Total(Got', Ahead(v)')
  BY SumsLater
<1>2. Placed \subseteq EngineTasks
  BY GotNumbers
<1>3. Ahead(v) \subseteq Ahead(v)' /\ Ahead(v)' \subseteq EngineTasks
      /\ Ahead(v) \subseteq EngineTasks \ {t}
  <2>1. MandatoryTasks' = MandatoryTasks /\ \A u \in EngineTasks : Urgency(u)' = Urgency(u)
    BY SameDay
  <2>2. Ahead(v)' = {u \in Placed' : u \in MandatoryTasks' \/ Urgency(u)' <= Urgency(v)'}
    BY DEF Ahead
  <2> QED
    BY <1>2, <2>1, <2>2 DEF Ahead
<1> DEFINE A == Ahead(v)
           B == Ahead(v)'
<1>4. IsFiniteSet(A) /\ IsFiniteSet(B)
  <2>1. IsFiniteSet(A)
    BY <1>3, FS_Subset, EngineIds
  <2>2. IsFiniteSet(B)
    BY <1>3, FS_Subset, EngineIds
  <2> QED
    BY <2>1, <2>2
<1>5. /\ A \in SUBSET B /\ B \subseteq EngineTasks /\ A \subseteq EngineTasks \ {t}
      /\ UsedAhead(v) = Total(Got, A) /\ UsedAhead(v)' = Total(Got', B)
  BY <1>1, <1>3 DEF UsedAhead
<1> HIDE DEF A, B
<1>6. Total(Got', A) = Total(Got, A)
  <2>1. \A u \in A : Got'[u] = Got[u] /\ Got[u] \in Int
    BY <1>5, GotNumbers
  <2> QED
    BY <1>4, <2>1, TotalOfEqual
<1>7. Total(Got', A) \in Nat /\ Total(Got', B) \in Nat /\ Total(Got', A) <= Total(Got', B)
  <2>1. \A u \in B : Got'[u] \in Nat
    BY <1>5
  <2> QED
    BY <1>4, <1>5, <2>1, TotalGrows
<1> QED
  BY <1>5, <1>6, <1>7

\* What the invariant says while the flexible tasks are looked at.
LEMMA FlexibleFacts ==
  ASSUME EngineInv, phase = "flexible"
  PROVE  /\ EngineTypeOK /\ OneItemEach
         /\ Demand <= DayCapacity /\ ~(Demand > DayCapacity)
         /\ Demand \in Nat /\ DayCapacity \in Nat /\ left \in Nat /\ Used \in Nat
         /\ left + Used = DayCapacity /\ todo \cap Placed = {} /\ todo \subseteq Flexible
<1>1. EngineTypeOK /\ OneItemEach
  BY ItemsAreOneEach
<1>2. Demand \in Nat /\ DayCapacity \in Nat /\ left \in Nat
  BY <1>1, DemandIsMandatory, CapacityIsANumber DEF EngineTypeOK
<1>3. ~(Demand > DayCapacity)
  BY DEF EngineInv, Before
<1>4. left + Used = DayCapacity /\ todo \cap Placed = {}
  BY DEF EngineInv, Items
<1>5. IsFiniteSet(Placed) /\ \A u \in Placed : Got[u] \in Nat
  BY <1>1, GotNumbers
<1>6. Used \in Nat
  <2>1. Placed \in SUBSET Placed
    OBVIOUS
  <2> QED
    BY <1>5, <2>1, TotalGrows DEF Used
<1>7. Demand <= DayCapacity
  BY <1>2, <1>3
<1> QED
  BY <1>1, <1>2, <1>3, <1>4, <1>6, <1>7 DEF EngineInv, WithFlexible

LEMMA PlaceFlexibleKeeps ==
  ASSUME EngineInv, NEW t \in EngineTasks, PlaceFlexible(t)
  PROVE  EngineInv'
<1> DEFINE n == Share(t)
<1>1. /\ phase = "flexible" /\ t \in todo /\ NextFlexible(t) /\ HasRoom(t)
      /\ agenda' = Append(agenda, [task |-> t, minutes |-> n])
      /\ left' = left - n /\ todo' = todo \ {t}
      /\ UNCHANGED <<day, phase, deferred, conflicts>>
  BY DEF PlaceFlexible, Allot, NextFlexible, IsFirst
<1>2. /\ EngineTypeOK /\ OneItemEach
      /\ Demand <= DayCapacity /\ ~(Demand > DayCapacity)
      /\ Demand \in Nat /\ DayCapacity \in Nat /\ left \in Nat /\ Used \in Nat
      /\ left + Used = DayCapacity /\ todo \cap Placed = {} /\ todo \subseteq Flexible
  BY <1>1, FlexibleFacts
<1>3. /\ Placed \subseteq MandatoryTasks \cup Flexible
      /\ \A u \in MandatoryTasks : Got[u] = Wanted(u)
      /\ \A u \in Placed \cap Flexible :
           /\ \/ Got[u] = Task(u).minutes
              \/ Task(u).splittable /\ 0 < Got[u] /\ Got[u] < Task(u).minutes
           /\ Task(u).splittable => Got[u] >= SessionFloor(u)
      /\ deferred = (Blocked \X {"DEPENDENCY_BLOCKED"})
                      \cup (Waiting \X {"MINIMUM_SESSION_UNFIT"})
      /\ \A u \in Flexible \ todo, v \in todo : Urgency(u) <= Urgency(v)
      /\ \A u \in Waiting : Unfit(u, DayCapacity - UsedAhead(u))
  BY <1>1, <1>2 DEF EngineInv, WithFlexible
<1>4. /\ n \in Nat /\ n <= left
      /\ n = Task(t).minutes \/ (Task(t).splittable /\ 0 < n /\ n < Task(t).minutes)
      /\ Task(t).splittable => n >= SessionFloor(t)
  BY <1>1, <1>2, TaskTypes DEF HasRoom, Share, Least
<1> HIDE DEF n
<1>5. t \in EngineTasks \ Placed /\ t \in Flexible
  BY <1>1, <1>2
<1>6. /\ agenda' \in Seq([task : EngineTasks, minutes : Nat]) /\ OneItemEach'
      /\ Len(agenda) \in Nat /\ DOMAIN agenda = 1 .. Len(agenda)
      /\ DOMAIN agenda' = 1 .. Len(agenda) + 1 /\ agenda'[Len(agenda) + 1].task = t
      /\ \A i \in DOMAIN agenda : agenda'[i] = agenda[i]
      /\ Placed' = Placed \cup {t} /\ Got' \in [EngineTasks -> Nat]
      /\ Got'[t] = n /\ \A u \in EngineTasks \ {t} : Got'[u] = Got[u]
      /\ Used' = n + Used
  BY <1>1, <1>2, <1>4, <1>5, OneMoreItem
<1>7. /\ MandatoryTasks' = MandatoryTasks /\ Flexible' = Flexible /\ Blocked' = Blocked
      /\ DayCapacity' = DayCapacity /\ WantedOf' = WantedOf
      /\ \A u \in EngineTasks : /\ Wanted(u)' = Wanted(u) /\ Urgency(u)' = Urgency(u)
                                /\ Task(u)' = Task(u) /\ SessionFloor(u)' = SessionFloor(u)
  BY <1>1, SameDay
<1>8. Demand' = Demand
  BY <1>7, SumsLater DEF Demand
<1>9. /\ MandatoryTasks \subseteq EngineTasks /\ Flexible \subseteq EngineTasks
      /\ MandatoryTasks \cap Flexible = {} /\ Placed \subseteq EngineTasks
  BY <1>2, Classes, GotNumbers
<1>10. EngineTypeOK'
  <2>1. left' \in Nat
    BY <1>1, <1>2, <1>4
  <2> QED
    BY <1>1, <1>2, <1>6, <2>1 DEF EngineTypeOK
<1>11. Before'
  BY <1>1, <1>2, <1>7, <1>8 DEF Before
<1>12. Items'
  <2>1. left' + Used' = DayCapacity'
    BY <1>1, <1>2, <1>4, <1>6, <1>7
  <2>2. todo' \cap Placed' = {}
    BY <1>1, <1>2, <1>6
  <2>3. ASSUME NEW i \in DOMAIN agenda', NEW k \in DOMAIN agenda',
               agenda'[i].task \in Flexible', agenda'[k].task \in MandatoryTasks'
        PROVE  k < i
    <3>1. k # Len(agenda) + 1
      BY <1>5, <1>6, <1>7, <1>9, <2>3
    <3>2. k \in DOMAIN agenda /\ k <= Len(agenda)
      BY <1>6, <3>1
    <3>3. CASE i = Len(agenda) + 1
      BY <1>6, <3>2, <3>3
    <3>4. CASE i # Len(agenda) + 1
      <4>1. i \in DOMAIN agenda
        BY <1>6, <3>4
      <4>2. agenda[i].task \in Flexible /\ agenda[k].task \in MandatoryTasks
        BY <1>6, <1>7, <2>3, <3>2, <4>1
      <4> QED
        BY <3>2, <4>1, <4>2 DEF EngineInv, Items
    <3> QED
      BY <3>3, <3>4
  <2>4. \A i, k \in DOMAIN agenda' : agenda'[i].task = agenda'[k].task => i = k
    BY <1>6 DEF OneItemEach
  <2> QED
    BY <2>1, <2>2, <2>3, <2>4 DEF Items
<1>13. Waiting' = Waiting /\ Waiting \subseteq EngineTasks
  BY <1>1, <1>5, <1>6, <1>7, <1>9 DEF Waiting
<1>14. WithFlexible'
  <2>1. \A u \in MandatoryTasks' : Got'[u] = Wanted(u)'
    BY <1>3, <1>5, <1>6, <1>7, <1>9
  <2>2. ASSUME NEW u \in Placed' \cap Flexible'
        PROVE  /\ \/ Got'[u] = Task(u)'.minutes
                  \/ Task(u)'.splittable /\ 0 < Got'[u] /\ Got'[u] < Task(u)'.minutes
               /\ Task(u)'.splittable => Got'[u] >= SessionFloor(u)'
    <3>1. u \in EngineTasks /\ Task(u)' = Task(u) /\ SessionFloor(u)' = SessionFloor(u)
      BY <1>7, <1>9, <2>2
    <3>2. CASE u = t
      BY <1>4, <1>6, <3>1, <3>2
    <3>3. CASE u # t
      <4>1. Got'[u] = Got[u] /\ u \in Placed \cap Flexible
        BY <1>6, <1>7, <2>2, <3>1, <3>3
      <4> QED
        BY <1>3, <3>1, <4>1
    <3> QED
      BY <3>2, <3>3
  <2>3. deferred' = (Blocked' \X {"DEPENDENCY_BLOCKED"})
                      \cup (Waiting' \X {"MINIMUM_SESSION_UNFIT"})
    BY <1>1, <1>3, <1>7, <1>13
  <2>4. ASSUME NEW u \in Flexible' \ todo', NEW v \in todo'
        PROVE  Urgency(u)' <= Urgency(v)'
    <3>1. /\ u \in EngineTasks /\ v \in EngineTasks /\ v \in todo \ {t}
          /\ Urgency(u)' = Urgency(u) /\ Urgency(v)' = Urgency(v)
      BY <1>1, <1>2, <1>7, <1>9, <2>4
    <3>2. u = t \/ u \in Flexible \ todo
      BY <1>1, <1>7, <2>4
    <3> QED
      BY <1>1, <1>2, <1>3, <3>1, <3>2, UrgencyOrders
  <2>5. ASSUME NEW u \in Waiting'
        PROVE  Unfit(u, DayCapacity - UsedAhead(u)')
    <3>1. u \in Waiting /\ u \in EngineTasks
      BY <1>13, <2>5
    <3>2. UsedAhead(u)' \in Nat /\ UsedAhead(u) <= UsedAhead(u)' /\ UsedAhead(u) \in Nat
      BY <1>1, <1>2, <1>5, <1>6, <3>1, LessRoom, UsedAheadIsANumber
    <3>3. /\ DayCapacity - UsedAhead(u)' <= DayCapacity - UsedAhead(u)
          /\ DayCapacity - UsedAhead(u)' \in Int /\ DayCapacity - UsedAhead(u) \in Int
      BY <1>2, <3>2
    <3> QED
      BY <1>2, <1>3, <3>1, <3>3, UnfitInLess
  <2>6. ASSUME NEW u \in Waiting'
        PROVE  Unfit(u, DayCapacity - UsedAhead(u))'
    <3>1. u \in EngineTasks /\ Task(u)' = Task(u) /\ SessionFloor(u)' = SessionFloor(u)
      BY <1>7, <1>13, <2>6
    <3> QED
      BY <1>7, <2>5, <2>6, <3>1 DEF Unfit
  <2>7. /\ todo' \subseteq Flexible' /\ phase' = "flexible"
        /\ Placed' \subseteq MandatoryTasks' \cup Flexible'
    BY <1>1, <1>2, <1>3, <1>5, <1>6, <1>7
  <2> QED
    BY <2>1, <2>2, <2>3, <2>4, <2>6, <2>7 DEF WithFlexible
<1>15. WithMandatory' /\ Reported'
  BY <1>1 DEF WithMandatory, Reported
<1> QED
  BY <1>10, <1>11, <1>12, <1>14, <1>15 DEF EngineInv

\* What stays the same when the agenda does.
LEMMA DayAndAgendaStay ==
  ASSUME EngineInv, day' = day, agenda' = agenda
  PROVE  /\ Demand' = Demand /\ DayCapacity' = DayCapacity /\ Used' = Used /\ Late' = Late
         /\ MandatoryTasks' = MandatoryTasks /\ Flexible' = Flexible
         /\ Blocked' = Blocked /\ Overdue' = Overdue
         /\ Placed' = Placed /\ Got' = Got
         /\ \A u \in EngineTasks :
              /\ Wanted(u)' = Wanted(u) /\ Urgency(u)' = Urgency(u)
              /\ Task(u)' = Task(u) /\ SessionFloor(u)' = SessionFloor(u)
              /\ UsedAhead(u)' = UsedAhead(u)
              /\ Unfit(u, DayCapacity - UsedAhead(u))' <=> Unfit(u, DayCapacity - UsedAhead(u))
<1>1. /\ DayCapacity' = DayCapacity
      /\ \A u \in EngineTasks :
           /\ Task(u)' = Task(u) /\ SessionFloor(u)' = SessionFloor(u)
           /\ UsedAhead(u)' = UsedAhead(u)
  BY SameDay, SameSums
<1>2. ASSUME NEW u \in EngineTasks
      PROVE  Unfit(u, DayCapacity - UsedAhead(u))' <=> Unfit(u, DayCapacity - UsedAhead(u))
  <2>1. /\ DayCapacity' - UsedAhead(u)' = DayCapacity - UsedAhead(u)
        /\ Task(u)' = Task(u) /\ SessionFloor(u)' = SessionFloor(u)
    BY <1>1
  <2> QED
    BY <2>1 DEF Unfit
<1> QED
  BY <1>1, <1>2, SameDay, SameAgenda, SameSums

LEMMA DeferKeeps ==
  ASSUME EngineInv, NEW t \in EngineTasks, Defer(t)
  PROVE  EngineInv'
<1>1. /\ phase = "flexible" /\ t \in todo /\ NextFlexible(t) /\ ~HasRoom(t)
      /\ deferred' = deferred \cup {<<t, "MINIMUM_SESSION_UNFIT">>}
      /\ todo' = todo \ {t}
      /\ UNCHANGED <<day, phase, agenda, conflicts, left>>
  BY DEF Defer, NextFlexible, IsFirst
<1>2. /\ EngineTypeOK /\ OneItemEach
      /\ Demand <= DayCapacity /\ ~(Demand > DayCapacity)
      /\ Demand \in Nat /\ DayCapacity \in Nat /\ left \in Nat /\ Used \in Nat
      /\ left + Used = DayCapacity /\ todo \cap Placed = {} /\ todo \subseteq Flexible
  BY <1>1, FlexibleFacts
<1>3. /\ Placed \subseteq MandatoryTasks \cup Flexible
      /\ deferred = (Blocked \X {"DEPENDENCY_BLOCKED"})
                      \cup (Waiting \X {"MINIMUM_SESSION_UNFIT"})
      /\ \A u \in Flexible \ todo, v \in todo : Urgency(u) <= Urgency(v)
      /\ \A u \in Waiting : Unfit(u, DayCapacity - UsedAhead(u))
  BY <1>1, <1>2 DEF EngineInv, WithFlexible
<1>4. /\ Demand' = Demand /\ DayCapacity' = DayCapacity /\ Used' = Used
      /\ MandatoryTasks' = MandatoryTasks /\ Flexible' = Flexible /\ Blocked' = Blocked
      /\ Placed' = Placed /\ Got' = Got
      /\ \A u \in EngineTasks :
           /\ Wanted(u)' = Wanted(u) /\ Urgency(u)' = Urgency(u)
           /\ Task(u)' = Task(u) /\ SessionFloor(u)' = SessionFloor(u)
           /\ Unfit(u, DayCapacity - UsedAhead(u))' <=> Unfit(u, DayCapacity - UsedAhead(u))
  BY <1>1, DayAndAgendaStay
<1>5. MandatoryTasks \subseteq EngineTasks /\ Flexible \subseteq EngineTasks
      /\ Placed \subseteq EngineTasks
  BY <1>2, Classes, GotNumbers
<1>6. EngineTypeOK'
  BY <1>1, <1>2 DEF EngineTypeOK, Reasons
<1>7. Before'
  BY <1>1, <1>2, <1>4 DEF Before
<1>8. Items'
  BY <1>1, <1>2, <1>4 DEF EngineInv, Items
<1>9. Waiting' = Waiting \cup {t}
  BY <1>1, <1>2, <1>4 DEF Waiting
<1>10. Unfit(t, DayCapacity - UsedAhead(t))
  <2>1. Ahead(t) = Placed
    <3>1. \A u \in Placed : u \in MandatoryTasks \/ Urgency(u) <= Urgency(t)
      BY <1>1, <1>2, <1>3
    <3> QED
      BY <3>1 DEF Ahead
  <2>2. DayCapacity - UsedAhead(t) = left
    BY <1>2, <2>1 DEF UsedAhead, Used
  <2>3. Unfit(t, left)
    BY <1>1, <1>2, TaskTypes DEF Unfit, HasRoom, Share, Least
  <2> QED
    BY <2>2, <2>3
<1>11. WithFlexible'
  <2>1. \A u \in MandatoryTasks' : Got'[u] = Wanted(u)'
    BY <1>1, <1>2, <1>4, <1>5 DEF EngineInv, WithFlexible
  <2>2. ASSUME NEW u \in Placed' \cap Flexible'
        PROVE  /\ \/ Got'[u] = Task(u)'.minutes
                  \/ Task(u)'.splittable /\ 0 < Got'[u] /\ Got'[u] < Task(u)'.minutes
               /\ Task(u)'.splittable => Got'[u] >= SessionFloor(u)'
    <3>1. u \in EngineTasks /\ u \in Placed \cap Flexible
      BY <1>4, <1>5, <2>2
    <3>2. Task(u)' = Task(u) /\ SessionFloor(u)' = SessionFloor(u) /\ Got'[u] = Got[u]
      BY <1>4, <3>1
    <3>3. /\ \/ Got[u] = Task(u).minutes
             \/ Task(u).splittable /\ 0 < Got[u] /\ Got[u] < Task(u).minutes
          /\ Task(u).splittable => Got[u] >= SessionFloor(u)
      BY <1>1, <1>2, <3>1 DEF EngineInv, WithFlexible
    <3> QED
      BY <3>2, <3>3
  <2>3. deferred' = (Blocked' \X {"DEPENDENCY_BLOCKED"})
                      \cup (Waiting' \X {"MINIMUM_SESSION_UNFIT"})
    BY <1>1, <1>3, <1>4, <1>9
  <2>4. ASSUME NEW u \in Flexible' \ todo', NEW v \in todo'
        PROVE  Urgency(u)' <= Urgency(v)'
    <3>1. /\ u \in EngineTasks /\ v \in EngineTasks /\ v \in todo \ {t}
          /\ Urgency(u)' = Urgency(u) /\ Urgency(v)' = Urgency(v)
      BY <1>1, <1>2, <1>4, <1>5, <2>4
    <3>2. u = t \/ u \in Flexible \ todo
      BY <1>1, <1>4, <2>4
    <3> QED
      BY <1>1, <1>2, <1>3, <3>1, <3>2, UrgencyOrders
  <2>5. \A u \in Waiting' : Unfit(u, DayCapacity - UsedAhead(u))'
    <3>1. \A u \in Waiting' : u \in EngineTasks /\ Unfit(u, DayCapacity - UsedAhead(u))
      BY <1>3, <1>5, <1>9, <1>10 DEF Waiting
    <3> QED
      BY <1>4, <3>1
  <2>6. /\ todo' \subseteq Flexible' /\ phase' = "flexible"
        /\ Placed' \subseteq MandatoryTasks' \cup Flexible'
    BY <1>1, <1>2, <1>3, <1>4
  <2> QED
    BY <2>1, <2>2, <2>3, <2>4, <2>5, <2>6 DEF WithFlexible
<1>12. WithMandatory' /\ Reported'
  BY <1>1 DEF WithMandatory, Reported
<1> QED
  BY <1>6, <1>7, <1>8, <1>11, <1>12 DEF EngineInv

\* From the end of the loop on only the conflicts change.
LEMMA FlexibleStays ==
  ASSUME EngineInv, phase \in {"flexible", "report"}, todo = {}, phase' \in {"report", "done"},
         UNCHANGED <<day, todo, agenda, deferred, left>>
  PROVE  /\ Before' /\ Items' /\ WithMandatory' /\ WithFlexible'
         /\ Demand <= DayCapacity /\ EngineTypeOK
<1>1. EngineTypeOK
  BY DEF EngineInv
<1>2. /\ Demand' = Demand /\ DayCapacity' = DayCapacity /\ Used' = Used
      /\ MandatoryTasks' = MandatoryTasks /\ Flexible' = Flexible /\ Blocked' = Blocked
      /\ Placed' = Placed /\ Got' = Got
      /\ \A u \in EngineTasks :
           /\ Wanted(u)' = Wanted(u) /\ Urgency(u)' = Urgency(u)
           /\ Task(u)' = Task(u) /\ SessionFloor(u)' = SessionFloor(u)
           /\ Unfit(u, DayCapacity - UsedAhead(u))' <=> Unfit(u, DayCapacity - UsedAhead(u))
  BY DayAndAgendaStay
<1>3. Demand <= DayCapacity /\ ~(Demand > DayCapacity)
  <2>1. Demand \in Nat /\ DayCapacity \in Nat
    BY <1>1, DemandIsMandatory, CapacityIsANumber
  <2>2. ~(Demand > DayCapacity)
    BY DEF EngineInv, Before
  <2> QED
    BY <2>1, <2>2
<1>4. Before'
  BY <1>2, <1>3 DEF Before
<1>5. Items'
  BY <1>2 DEF EngineInv, Items
<1>6. WithMandatory'
  BY DEF WithMandatory
<1>7. Waiting' = Waiting /\ Waiting \subseteq EngineTasks /\ MandatoryTasks \subseteq EngineTasks
      /\ Placed \subseteq EngineTasks
  BY <1>1, <1>2, Classes, GotNumbers DEF Waiting
<1>8. WithFlexible'
  <2>1. \A u \in MandatoryTasks' : Got'[u] = Wanted(u)'
    BY <1>2, <1>3, <1>7 DEF EngineInv, WithFlexible
  <2>2. ASSUME NEW u \in Placed' \cap Flexible'
        PROVE  /\ \/ Got'[u] = Task(u)'.minutes
                  \/ Task(u)'.splittable /\ 0 < Got'[u] /\ Got'[u] < Task(u)'.minutes
               /\ Task(u)'.splittable => Got'[u] >= SessionFloor(u)'
    <3>1. u \in EngineTasks /\ u \in Placed \cap Flexible
      BY <1>2, <1>7, <2>2
    <3>2. Task(u)' = Task(u) /\ SessionFloor(u)' = SessionFloor(u) /\ Got'[u] = Got[u]
      BY <1>2, <3>1
    <3>3. /\ \/ Got[u] = Task(u).minutes
             \/ Task(u).splittable /\ 0 < Got[u] /\ Got[u] < Task(u).minutes
          /\ Task(u).splittable => Got[u] >= SessionFloor(u)
      BY <1>3, <3>1 DEF EngineInv, WithFlexible
    <3> QED
      BY <3>2, <3>3
  <2>3. deferred' = (Blocked' \X {"DEPENDENCY_BLOCKED"})
                      \cup (Waiting' \X {"MINIMUM_SESSION_UNFIT"})
    BY <1>2, <1>3, <1>7 DEF EngineInv, WithFlexible
  <2>4. \A u \in Waiting' : Unfit(u, DayCapacity - UsedAhead(u))'
    <3>1. \A u \in Waiting : Unfit(u, DayCapacity - UsedAhead(u))
      BY <1>3 DEF EngineInv, WithFlexible
    <3> QED
      BY <1>2, <1>7, <3>1
  <2>5. todo' = {} /\ Placed' \subseteq MandatoryTasks' \cup Flexible'
    BY <1>2, <1>3 DEF EngineInv, WithFlexible
  <2> QED
    BY <2>1, <2>2, <2>3, <2>4, <2>5 DEF WithFlexible
<1> QED
  BY <1>1, <1>3, <1>4, <1>5, <1>6, <1>8

LEMMA FlexibleDoneKeeps ==
  ASSUME EngineInv, FlexibleDone
  PROVE  EngineInv'
<1>1. /\ phase = "flexible" /\ todo = {} /\ phase' = "report"
      /\ UNCHANGED <<day, todo, agenda, deferred, conflicts, left>>
  BY DEF FlexibleDone
<1>2. Before' /\ Items' /\ WithMandatory' /\ WithFlexible' /\ EngineTypeOK
  BY <1>1, FlexibleStays
<1>3. EngineTypeOK' /\ Reported'
  BY <1>1, <1>2 DEF EngineTypeOK, Reported
<1> QED
  BY <1>2, <1>3 DEF EngineInv

LEMMA ReportKeeps ==
  ASSUME EngineInv, Report
  PROVE  EngineInv'
<1> DEFINE weekly == IF WeeklyGap > day.weekly
                     THEN {<<"WEEKLY_CAPACITY_CONFLICT", Flexible \ Placed>>} ELSE {}
           risky == Overdue \cup {u \in Flexible : AtRisk(u)}
<1>1. /\ phase = "report" /\ phase' = "done"
      /\ conflicts' = weekly \cup {<<"DEADLINE_RISK", {t}>> : t \in risky}
      /\ UNCHANGED <<day, todo, agenda, deferred, left>>
  BY DEF Report
<1>2. EngineTypeOK /\ OneItemEach
  BY ItemsAreOneEach
<1>3. todo = {}
  <2>1. Demand \in Nat /\ DayCapacity \in Nat
    BY <1>2, DemandIsMandatory, CapacityIsANumber
  <2>2. ~(Demand > DayCapacity)
    BY <1>1 DEF EngineInv, Before
  <2>3. Demand <= DayCapacity
    BY <2>1, <2>2
  <2> QED
    BY <1>1, <2>3 DEF EngineInv, WithFlexible
<1>4. Before' /\ Items' /\ WithMandatory' /\ WithFlexible'
  BY <1>1, <1>3, FlexibleStays
<1>5. risky = Overdue \cup Late
  <2>1. ASSUME NEW u \in Flexible
        PROVE  AtRisk(u) <=> Task(u).minutes - Got[u] > CapacityUntil(Task(u).due)
    <3>1. u \in EngineTasks
      BY Classes
    <3>2. /\ Allotted(u) = Got[u] /\ Got[u] \in Nat /\ Task(u).minutes \in Nat
          /\ CapacityUntil(Task(u).due) \in Nat
      BY <1>2, <3>1, AllottedIsGot, GotNumbers, TaskTypes, ForecastIsANumber
    <3> QED
      BY <3>2 DEF AtRisk
  <2> QED
    BY <2>1 DEF Late
<1>6. risky \subseteq EngineTasks
  BY Classes
<1> HIDE DEF risky
<1>7. weekly \subseteq ConflictCodes \X SUBSET EngineTasks
      /\ \A S : <<"DEADLINE_RISK", S>> \notin weekly
  BY Classes DEF ConflictCodes
<1> HIDE DEF weekly
<1>8. conflicts' \subseteq ConflictCodes \X SUBSET EngineTasks
  BY <1>1, <1>6, <1>7 DEF ConflictCodes
<1>9. EngineTypeOK'
  BY <1>1, <1>2, <1>8 DEF EngineTypeOK
<1>10. Overdue' = Overdue /\ Late' = Late
  BY <1>1, DayAndAgendaStay
<1>11. ASSUME NEW t \in EngineTasks
       PROVE  Verdict(t, "DEADLINE_RISK")' <=> t \in risky
  <2>1. ASSUME t \in risky
        PROVE  \E S \in SUBSET EngineTasks : t \in S /\ <<"DEADLINE_RISK", S>> \in conflicts'
    <3>1. <<"DEADLINE_RISK", {t}>> \in conflicts'
      BY <1>1, <2>1
    <3> QED
      BY <3>1
  <2>2. ASSUME NEW S \in SUBSET EngineTasks, t \in S, <<"DEADLINE_RISK", S>> \in conflicts'
        PROVE  t \in risky
    <3>1. PICK u \in risky : <<"DEADLINE_RISK", S>> = <<"DEADLINE_RISK", {u}>>
      BY <1>1, <1>7, <2>2
    <3> QED
      BY <2>2, <3>1
  <2> QED
    BY <2>1, <2>2 DEF Verdict
<1>12. Reported'
  BY <1>5, <1>10, <1>11 DEF Reported
<1> QED
  BY <1>4, <1>9, <1>12 DEF EngineInv

LEMMA EngineStutters ==
  ASSUME EngineInv, UNCHANGED engineVars
  PROVE  EngineInv'
<1>1. /\ day' = day /\ phase' = phase /\ todo' = todo /\ agenda' = agenda
      /\ deferred' = deferred /\ conflicts' = conflicts /\ left' = left
  BY DEF engineVars
<1>2. /\ Demand' = Demand /\ DayCapacity' = DayCapacity /\ Used' = Used /\ Late' = Late
      /\ MandatoryTasks' = MandatoryTasks /\ Flexible' = Flexible
      /\ Blocked' = Blocked /\ Overdue' = Overdue
      /\ Placed' = Placed /\ Got' = Got
      /\ \A u \in EngineTasks :
           /\ Wanted(u)' = Wanted(u) /\ Urgency(u)' = Urgency(u)
           /\ Task(u)' = Task(u) /\ SessionFloor(u)' = SessionFloor(u)
           /\ Unfit(u, DayCapacity - UsedAhead(u))' <=> Unfit(u, DayCapacity - UsedAhead(u))
  BY <1>1, DayAndAgendaStay
<1>3. ToDoMinutes' = ToDoMinutes
  BY <1>1, SameSums
<1>4. /\ MandatoryTasks \subseteq EngineTasks /\ Flexible \subseteq EngineTasks
      /\ Placed \subseteq EngineTasks /\ todo \subseteq EngineTasks
  BY Classes, GotNumbers DEF EngineInv, EngineTypeOK
<1>5. EngineTypeOK'
  BY <1>1 DEF EngineInv, EngineTypeOK
<1>6. Before' /\ Items'
  BY <1>1, <1>2 DEF EngineInv, Before, Items
<1>7. WithMandatory'
  <2>1. \A u \in Placed : Wanted(u)' = Wanted(u)
    BY <1>2, <1>4
  <2> QED
    BY <1>1, <1>2, <1>3, <2>1 DEF EngineInv, WithMandatory
<1>8. WithFlexible'
  <2>1. Waiting' = Waiting
    BY <1>1, <1>2 DEF Waiting
  <2>2. \A u \in Flexible \cup MandatoryTasks : u \in EngineTasks
    BY <1>4
  <2> QED
    BY <1>1, <1>2, <2>1, <2>2 DEF EngineInv, WithFlexible, Waiting
<1>9. Reported'
  <2>1. \A t \in EngineTasks : Verdict(t, "DEADLINE_RISK")' <=> Verdict(t, "DEADLINE_RISK")
    BY <1>1 DEF Verdict
  <2> QED
    BY <1>1, <1>2, <2>1 DEF EngineInv, Reported
<1> QED
  BY <1>5, <1>6, <1>7, <1>8, <1>9 DEF EngineInv

LEMMA EngineInitInv == EngineInit => EngineInv
<1> SUFFICES ASSUME EngineInit PROVE EngineInv
  OBVIOUS
<1>1. /\ day \in Snapshots /\ phase = "start" /\ todo = {} /\ agenda = << >>
      /\ deferred = {} /\ conflicts = {} /\ left = 0
  BY DEF EngineInit
<1>2. EngineTypeOK
  BY <1>1 DEF EngineTypeOK
<1>3. Before
  BY <1>1 DEF Before
<1>4. Items
  <2>1. DOMAIN agenda = {}
    BY <1>1
  <2> QED
    BY <1>1, <2>1 DEF Items
<1>5. WithMandatory /\ WithFlexible /\ Reported
  BY <1>1 DEF WithMandatory, WithFlexible, Reported
<1> QED
  BY <1>2, <1>3, <1>4, <1>5 DEF EngineInv

LEMMA EngineNextInv == EngineInv /\ [EngineNext]_engineVars => EngineInv'
<1> SUFFICES ASSUME EngineInv, [EngineNext]_engineVars PROVE EngineInv'
  OBVIOUS
<1>1. CASE Overflow
  BY <1>1, OverflowKeeps
<1>2. CASE Begin
  BY <1>2, BeginKeeps
<1>3. CASE MandatoryDone
  BY <1>3, MandatoryDoneKeeps
<1>4. CASE FlexibleDone
  BY <1>4, FlexibleDoneKeeps
<1>5. CASE Report
  BY <1>5, ReportKeeps
<1>6. ASSUME NEW t \in EngineTasks, PlaceMandatory(t) PROVE EngineInv'
  BY <1>6, PlaceMandatoryKeeps
<1>7. ASSUME NEW t \in EngineTasks, PlaceFlexible(t) PROVE EngineInv'
  BY <1>7, PlaceFlexibleKeeps
<1>8. ASSUME NEW t \in EngineTasks, Defer(t) PROVE EngineInv'
  BY <1>8, DeferKeeps
<1>9. CASE UNCHANGED engineVars
  BY <1>9, EngineStutters
<1> QED
  BY <1>1, <1>2, <1>3, <1>4, <1>5, <1>6, <1>7, <1>8, <1>9 DEF EngineNext

\* What the loop of calculate_agenda has done with the tasks it has looked at, after
\* each of them and for any snapshot.
THEOREM EngineInvariance == EngineSpec => []EngineInv
BY EngineInitInv, EngineNextInv, PTL DEF EngineSpec

\* The engine's result has the types of its columns in each phase (DailyAgenda).
THEOREM EngineTypeCorrect == EngineSpec => []EngineTypeOK
<1>1. EngineInv => EngineTypeOK
  BY DEF EngineInv
<1> QED
  BY <1>1, EngineInvariance, PTL

\* For any snapshot the minutes of the agenda and what is left make up the day's
\* capacity, and no item is shorter than its task may be worked on.
THEOREM AgendaFits == EngineSpec => []AgendaFitsTheDay
BY InvFitsTheDay, EngineInvariance, PTL

\* For any snapshot every task has its minutes, its place or its reason.
THEOREM AccountedForIfAllFits == EngineSpec => []NothingIsLostIfAllFits
BY InvLosesNothing, EngineInvariance, PTL

\* For any snapshot a deferred task would not fit either without the less urgent.
THEOREM UrgencyDecides == EngineSpec => []UrgentComeFirst
BY InvUrgentFirst, EngineInvariance, PTL

-----------------------------------------------------------------------------
\* Each of the three modules moves as it does alone: what is proved about one of
\* them holds in the composition that the run checks.
THEOREM SchedulingImplementsParts == SchedulingSpec => Spec /\ AvailSpec /\ EngineSpec
<1>1. SchedulingInit => Init /\ AvailInit /\ EngineInit
  BY DEF SchedulingInit
<1>2. [SchedulingNext]_<<vars, availVars, engineVars, area>>
        => [Next]_vars /\ [AvailNext]_availVars /\ [EngineNext]_engineVars
  <2> SUFFICES ASSUME [SchedulingNext]_<<vars, availVars, engineVars, area>>
               PROVE  [Next]_vars /\ [AvailNext]_availVars /\ [EngineNext]_engineVars
    OBVIOUS
  <2>1. CASE area = "planning" /\ Next /\ UNCHANGED <<availVars, engineVars, area>>
    BY <2>1
  <2>2. CASE area = "availability" /\ AvailNext /\ UNCHANGED <<vars, engineVars, area>>
    BY <2>2
  <2>3. CASE area = "engine" /\ EngineNext /\ UNCHANGED <<vars, availVars, area>>
    BY <2>3
  <2>4. CASE UNCHANGED <<vars, availVars, engineVars, area>>
    BY <2>4
  <2> QED
    BY <2>1, <2>2, <2>3, <2>4 DEF SchedulingNext
<1> QED
  BY <1>1, <1>2, PTL DEF SchedulingSpec, Spec, AvailSpec, EngineSpec

\* All columns of the scheduling tables and of the engine's result are well typed.
THEOREM SchedulingTypeCorrect == SchedulingSpec => []SchedulingTypeOK
<1>1. TypeOK /\ AvailTypeOK /\ EngineTypeOK => SchedulingTypeOK
  BY DEF SchedulingTypeOK
<1> QED
  BY <1>1, SchedulingImplementsParts, PlanningTypes, AvailTypeCorrect, EngineTypeCorrect, PTL
=============================================================================
