---------------------------- MODULE GoalsProofs ----------------------------
(***************************************************************************)
(* Theorems about Goals, for any goals, plans, tasks and clients.          *)
(***************************************************************************)
EXTENDS Goals, TLAPS

\* What the columns of one row have to do with each other.
LifeFits(w) ==
  /\ w.status \in Closed <=> w.closure # "none"
  /\ w.closure # "none" =>
       w.closure = w.status /\ w.was \in Open /\ (w.paused <=> w.was = "paused")
  /\ w.closure = "completed" => w.kind = "achievement"
  /\ w.status \in Open => (w.paused <=> w.status = "paused")
  /\ w.status \in {"none", "draft"} => ~w.paused
  /\ w.plan = NoPlan <=> w.status \in {"none", "draft"}

\* A client has seen a row that was created, and is never ahead of it.
SeenIsPast ==
  \A c \in Clients, g \in Goals : seen[c].goal = g =>
    /\ row[g].status # "none"
    /\ seen[c].row.revision <= row[g].revision
    /\ seen[c].draft.revision <= draft[g].revision

CurrentPlans == \A g \in Goals : ActivePlans(g) = {row[g].plan} \ {NoPlan}

GoalInv ==
  /\ GoalTypeOK /\ SeenIsPast /\ CurrentPlans
  /\ \A g \in Goals : LifeFits(row[g])
  /\ TasksFollowPlans /\ RevisionNamesTheRow

\* A command on the goal g takes its row to the next revision.
Advances(g) ==
  /\ row' \in [Goals -> Rows]
  /\ row'[g].revision = row[g].revision + 1 /\ row'[g].status # "none" /\ LifeFits(row'[g])
  /\ \A h \in Goals \ {g} : row'[h] = row[h]

-----------------------------------------------------------------------------
LEMMA EmptyRow == /\ NewRow \in Rows /\ LifeFits(NewRow) /\ NewRow.plan = NoPlan
                  /\ NewRow.status = "draft"
                  /\ NoRow \in Rows /\ LifeFits(NoRow) /\ NoRow.plan = NoPlan
                  /\ NoRow.status = "none"
<1>1. NewRow \in Rows
  BY DEF NewRow, Rows, Open, Closed, Kinds
<1>2. NoRow = [NewRow EXCEPT !.status = "none"]
  BY DEF NoRow
<1>3. LifeFits(NewRow) /\ NewRow.plan = NoPlan /\ NewRow.status = "draft"
  BY DEF NewRow, LifeFits, Open, Closed
<1>4. /\ NoRow \in Rows /\ NoRow.status = "none" /\ NoRow.kind = NewRow.kind
      /\ NoRow.plan = NewRow.plan /\ NoRow.paused = NewRow.paused
      /\ NoRow.closure = NewRow.closure /\ NoRow.was = NewRow.was
  BY <1>1, <1>2 DEF Rows
<1>5. LifeFits(NoRow)
  BY <1>3, <1>4 DEF LifeFits, Open, Closed
<1> QED
  BY <1>1, <1>3, <1>4, <1>5

LEMMA GoalInitInv == GoalInit => GoalInv
<1> SUFFICES ASSUME GoalInit PROVE GoalInv
  OBVIOUS
<1>1. NewDraft \in Drafts
  BY GoalBounds DEF NewDraft, Drafts
<1>2. GoalTypeOK
  BY <1>1, EmptyRow DEF GoalInit, GoalTypeOK
<1>3. /\ \A g \in Goals : row[g] = NoRow /\ \A p \in Plans : plan[p] = "none"
      /\ \A t \in PlannedTasks : task[t] = "proposed"
      /\ \A c \in Clients : seen[c].goal = NoGoal
  BY DEF GoalInit
<1>4. SeenIsPast /\ RevisionNamesTheRow
  BY <1>3, PlansAssumption DEF SeenIsPast, RevisionNamesTheRow
<1>5. CurrentPlans /\ \A g \in Goals : LifeFits(row[g])
  BY <1>3, EmptyRow DEF CurrentPlans, ActivePlans, PlansOf
<1>6. TasksFollowPlans
  BY PlansAssumption DEF GoalInit, TasksFollowPlans
<1> QED
  BY <1>2, <1>4, <1>5, <1>6 DEF GoalInv

LEMMA UpdateStep ==
  ASSUME GoalTypeOK, NEW g \in Goals, NEW new \in Rows, Update(g, new)
  PROVE  /\ row' \in [Goals -> Rows] /\ row'[g].revision = new.revision + 1
         /\ row'[g].status = new.status /\ row'[g].kind = new.kind /\ row'[g].plan = new.plan
         /\ row'[g].paused = new.paused /\ row'[g].closure = new.closure /\ row'[g].was = new.was
         /\ \A h \in Goals \ {g} : row'[h] = row[h]
<1>1. row'[g] = [new EXCEPT !.revision = new.revision + 1] /\ row' = [row EXCEPT ![g] = row'[g]]
  BY DEF Update, GoalTypeOK
<1>2. row'[g] \in Rows /\ row'[g].revision = new.revision + 1
  BY <1>1 DEF Rows
<1>3. /\ row'[g].status = new.status /\ row'[g].kind = new.kind /\ row'[g].plan = new.plan
      /\ row'[g].paused = new.paused /\ row'[g].closure = new.closure /\ row'[g].was = new.was
  BY <1>1 DEF Rows
<1> QED
  BY <1>1, <1>2, <1>3 DEF GoalTypeOK

\* A row with the same life as another fits as it does.
LEMMA SameLife ==
  ASSUME NEW v, NEW w, LifeFits(v),
         w.status = v.status, w.kind = v.kind, w.plan = v.plan, w.paused = v.paused,
         w.closure = v.closure, w.was = v.was
  PROVE  LifeFits(w)
  BY DEF LifeFits

-----------------------------------------------------------------------------
\* The commands that take a row to its next revision, and keep its plan.

LEMMA ConfirmAdvances ==
  ASSUME GoalInv, NEW c \in Clients, NEW g \in Goals, ConfirmProfile(c, g)
  PROVE  Advances(g) /\ row'[g].plan = row[g].plan
<1>1. row[g] \in Rows /\ draft[g] \in Drafts /\ LifeFits(row[g]) /\ row[g].status # "none"
  BY DEF GoalInv, GoalTypeOK, ConfirmProfile, Current, SeenIsPast
<1>2. PICK k \in Kinds : k = DerivedKind(g)
  BY <1>1 DEF DerivedKind, Rows, Drafts
<1>3. PICK n \in Nat : n = row[g].profile + 1
  BY <1>1 DEF Rows
<1>4. PICK new : new = [row[g] EXCEPT !.profile = n, !.kind = k]
  OBVIOUS
<1>5. /\ new \in Rows /\ new.revision = row[g].revision /\ new.status = row[g].status
      /\ new.kind = k /\ new.plan = row[g].plan /\ new.paused = row[g].paused
      /\ new.closure = row[g].closure /\ new.was = row[g].was
  BY <1>1, <1>4 DEF Rows
<1>6. Update(g, new)
  BY <1>2, <1>3, <1>4 DEF ConfirmProfile
<1>7. row[g].closure = "completed" => k = "achievement"
  BY <1>2 DEF ConfirmProfile, Checked
<1>8. LifeFits(new)
  BY <1>1, <1>5, <1>7 DEF LifeFits
<1>9. LifeFits(row'[g])
  BY <1>5, <1>6, <1>8, UpdateStep, SameLife DEF GoalInv
<1> QED
  BY <1>1, <1>5, <1>6, <1>9, UpdateStep DEF Advances, GoalInv

LEMMA RouteAdvances ==
  ASSUME GoalInv, NEW c \in Clients, NEW g \in Goals, SelectRoute(c, g)
  PROVE  Advances(g) /\ row'[g].plan = row[g].plan
<1>1. row[g] \in Rows /\ LifeFits(row[g]) /\ row[g].status # "none" /\ Update(g, row[g])
  BY DEF GoalInv, GoalTypeOK, SelectRoute, Current, SeenIsPast
<1>2. LifeFits(row'[g])
  BY <1>1, UpdateStep, SameLife DEF GoalInv
<1> QED
  BY <1>1, <1>2, UpdateStep DEF Advances, GoalInv

LEMMA PauseAdvances ==
  ASSUME GoalInv, NEW c \in Clients, NEW g \in Goals, PauseGoal(c, g) \/ ResumeGoal(c, g)
  PROVE  Advances(g) /\ row'[g].plan = row[g].plan
<1>1. row[g] \in Rows /\ LifeFits(row[g]) /\ row[g].status \in Open
  BY DEF GoalInv, GoalTypeOK, PauseGoal, ResumeGoal, Open
<1>2. PICK st \in Open, b \in BOOLEAN :
        /\ b <=> st = "paused"
        /\ Update(g, [row[g] EXCEPT !.status = st, !.paused = b])
  BY DEF PauseGoal, ResumeGoal, Open
<1>3. PICK new : new = [row[g] EXCEPT !.status = st, !.paused = b]
  OBVIOUS
<1>4. /\ new \in Rows /\ new.revision = row[g].revision /\ new.status = st
      /\ new.kind = row[g].kind /\ new.plan = row[g].plan /\ new.paused = b
      /\ new.closure = row[g].closure /\ new.was = row[g].was
  BY <1>1, <1>3 DEF Rows
<1>5. row[g].closure = "none" /\ row[g].plan # NoPlan
  BY <1>1 DEF LifeFits, Open, Closed
<1>6. LifeFits(new)
  BY <1>1, <1>2, <1>4, <1>5 DEF LifeFits, Open, Closed
<1>7. Update(g, new) /\ st # "none"
  BY <1>2, <1>3 DEF Open
<1>8. LifeFits(row'[g])
  BY <1>4, <1>6, <1>7, UpdateStep, SameLife DEF GoalInv
<1> QED
  BY <1>4, <1>7, <1>8, UpdateStep DEF Advances, GoalInv

LEMMA CloseAdvances ==
  ASSUME GoalInv, NEW c \in Clients, NEW g \in Goals, NEW k \in Closed, CloseGoal(c, g, k)
  PROVE  Advances(g) /\ row'[g].plan = row[g].plan
<1>1. /\ row[g] \in Rows /\ LifeFits(row[g]) /\ row[g].status \in Open
      /\ k = "completed" => row[g].kind = "achievement"
  BY DEF GoalInv, GoalTypeOK, CloseGoal
<1>2. PICK new : new = [row[g] EXCEPT !.status = k, !.closure = k, !.was = row[g].status]
  OBVIOUS
<1>3. /\ new \in Rows /\ new.revision = row[g].revision /\ new.status = k
      /\ new.kind = row[g].kind /\ new.plan = row[g].plan /\ new.paused = row[g].paused
      /\ new.closure = k /\ new.was = row[g].status
  BY <1>1, <1>2 DEF Rows
<1>4. LifeFits(new)
  BY <1>1, <1>3 DEF LifeFits, Open, Closed
<1>5. Update(g, new) /\ k # "none"
  BY <1>2 DEF CloseGoal, Closed
<1>6. LifeFits(row'[g])
  BY <1>3, <1>4, <1>5, UpdateStep, SameLife DEF GoalInv
<1> QED
  BY <1>3, <1>5, <1>6, UpdateStep DEF Advances, GoalInv

LEMMA UndoAdvances ==
  ASSUME GoalInv, NEW c \in Clients, NEW g \in Goals, UndoClosure(c, g)
  PROVE  Advances(g) /\ row'[g].plan = row[g].plan
<1>1. row[g] \in Rows /\ LifeFits(row[g]) /\ row[g].status \in Closed
  BY DEF GoalInv, GoalTypeOK, UndoClosure
<1>2. row[g].was \in Open /\ (row[g].paused <=> row[g].was = "paused") /\ row[g].plan # NoPlan
  BY <1>1 DEF LifeFits, Open, Closed
<1>3. PICK new : new = Reopened(g)
  OBVIOUS
<1>4. new = [row[g] EXCEPT !.status = row[g].was, !.closure = "none", !.was = "none"]
  BY <1>3 DEF Reopened
<1>5. /\ new \in Rows /\ new.revision = row[g].revision /\ new.status = row[g].was
      /\ new.kind = row[g].kind /\ new.plan = row[g].plan /\ new.paused = row[g].paused
      /\ new.closure = "none" /\ new.was = "none"
  BY <1>1, <1>2, <1>4 DEF Rows
<1>6. LifeFits(new)
  BY <1>1, <1>2, <1>5 DEF LifeFits, Open, Closed
<1>7. Update(g, new) /\ row[g].was # "none"
  BY <1>2, <1>3 DEF UndoClosure, Open
<1>8. LifeFits(row'[g])
  BY <1>5, <1>6, <1>7, UpdateStep, SameLife DEF GoalInv
<1> QED
  BY <1>5, <1>7, <1>8, UpdateStep DEF Advances, GoalInv

LEMMA ActivateAdvances ==
  ASSUME GoalInv, NEW c \in Clients, NEW p \in Plans, ActivatePlan(c, p)
  PROVE  /\ GoalOfPlan[p] \in Goals
         /\ Advances(GoalOfPlan[p]) /\ row'[GoalOfPlan[p]].plan = p
<1>1. PICK g \in Goals : g = GoalOfPlan[p]
  BY PlansAssumption
<1>2. row[g] \in Rows /\ LifeFits(row[g]) /\ row[g].status \in {"draft", "active"}
  BY <1>1 DEF GoalInv, GoalTypeOK, ActivatePlan, ActivatablePlan
<1>3. PICK new : new = Activated(g, p)
  OBVIOUS
<1>4. new = [row[g] EXCEPT !.status = "active", !.plan = p]
  BY <1>3 DEF Activated
<1>5. /\ new \in Rows /\ new.revision = row[g].revision /\ new.status = "active"
      /\ new.kind = row[g].kind /\ new.plan = p /\ new.paused = row[g].paused
      /\ new.closure = row[g].closure /\ new.was = row[g].was
  BY <1>2, <1>4 DEF Rows, Open
<1>6. ~row[g].paused /\ row[g].closure = "none" /\ p # NoPlan
  BY <1>2, PlansAssumption DEF LifeFits, Open, Closed
<1>7. LifeFits(new)
  BY <1>2, <1>5, <1>6 DEF LifeFits, Open, Closed
<1>8. Update(g, new)
  BY <1>1, <1>3 DEF ActivatePlan
<1>9. LifeFits(row'[g])
  BY <1>5, <1>7, <1>8, UpdateStep, SameLife DEF GoalInv
<1> QED
  BY <1>1, <1>5, <1>8, <1>9, UpdateStep DEF Advances, GoalInv

-----------------------------------------------------------------------------
\* What the clients have seen, and the life of the rows, after an advance.
LEMMA AdvanceKeeps ==
  ASSUME GoalInv, NEW g \in Goals, Advances(g), draft' = draft, seen' = seen
  PROVE  /\ SeenIsPast' /\ RevisionNamesTheRow'
         /\ \A h \in Goals : LifeFits(row'[h])
<1>1. /\ row'[g].revision = row[g].revision + 1 /\ row'[g].status # "none"
      /\ \A h \in Goals : h # g => row'[h] = row[h]
  BY DEF Advances
<1>2. /\ row[g].revision \in Nat
      /\ \A c \in Clients : seen[c].row.revision \in Nat
  BY DEF GoalInv, GoalTypeOK, Rows
<1>3. SeenIsPast'
  BY <1>1, <1>2 DEF GoalInv, SeenIsPast
<1>4. RevisionNamesTheRow'
  <2> SUFFICES ASSUME NEW c \in Clients, NEW h \in Goals, seen[c].goal = h
               PROVE  /\ seen[c].row.revision = row'[h].revision => seen[c].row = row'[h]
                      /\ seen[c].draft.revision = draft[h].revision => seen[c].draft = draft[h]
    BY DEF RevisionNamesTheRow
  <2>1. CASE h = g
    BY <1>1, <1>2, <2>1 DEF GoalInv, SeenIsPast, RevisionNamesTheRow
  <2>2. CASE h # g
    BY <1>1, <2>2 DEF GoalInv, RevisionNamesTheRow
  <2> QED
    BY <2>1, <2>2
<1>5. \A h \in Goals : LifeFits(row'[h])
  BY <1>1 DEF GoalInv, Advances
<1> QED
  BY <1>3, <1>4, <1>5

\* A command that is no activation.
LEMMA CommandKeeps ==
  ASSUME GoalInv, NEW g \in Goals, Advances(g), row'[g].plan = row[g].plan,
         undoable' \subseteq Goals, UNCHANGED <<draft, plan, task, seen>>
  PROVE  GoalInv'
<1>1. GoalTypeOK'
  BY DEF GoalInv, GoalTypeOK, Advances
<1>2. /\ SeenIsPast' /\ RevisionNamesTheRow'
      /\ \A h \in Goals : LifeFits(row'[h])
  BY AdvanceKeeps
<1>3. CurrentPlans'
  BY DEF GoalInv, CurrentPlans, ActivePlans, Advances
<1>4. TasksFollowPlans'
  BY DEF GoalInv, TasksFollowPlans
<1> QED
  BY <1>1, <1>2, <1>3, <1>4 DEF GoalInv

LEMMA ActivateKeeps ==
  ASSUME GoalInv, NEW c \in Clients, NEW p \in Plans, ActivatePlan(c, p)
  PROVE  GoalInv'
<1>1. PICK g \in Goals : g = GoalOfPlan[p]
  BY PlansAssumption
<1>2. Advances(g) /\ row'[g].plan = p
  BY <1>1, ActivateAdvances
<1>3. /\ plan[p] = "draft" /\ plan' = Superseded(p) /\ UNCHANGED <<draft, undoable, seen>>
      /\ task' = [t \in PlannedTasks |-> IF t \in ReleasedTasks(p) THEN "pending" ELSE task[t]]
  BY DEF ActivatePlan, ActivatablePlan
<1>4. /\ SeenIsPast' /\ RevisionNamesTheRow'
      /\ \A h \in Goals : LifeFits(row'[h])
  BY <1>2, <1>3, AdvanceKeeps
<1>5. /\ plan'[p] = "active"
      /\ \A q \in Plans : q # p /\ GoalOfPlan[q] = g /\ plan[q] = "active" => plan'[q] = "superseded"
      /\ \A q \in Plans : q # p /\ ~(GoalOfPlan[q] = g /\ plan[q] = "active") => plan'[q] = plan[q]
  BY <1>1, <1>3 DEF Superseded, ActivePlans, PlansOf
<1>6. plan' \in [Plans -> {"none", "draft", "active", "superseded"}]
  BY <1>3 DEF Superseded, GoalInv, GoalTypeOK
<1>7. GoalTypeOK'
  BY <1>2, <1>3, <1>6 DEF GoalInv, GoalTypeOK, Advances
<1>8. CurrentPlans'
  <2>1. ASSUME NEW h \in Goals
        PROVE  {q \in PlansOf(h) : plan'[q] = "active"} = {row'[h].plan} \ {NoPlan}
    <3>1. CASE h = g
      <4>1. p # NoPlan /\ row'[h].plan = p
        BY <1>2, <3>1, PlansAssumption
      <4>2. {q \in PlansOf(h) : plan'[q] = "active"} = {p}
        BY <1>1, <1>5, <3>1 DEF PlansOf
      <4> QED
        BY <4>1, <4>2
    <3>2. CASE h # g
      <4>1. row'[h] = row[h]
        BY <1>2, <3>2 DEF Advances
      <4>2. {q \in PlansOf(h) : plan'[q] = "active"} = ActivePlans(h)
        BY <1>1, <1>5, <3>2 DEF PlansOf, ActivePlans
      <4> QED
        BY <4>1, <4>2 DEF GoalInv, CurrentPlans
    <3> QED
      BY <3>1, <3>2
  <2> QED
    BY <2>1 DEF CurrentPlans, ActivePlans
<1>9. TasksFollowPlans'
  <2>1. Batched \subseteq Plans
    BY PlansAssumption
  <2>2. \A t \in PlannedTasks : task'[t] = "pending" <=> t \in ReleasedTasks(p) \/ task[t] = "pending"
    BY <1>3
  <2>3. ASSUME NEW q \in Batched, plan'[q] = "active", NEW t \in TasksOf[q]
        PROVE  task'[t] = "pending"
    <3>1. t \in PlannedTasks
      BY <2>1 DEF PlannedTasks
    <3>2. CASE q = p
      BY <2>2, <2>3, <3>1, <3>2 DEF ReleasedTasks
    <3>3. CASE q # p
      <4>1. plan[q] = "active"
        BY <1>5, <2>1, <2>3, <3>3
      <4> QED
        BY <2>2, <2>3, <3>1, <4>1 DEF GoalInv, TasksFollowPlans
    <3> QED
      BY <3>2, <3>3
  <2>4. ASSUME NEW t \in PlannedTasks, task'[t] = "pending"
        PROVE  \E q \in Batched : t \in TasksOf[q] /\ plan'[q] \in {"active", "superseded"}
    <3>1. CASE t \in ReleasedTasks(p)
      BY <1>5, <3>1 DEF ReleasedTasks
    <3>2. CASE task[t] = "pending"
      <4>1. PICK q \in Batched : t \in TasksOf[q] /\ plan[q] \in {"active", "superseded"}
        BY <3>2 DEF GoalInv, TasksFollowPlans
      <4>2. plan'[q] \in {"active", "superseded"}
        BY <1>3, <1>5, <2>1, <4>1
      <4> QED
        BY <4>1, <4>2
    <3> QED
      BY <2>2, <2>4, <3>1, <3>2
  <2> QED
    BY <2>3, <2>4 DEF TasksFollowPlans
<1> QED
  BY <1>4, <1>7, <1>8, <1>9 DEF GoalInv

\* A goal comes into being: nobody has seen it, and it has no plan.
LEMMA NewGoalKeeps ==
  ASSUME GoalInv, NEW g \in Goals, row[g].status = "none", NEW w \in Rows, NEW d \in Drafts,
         LifeFits(w), w.status = "draft", row' = [row EXCEPT ![g] = w],
         draft' = draft \/ draft' = [draft EXCEPT ![g] = d],
         UNCHANGED <<undoable, plan, task, seen>>
  PROVE  GoalInv'
<1>1. /\ row' \in [Goals -> Rows] /\ draft' \in [Goals -> Drafts] /\ row'[g] = w
      /\ \A h \in Goals : h # g => row'[h] = row[h] /\ draft'[h] = draft[h]
  BY DEF GoalInv, GoalTypeOK
<1>2. GoalTypeOK'
  BY <1>1 DEF GoalInv, GoalTypeOK
<1>3. \A c \in Clients : seen[c].goal # g
  BY DEF GoalInv, SeenIsPast
<1>4. SeenIsPast' /\ RevisionNamesTheRow'
  BY <1>1, <1>3 DEF GoalInv, SeenIsPast, RevisionNamesTheRow
<1>5. row[g].plan = NoPlan /\ w.plan = NoPlan
  BY DEF GoalInv, LifeFits
<1>6. CurrentPlans'
  BY <1>1, <1>5 DEF GoalInv, CurrentPlans, ActivePlans
<1>7. (\A h \in Goals : LifeFits(row'[h])) /\ TasksFollowPlans'
  BY <1>1 DEF GoalInv, TasksFollowPlans
<1> QED
  BY <1>2, <1>4, <1>6, <1>7 DEF GoalInv

LEMMA ReadKeeps ==
  ASSUME GoalInv, NEW c \in Clients, NEW g \in Goals, ReadGoal(c, g)
  PROVE  GoalInv'
<1>1. /\ seen' = [seen EXCEPT ![c] = [goal |-> g, row |-> row[g], draft |-> draft[g]]]
      /\ row[g].status # "none" /\ UNCHANGED <<row, draft, undoable, plan, task>>
  BY DEF ReadGoal
<1>2. /\ row[g] \in Rows /\ draft[g] \in Drafts
      /\ seen \in [Clients -> [goal : Goals \cup {NoGoal}, row : Rows, draft : Drafts]]
  BY DEF GoalInv, GoalTypeOK
<1>3. GoalTypeOK'
  BY <1>1, <1>2 DEF GoalInv, GoalTypeOK
<1>4. /\ seen'[c].goal = g /\ seen'[c].row = row[g] /\ seen'[c].draft = draft[g]
      /\ \A d \in Clients : d # c => seen'[d] = seen[d]
  BY <1>1, <1>2
<1>5. row[g].revision \in Nat /\ draft[g].revision \in Nat
  BY <1>2, GoalBounds DEF Rows, Drafts
<1>6. SeenIsPast' /\ RevisionNamesTheRow'
  BY <1>1, <1>4, <1>5 DEF GoalInv, SeenIsPast, RevisionNamesTheRow
<1>7. CurrentPlans' /\ TasksFollowPlans' /\ \A h \in Goals : LifeFits(row'[h])
  BY <1>1 DEF GoalInv, CurrentPlans, ActivePlans, TasksFollowPlans
<1> QED
  BY <1>3, <1>6, <1>7 DEF GoalInv

LEMMA EditKeeps ==
  ASSUME GoalInv, NEW c \in Clients, NEW g \in Goals, NEW k \in Kinds, EditDraft(c, g, k)
  PROVE  GoalInv'
<1>1. /\ draft' = [draft EXCEPT ![g] = [implies |-> k, revision |-> draft[g].revision + 1]]
      /\ draft[g].revision < MaxEdits /\ UNCHANGED <<row, undoable, plan, task, seen>>
  BY DEF EditDraft
<1>2. draft \in [Goals -> Drafts] /\ draft[g].revision \in Nat /\ MaxEdits \in Nat
  BY GoalBounds DEF GoalInv, GoalTypeOK, Drafts
<1>3. [implies |-> k, revision |-> draft[g].revision + 1] \in Drafts
  BY <1>1, <1>2 DEF Drafts
<1>4. GoalTypeOK'
  BY <1>1, <1>2, <1>3 DEF GoalInv, GoalTypeOK
<1>5. /\ draft'[g].revision = draft[g].revision + 1
      /\ \A h \in Goals : h # g => draft'[h] = draft[h]
      /\ \A d \in Clients : seen[d].draft.revision \in Nat
  BY <1>1, <1>2, GoalBounds DEF GoalInv, GoalTypeOK, Drafts
<1>6. SeenIsPast' /\ RevisionNamesTheRow'
  BY <1>1, <1>2, <1>5 DEF GoalInv, SeenIsPast, RevisionNamesTheRow
<1>7. CurrentPlans' /\ TasksFollowPlans' /\ \A h \in Goals : LifeFits(row'[h])
  BY <1>1 DEF GoalInv, CurrentPlans, ActivePlans, TasksFollowPlans
<1> QED
  BY <1>4, <1>6, <1>7 DEF GoalInv

LEMMA DraftKeeps ==
  ASSUME GoalInv, NEW p \in Plans, DraftPlan(p)
  PROVE  GoalInv'
<1>1. /\ plan[p] = "none" /\ plan' = [plan EXCEPT ![p] = "draft"]
      /\ UNCHANGED <<row, draft, undoable, task, seen>>
      /\ plan \in [Plans -> {"none", "draft", "active", "superseded"}]
  BY DEF DraftPlan, GoalInv, GoalTypeOK
<1>2. /\ plan' \in [Plans -> {"none", "draft", "active", "superseded"}]
      /\ \A q \in Plans : \A s \in {"active", "superseded"} : plan'[q] = s <=> plan[q] = s
  BY <1>1
<1>3. GoalTypeOK' /\ SeenIsPast' /\ RevisionNamesTheRow' /\ \A h \in Goals : LifeFits(row'[h])
  BY <1>1, <1>2 DEF GoalInv, GoalTypeOK, SeenIsPast, RevisionNamesTheRow
<1>4. CurrentPlans'
  <2>1. \A h \in Goals : {q \in PlansOf(h) : plan'[q] = "active"} = ActivePlans(h)
    BY <1>2 DEF ActivePlans, PlansOf
  <2> QED
    BY <1>1, <2>1 DEF GoalInv, CurrentPlans, ActivePlans
<1>5. TasksFollowPlans'
  BY <1>1, <1>2, PlansAssumption DEF GoalInv, TasksFollowPlans
<1> QED
  BY <1>3, <1>4, <1>5 DEF GoalInv

LEMMA DeriveKeeps ==
  ASSUME GoalInv, NEW c \in Clients, NEW g \in Goals, NEW new \in Goals, DeriveGoal(c, g, new)
  PROVE  GoalInv'
<1>1. row[g] \in Rows /\ NewDraft \in Drafts
  BY GoalBounds DEF GoalInv, GoalTypeOK, NewDraft, Drafts
<1>2. PICK w : w = [NewRow EXCEPT !.kind = row[g].kind]
  OBVIOUS
<1>3. /\ w \in Rows /\ w.status = NewRow.status /\ w.kind \in Kinds /\ w.plan = NewRow.plan
      /\ w.paused = NewRow.paused /\ w.closure = NewRow.closure /\ w.was = NewRow.was
  BY <1>1, <1>2, EmptyRow DEF Rows
<1>4. NewRow.closure = "none" /\ NewRow.status = "draft" /\ NewRow.paused = FALSE
  BY DEF NewRow
<1>5. LifeFits(w) /\ w.status = "draft"
  BY <1>3, <1>4, EmptyRow DEF LifeFits, Open, Closed
<1>6. PICK i \in {"none"} \cup Kinds : i = IF row[g].profile = 0 THEN "none" ELSE row[g].kind
  BY <1>1 DEF Rows
<1>7. PICK d : d = [NewDraft EXCEPT !.implies = i]
  OBVIOUS
<1>8. d \in Drafts
  BY <1>1, <1>7 DEF Drafts
<1>9. /\ row[new].status = "none" /\ row' = [row EXCEPT ![new] = w]
      /\ draft' = [draft EXCEPT ![new] = d] /\ UNCHANGED <<undoable, plan, task, seen>>
  BY <1>2, <1>6, <1>7 DEF DeriveGoal
<1> QED
  BY <1>3, <1>5, <1>8, <1>9, NewGoalKeeps

-----------------------------------------------------------------------------
\* The columns of every row fit each other and its plans, and no client is ahead of
\* the rows it has read.
THEOREM GoalInvariance == GoalSpec => []GoalInv
<1>1. GoalInv /\ [GoalNext]_goalVars => GoalInv'
  <2> SUFFICES ASSUME GoalInv, [GoalNext]_goalVars
               PROVE  GoalInv'
    OBVIOUS
  <2>1. undoable \subseteq Goals /\ NewDraft \in Drafts
    BY GoalBounds DEF GoalInv, GoalTypeOK, NewDraft, Drafts
  <2>2. ASSUME NEW g \in Goals, CreateGoal(g)
        PROVE  GoalInv'
    BY <2>1, <2>2, EmptyRow, NewGoalKeeps DEF CreateGoal
  <2>3. ASSUME NEW g \in Goals, WindowPasses(g)
        PROVE  GoalInv'
    BY <2>1, <2>3 DEF WindowPasses, GoalInv, GoalTypeOK, SeenIsPast, CurrentPlans, ActivePlans,
                      TasksFollowPlans, RevisionNamesTheRow
  <2>4. ASSUME NEW c \in Clients, NEW g \in Goals,
               \/ ConfirmProfile(c, g) \/ SelectRoute(c, g) \/ PauseGoal(c, g) \/ ResumeGoal(c, g)
               \/ \E k \in Closed : CloseGoal(c, g, k)
               \/ UndoClosure(c, g)
        PROVE  GoalInv'
    <3>1. Advances(g) /\ row'[g].plan = row[g].plan
      BY <2>4, ConfirmAdvances, RouteAdvances, PauseAdvances, CloseAdvances, UndoAdvances
    <3>2. undoable' \subseteq Goals /\ UNCHANGED <<draft, plan, task, seen>>
      BY <2>1, <2>4 DEF ConfirmProfile, SelectRoute, PauseGoal, ResumeGoal, CloseGoal, UndoClosure
    <3> QED
      BY <3>1, <3>2, CommandKeeps
  <2>5. ASSUME NEW c \in Clients, NEW g \in Goals,
               \/ ReadGoal(c, g) \/ \E k \in Kinds : EditDraft(c, g, k)
               \/ \E new \in Goals : DeriveGoal(c, g, new)
        PROVE  GoalInv'
    BY <2>5, ReadKeeps, EditKeeps, DeriveKeeps
  <2>6. ASSUME NEW p \in Plans, DraftPlan(p) \/ \E c \in Clients : ActivatePlan(c, p)
        PROVE  GoalInv'
    BY <2>6, DraftKeeps, ActivateKeeps
  <2>7. CASE UNCHANGED goalVars
    BY <2>7 DEF goalVars, GoalInv, GoalTypeOK, SeenIsPast, CurrentPlans, ActivePlans,
                TasksFollowPlans, RevisionNamesTheRow
  <2> QED
    BY <2>2, <2>3, <2>4, <2>5, <2>6, <2>7, Zenon DEF GoalNext
<1> QED
  BY <1>1, GoalInitInv, PTL DEF GoalSpec

\* ActivePlanIsCurrent: whichever commands meet, current_plan_version_id and the
\* active row of plan_versions are never apart.
THEOREM PlanCorrect == GoalSpec => []ActivePlanIsCurrent
<1>1. GoalInv => ActivePlanIsCurrent
  BY DEF GoalInv, CurrentPlans, LifeFits, ActivePlanIsCurrent
<1> QED
  BY <1>1, GoalInvariance, PTL

\* TasksFollowPlans: the tasks of an active plan are pending, those it shares with the
\* plan it supersedes included, and no task is before a plan of its own was activated.
THEOREM TasksCorrect == GoalSpec => []TasksFollowPlans
<1>1. GoalInv => TasksFollowPlans
  BY DEF GoalInv
<1> QED
  BY <1>1, GoalInvariance, PTL

\* RevisionNamesTheRow: comparing one number is enough to reject a client that has
\* not seen the row, or the draft, it is about to change.
THEOREM RevisionCorrect == GoalSpec => []RevisionNamesTheRow
<1>1. GoalInv => RevisionNamesTheRow
  BY DEF GoalInv
<1> QED
  BY <1>1, GoalInvariance, PTL

\* ClosureFitsStatus: an undone closure finds the status it has to go back to.
THEOREM ClosureCorrect == GoalSpec => []ClosureFitsStatus
<1>1. GoalInv => ClosureFitsStatus
  BY DEF GoalInv, LifeFits, ClosureFitsStatus
<1> QED
  BY <1>1, GoalInvariance, PTL
=============================================================================
