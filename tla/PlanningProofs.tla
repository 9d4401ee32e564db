--------------------------- MODULE PlanningProofs ---------------------------
(***************************************************************************)
(* Theorems about Planning: an agenda is computed from the data of the     *)
(* revision it names, and revisions get their agendas in order, each at    *)
(* most once.                                                              *)
(***************************************************************************)
EXTENDS Planning, TLAPS

\* An attempt: what it saw is no newer than what it read afterwards, which is no
\* newer than what there is, and past the handler it saw its job's input.
AttemptOK(a, now) ==
  a.phase # "idle" =>
    /\ a.job \in Jobs
    /\ a.saw <= now
    /\ a.phase \in {"read", "computed"} => a.saw <= a.readAt /\ a.readAt <= now
    /\ a.phase = "computed" => a.saw = InputRevision(a.job)

AttemptsOK == \A w \in Workers : AttemptOK(attempt[w], revision)

\* No agenda is ahead of the inputs.
NoneAhead == \A d \in Days : \A i \in 1 .. Len(history[d]) : history[d][i].basis <= revision

\* The keys of jobs that are open or have succeeded are different.
OneHolder ==
  \A j, k \in Jobs :
    j # k /\ DedupeKey[j] = DedupeKey[k] =>
      ~(state[j] \in {"open", "succeeded"} /\ state[k] \in {"open", "succeeded"})

Inv ==
  /\ TypeOK
  /\ AttemptsOK
  /\ NoneAhead
  /\ OneHolder
  /\ AgendaIsOfItsRevision
  /\ VersionsFollowRevisions

-----------------------------------------------------------------------------
LEMMA JobParts ==
  ASSUME NEW j \in Jobs
  PROVE  Day(j) \in Days /\ InputRevision(j) \in Revisions /\ j = <<Day(j), InputRevision(j), j[3]>>
BY DEF Jobs, Day, InputRevision

LEMMA KeyParts ==
  ASSUME NEW j \in Jobs, NEW k \in Jobs, DedupeKey[j] = DedupeKey[k]
  PROVE  Day(j) = Day(k) /\ InputRevision(j) = InputRevision(k)
BY DEF DedupeKey

LEMMA KeyOf ==
  ASSUME NEW j \in Jobs, NEW k \in Jobs, Day(j) = Day(k), InputRevision(j) = InputRevision(k)
  PROVE  DedupeKey[j] = DedupeKey[k]
BY DEF DedupeKey

\* What Ends does to the tables of the jobs.
LEMMA EndsFacts ==
  ASSUME TypeOK, NEW j \in Jobs, NEW how \in {"succeeded", "failed", "stale", "computed"},
         how = "computed" => asked[j], Ends(j, how)
  PROVE  /\ state[j] = "open"
         /\ state' = [state EXCEPT ![j] = IF asked[j] THEN "cancelled" ELSE how]
         /\ state' \in [Jobs -> {"none", "open"} \cup Contract!Endings]
         /\ asked' \in [Jobs -> BOOLEAN] /\ result' \in [Jobs -> BOOLEAN]
<1> DEFINE to == IF asked[j] THEN "cancelled" ELSE how
           ends == [k \in {j} |-> to]
<1>1. /\ state \in [Jobs -> {"none", "open"} \cup Contract!Endings]
      /\ asked \in [Jobs -> BOOLEAN] /\ result \in [Jobs -> BOOLEAN]
  BY DEF TypeOK
<1>2. DOMAIN ends = {j} /\ ends[j] = to
  OBVIOUS
<1>3. to \in Contract!Endings
  BY DEF Contract!Endings
<1>4. Contract!End(ends)
  BY DEF Ends
<1> HIDE DEF ends, to
<1>5. /\ state[j] = "open"
      /\ state' = [k \in Jobs |-> IF k \in {j} THEN ends[k] ELSE state[k]]
      /\ result' = [k \in Jobs |-> IF k \in {j} THEN ends[k] = "succeeded" ELSE result[k]]
      /\ asked' = asked
  BY <1>2, <1>4 DEF Contract!End
<1>6. state' = [state EXCEPT ![j] = to]
  BY <1>1, <1>2, <1>5
<1>7. state' \in [Jobs -> {"none", "open"} \cup Contract!Endings]
  BY <1>1, <1>3, <1>6
<1>8. result' \in [Jobs -> BOOLEAN]
  BY <1>1, <1>5
<1> QED
  BY <1>1, <1>5, <1>6, <1>7, <1>8 DEF to

LEMMA InitInv == Init => Inv
<1> SUFFICES ASSUME Init PROVE Inv
  OBVIOUS
<1>1. 0 \in Revisions /\ 0 \in 0 .. MaxQuiet
  BY PlanningBounds DEF Revisions
<1>2. TypeOK
  BY <1>1 DEF Init, TypeOK, Contract!Init, Attempts, Idle, Agendas
<1>3. AttemptsOK
  BY DEF Init, AttemptsOK, AttemptOK, Idle
<1>4. \A d \in Days : Len(history[d]) = 0
  BY DEF Init
<1>5. NoneAhead /\ AgendaIsOfItsRevision
  BY <1>4 DEF NoneAhead, AgendaIsOfItsRevision
<1>6. \A j \in Jobs : state[j] = "none"
  BY DEF Init, Contract!Init
<1>7. OneHolder
  BY <1>6 DEF OneHolder
<1>8. VersionsFollowRevisions
  <2>1. \A d \in Days : \A i \in 1 .. Len(history[d]) : FALSE
    BY <1>4
  <2>2. \A d \in Days, r \in Revisions : ~HasVersion(d, r)
    BY <2>1 DEF HasVersion
  <2>3. \A d \in Days, r \in Revisions : ~HasResult(d, r)
    BY <1>6 DEF HasResult
  <2> QED
    BY <2>1, <2>2, <2>3 DEF VersionsFollowRevisions
<1> QED
  BY <1>2, <1>3, <1>5, <1>7, <1>8 DEF Inv

-----------------------------------------------------------------------------
\* Steps that leave the histories, the successes and the open jobs alone, but
\* for jobs that end without a result or are accepted under a free key.
LEMMA AttemptOKLater ==
  ASSUME NEW a \in Attempts, NEW r \in Revisions, NEW s \in Revisions, r <= s, AttemptOK(a, r)
  PROVE  AttemptOK(a, s)
<1>1. a.saw \in Nat /\ a.readAt \in Nat /\ r \in Nat /\ s \in Nat
  BY PlanningBounds DEF Attempts, Revisions
<1> QED
  BY <1>1 DEF AttemptOK

\* No step gives a job the key of one that is open or has succeeded, and jobs do
\* not come back.
LEMMA OneHolderStays ==
  ASSUME OneHolder,
         \A j \in Jobs : state'[j] \in {"open", "succeeded"} => state[j] \in {"open", "succeeded"}
  PROVE  OneHolder'
BY DEF OneHolder, DedupeKey

LEMMA OneHolderAccepts ==
  ASSUME OneHolder, TypeOK, NEW k \in Jobs, Contract!Accept(k)
  PROVE  OneHolder'
<1>1. /\ \A j \in Jobs : DedupeKey[j] = DedupeKey[k] => state[j] \notin {"open", "succeeded"}
      /\ state' = [state EXCEPT ![k] = "open"]
      /\ state \in [Jobs -> {"none", "open"} \cup Contract!Endings]
  BY DEF Contract!Accept, TypeOK
<1>2. \A j \in Jobs : j # k => state'[j] = state[j]
  BY <1>1
<1>3. SUFFICES ASSUME NEW i \in Jobs, NEW j \in Jobs, i # j, DedupeKey[i] = DedupeKey[j],
                      state'[i] \in {"open", "succeeded"}, state'[j] \in {"open", "succeeded"}
               PROVE  FALSE
  BY DEF OneHolder, DedupeKey
<1>4. CASE i = k
  BY <1>1, <1>2, <1>3, <1>4
<1>5. CASE j = k
  BY <1>1, <1>2, <1>3, <1>5
<1>6. CASE i # k /\ j # k
  BY <1>2, <1>3, <1>6 DEF OneHolder
<1> QED
  BY <1>4, <1>5, <1>6

\* A step that writes no agenda and lets no job succeed keeps the versions.
LEMMA VersionsStay ==
  ASSUME VersionsFollowRevisions, history' = history,
         \A j \in Jobs : state'[j] = "succeeded" <=> state[j] = "succeeded"
  PROVE  VersionsFollowRevisions'
<1>1. ASSUME NEW d \in Days, NEW r \in Revisions
      PROVE  HasResult(d, r)' <=> HasResult(d, r)
  BY DEF HasResult
<1>2. ASSUME NEW d \in Days, NEW r \in Revisions
      PROVE  HasVersion(d, r)' <=> HasVersion(d, r)
  BY DEF HasVersion
<1> QED
  BY <1>1, <1>2 DEF VersionsFollowRevisions

-----------------------------------------------------------------------------
\* The steps but for a commit that succeeds write no agenda, and what they do to
\* the jobs keeps the keys apart.
Quietly ==
  /\ history' = history
  /\ OneHolder'
  /\ \A j \in Jobs : state'[j] = "succeeded" <=> state[j] = "succeeded"

LEMMA QuietStepKeepsInv ==
  ASSUME Inv, Quietly, TypeOK', AttemptsOK', revision <= revision'
  PROVE  Inv'
<1>1. VersionsFollowRevisions'
  BY VersionsStay DEF Quietly, Inv
<1>2. AgendaIsOfItsRevision'
  BY DEF Quietly, Inv, AgendaIsOfItsRevision
<1>3. NoneAhead'
  <2>1. ASSUME NEW d \in Days, NEW i \in 1 .. Len(history[d])
        PROVE  history[d][i].basis <= revision'
    <3>1. history[d] \in Seq(Agendas) /\ revision \in Nat /\ revision' \in Nat
      BY PlanningBounds DEF Inv, TypeOK, Revisions
    <3>2. history[d][i] \in Agendas
      BY <2>1, <3>1
    <3>3. history[d][i].basis \in Nat
      BY <3>2, PlanningBounds DEF Agendas, Revisions
    <3>4. history[d][i].basis <= revision
      BY <2>1 DEF Inv, NoneAhead
    <3> QED
      BY <3>1, <3>3, <3>4
  <2> QED
    BY <2>1 DEF NoneAhead, Quietly
<1> QED
  BY <1>1, <1>2, <1>3 DEF Inv, Quietly

LEMMA JobsUnchangedQuietly ==
  ASSUME OneHolder, UNCHANGED <<state, history>>
  PROVE  Quietly
BY OneHolderStays DEF Quietly

\* A job that ends without succeeding.
LEMMA EndingQuietly ==
  ASSUME TypeOK, OneHolder, history' = history, NEW j \in Jobs,
         NEW how \in {"failed", "stale", "computed"}, how = "computed" => asked[j], Ends(j, how)
  PROVE  Quietly
<1>1. state[j] = "open" /\ state' = [state EXCEPT ![j] = IF asked[j] THEN "cancelled" ELSE how]
  BY EndsFacts
<1>2. state \in [Jobs -> {"none", "open"} \cup Contract!Endings]
  BY DEF TypeOK
<1>3. state'[j] \notin {"open", "succeeded"} /\ (\A k \in Jobs : k # j => state'[k] = state[k])
  BY <1>1, <1>2
<1>4. OneHolder'
  BY <1>3, OneHolderStays
<1> QED
  BY <1>1, <1>3, <1>4 DEF Quietly

\* The attempts stay as they are, or one of them changes.
LEMMA AttemptsStay ==
  ASSUME Inv, revision' \in Revisions, revision <= revision', attempt' = attempt
  PROVE  AttemptsOK'
<1>1. \A w \in Workers : AttemptOK(attempt[w], revision')
  BY AttemptOKLater DEF Inv, TypeOK, AttemptsOK
<1> QED
  BY <1>1 DEF AttemptsOK

LEMMA OneAttemptChanges ==
  ASSUME Inv, revision' = revision, NEW w \in Workers, NEW a \in Attempts, AttemptOK(a, revision),
         attempt' = [attempt EXCEPT ![w] = a]
  PROVE  AttemptsOK' /\ attempt' \in [Workers -> Attempts]
<1>1. attempt \in [Workers -> Attempts]
  BY DEF Inv, TypeOK
<1>2. \A v \in Workers : AttemptOK(attempt'[v], revision)
  BY <1>1 DEF Inv, AttemptsOK
<1> QED
  BY <1>1, <1>2 DEF AttemptsOK

LEMMA IdleIsOK == Idle \in Attempts /\ AttemptOK(Idle, revision)
BY PlanningBounds DEF Idle, Attempts, Revisions, AttemptOK

-----------------------------------------------------------------------------
LEMMA UserStepKeepsInv ==
  ASSUME Inv,
         \/ ChangePlanning \/ ChangeGoal
         \/ \E d \in Days : Ensure(d)
         \/ \E j \in Jobs : Cancel(j) \/ GivesUp(j)
  PROVE  Inv'
<1>1. TypeOK /\ OneHolder /\ revision \in Nat /\ MaxRevision \in Nat /\ quiet \in Nat
  BY PlanningBounds DEF Inv, TypeOK, Revisions
<1>2. CASE ChangePlanning
  <2>1. revision' \in Revisions /\ revision <= revision'
    BY <1>1, <1>2 DEF ChangePlanning, Revisions
  <2>2. TypeOK'
    BY <1>1, <1>2, <2>1 DEF ChangePlanning, TypeOK, jobs
  <2>3. AttemptsOK'
    BY <1>2, <2>1, AttemptsStay DEF ChangePlanning
  <2> QED
    BY <1>1, <1>2, <2>1, <2>2, <2>3, JobsUnchangedQuietly, QuietStepKeepsInv DEF ChangePlanning, jobs
<1>3. CASE ChangeGoal
  <2>1. quiet' \in 0 .. MaxQuiet
    BY <1>1, <1>3, PlanningBounds DEF ChangeGoal
  <2>2. TypeOK'
    BY <1>1, <1>3, <2>1 DEF ChangeGoal, TypeOK, jobs
  <2>3. AttemptsOK'
    BY <1>1, <1>3, AttemptsStay DEF ChangeGoal, TypeOK
  <2> QED
    BY <1>1, <1>3, <2>2, <2>3, JobsUnchangedQuietly, QuietStepKeepsInv DEF ChangeGoal, jobs
<1>4. ASSUME NEW d \in Days, Ensure(d) PROVE Inv'
  <2>1. PICK j \in Jobs : Contract!Accept(j)
    BY <1>4 DEF Ensure
  <2>2. state[j] = "none" /\ state' = [state EXCEPT ![j] = "open"] /\ UNCHANGED <<asked, result>>
    BY <2>1 DEF Contract!Accept
  <2>3. state' \in [Jobs -> {"none", "open"} \cup Contract!Endings]
    BY <1>1, <2>2 DEF TypeOK
  <2>4. TypeOK'
    BY <1>1, <1>4, <2>2, <2>3 DEF Ensure, TypeOK
  <2>5. AttemptsOK'
    BY <1>1, <1>4, AttemptsStay DEF Ensure, TypeOK
  <2>6. \A k \in Jobs : state'[k] = "succeeded" <=> state[k] = "succeeded"
    BY <1>1, <2>2 DEF TypeOK
  <2>7. Quietly
    BY <1>1, <1>4, <2>1, <2>6, OneHolderAccepts DEF Ensure, Quietly
  <2> QED
    BY <1>1, <1>4, <2>4, <2>5, <2>7, QuietStepKeepsInv DEF Ensure
<1>5. ASSUME NEW j \in Jobs, Cancel(j) PROVE Inv'
  <2>1. AttemptsOK'
    BY <1>1, <1>5, AttemptsStay DEF Cancel, TypeOK
  <2>2. CASE Contract!Ask(j)
    <3>1. asked' \in [Jobs -> BOOLEAN] /\ UNCHANGED <<state, result>>
      BY <1>1, <2>2 DEF Contract!Ask, TypeOK
    <3>2. TypeOK'
      BY <1>1, <1>5, <3>1 DEF Cancel, TypeOK
    <3> QED
      BY <1>1, <1>5, <2>1, <3>1, <3>2, JobsUnchangedQuietly, QuietStepKeepsInv DEF Cancel
  <2>3. CASE Contract!CancelAtOnce(j)
    <3>1. /\ state[j] = "open" /\ state' = [state EXCEPT ![j] = "cancelled"]
          /\ asked' = [asked EXCEPT ![j] = TRUE] /\ result' = result
      BY <2>3 DEF Contract!CancelAtOnce
    <3>2. state' \in [Jobs -> {"none", "open"} \cup Contract!Endings] /\ asked' \in [Jobs -> BOOLEAN]
      BY <1>1, <3>1 DEF TypeOK, Contract!Endings
    <3>3. TypeOK'
      BY <1>1, <1>5, <3>1, <3>2 DEF Cancel, TypeOK
    <3>4. /\ \A k \in Jobs : state'[k] = "succeeded" <=> state[k] = "succeeded"
          /\ \A k \in Jobs : state'[k] \in {"open", "succeeded"} => state[k] \in {"open", "succeeded"}
      BY <1>1, <3>1 DEF TypeOK
    <3>5. Quietly
      BY <1>1, <1>5, <3>4, OneHolderStays DEF Cancel, Quietly
    <3> QED
      BY <1>1, <1>5, <2>1, <3>3, <3>5, QuietStepKeepsInv DEF Cancel
  <2> QED
    BY <1>5, <2>2, <2>3 DEF Cancel
<1>6. ASSUME NEW j \in Jobs, GivesUp(j) PROVE Inv'
  <2>1. Ends(j, "failed") /\ UNCHANGED <<revision, quiet, history, attempt>>
    BY <1>6 DEF GivesUp
  <2>2. TypeOK'
    BY <1>1, <2>1, EndsFacts DEF TypeOK
  <2>3. AttemptsOK'
    BY <1>1, <2>1, AttemptsStay DEF TypeOK
  <2>4. Quietly
    BY <1>1, <2>1, EndingQuietly
  <2> QED
    BY <1>1, <2>1, <2>2, <2>3, <2>4, QuietStepKeepsInv
<1> QED
  BY <1>2, <1>3, <1>4, <1>5, <1>6

-----------------------------------------------------------------------------
\* A step of a worker that ends no job and writes no agenda.
LEMMA AttemptStepKeepsInv ==
  ASSUME Inv, NEW w \in Workers, NEW a \in Attempts, AttemptOK(a, revision),
         attempt' = [attempt EXCEPT ![w] = a],
         UNCHANGED <<state, asked, result, revision, quiet, history>>
  PROVE  Inv'
<1>1. AttemptsOK' /\ attempt' \in [Workers -> Attempts]
  BY OneAttemptChanges
<1>2. TypeOK'
  BY <1>1 DEF Inv, TypeOK
<1>3. Quietly
  BY JobsUnchangedQuietly DEF Inv
<1>4. revision <= revision'
  BY PlanningBounds DEF Inv, TypeOK, Revisions
<1> QED
  BY <1>1, <1>2, <1>3, <1>4, QuietStepKeepsInv

LEMMA WorkingKeepsInv ==
  ASSUME Inv, NEW w \in Workers,
         \/ AttemptEnds(w) \/ ComesTooLate(w)
         \/ \E j \in Jobs : ReadRevision(w, j)
         \/ ReadData(w) \/ Compute(w)
  PROVE  Inv'
<1>1. /\ attempt[w] \in Attempts /\ AttemptOK(attempt[w], revision)
      /\ revision \in Revisions /\ revision \in Nat /\ quiet \in 0 .. MaxQuiet
  BY PlanningBounds DEF Inv, TypeOK, AttemptsOK, Revisions
<1>2. CASE AttemptEnds(w) \/ ComesTooLate(w)
  BY <1>2, IdleIsOK, AttemptStepKeepsInv DEF AttemptEnds, ComesTooLate, Finish, jobs
<1>3. ASSUME NEW j \in Jobs, ReadRevision(w, j) PROVE Inv'
  <2> DEFINE a == [Idle EXCEPT !.phase = "begun", !.job = j, !.saw = revision]
  <2>1. Idle \in Attempts
    BY IdleIsOK
  <2>2. attempt' = [attempt EXCEPT ![w] = a]
    BY <1>3 DEF ReadRevision
  <2>3. a \in Attempts
    BY <1>1, <2>1 DEF Attempts
  <2>4. a.phase = "begun" /\ a.job = j /\ a.saw = revision
    BY <2>1 DEF Attempts
  <2> HIDE DEF a
  <2>5. AttemptOK(a, revision)
    BY <1>1, <2>4 DEF AttemptOK
  <2> QED
    BY <1>3, <2>2, <2>3, <2>5, AttemptStepKeepsInv DEF ReadRevision, jobs
<1>4. CASE ReadData(w)
  <2> DEFINE p == IF SnapshotRaises(Day(attempt[w].job)) THEN "failed" ELSE "read"
             a == [attempt[w] EXCEPT !.phase = p, !.readAt = revision, !.quietAt = quiet]
  <2>1. p \in {"failed", "read"}
    OBVIOUS
  <2>2. attempt' = [attempt EXCEPT ![w] = a] /\ attempt[w].phase = "begun"
    BY <1>1, <1>4 DEF ReadData, Inv, TypeOK, Attempts
  <2> HIDE DEF p
  <2>3. a \in Attempts
    BY <1>1, <2>1 DEF Attempts
  <2>4. AttemptOK(a, revision)
    BY <1>1, <2>1, <2>2 DEF AttemptOK, Attempts
  <2> HIDE DEF a
  <2> QED
    BY <1>4, <2>2, <2>3, <2>4, AttemptStepKeepsInv DEF ReadData, jobs
<1>5. CASE Compute(w)
  <2> DEFINE p == IF attempt[w].saw = InputRevision(attempt[w].job) THEN "computed" ELSE "stale"
             a == [attempt[w] EXCEPT !.phase = p]
  <2>1. p \in {"computed", "stale"} /\ (p = "computed" => attempt[w].saw = InputRevision(attempt[w].job))
    OBVIOUS
  <2>2. attempt' = [attempt EXCEPT ![w] = a] /\ attempt[w].phase = "read"
    BY <1>1, <1>5 DEF Compute, Inv, TypeOK, Attempts
  <2> HIDE DEF p
  <2>3. a \in Attempts
    BY <1>1, <2>1 DEF Attempts
  <2>4. AttemptOK(a, revision)
    BY <1>1, <2>1, <2>2 DEF AttemptOK, Attempts
  <2> HIDE DEF a
  <2> QED
    BY <1>5, <2>2, <2>3, <2>4, AttemptStepKeepsInv DEF Compute, jobs
<1> QED
  BY <1>2, <1>3, <1>4, <1>5

LEMMA SettleKeepsInv ==
  ASSUME Inv, NEW w \in Workers, Settle(w)
  PROVE  Inv'
<1> DEFINE j == attempt[w].job
           how == attempt[w].phase
<1>1. /\ how \in {"stale", "failed", "computed"} /\ (how = "computed" => asked[j])
      /\ Ends(j, how) /\ attempt' = [attempt EXCEPT ![w] = Idle]
      /\ UNCHANGED <<revision, quiet, history>>
  BY DEF Settle, Finish
<1>2. j \in Jobs /\ TypeOK /\ OneHolder
  BY <1>1 DEF Inv, AttemptsOK, AttemptOK
<1> HIDE DEF j, how
<1>3. AttemptsOK' /\ attempt' \in [Workers -> Attempts]
  BY <1>1, IdleIsOK, OneAttemptChanges
<1>4. /\ state' \in [Jobs -> {"none", "open"} \cup Contract!Endings]
      /\ asked' \in [Jobs -> BOOLEAN] /\ result' \in [Jobs -> BOOLEAN]
  BY <1>1, <1>2, EndsFacts
<1>5. TypeOK'
  BY <1>1, <1>2, <1>3, <1>4 DEF TypeOK
<1>6. Quietly
  BY <1>1, <1>2, EndingQuietly
<1>7. revision <= revision'
  BY <1>1, <1>2, PlanningBounds DEF TypeOK, Revisions
<1> QED
  BY <1>3, <1>5, <1>6, <1>7, QuietStepKeepsInv

\* The commit: no agenda of the day has the revision yet, for its job is open, and
\* none is ahead of it, so the new one is the newest.
LEMMA CommitKeepsInv ==
  ASSUME Inv, NEW w \in Workers, Commit(w)
  PROVE  Inv'
<1> DEFINE j == attempt[w].job
           a == attempt[w]
<1>1. /\ a \in Attempts /\ AttemptOK(a, revision) /\ a.phase = "computed" /\ j \in Jobs
      /\ revision \in Revisions /\ revision \in Nat /\ TypeOK
      /\ a.readAt \in Revisions /\ a.quietAt \in 0 .. MaxQuiet /\ j = a.job
  BY PlanningBounds DEF Inv, TypeOK, AttemptsOK, AttemptOK, Commit, Revisions, Attempts
<1>2. CASE attempt' = [attempt EXCEPT ![w].phase = "stale"] /\ UNCHANGED <<jobs, history>>
  <2> DEFINE b == [a EXCEPT !.phase = "stale"]
  <2>1. b \in Attempts /\ AttemptOK(b, revision)
    BY <1>1 DEF Attempts, AttemptOK
  <2>2. attempt' = [attempt EXCEPT ![w] = b]
    BY <1>1, <1>2 DEF TypeOK, Attempts
  <2> HIDE DEF b
  <2> QED
    BY <1>2, <2>1, <2>2, AttemptStepKeepsInv DEF Commit, jobs
<1>3. ASSUME state[j] = "open", ~asked[j], InputIsCurrent(j), Ends(j, "succeeded"), Finish(w),
             NEW items \in BOOLEAN, Persist(w, items)
      PROVE  Inv'
  <2> DEFINE d == Day(j)
             h == history[d]
             n == Len(h)
             e == [basis |-> InputRevision(j), readAt |-> a.readAt, quietAt |-> a.quietAt, items |-> items]
  <2>1. revision = InputRevision(j) /\ UNCHANGED <<revision, quiet>>
    BY <1>3 DEF InputIsCurrent, Commit
  <2>2. a.readAt = revision
    BY <1>1, <2>1, PlanningBounds DEF AttemptOK, Attempts, Revisions
  <2>3. d \in Days /\ h \in Seq(Agendas) /\ n \in Nat
    BY <1>1, JobParts DEF TypeOK
  <2>4. e \in Agendas /\ e.basis = revision /\ e.readAt = revision
    BY <1>1, <2>1, <2>2 DEF Agendas
  <2>5. history' = [history EXCEPT ![d] = Append(h, e)]
    BY <1>3 DEF Persist
  <2> HIDE DEF e
  <2>6. /\ history'[d] = Append(h, e) /\ Append(h, e) \in Seq(Agendas)
        /\ \A c \in Days : c # d => history'[c] = history[c]
        /\ history' \in [Days -> Seq(Agendas)]
    BY <1>1, <2>3, <2>4, <2>5 DEF TypeOK
  <2>7. /\ Len(history'[d]) = n + 1 /\ history'[d][n + 1] = e
        /\ \A i \in 1 .. n : history'[d][i] = history[d][i]
    BY <2>3, <2>4, <2>6
  <2>8. /\ state' = [state EXCEPT ![j] = "succeeded"]
        /\ state' \in [Jobs -> {"none", "open"} \cup Contract!Endings]
        /\ asked' \in [Jobs -> BOOLEAN] /\ result' \in [Jobs -> BOOLEAN]
    BY <1>1, <1>3, EndsFacts
  <2>9. AttemptsOK' /\ attempt' \in [Workers -> Attempts]
    BY <1>3, <2>1, IdleIsOK, OneAttemptChanges DEF Finish
  <2>10. TypeOK'
    BY <1>1, <2>1, <2>6, <2>8, <2>9 DEF TypeOK
  <2>11. /\ state'[j] = "succeeded"
         /\ \A k \in Jobs : k # j => state'[k] = state[k]
    BY <1>1, <2>8 DEF TypeOK
  <2>12. OneHolder'
    BY <1>3, <2>11, OneHolderStays DEF Inv
  <2>13. ASSUME NEW i \in 1 .. n
         PROVE  h[i].basis \in Nat /\ h[i].basis < revision
    <3>1. h[i] \in Agendas
      BY <2>3, <2>13
    <3>2. h[i].basis \in Revisions /\ h[i].basis \in Nat /\ h[i].basis <= revision
      BY <2>3, <2>13, <3>1, PlanningBounds DEF Agendas, Revisions, Inv, NoneAhead
    <3>3. ASSUME h[i].basis = revision PROVE FALSE
      <4>1. HasVersion(d, revision)
        BY <2>13, <3>3 DEF HasVersion
      <4>2. PICK k \in Jobs : Day(k) = d /\ InputRevision(k) = revision /\ state[k] = "succeeded"
        BY <1>1, <2>3, <4>1 DEF Inv, VersionsFollowRevisions, HasResult
      <4>3. DedupeKey[k] = DedupeKey[j] /\ k # j
        BY <1>1, <1>3, <2>1, <4>2, KeyOf
      <4> QED
        BY <1>1, <1>3, <4>2, <4>3 DEF Inv, OneHolder
    <3> QED
      BY <1>1, <3>2, <3>3
  <2>14. NoneAhead'
    <3>1. ASSUME NEW c \in Days, NEW i \in 1 .. Len(history'[c])
          PROVE  history'[c][i].basis <= revision
      <4>1. CASE c # d
        BY <2>6, <3>1, <4>1 DEF Inv, NoneAhead
      <4>2. CASE c = d /\ i = n + 1
        BY <1>1, <2>4, <2>7, <4>2
      <4>3. CASE c = d /\ i # n + 1
        <5>1. i \in 1 .. n
          BY <2>3, <2>7, <3>1, <4>3
        <5> QED
          BY <1>1, <2>7, <2>13, <4>3, <5>1
      <4> QED
        BY <4>1, <4>2, <4>3
    <3> QED
      BY <2>1, <3>1 DEF NoneAhead
  <2>15. AgendaIsOfItsRevision'
    <3>1. ASSUME NEW c \in Days, NEW i \in 1 .. Len(history'[c])
          PROVE  history'[c][i].basis = history'[c][i].readAt
      <4>1. CASE c # d
        BY <2>6, <3>1, <4>1 DEF Inv, AgendaIsOfItsRevision
      <4>2. CASE c = d /\ i = n + 1
        BY <2>4, <2>7, <4>2
      <4>3. CASE c = d /\ i # n + 1
        <5>1. i \in 1 .. n
          BY <2>3, <2>7, <3>1, <4>3
        <5> QED
          BY <2>3, <2>7, <4>3, <5>1 DEF Inv, AgendaIsOfItsRevision
      <4> QED
        BY <4>1, <4>2, <4>3
    <3> QED
      BY <3>1 DEF AgendaIsOfItsRevision
  <2>16. ASSUME NEW c \in Days, NEW i \in 1 .. Len(history'[c]), NEW k \in 1 .. Len(history'[c]), i < k
         PROVE  history'[c][i].basis < history'[c][k].basis
    <3>1. CASE c # d
      BY <2>6, <2>16, <3>1 DEF Inv, VersionsFollowRevisions
    <3>2. CASE c = d /\ k = n + 1
      <4>1. i \in 1 .. n
        BY <2>3, <2>7, <2>16, <3>2
      <4> QED
        BY <2>4, <2>7, <2>13, <3>2, <4>1
    <3>3. CASE c = d /\ k # n + 1
      <4>1. i \in 1 .. n /\ k \in 1 .. n
        BY <2>3, <2>7, <2>16, <3>3
      <4>2. h[i].basis < h[k].basis
        BY <2>3, <2>16, <4>1 DEF Inv, VersionsFollowRevisions
      <4> QED
        BY <2>7, <3>3, <4>1, <4>2
    <3> QED
      BY <3>1, <3>2, <3>3
  <2>17. ASSUME NEW c \in Days, NEW r \in Revisions
         PROVE  HasVersion(c, r)' <=> HasResult(c, r)'
    <3>1. HasVersion(c, r) <=> HasResult(c, r)
      BY <2>17 DEF Inv, VersionsFollowRevisions
    <3>2. HasResult(c, r)' <=> HasResult(c, r) \/ (c = d /\ r = revision)
      BY <1>1, <1>3, <2>1, <2>11 DEF HasResult
    <3>3. HasVersion(c, r)' <=> HasVersion(c, r) \/ (c = d /\ r = revision)
      <4>1. CASE c # d
        BY <2>6, <4>1 DEF HasVersion
      <4>2. CASE c = d
        <5>1. 1 .. Len(history'[d]) = 1 .. n \cup {n + 1}
          BY <2>3, <2>7
        <5> QED
          BY <2>4, <2>7, <4>2, <5>1 DEF HasVersion
      <4> QED
        BY <4>1, <4>2
    <3> QED
      BY <3>1, <3>2, <3>3
  <2>18. VersionsFollowRevisions'
    BY <2>16, <2>17 DEF VersionsFollowRevisions
  <2> QED
    BY <2>9, <2>10, <2>12, <2>14, <2>15, <2>18 DEF Inv
<1> QED
  BY <1>2, <1>3 DEF Commit

-----------------------------------------------------------------------------
LEMMA StepKeepsInv == Inv /\ [Next]_vars => Inv'
<1> SUFFICES ASSUME Inv, [Next]_vars PROVE Inv'
  OBVIOUS
<1>1. CASE UNCHANGED vars
  BY <1>1 DEF vars, Inv, TypeOK, AttemptsOK, NoneAhead, OneHolder, AgendaIsOfItsRevision,
     VersionsFollowRevisions, HasVersion, HasResult
<1>2. ASSUME NEW w \in Workers, WorkerStep(w) PROVE Inv'
  BY <1>2, WorkingKeepsInv, SettleKeepsInv, CommitKeepsInv DEF WorkerStep
<1>3. ASSUME NEW w \in Workers, AttemptEnds(w) \/ \E j \in Jobs : ReadRevision(w, j) PROVE Inv'
  BY <1>3, WorkingKeepsInv
<1> QED
  BY <1>1, <1>2, <1>3, UserStepKeepsInv DEF Next

\* What every reachable state is like: beside the properties below, no attempt has
\* read anything that is not there yet, and keys of jobs are held once.
THEOREM PlanningInvariance == Spec => []Inv
<1> QED
  BY InitInv, StepKeepsInv, PTL DEF Spec

\* Agendas, jobs and attempts keep their types.
THEOREM PlanningTypes == Spec => []TypeOK
<1>1. Inv => TypeOK
  BY DEF Inv
<1> QED
  BY <1>1, PlanningInvariance, PTL

\* An agenda is computed from the data of the very revision it names, though
\* build_snapshot reads them in two transactions and a third commits it.
THEOREM AgendaOfRevision == Spec => []AgendaIsOfItsRevision
<1>1. Inv => AgendaIsOfItsRevision
  BY DEF Inv
<1> QED
  BY <1>1, PlanningInvariance, PTL

\* Revisions get their agendas in order, each at most once, by a job that
\* succeeds.
THEOREM VersionOrder == Spec => []VersionsFollowRevisions
<1>1. Inv => VersionsFollowRevisions
  BY DEF Inv
<1> QED
  BY <1>1, PlanningInvariance, PTL

-----------------------------------------------------------------------------
\* What has been read, by an attempt or for an agenda: revision r together with
\* q changes to goals.
Reading(r, q) ==
  \/ \E d \in Days : \E i \in 1 .. Len(history[d]) :
       history[d][i].readAt = r /\ history[d][i].quietAt = q
  \/ \E w \in Workers : /\ attempt[w].phase \in {"read", "computed", "stale", "failed"}
                        /\ attempt[w].readAt = r /\ attempt[w].quietAt = q

Changes == 0 .. MaxQuiet

\* Nothing was read before it was there, and what was read at a later revision
\* includes what was read at an earlier one.
ReadingsOrdered ==
  /\ \A r \in Revisions, q \in Changes : Reading(r, q) => r <= revision /\ q <= quiet
  /\ \A r, s \in Revisions, p, q \in Changes : Reading(r, p) /\ Reading(s, q) /\ r < s => p <= q

LEMMA InitReadings == Init => ReadingsOrdered
<1> SUFFICES ASSUME Init PROVE ReadingsOrdered
  OBVIOUS
<1>1. (\A d \in Days : \A i \in 1 .. Len(history[d]) : FALSE) /\ \A w \in Workers : attempt[w].phase = "idle"
  BY DEF Init, Idle
<1>2. \A r \in Revisions, q \in Changes : ~Reading(r, q)
  BY <1>1 DEF Reading
<1> QED
  BY <1>2 DEF ReadingsOrdered

\* The only new reading a step can make is of what is there.
NoOtherReading ==
  \A r \in Revisions, q \in Changes : Reading(r, q)' => Reading(r, q) \/ (r = revision /\ q = quiet)

LEMMA ReadingsStayOrdered ==
  ASSUME TypeOK, ReadingsOrdered, NoOtherReading,
         revision' \in Nat, quiet' \in Nat, revision <= revision', quiet <= quiet'
  PROVE  ReadingsOrdered'
<1>1. revision \in Revisions /\ revision \in Nat /\ quiet \in Nat /\ Revisions \subseteq Nat /\ Changes \subseteq Nat
  BY PlanningBounds DEF TypeOK, Revisions, Changes
<1>2. ASSUME NEW r \in Revisions, NEW q \in Changes, Reading(r, q)'
      PROVE  r <= revision /\ q <= quiet
  BY <1>1, <1>2 DEF NoOtherReading, ReadingsOrdered
<1>3. ASSUME NEW r \in Revisions, NEW s \in Revisions, NEW p \in Changes, NEW q \in Changes,
             Reading(r, p)', Reading(s, q)', r < s
      PROVE  p <= q
  <2>1. p <= quiet /\ r <= revision /\ s <= revision
    BY <1>2, <1>3
  <2>2. Reading(r, p) \/ r = revision
    BY <1>3 DEF NoOtherReading
  <2>3. Reading(s, q) \/ q = quiet
    BY <1>3 DEF NoOtherReading
  <2>4. Reading(r, p)
    BY <1>1, <1>3, <2>1, <2>2
  <2> QED
    BY <1>3, <2>1, <2>3, <2>4 DEF ReadingsOrdered
<1>4. ASSUME NEW r \in Revisions, NEW q \in Changes, Reading(r, q)'
      PROVE  r <= revision' /\ q <= quiet'
  BY <1>1, <1>2, <1>4
<1> QED
  BY <1>3, <1>4 DEF ReadingsOrdered, Revisions, Changes

LEMMA SameReadings ==
  ASSUME UNCHANGED <<history, attempt>>
  PROVE  NoOtherReading
BY DEF NoOtherReading, Reading, Revisions, Changes

\* One attempt goes on, with what it has read or with what is there.
LEMMA AttemptReads ==
  ASSUME TypeOK, history' = history, NEW w \in Workers, NEW a, attempt' = [attempt EXCEPT ![w] = a],
         \/ a.phase \in {"idle", "begun"}
         \/ a.readAt = revision /\ a.quietAt = quiet
         \/ /\ attempt[w].phase \in {"read", "computed", "stale", "failed"}
            /\ a.readAt = attempt[w].readAt /\ a.quietAt = attempt[w].quietAt
  PROVE  NoOtherReading
<1>1. attempt'[w] = a /\ \A v \in Workers : v # w => attempt'[v] = attempt[v]
  BY DEF TypeOK
<1> SUFFICES ASSUME NEW r \in Revisions, NEW q \in Changes, Reading(r, q)'
             PROVE  Reading(r, q) \/ (r = revision /\ q = quiet)
  BY DEF NoOtherReading, Revisions, Changes
<1>2. CASE \E d \in Days : \E i \in 1 .. Len(history[d]) :
             history[d][i].readAt = r /\ history[d][i].quietAt = q
  BY <1>2 DEF Reading
<1>3. ASSUME NEW v \in Workers, attempt'[v].phase \in {"read", "computed", "stale", "failed"},
             attempt'[v].readAt = r, attempt'[v].quietAt = q
      PROVE  Reading(r, q) \/ (r = revision /\ q = quiet)
  <2>1. CASE v # w
    BY <1>1, <1>3, <2>1 DEF Reading
  <2>2. CASE v = w
    BY <1>1, <1>3, <2>2 DEF Reading
  <2> QED
    BY <2>1, <2>2
<1> QED
  BY <1>2, <1>3 DEF Reading

\* A commit: the agenda takes over the reading of its attempt.
LEMMA CommitReads ==
  ASSUME TypeOK, AttemptsOK, NEW w \in Workers, Commit(w)
  PROVE  NoOtherReading
<1> DEFINE a == attempt[w]
<1>1. /\ a \in Attempts /\ a.phase = "computed" /\ a.job \in Jobs
      /\ Day(a.job) \in Days /\ history[Day(a.job)] \in Seq(Agendas)
  BY JobParts DEF TypeOK, AttemptsOK, AttemptOK, Commit
<1>2. CASE attempt' = [attempt EXCEPT ![w].phase = "stale"] /\ UNCHANGED <<jobs, history>>
  <2> DEFINE b == [a EXCEPT !.phase = "stale"]
  <2>1. b.readAt = a.readAt /\ b.quietAt = a.quietAt
    BY <1>1 DEF Attempts
  <2>2. attempt' = [attempt EXCEPT ![w] = b]
    BY <1>1, <1>2 DEF TypeOK, Attempts
  <2> HIDE DEF b
  <2> QED
    BY <1>1, <1>2, <2>1, <2>2, AttemptReads
<1>3. ASSUME Finish(w), NEW items \in BOOLEAN, Persist(w, items)
      PROVE  NoOtherReading
  <2> DEFINE d == Day(a.job)
             h == history[d]
             n == Len(h)
             e == [basis |-> InputRevision(a.job), readAt |-> a.readAt, quietAt |-> a.quietAt, items |-> items]
  <2>1. history' = [history EXCEPT ![d] = Append(h, e)]
    BY <1>3 DEF Persist
  <2>2. e.readAt = a.readAt /\ e.quietAt = a.quietAt
    OBVIOUS
  <2>3. e \in Agendas
    BY <1>1, JobParts DEF Agendas, Attempts
  <2> HIDE DEF e
  <2>4. /\ history'[d] = Append(h, e) /\ n \in Nat
        /\ \A c \in Days : c # d => history'[c] = history[c]
    BY <1>1, <2>1 DEF TypeOK
  <2>5. /\ Len(history'[d]) = n + 1 /\ history'[d][n + 1] = e
        /\ \A i \in 1 .. n : history'[d][i] = history[d][i]
    BY <1>1, <2>3, <2>4
  <2>6. attempt'[w].phase = "idle" /\ \A v \in Workers : v # w => attempt'[v] = attempt[v]
    BY <1>3 DEF Finish, Idle, TypeOK
  <2> SUFFICES ASSUME NEW r \in Revisions, NEW q \in Changes, Reading(r, q)'
               PROVE  Reading(r, q)
    BY DEF NoOtherReading, Revisions, Changes
  <2>7. ASSUME NEW c \in Days, NEW i \in 1 .. Len(history'[c]),
               history'[c][i].readAt = r, history'[c][i].quietAt = q
        PROVE  Reading(r, q)
    <3>1. CASE c # d
      BY <2>4, <2>7, <3>1 DEF Reading
    <3>2. CASE c = d /\ i = n + 1
      BY <1>1, <2>2, <2>5, <2>7, <3>2 DEF Reading
    <3>3. CASE c = d /\ i # n + 1
      <4>1. i \in 1 .. n
        BY <2>4, <2>5, <2>7, <3>3
      <4> QED
        BY <1>1, <2>5, <2>7, <3>3, <4>1 DEF Reading
    <3> QED
      BY <3>1, <3>2, <3>3
  <2>8. ASSUME NEW v \in Workers, attempt'[v].phase \in {"read", "computed", "stale", "failed"},
               attempt'[v].readAt = r, attempt'[v].quietAt = q
        PROVE  Reading(r, q)
    BY <2>6, <2>8 DEF Reading
  <2> QED
    BY <2>7, <2>8 DEF Reading
<1> QED
  BY <1>2, <1>3 DEF Commit

LEMMA StepReads ==
  ASSUME Inv, [Next]_vars
  PROVE  NoOtherReading
<1> TypeOK /\ AttemptsOK
  BY DEF Inv
<1>1. CASE UNCHANGED vars
  BY <1>1, SameReadings DEF vars
<1>2. CASE \/ ChangePlanning \/ ChangeGoal
           \/ \E d \in Days : Ensure(d)
           \/ \E j \in Jobs : Cancel(j) \/ GivesUp(j)
  BY <1>2, SameReadings DEF ChangePlanning, ChangeGoal, Ensure, Cancel, GivesUp
<1>3. ASSUME NEW w \in Workers, AttemptEnds(w) \/ ComesTooLate(w) \/ Settle(w)
      PROVE  NoOtherReading
  <2>1. history' = history /\ attempt' = [attempt EXCEPT ![w] = Idle] /\ Idle.phase = "idle"
    BY <1>3 DEF AttemptEnds, ComesTooLate, Settle, Finish, Idle
  <2> QED
    BY <2>1, AttemptReads
<1>4. ASSUME NEW w \in Workers, NEW j \in Jobs, ReadRevision(w, j)
      PROVE  NoOtherReading
  <2> DEFINE a == [Idle EXCEPT !.phase = "begun", !.job = j, !.saw = revision]
  <2>1. a.phase = "begun"
    BY DEF Idle
  <2>2. history' = history /\ attempt' = [attempt EXCEPT ![w] = a]
    BY <1>4 DEF ReadRevision
  <2> HIDE DEF a
  <2> QED
    BY <2>1, <2>2, AttemptReads
<1>5. ASSUME NEW w \in Workers, ReadData(w)
      PROVE  NoOtherReading
  <2> DEFINE a == [attempt[w] EXCEPT
               !.phase = IF SnapshotRaises(Day(attempt[w].job)) THEN "failed" ELSE "read",
               !.readAt = revision, !.quietAt = quiet]
  <2>1. a.readAt = revision /\ a.quietAt = quiet
    BY DEF TypeOK, Attempts
  <2>2. history' = history /\ attempt' = [attempt EXCEPT ![w] = a]
    BY <1>5 DEF ReadData, TypeOK, Attempts
  <2> HIDE DEF a
  <2> QED
    BY <2>1, <2>2, AttemptReads
<1>6. ASSUME NEW w \in Workers, Compute(w)
      PROVE  NoOtherReading
  <2> DEFINE a == [attempt[w] EXCEPT
               !.phase = IF attempt[w].saw = InputRevision(attempt[w].job) THEN "computed" ELSE "stale"]
  <2>1. a.readAt = attempt[w].readAt /\ a.quietAt = attempt[w].quietAt /\ attempt[w].phase = "read"
    BY <1>6 DEF Compute, TypeOK, Attempts
  <2>2. history' = history /\ attempt' = [attempt EXCEPT ![w] = a]
    BY <1>6 DEF Compute, TypeOK, Attempts
  <2> HIDE DEF a
  <2> QED
    BY <2>1, <2>2, AttemptReads
<1> QED
  BY <1>1, <1>2, <1>3, <1>4, <1>5, <1>6, CommitReads DEF Next, WorkerStep

LEMMA CountersGrow ==
  ASSUME Inv, Inv', [Next]_vars
  PROVE  /\ revision' \in Nat /\ quiet' \in Nat
         /\ revision <= revision' /\ quiet <= quiet'
<1>1. /\ revision \in Nat /\ quiet \in Nat /\ revision' \in Nat /\ quiet' \in Nat
  BY PlanningBounds DEF Inv, TypeOK, Revisions
<1>2. \/ revision' = revision /\ quiet' = quiet
      \/ revision' = revision + 1 /\ quiet' = quiet
      \/ revision' = revision /\ quiet' = quiet + 1
  BY DEF Next, vars, ChangePlanning, ChangeGoal, Ensure, Cancel, GivesUp, AttemptEnds,
     ReadRevision, WorkerStep, ReadData, Compute, Commit, Settle, ComesTooLate
<1> QED
  BY <1>1, <1>2

LEMMA OrderedReadings == Spec => []ReadingsOrdered
<1>1. Inv /\ Inv' /\ [Next]_vars /\ ReadingsOrdered => ReadingsOrdered'
  BY StepReads, CountersGrow, ReadingsStayOrdered DEF Inv
<1> QED
  BY <1>1, InitReadings, PlanningInvariance, PTL DEF Spec

\* A later agenda of a day knows every change to goals that an earlier one knew:
\* it names a later revision, which it was read at.
THEOREM AgendasKnowMore == Spec => []LaterAgendasKnowMore
<1>1. Inv /\ ReadingsOrdered => LaterAgendasKnowMore
  <2> SUFFICES ASSUME Inv, ReadingsOrdered, NEW d \in Days,
                      NEW i \in 1 .. Len(history[d]), NEW k \in 1 .. Len(history[d]), i < k
               PROVE  history[d][i].quietAt <= history[d][k].quietAt
    BY DEF LaterAgendasKnowMore
  <2>1. history[d][i] \in Agendas /\ history[d][k] \in Agendas
    BY DEF Inv, TypeOK
  <2>2. /\ history[d][i].readAt \in Revisions /\ history[d][k].readAt \in Revisions
        /\ history[d][i].quietAt \in Changes /\ history[d][k].quietAt \in Changes
    BY <2>1 DEF Agendas, Changes
  <2>3. history[d][i].readAt < history[d][k].readAt
    BY DEF Inv, AgendaIsOfItsRevision, VersionsFollowRevisions
  <2>4. /\ Reading(history[d][i].readAt, history[d][i].quietAt)
        /\ Reading(history[d][k].readAt, history[d][k].quietAt)
    BY DEF Reading
  <2> QED
    BY <2>2, <2>3, <2>4 DEF ReadingsOrdered
<1> QED
  BY <1>1, PlanningInvariance, OrderedReadings, PTL
=============================================================================
