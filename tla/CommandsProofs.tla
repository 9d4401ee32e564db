--------------------------- MODULE CommandsProofs ---------------------------
(***************************************************************************)
(* Theorems about Idempotency, ModelConfigs and RateLimit, one part each,  *)
(* and about the composition of the modules on commands (MCCommands): each *)
(* of the six behaves there as it does alone.                              *)
(***************************************************************************)
EXTENDS MCCommands, GoalsProofs, LinksProofs, AuthProofs, TLAPS

(***************************************************************************)
(* Idempotency, for any keys, contents, sends and times.                   *)
(***************************************************************************)

\* A send has read the clock before now, and waits no longer than MaxWait.
TimesFit ==
  \A s \in Sends :
    /\ now[s] <= clock
    /\ reply[s] = "waiting" => clock <= now[s] + MaxWait

\* The results of replays, by the hash that the store compares.
ReplayIsOfSameHash ==
  \A s \in Sends : reply[s] = "replayed" =>
    result[s] \in effects /\ KeyOf[result[s]] = KeyOf[s] /\ Hash(result[s]) = Hash(s)

StoreInv ==
  /\ TypeOK /\ TimesFit /\ RecordsMatchEffects /\ ExecutionsAreFarApart /\ ReplayIsOfSameHash

-----------------------------------------------------------------------------
LEMMA TimesAreNumbers ==
  ASSUME TypeOK
  PROVE  /\ clock \in Nat /\ Retention \in Nat /\ MaxWait \in Nat /\ MaxClock \in Nat
         /\ \A s \in Sends : now[s] \in Nat
         /\ \A k \in Keys : record[k] # NoRecord =>
              record[k] \in Records /\ record[k].created \in Nat
  BY TimesAssumption DEF TypeOK, Records

LEMMA AnswerStep ==
  ASSUME TypeOK, NEW s \in Sends, NEW how \in Replies, NEW ref \in Sends \cup {NoSend},
         Answer(s, how, ref)
  PROVE  /\ reply' \in [Sends -> Replies] /\ result' \in [Sends -> Sends \cup {NoSend}]
         /\ reply'[s] = how /\ result'[s] = ref
         /\ \A t \in Sends \ {s} : reply'[t] = reply[t] /\ result'[t] = result[t]
  BY DEF Answer, TypeOK

LEMMA StoreInitInv == Init => StoreInv
  BY TimesAssumption
     DEF Init, StoreInv, TypeOK, TimesFit, RecordsMatchEffects, ExecutionsAreFarApart,
         ReplayIsOfSameHash, Replies

LEMMA SendKeeps ==
  ASSUME StoreInv, NEW s \in Sends, Send(s)
  PROVE  StoreInv'
<1>1. /\ reply[s] = "unsent" /\ now' = [now EXCEPT ![s] = clock]
      /\ UNCHANGED <<clock, record, effects>> /\ now \in [Sends -> 0 .. MaxClock]
      /\ clock \in 0 .. MaxClock
  BY DEF Send, StoreInv, TypeOK
<1>2. /\ reply' \in [Sends -> Replies] /\ result' \in [Sends -> Sends \cup {NoSend}]
      /\ reply'[s] = "waiting"
      /\ \A t \in Sends \ {s} : reply'[t] = reply[t] /\ result'[t] = result[t]
  BY AnswerStep DEF Send, StoreInv, Replies
<1>3. /\ now' \in [Sends -> 0 .. MaxClock] /\ now'[s] = clock
      /\ \A t \in Sends \ {s} : now'[t] = now[t]
  BY <1>1
<1>4. TypeOK'
  BY <1>1, <1>2, <1>3 DEF StoreInv, TypeOK
<1>5. s \notin effects /\ effects \subseteq Sends
  BY <1>1 DEF StoreInv, RecordsMatchEffects, TypeOK
<1>6. TimesFit'
  BY <1>1, <1>2, <1>3, TimesAreNumbers DEF StoreInv, TimesFit
<1>7. RecordsMatchEffects'
  BY <1>1, <1>2, <1>3, <1>5 DEF StoreInv, RecordsMatchEffects, Hash
<1>8. ExecutionsAreFarApart'
  BY <1>1, <1>3, <1>5 DEF StoreInv, ExecutionsAreFarApart
<1>9. ReplayIsOfSameHash'
  BY <1>1, <1>2 DEF StoreInv, ReplayIsOfSameHash, Hash
<1> QED
  BY <1>4, <1>6, <1>7, <1>8, <1>9 DEF StoreInv

\* An answer that writes nothing.
LEMMA AnswerKeeps ==
  ASSUME StoreInv, NEW s \in Sends, Replay(s) \/ Conflict(s) \/ Fail(s)
  PROVE  StoreInv'
<1>1. reply[s] = "waiting" /\ UNCHANGED <<clock, record, now, effects>>
  BY DEF Replay, Conflict, Fail
<1>2. PICK how \in {"replayed", "conflict", "failed"}, ref \in Sends \cup {NoSend} :
        /\ Answer(s, how, ref)
        /\ how = "replayed" =>
             ref \in effects /\ KeyOf[ref] = KeyOf[s] /\ Hash(ref) = Hash(s)
  <2>1. CASE Replay(s)
    <3>1. /\ record[KeyOf[s]] # NoRecord /\ record[KeyOf[s]].hash = Hash(s) /\ KeyOf[s] \in Keys
          /\ Answer(s, "replayed", record[KeyOf[s]].result)
      BY <2>1, FunctionsAssumption DEF Replay, HasLiveRecord
    <3>2. PICK t \in Sends : t = record[KeyOf[s]].result
      BY <3>1, TimesAreNumbers DEF StoreInv, Records
    <3>3. t \in effects /\ KeyOf[t] = KeyOf[s] /\ Hash(t) = Hash(s)
      BY <3>1, <3>2 DEF StoreInv, RecordsMatchEffects
    <3> QED
      BY <3>1, <3>2, <3>3
  <2>2. CASE Conflict(s)
    BY <2>2 DEF Conflict
  <2>3. CASE Fail(s)
    BY <2>3 DEF Fail
  <2> QED
    BY <2>1, <2>2, <2>3
<1>3. /\ reply' \in [Sends -> Replies] /\ result' \in [Sends -> Sends \cup {NoSend}]
      /\ reply'[s] = how /\ result'[s] = ref
      /\ \A t \in Sends \ {s} : reply'[t] = reply[t] /\ result'[t] = result[t]
  BY <1>2, AnswerStep DEF StoreInv, Replies
<1>4. TypeOK' /\ ExecutionsAreFarApart'
  BY <1>1, <1>3 DEF StoreInv, TypeOK, ExecutionsAreFarApart
<1>5. TimesFit'
  BY <1>1, <1>3 DEF StoreInv, TimesFit
<1>6. RecordsMatchEffects'
  BY <1>1, <1>3 DEF StoreInv, RecordsMatchEffects, Hash
<1>7. ReplayIsOfSameHash'
  BY <1>1, <1>2, <1>3 DEF StoreInv, ReplayIsOfSameHash, Hash
<1> QED
  BY <1>4, <1>5, <1>6, <1>7 DEF StoreInv

LEMMA ExecuteKeeps ==
  ASSUME StoreInv, NEW s \in Sends, Execute(s)
  PROVE  StoreInv'
<1> DEFINE k == KeyOf[s]
           new == [hash |-> Hash(s), result |-> s, created |-> now[s]]
<1>1. /\ reply[s] = "waiting" /\ UNCHANGED <<clock, now>> /\ effects' = effects \cup {s}
      /\ ~HasLiveRecord(s) /\ record' = [record EXCEPT ![k] = new]
  BY DEF Execute
<1>2. k \in Keys /\ Hash(s) \in RequestHashes
  BY FunctionsAssumption DEF Hash, RequestHashes
<1>3. new \in Records /\ new # NoRecord
  BY <1>2, RecordsAssumption DEF StoreInv, TypeOK, Records
<1>4. /\ reply' \in [Sends -> Replies] /\ result' \in [Sends -> Sends \cup {NoSend}]
      /\ reply'[s] = "executed"
      /\ \A t \in Sends \ {s} : reply'[t] = reply[t] /\ result'[t] = result[t]
  BY AnswerStep DEF Execute, StoreInv, Replies
<1>5. /\ record'[k] = new /\ record'[k].hash = Hash(s) /\ record'[k].result = s
      /\ record'[k].created = now[s]
      /\ \A j \in Keys \ {k} : record'[j] = record[j]
  BY <1>1, <1>2 DEF StoreInv, TypeOK
<1>6. TypeOK'
  BY <1>1, <1>2, <1>3, <1>4 DEF StoreInv, TypeOK
<1>7. s \notin effects /\ effects \subseteq Sends
  BY <1>1 DEF StoreInv, RecordsMatchEffects, TypeOK
<1>8. now[s] <= clock /\ clock <= now[s] + MaxWait
  BY <1>1 DEF StoreInv, TimesFit
<1>9. ASSUME NEW t \in effects, KeyOf[t] = k
      PROVE  clock >= now[t] + Retention /\ now[s] >= now[t] + Retention - MaxWait
  <2>1. /\ clock \in Nat /\ now[s] \in Nat /\ now[t] \in Nat /\ Retention \in Nat
        /\ MaxWait \in Nat
    BY <1>7, TimesAreNumbers DEF StoreInv
  <2>2. CASE clock >= now[t] + Retention
    BY <1>8, <2>1, <2>2
  <2>3. CASE record[k] # NoRecord /\ record[k].result = t
    <3>1. record[k].created = now[t]
      BY <1>2, <2>3 DEF StoreInv, RecordsMatchEffects
    <3>2. now[s] - now[t] >= Retention
      BY <1>1, <2>1, <2>3, <3>1 DEF HasLiveRecord, Live
    <3> QED
      BY <1>8, <2>1, <3>2
  <2> QED
    BY <1>9, <2>2, <2>3 DEF StoreInv, RecordsMatchEffects
<1>10. TimesFit'
  BY <1>1, <1>4 DEF StoreInv, TimesFit
<1>11. RecordsMatchEffects'
  <2>1. ASSUME NEW j \in Keys, record'[j] # NoRecord
        PROVE  /\ record'[j].result \in effects'
               /\ KeyOf[record'[j].result] = j /\ Hash(record'[j].result) = record'[j].hash
               /\ now[record'[j].result] = record'[j].created
    <3>1. CASE j = k
      BY <1>1, <1>5, <3>1
    <3>2. CASE j # k
      BY <1>1, <1>5, <2>1, <3>2 DEF StoreInv, RecordsMatchEffects
    <3> QED
      BY <3>1, <3>2
  <2>2. ASSUME NEW t \in effects'
        PROVE  \/ clock >= now[t] + Retention
               \/ record'[KeyOf[t]] # NoRecord /\ record'[KeyOf[t]].result = t
    <3>1. CASE t = s
      BY <1>3, <1>5, <3>1
    <3>2. CASE t \in effects /\ KeyOf[t] = k
      BY <1>9, <3>2
    <3>3. CASE t \in effects /\ KeyOf[t] # k
      <4>1. KeyOf[t] \in Keys
        BY <1>7, <3>3, FunctionsAssumption
      <4> QED
        BY <1>5, <3>3, <4>1 DEF StoreInv, RecordsMatchEffects
    <3> QED
      BY <1>1, <3>1, <3>2, <3>3
  <2>3. \A t \in Sends : t \in effects' <=> reply'[t] = "executed"
    BY <1>1, <1>4 DEF StoreInv, RecordsMatchEffects
  <2> QED
    BY <1>1, <2>1, <2>2, <2>3 DEF RecordsMatchEffects, Hash
<1>12. ExecutionsAreFarApart'
  <2>1. ASSUME NEW t \in effects, KeyOf[t] = k
        PROVE  now[s] - now[t] >= Retention - MaxWait
    BY <1>7, <1>9, <2>1, TimesAreNumbers DEF StoreInv
  <2> QED
    BY <1>1, <2>1 DEF StoreInv, ExecutionsAreFarApart
<1>13. ReplayIsOfSameHash'
  BY <1>1, <1>4 DEF StoreInv, ReplayIsOfSameHash, Hash
<1> QED
  BY <1>6, <1>10, <1>11, <1>12, <1>13 DEF StoreInv

LEMMA PurgeKeeps ==
  ASSUME StoreInv, NEW t \in 0 .. MaxClock, Purge(t)
  PROVE  StoreInv'
<1>1. /\ t <= clock /\ UNCHANGED <<clock, now, reply, result, effects>>
      /\ record' = [k \in Keys |-> IF Expired(k, t) THEN NoRecord ELSE record[k]]
  BY DEF Purge
<1>2. \A k \in Keys : record'[k] = record[k] \/ (record'[k] = NoRecord /\ Expired(k, t))
  BY <1>1
<1>3. TypeOK'
  BY <1>1 DEF StoreInv, TypeOK
<1>4. TimesFit' /\ ExecutionsAreFarApart' /\ ReplayIsOfSameHash'
  BY <1>1 DEF StoreInv, TimesFit, ExecutionsAreFarApart, ReplayIsOfSameHash, Hash
<1>5. ASSUME NEW s \in effects
      PROVE  \/ clock >= now[s] + Retention
             \/ record'[KeyOf[s]] # NoRecord /\ record'[KeyOf[s]].result = s
  <2>1. /\ KeyOf[s] \in Keys /\ clock \in Nat /\ now[s] \in Nat /\ Retention \in Nat /\ t \in Nat
    BY FunctionsAssumption, TimesAreNumbers DEF StoreInv, TypeOK
  <2>2. CASE record[KeyOf[s]] # NoRecord /\ record[KeyOf[s]].result = s
    <3>1. record[KeyOf[s]].created = now[s]
      BY <2>1, <2>2 DEF StoreInv, RecordsMatchEffects
    <3>2. Expired(KeyOf[s], t) => clock >= now[s] + Retention
      BY <1>1, <2>1, <3>1 DEF Expired
    <3> QED
      BY <1>2, <2>1, <2>2, <3>2
  <2> QED
    BY <2>2 DEF StoreInv, RecordsMatchEffects
<1>6. RecordsMatchEffects'
  BY <1>1, <1>2, <1>5 DEF StoreInv, RecordsMatchEffects, Hash
<1> QED
  BY <1>3, <1>4, <1>6 DEF StoreInv

LEMMA StoreTickKeeps ==
  ASSUME StoreInv, Tick
  PROVE  StoreInv'
<1>1. /\ clock' = clock + 1 /\ clock < MaxClock /\ UNCHANGED <<record, now, reply, result, effects>>
      /\ \A s \in Sends : reply[s] = "waiting" => clock - now[s] < MaxWait
  BY DEF Tick
<1>2. /\ clock \in Nat /\ MaxClock \in Nat /\ MaxWait \in Nat /\ Retention \in Nat
      /\ \A s \in Sends : now[s] \in Nat
  BY TimesAreNumbers DEF StoreInv
<1>3. TypeOK'
  BY <1>1, <1>2 DEF StoreInv, TypeOK
<1>4. TimesFit'
  BY <1>1, <1>2 DEF StoreInv, TimesFit
<1>5. effects \subseteq Sends
  BY DEF StoreInv, TypeOK
<1>6. RecordsMatchEffects'
  BY <1>1, <1>2, <1>5 DEF StoreInv, RecordsMatchEffects, Hash
<1>7. ExecutionsAreFarApart' /\ ReplayIsOfSameHash'
  BY <1>1 DEF StoreInv, ExecutionsAreFarApart, ReplayIsOfSameHash, Hash
<1> QED
  BY <1>3, <1>4, <1>6, <1>7 DEF StoreInv

-----------------------------------------------------------------------------
\* The records and the committed writes agree, and times are read in order, in every
\* reachable state.
THEOREM StoreInvariance == Spec => []StoreInv
<1>1. StoreInv /\ [Next]_vars => StoreInv'
  <2> SUFFICES ASSUME StoreInv, [Next]_vars
               PROVE  StoreInv'
    OBVIOUS
  <2>1. CASE Next
    BY <2>1, SendKeeps, AnswerKeeps, ExecuteKeeps, PurgeKeeps, StoreTickKeeps DEF Next
  <2>2. CASE UNCHANGED vars
    BY <2>2 DEF vars, StoreInv, TypeOK, TimesFit, RecordsMatchEffects, ExecutionsAreFarApart,
                ReplayIsOfSameHash, Hash
  <2> QED
    BY <2>1, <2>2
<1> QED
  BY <1>1, StoreInitInv, PTL DEF Spec

\* ExecutionsAreFarApart: for any number of retries, and whenever the purge runs.
THEOREM FarApart == Spec => []ExecutionsAreFarApart
<1>1. StoreInv => ExecutionsAreFarApart
  BY DEF StoreInv
<1> QED
  BY <1>1, StoreInvariance, PTL

\* RecordsMatchEffects: no record without its writes, no writes without their record
\* before they expire.
THEOREM RecordsCorrect == Spec => []RecordsMatchEffects
<1>1. StoreInv => RecordsMatchEffects
  BY DEF StoreInv
<1> QED
  BY <1>1, StoreInvariance, PTL

\* ReplayIsOfSameOperation: a replay is of the same operation, and of the same path and
\* body where the operation's caller hashes them.
THEOREM ReplayCorrect == Spec => []ReplayIsOfSameOperation
<1>1. StoreInv => ReplayIsOfSameOperation
  <2> SUFFICES ASSUME StoreInv, NEW s \in Sends, reply[s] = "replayed"
               PROVE  /\ result[s] \in effects /\ KeyOf[result[s]] = KeyOf[s]
                      /\ OperationOf[result[s]] = OperationOf[s]
                      /\ OperationOf[s] \in WithDetail => DetailOf[result[s]] = DetailOf[s]
    BY DEF ReplayIsOfSameOperation
  <2>1. result[s] \in effects /\ KeyOf[result[s]] = KeyOf[s] /\ Hash(result[s]) = Hash(s)
    BY DEF StoreInv, ReplayIsOfSameHash
  <2> QED
    BY <2>1 DEF Hash
<1> QED
  BY <1>1, StoreInvariance, PTL

-----------------------------------------------------------------------------
(***************************************************************************)
(* ModelConfigs, for any configurations, jobs and settings.                *)
(***************************************************************************)

\* The row of a bound job's reference has the same revision or a later one.  While
\* it has the same and is not archived, it has the content the job was bound to.
BoundFits ==
  \A j \in ModelJobs :
    LET of == modelJob[j].of
    IN  IF modelJob[j].step = "new"
        THEN built[j] = {}
        ELSE /\ of.config \in Configs /\ of.revision <= config[of.config].revision
             /\ of.revision = config[of.config].revision /\ ~config[of.config].deleted =>
                  config[of.config].content = bound[j]

ConfigInv == ConfigTypeOK /\ BoundFits /\ JobRunsWhatItBound

\* What a change of the configurations leaves of a row: archived once and for all, or
\* the same revision and content, or a later revision.
RowStep(c) ==
  /\ config'[c] \in ConfigRows
  /\ \/ config'[c].revision > config[c].revision
     \/ /\ config'[c].revision = config[c].revision
        /\ config[c].deleted => config'[c].deleted
        /\ config'[c].deleted \/ config'[c].content = config[c].content

-----------------------------------------------------------------------------
LEMMA ConfigInitInv == ConfigInit => ConfigInv
<1> SUFFICES ASSUME ConfigInit PROVE ConfigInv
  OBVIOUS
<1>1. Blank \in ModelContents /\ 0 \in ConfigRevisions
  BY ModelConfigsAssumption DEF Blank, ModelContents, ConfigRevisions
<1>2. [revision |-> 0, content |-> Blank, enabled |-> FALSE, default |-> FALSE,
       deleted |-> FALSE, measured |-> 0] \in ConfigRows
  BY <1>1 DEF ConfigRows
<1>3. Unbound \in References
  BY <1>1 DEF Unbound, References
<1>4. ConfigTypeOK
  BY <1>1, <1>2, <1>3 DEF ConfigInit, ConfigTypeOK
<1>5. BoundFits /\ JobRunsWhatItBound
  BY DEF ConfigInit, BoundFits, JobRunsWhatItBound
<1> QED
  BY <1>4, <1>5 DEF ConfigInv

LEMMA CreateRow ==
  ASSUME ConfigTypeOK, NEW c \in Configs, NEW content \in ModelContents, CreateConfig(c, content)
  PROVE  config' \in [Configs -> ConfigRows] /\ \A d \in Configs : RowStep(d)
<1>1. config \in [Configs -> ConfigRows] /\ 1 \in ConfigRevisions /\ 0 \in ConfigRevisions
  BY ModelConfigsAssumption DEF ConfigTypeOK, CreateConfig, ConfigRevisions
<1> DEFINE Row == [revision |-> 1, content |-> content, enabled |-> TRUE, default |-> FALSE,
                   deleted |-> FALSE, measured |-> 0]
<1>2. Row \in ConfigRows /\ Row.revision = 1
  BY <1>1 DEF ConfigRows
<1>3. config' = [config EXCEPT ![c] = Row] /\ config[c].revision = 0
  BY DEF CreateConfig
<1> HIDE DEF Row
<1>4. config' \in [Configs -> ConfigRows] /\ config'[c] = Row
  BY <1>1, <1>2, <1>3
<1>5. \A d \in Configs : d # c => config'[d] = config[d]
  BY <1>1, <1>3
<1> QED
  BY <1>2, <1>3, <1>4, <1>5 DEF RowStep

LEMMA UpdateRow ==
  ASSUME ConfigTypeOK, NEW c \in Configs, NEW e \in ConfigRevisions,
         NEW content \in ModelContents, NEW on \in BOOLEAN, UpdateConfig(c, e, content, on)
  PROVE  config' \in [Configs -> ConfigRows] /\ \A d \in Configs : RowStep(d)
<1>1. config \in [Configs -> ConfigRows] /\ config[c] \in ConfigRows
  BY DEF ConfigTypeOK
<1>2. config[c].revision + 1 \in ConfigRevisions /\ config[c].revision \in Nat
  BY <1>1, ModelConfigsAssumption DEF UpdateConfig, ConfigRows, ConfigRevisions
<1>3. config'[c] = [config[c] EXCEPT !.content = content, !.enabled = on,
                                     !.revision = config[c].revision + 1]
  BY <1>1 DEF UpdateConfig
<1>4. config' = [config EXCEPT ![c] = config'[c]]
  BY <1>1, <1>3 DEF UpdateConfig
<1>5. config'[c] \in ConfigRows /\ config'[c].revision = config[c].revision + 1
  BY <1>1, <1>2, <1>3 DEF ConfigRows
<1> QED
  BY <1>1, <1>2, <1>4, <1>5 DEF RowStep

LEMMA DefaultRow ==
  ASSUME ConfigTypeOK, NEW c \in Configs, SetDefault(c)
  PROVE  config' \in [Configs -> ConfigRows] /\ \A d \in Configs : RowStep(d)
<1>1. config \in [Configs -> ConfigRows]
  BY DEF ConfigTypeOK
<1>2. ASSUME NEW d \in Configs
      PROVE  RowStep(d)
  <2>1. config[d] \in ConfigRows
    BY <1>1
  <2>2. PICK x \in BOOLEAN : x = (d = c)
    OBVIOUS
  <2>3. config'[d] = [config[d] EXCEPT !.default = x]
    BY <2>2 DEF SetDefault, WithDefault
  <2> QED
    BY <2>1, <2>3 DEF RowStep, ConfigRows
<1>3. config' = [d \in Configs |-> config'[d]]
  BY DEF SetDefault, WithDefault
<1> QED
  BY <1>2, <1>3 DEF RowStep

LEMMA DeleteRow ==
  ASSUME ConfigTypeOK, NEW c \in Configs, DeleteConfig(c)
  PROVE  config' \in [Configs -> ConfigRows] /\ \A d \in Configs : RowStep(d)
<1>1. config \in [Configs -> ConfigRows] /\ config[c] \in ConfigRows
  BY DEF ConfigTypeOK
<1>2. PICK k \in ModelContents : k = [config[c].content EXCEPT !.key = NoKey]
  BY <1>1 DEF ConfigRows, ModelContents
<1>3. config'[c] = [config[c] EXCEPT !.deleted = TRUE, !.enabled = FALSE, !.content = k,
                                     !.default = FALSE]
  BY <1>1, <1>2 DEF DeleteConfig
<1>4. config' = [config EXCEPT ![c] = config'[c]]
  BY <1>1, <1>2, <1>3 DEF DeleteConfig
<1>5. /\ config'[c] \in ConfigRows /\ config'[c].revision = config[c].revision
      /\ config'[c].deleted
  BY <1>1, <1>3 DEF ConfigRows
<1> QED
  BY <1>1, <1>4, <1>5 DEF RowStep

LEMMA MeasuredRow ==
  ASSUME ConfigTypeOK, NEW t \in ModelTests, NEW ok \in BOOLEAN, FinishTest(t, ok)
  PROVE  config' \in [Configs -> ConfigRows] /\ \A d \in Configs : RowStep(d)
<1>1. config \in [Configs -> ConfigRows] /\ 0 \in ConfigRevisions
  BY ModelConfigsAssumption DEF ConfigTypeOK, ConfigRevisions
<1>2. PICK n \in ConfigRevisions : n = IF ok THEN probe[t].of.revision ELSE 0
  BY <1>1 DEF ConfigTypeOK, References
<1>3. PICK c : c = probe[t].of.config
  OBVIOUS
<1>4. config' = [config EXCEPT ![c] = [config[c] EXCEPT !.measured = n]]
  BY <1>2, <1>3 DEF FinishTest
<1>5. ASSUME NEW d \in Configs
      PROVE  RowStep(d)
  <2>1. config[d] \in ConfigRows
    BY <1>1
  <2>2. config'[d] = config[d] \/ config'[d] = [config[d] EXCEPT !.measured = n]
    BY <1>1, <1>4
  <2> QED
    BY <1>2, <2>1, <2>2 DEF RowStep, ConfigRows
<1>6. config' = [d \in Configs |-> config'[d]]
  BY <1>1, <1>4
<1> QED
  BY <1>5, <1>6 DEF RowStep

\* A step that leaves the jobs alone.
LEMMA RowsKeep ==
  ASSUME ConfigInv, config' \in [Configs -> ConfigRows], \A d \in Configs : RowStep(d),
         probe' \in [ModelTests -> [step : {"ready", "probing", "done"}, of : References]],
         UNCHANGED <<modelJob, bound, built>>
  PROVE  ConfigInv'
<1>1. ConfigTypeOK'
  BY DEF ConfigInv, ConfigTypeOK
<1>2. BoundFits'
  <2>1. ASSUME NEW j \in ModelJobs, modelJob[j].step # "new"
        PROVE  LET of == modelJob[j].of
               IN  /\ of.config \in Configs /\ of.revision <= config'[of.config].revision
                   /\ of.revision = config'[of.config].revision /\ ~config'[of.config].deleted =>
                        config'[of.config].content = bound[j]
    <3>1. PICK c \in Configs : c = modelJob[j].of.config
      BY <2>1 DEF ConfigInv, BoundFits
    <3>2. /\ modelJob[j].of.revision <= config[c].revision
          /\ modelJob[j].of.revision = config[c].revision /\ ~config[c].deleted =>
               config[c].content = bound[j]
      BY <2>1, <3>1 DEF ConfigInv, BoundFits
    <3>3. /\ config[c].revision \in Nat /\ config'[c].revision \in Nat
          /\ modelJob[j].of.revision \in Nat
      BY ModelConfigsAssumption DEF ConfigInv, ConfigTypeOK, ConfigRows, ConfigRevisions, References
    <3>4. RowStep(c)
      OBVIOUS
    <3> QED
      BY <3>1, <3>2, <3>3, <3>4 DEF RowStep
  <2> QED
    BY <2>1 DEF ConfigInv, BoundFits
<1>3. JobRunsWhatItBound'
  BY DEF ConfigInv, JobRunsWhatItBound
<1> QED
  BY <1>1, <1>2, <1>3 DEF ConfigInv

LEMMA BindKeeps ==
  ASSUME ConfigInv, NEW j \in ModelJobs, NEW c \in Configs, BindJob(j, c)
  PROVE  ConfigInv'
<1>1. /\ modelJob \in [ModelJobs -> [step : {"new", "bound", "stale"}, of : References]]
      /\ config[c] \in ConfigRows /\ bound \in [ModelJobs -> ModelContents]
  BY DEF ConfigInv, ConfigTypeOK
<1>2. /\ modelJob[j].step = "new" /\ UNCHANGED <<config, probe, built>>
      /\ bound' = [bound EXCEPT ![j] = config[c].content]
      /\ modelJob' = [modelJob EXCEPT ![j] =
           [step |-> "bound", of |-> [config |-> c, revision |-> config[c].revision]]]
  BY DEF BindJob
<1>3. [config |-> c, revision |-> config[c].revision] \in References
  BY <1>1 DEF ConfigRows, References
<1>4. config[c].content \in ModelContents
  BY <1>1 DEF ConfigRows
<1>5. ConfigTypeOK'
  BY <1>1, <1>2, <1>3, <1>4 DEF ConfigInv, ConfigTypeOK
<1>6. /\ modelJob'[j].of.config = c /\ modelJob'[j].of.revision = config[c].revision
      /\ modelJob'[j].step = "bound" /\ bound'[j] = config[c].content
      /\ \A i \in ModelJobs : i # j => modelJob'[i] = modelJob[i] /\ bound'[i] = bound[i]
  BY <1>1, <1>2
<1>7. config[c].revision \in Nat
  BY <1>1, ModelConfigsAssumption DEF ConfigRows, ConfigRevisions
<1>8. BoundFits'
  BY <1>2, <1>6, <1>7 DEF ConfigInv, BoundFits
<1>9. JobRunsWhatItBound'
  BY <1>2, <1>6 DEF ConfigInv, BoundFits, JobRunsWhatItBound
<1> QED
  BY <1>5, <1>8, <1>9 DEF ConfigInv

LEMMA BuildKeeps ==
  ASSUME ConfigInv, NEW j \in ModelJobs, BuildModel(j)
  PROVE  ConfigInv'
<1>1. /\ modelJob[j].step = "bound" /\ StillValid(j) /\ UNCHANGED <<config, probe, modelJob, bound>>
      /\ built' = [built EXCEPT ![j] = built[j] \cup {config[modelJob[j].of.config].content}]
  BY DEF BuildModel
<1>2. config[modelJob[j].of.config].content = bound[j]
  BY <1>1 DEF ConfigInv, BoundFits, StillValid
<1>3. bound[j] \in ModelContents /\ built \in [ModelJobs -> SUBSET ModelContents]
  BY DEF ConfigInv, ConfigTypeOK
<1>4. built' = [built EXCEPT ![j] = built[j] \cup {bound[j]}]
  BY <1>1, <1>2
<1>5. ConfigTypeOK'
  BY <1>1, <1>3, <1>4 DEF ConfigInv, ConfigTypeOK
<1>6. BoundFits' /\ JobRunsWhatItBound'
  BY <1>1, <1>3, <1>4 DEF ConfigInv, BoundFits, JobRunsWhatItBound
<1> QED
  BY <1>5, <1>6 DEF ConfigInv

LEMMA StaleKeeps ==
  ASSUME ConfigInv, NEW j \in ModelJobs, FindStale(j)
  PROVE  ConfigInv'
<1>1. /\ modelJob \in [ModelJobs -> [step : {"new", "bound", "stale"}, of : References]]
      /\ modelJob[j].step = "bound" /\ UNCHANGED <<config, probe, bound, built>>
      /\ modelJob' = [modelJob EXCEPT ![j] = [modelJob[j] EXCEPT !.step = "stale"]]
  BY DEF FindStale, ConfigInv, ConfigTypeOK
<1>2. modelJob'[j] = [modelJob[j] EXCEPT !.step = "stale"]
  BY <1>1
<1>3. /\ modelJob'[j] \in [step : {"new", "bound", "stale"}, of : References]
      /\ modelJob'[j].step = "stale" /\ modelJob'[j].of = modelJob[j].of
  BY <1>1, <1>2
<1>4. \A i \in ModelJobs : i # j => modelJob'[i] = modelJob[i]
  BY <1>1
<1>5. ConfigTypeOK'
  BY <1>1, <1>3, <1>4 DEF ConfigInv, ConfigTypeOK
<1>6. BoundFits' /\ JobRunsWhatItBound'
  BY <1>1, <1>3, <1>4 DEF ConfigInv, BoundFits, JobRunsWhatItBound
<1> QED
  BY <1>5, <1>6 DEF ConfigInv

-----------------------------------------------------------------------------
\* Of a job's reference: its row never goes back, and what it holds under the bound
\* revision is the content that was bound, up to the day it is archived.
THEOREM ConfigInvariance == ConfigSpec => []ConfigInv
<1>1. ConfigInv /\ [ConfigNext]_configVars => ConfigInv'
  <2> SUFFICES ASSUME ConfigInv, [ConfigNext]_configVars
               PROVE  ConfigInv'
    OBVIOUS
  <2>1. ConfigTypeOK
    BY DEF ConfigInv
  <2>2. ASSUME NEW c \in Configs, NEW content \in ModelContents,
               \/ CreateConfig(c, content)
               \/ \E e \in ConfigRevisions, on \in BOOLEAN : UpdateConfig(c, e, content, on)
        PROVE  ConfigInv'
    <3>1. UNCHANGED <<probe, modelJob, bound, built>>
      BY <2>2 DEF CreateConfig, UpdateConfig
    <3>2. config' \in [Configs -> ConfigRows] /\ \A d \in Configs : RowStep(d)
      BY <2>1, <2>2, CreateRow, UpdateRow
    <3> QED
      BY <2>1, <3>1, <3>2, RowsKeep DEF ConfigTypeOK
  <2>3. ASSUME NEW c \in Configs, SetDefault(c) \/ DeleteConfig(c)
        PROVE  ConfigInv'
    <3>1. UNCHANGED <<probe, modelJob, bound, built>>
      BY <2>3 DEF SetDefault, DeleteConfig
    <3>2. config' \in [Configs -> ConfigRows] /\ \A d \in Configs : RowStep(d)
      BY <2>1, <2>3, DefaultRow, DeleteRow
    <3> QED
      BY <2>1, <3>1, <3>2, RowsKeep DEF ConfigTypeOK
  <2>4. ASSUME NEW c \in Configs, NEW t \in ModelTests, StartTest(t, c)
        PROVE  ConfigInv'
    <3>1. [config |-> c, revision |-> config[c].revision] \in References
      BY <2>1 DEF ConfigTypeOK, ConfigRows, References
    <3>2. probe' \in [ModelTests -> [step : {"ready", "probing", "done"}, of : References]]
      BY <2>1, <2>4, <3>1 DEF StartTest, ConfigTypeOK
    <3>3. config' = config /\ UNCHANGED <<modelJob, bound, built>>
      BY <2>4 DEF StartTest
    <3>4. config' \in [Configs -> ConfigRows] /\ \A d \in Configs : RowStep(d)
      BY <2>1, <3>3 DEF ConfigTypeOK, RowStep
    <3> QED
      BY <3>2, <3>3, <3>4, RowsKeep
  <2>5. ASSUME NEW t \in ModelTests, NEW ok \in BOOLEAN, FinishTest(t, ok)
        PROVE  ConfigInv'
    <3>1. probe' = [probe EXCEPT ![t] = [probe[t] EXCEPT !.step = "done"]]
      BY <2>5 DEF FinishTest
    <3>2. [probe[t] EXCEPT !.step = "done"]
            \in [step : {"ready", "probing", "done"}, of : References]
      BY <2>1 DEF ConfigTypeOK
    <3>3. probe' \in [ModelTests -> [step : {"ready", "probing", "done"}, of : References]]
      BY <2>1, <3>1, <3>2 DEF ConfigTypeOK
    <3>4. UNCHANGED <<modelJob, bound, built>>
      BY <2>5 DEF FinishTest
    <3>5. config' \in [Configs -> ConfigRows] /\ \A d \in Configs : RowStep(d)
      BY <2>1, <2>5, MeasuredRow
    <3> QED
      BY <3>3, <3>4, <3>5, RowsKeep
  <2>6. ASSUME NEW j \in ModelJobs,
               (\E c \in Configs : BindJob(j, c)) \/ BuildModel(j) \/ FindStale(j)
        PROVE  ConfigInv'
    BY <2>6, BindKeeps, BuildKeeps, StaleKeeps
  <2>7. CASE UNCHANGED configVars
    BY <2>7 DEF configVars, ConfigInv, ConfigTypeOK, BoundFits, JobRunsWhatItBound
  <2> QED
    BY <2>2, <2>3, <2>4, <2>5, <2>6, <2>7, Zenon DEF ConfigNext
<1> QED
  BY <1>1, ConfigInitInv, PTL DEF ConfigSpec

\* JobRunsWhatItBound: the revision in a job's reference is enough to tell that the
\* configuration is still the one it was bound to.
THEOREM JobModelCorrect == ConfigSpec => []JobRunsWhatItBound
<1>1. ConfigInv => JobRunsWhatItBound
  BY DEF ConfigInv
<1> QED
  BY <1>1, ConfigInvariance, PTL

-----------------------------------------------------------------------------
(***************************************************************************)
(* RateLimit, for any slots, limits, windows and threads.                  *)
(***************************************************************************)

\* A thread that waits for the lock has read the clock no more than MaxLockWait ago.
WaitsAreShort ==
  \A t \in Threads : hitter[t] # Outside =>
    hitter[t].now <= uptime /\ uptime <= hitter[t].now + MaxLockWait

\* An entry of the table is the last window of its slot.  A slot that was granted
\* something and has no entry lost it to a pruning, when its window had passed.
WindowsFit ==
  \A s \in Slots :
    IF windows[s].used > 0
    THEN windows[s].start = opened[s] /\ windows[s].used = granted[s]
    ELSE granted[s] > 0 => opened[s] + Window[s] <= uptime

LimitInv == LimitTypeOK /\ WaitsAreShort /\ WindowsFit /\ LimitHolds

LEMMA LimitInitInv == LimitInit => LimitInv
  BY RateLimitAssumption
     DEF LimitInit, LimitInv, LimitTypeOK, WaitsAreShort, WindowsFit, LimitHolds, Readings,
         NoWindow, Outside

\* What a pruning at the present leaves: every entry that is gone had passed.
LEMMA Pruning ==
  ASSUME LimitInv, NEW at \in Readings, at <= uptime, NEW s \in Slots
  PROVE  /\ Pruned(at)[s] \in [start : Readings, used : Nat]
         /\ \/ Pruned(at)[s] = windows[s]
            \/ Pruned(at)[s].used = 0 /\ windows[s].start + Window[s] <= at
<1>1. windows[s] \in [start : Readings, used : Nat]
  BY DEF LimitInv, LimitTypeOK
<1>2. NoWindow \in [start : Readings, used : Nat] /\ NoWindow.used = 0
  BY RateLimitAssumption DEF NoWindow, Readings
<1>3. /\ Window[s] \in Nat /\ LongestWindow \in Nat /\ Window[s] <= LongestWindow
      /\ windows[s].start \in Nat /\ at \in Nat
  BY <1>1, RateLimitAssumption DEF Readings
<1>4. \/ Pruned(at)[s] = windows[s]
      \/ Pruned(at)[s] = NoWindow /\ windows[s].start + LongestWindow <= at
  BY DEF Pruned, Horizon
<1> QED
  BY <1>1, <1>2, <1>3, <1>4

LEMMA HitKeeps ==
  ASSUME LimitInv, NEW t \in Threads, Hit(t)
  PROVE  LimitInv'
<1> DEFINE at == hitter[t].now
<1>1. PICK s \in Slots : s = hitter[t].slot
  BY DEF Hit, LimitInv, LimitTypeOK
<1>2. /\ hitter \in [Threads -> [slot : Slots \cup {NoSlot}, now : Readings]]
      /\ windows \in [Slots -> [start : Readings, used : Nat]] /\ uptime \in Readings
      /\ opened \in [Slots -> Readings] /\ granted \in [Slots -> Nat]
      /\ early \in [Slots -> BOOLEAN]
  BY DEF LimitInv, LimitTypeOK
<1>3. at \in Readings /\ at <= uptime /\ uptime <= at + MaxLockWait
  <2>1. hitter[t] # Outside
    BY <1>1, RateLimitAssumption DEF Outside
  <2> QED
    BY <1>2, <2>1 DEF LimitInv, WaitsAreShort
<1>4. PICK P : P = Pruned(at)
  OBVIOUS
<1>5. /\ P \in [Slots -> [start : Readings, used : Nat]]
      /\ \A x \in Slots : P[x] = windows[x]
                          \/ (P[x].used = 0 /\ windows[x].start + Window[x] <= at)
  BY <1>3, <1>4, Pruning DEF Pruned
<1>6. PICK w : w = CurrentWindow(P[s], s, at)
  OBVIOUS
<1>7. /\ Limit[s] \in Nat \ {0} /\ Window[s] \in Nat \ {0} /\ MaxLockWait \in Nat
      /\ at \in Nat /\ uptime \in Nat /\ opened[s] \in Nat /\ granted[s] \in Nat
      /\ windows[s].start \in Nat /\ windows[s].used \in Nat
      /\ P[s].start \in Nat /\ P[s].used \in Nat
  BY <1>2, <1>3, <1>5, RateLimitAssumption DEF Readings
<1>8. /\ w \in [start : Readings, used : Nat]
      /\ \/ w = P[s] /\ w.used > 0 /\ at < w.start + Window[s]
         \/ /\ w.used = 0 /\ w.start = at
            /\ P[s].used = 0 \/ at >= P[s].start + Window[s]
  BY <1>3, <1>5, <1>6, <1>7 DEF CurrentWindow
<1>9. /\ hitter' = [hitter EXCEPT ![t] = Outside] /\ uptime' = uptime
      /\ \/ /\ w.used >= Limit[s] /\ windows' = P /\ UNCHANGED <<opened, granted, early>>
         \/ /\ w.used < Limit[s]
            /\ windows' = [P EXCEPT ![s] = [start |-> w.start, used |-> w.used + 1]]
            /\ opened' = [opened EXCEPT ![s] = IF w.used = 0 THEN at ELSE opened[s]]
            /\ granted' = [granted EXCEPT ![s] = IF w.used = 0 THEN 1 ELSE granted[s] + 1]
            /\ early' = [early EXCEPT ![s] =
                 early[s]
                 \/ (w.used = 0 /\ granted[s] > 0 /\ at + MaxLockWait < opened[s] + Window[s])]
  BY <1>1, <1>4, <1>6 DEF Hit
<1>10. WaitsAreShort'
  BY <1>2, <1>9 DEF LimitInv, WaitsAreShort
<1>11. Outside \in [slot : Slots \cup {NoSlot}, now : Readings]
  BY RateLimitAssumption DEF Outside, Readings
<1>12. ASSUME NEW x \in Slots
       PROVE  IF P[x].used > 0
              THEN P[x].start = opened[x] /\ P[x].used = granted[x]
              ELSE granted[x] > 0 => opened[x] + Window[x] <= uptime
  <2>1. /\ windows[x].used \in Nat /\ windows[x].start \in Nat /\ opened[x] \in Nat
        /\ Window[x] \in Nat /\ granted[x] \in Nat
    BY <1>2, RateLimitAssumption DEF Readings
  <2>2. IF windows[x].used > 0
        THEN windows[x].start = opened[x] /\ windows[x].used = granted[x]
        ELSE granted[x] > 0 => opened[x] + Window[x] <= uptime
    BY DEF LimitInv, WindowsFit
  <2> QED
    BY <1>3, <1>5, <1>7, <2>1, <2>2
<1>13. granted[s] <= Limit[s] /\ early[s] = FALSE
  BY <1>2 DEF LimitInv, LimitHolds
<1>14. CASE w.used >= Limit[s]
  <2>1. windows' = P /\ UNCHANGED <<opened, granted, early>>
    BY <1>7, <1>8, <1>9, <1>14
  <2>2. LimitTypeOK'
    BY <1>2, <1>5, <1>9, <1>11, <2>1 DEF LimitTypeOK
  <2>3. WindowsFit' /\ LimitHolds'
    BY <1>9, <1>12, <2>1 DEF WindowsFit, LimitHolds, LimitInv
  <2> QED
    BY <1>10, <2>2, <2>3 DEF LimitInv
<1>15. CASE w.used < Limit[s] /\ w.used = 0
  <2>1. [start |-> w.start, used |-> 1] \in [start : Readings, used : Nat] /\ w.start = at
    BY <1>3, <1>7, <1>8, <1>15
  <2>2. ~(granted[s] > 0 /\ at + MaxLockWait < opened[s] + Window[s])
    <3>1. CASE P[s].used > 0
      BY <1>7, <1>8, <1>12, <1>15, <3>1
    <3>2. CASE P[s].used = 0
      BY <1>3, <1>7, <1>12, <3>2
    <3> QED
      BY <1>7, <3>1, <3>2
  <2>3. /\ windows' = [P EXCEPT ![s] = [start |-> w.start, used |-> 1]]
        /\ opened' = [opened EXCEPT ![s] = at] /\ granted' = [granted EXCEPT ![s] = 1]
        /\ early' = [early EXCEPT ![s] = FALSE]
    <3>1. (early[s]
           \/ (w.used = 0 /\ granted[s] > 0 /\ at + MaxLockWait < opened[s] + Window[s])) = FALSE
      BY <1>13, <2>2, Zenon
    <3>2. /\ windows' = [P EXCEPT ![s] = [start |-> w.start, used |-> w.used + 1]]
          /\ opened' = [opened EXCEPT ![s] = IF w.used = 0 THEN at ELSE opened[s]]
          /\ granted' = [granted EXCEPT ![s] = IF w.used = 0 THEN 1 ELSE granted[s] + 1]
          /\ early' = [early EXCEPT ![s] = FALSE]
      <4>1. ~(w.used >= Limit[s])
        BY <1>7, <1>15
      <4> QED
        BY <1>9, <3>1, <4>1, Zenon
    <3> QED
      BY <1>15, <3>2
  <2>4. LimitTypeOK'
    BY <1>2, <1>3, <1>5, <1>9, <1>11, <2>1, <2>3 DEF LimitTypeOK
  <2>5. WindowsFit'
    BY <1>2, <1>5, <1>9, <1>12, <2>1, <2>3 DEF WindowsFit
  <2>6. LimitHolds'
    BY <1>2, <1>7, <2>3 DEF LimitHolds, LimitInv
  <2> QED
    BY <1>10, <2>4, <2>5, <2>6 DEF LimitInv
<1>16. CASE w.used < Limit[s] /\ w.used > 0
  <2>1. w = P[s] /\ w.used = granted[s] /\ w.start = opened[s] /\ w.used \in Nat
    BY <1>7, <1>8, <1>12, <1>16
  <2>2. [start |-> w.start, used |-> w.used + 1] \in [start : Readings, used : Nat]
    BY <1>8, <2>1
  <2>3. /\ windows' = [P EXCEPT ![s] = [start |-> w.start, used |-> w.used + 1]]
        /\ opened' = [opened EXCEPT ![s] = opened[s]]
        /\ granted' = [granted EXCEPT ![s] = granted[s] + 1]
        /\ early' = [early EXCEPT ![s] = FALSE]
    <3>1. (early[s]
           \/ (w.used = 0 /\ granted[s] > 0 /\ at + MaxLockWait < opened[s] + Window[s])) = FALSE
      <4>1. ~(w.used = 0)
        BY <1>16, <2>1
      <4> QED
        BY <1>13, <4>1, Zenon
    <3>2. /\ windows' = [P EXCEPT ![s] = [start |-> w.start, used |-> w.used + 1]]
          /\ opened' = [opened EXCEPT ![s] = IF w.used = 0 THEN at ELSE opened[s]]
          /\ granted' = [granted EXCEPT ![s] = IF w.used = 0 THEN 1 ELSE granted[s] + 1]
          /\ early' = [early EXCEPT ![s] = FALSE]
      <4>1. ~(w.used >= Limit[s])
        BY <1>7, <1>16, <2>1
      <4> QED
        BY <1>9, <3>1, <4>1, Zenon
    <3>3. w.used # 0
      BY <1>16, <2>1
    <3> QED
      BY <3>2, <3>3
  <2>4. LimitTypeOK'
    BY <1>2, <1>5, <1>7, <1>9, <1>11, <2>2, <2>3 DEF LimitTypeOK
  <2>5. WindowsFit'
    BY <1>2, <1>5, <1>7, <1>9, <1>12, <2>1, <2>3 DEF WindowsFit
  <2>6. LimitHolds'
    BY <1>2, <1>7, <1>16, <2>1, <2>3 DEF LimitHolds, LimitInv
  <2> QED
    BY <1>10, <2>4, <2>5, <2>6 DEF LimitInv
<1> QED
  BY <1>7, <1>8, <1>14, <1>15, <1>16

LEMMA ArriveKeeps ==
  ASSUME LimitInv, NEW t \in Threads, NEW s \in Slots, Arrive(t, s)
  PROVE  LimitInv'
<1>1. uptime \in Readings /\ hitter \in [Threads -> [slot : Slots \cup {NoSlot}, now : Readings]]
  BY DEF LimitInv, LimitTypeOK
<1>2. /\ hitter' = [hitter EXCEPT ![t] = [slot |-> s, now |-> uptime]]
      /\ UNCHANGED <<windows, uptime, opened, granted, early>>
  BY DEF Arrive
<1>3. hitter' \in [Threads -> [slot : Slots \cup {NoSlot}, now : Readings]]
  BY <1>1, <1>2
<1>4. hitter'[t].now = uptime /\ \A q \in Threads : q # t => hitter'[q] = hitter[q]
  BY <1>1, <1>2
<1>5. uptime \in Nat /\ MaxLockWait \in Nat
  BY <1>1, RateLimitAssumption DEF Readings
<1>6. LimitTypeOK' /\ WindowsFit' /\ LimitHolds'
  BY <1>2, <1>3 DEF LimitInv, LimitTypeOK, WindowsFit, LimitHolds
<1>7. WaitsAreShort'
  BY <1>2, <1>4, <1>5 DEF LimitInv, WaitsAreShort
<1> QED
  BY <1>6, <1>7 DEF LimitInv

LEMMA WindowTickKeeps ==
  ASSUME LimitInv, LimitTick
  PROVE  LimitInv'
<1>1. /\ uptime \in Nat /\ uptime < MaxReading /\ MaxReading \in Nat /\ MaxLockWait \in Nat
      /\ uptime' = uptime + 1 /\ UNCHANGED <<windows, hitter, opened, granted, early>>
  BY RateLimitAssumption DEF LimitTick, LimitInv, LimitTypeOK, Readings
<1>2. LimitTypeOK'
  BY <1>1 DEF LimitInv, LimitTypeOK, Readings
<1>3. WaitsAreShort'
  <2>1. \A t \in Threads : hitter[t].now \in Nat
    BY RateLimitAssumption DEF LimitInv, LimitTypeOK, Readings
  <2> QED
    BY <1>1, <2>1 DEF LimitTick, LimitInv, WaitsAreShort
<1>4. WindowsFit'
  <2>1. \A s \in Slots : opened[s] \in Nat /\ Window[s] \in Nat
    BY RateLimitAssumption DEF LimitInv, LimitTypeOK, Readings
  <2> QED
    BY <1>1, <2>1 DEF LimitInv, WindowsFit
<1>5. LimitHolds'
  BY <1>1 DEF LimitInv, LimitHolds
<1> QED
  BY <1>2, <1>3, <1>4, <1>5 DEF LimitInv

\* The table, where it has an entry, agrees with what was granted; where it has none,
\* nothing that still counts is lost.
THEOREM LimitInvariance == LimitSpec => []LimitInv
<1>1. LimitInv /\ [LimitNext]_limitVars => LimitInv'
  <2> SUFFICES ASSUME LimitInv, [LimitNext]_limitVars
               PROVE  LimitInv'
    OBVIOUS
  <2>1. CASE LimitNext
    BY <2>1, ArriveKeeps, HitKeeps, WindowTickKeeps DEF LimitNext
  <2>2. CASE UNCHANGED limitVars
    BY <2>2 DEF limitVars, LimitInv, LimitTypeOK, WaitsAreShort, WindowsFit, LimitHolds
  <2> QED
    BY <2>1, <2>2
<1> QED
  BY <1>1, LimitInitInv, PTL DEF LimitSpec

\* LimitHolds: the limit is kept for any order in which the hits reach the lock, as
\* long as no rule's window is longer than _LONGEST_WINDOW.
THEOREM LimitCorrect == LimitSpec => []LimitHolds
<1>1. LimitInv => LimitHolds
  BY DEF LimitInv
<1> QED
  BY <1>1, LimitInvariance, PTL

-----------------------------------------------------------------------------
\* Each of the six modules moves as it does alone: what is proved about one of them
\* holds in the composition that the run checks.
THEOREM CommandsImplementParts ==
  CommandSpec => Spec /\ GoalSpec /\ LinksSpec /\ ConfigSpec /\ AuthSpec /\ LimitSpec
<1>1. CommandInit => Init /\ GoalInit /\ LinksInit /\ ConfigInit /\ AuthInit /\ LimitInit
  BY DEF CommandInit
<1> DEFINE Parts == /\ [Next]_vars /\ [GoalNext]_goalVars /\ [LinksNext]_linkVars
                    /\ [ConfigNext]_configVars /\ [AuthNext]_authVars /\ [LimitNext]_limitVars
<1>2. [CommandNext]_<<all, area>> => Parts
  <2> SUFFICES ASSUME [CommandNext]_<<all, area>> PROVE Parts
    OBVIOUS
  <2>1. CASE /\ area = "idempotency" /\ Next
             /\ UNCHANGED <<goalVars, linkVars, configVars, authVars, limitVars, area>>
    BY <2>1
  <2>2. CASE /\ area = "goals" /\ GoalNext
             /\ UNCHANGED <<vars, linkVars, configVars, authVars, limitVars, area>>
    BY <2>2
  <2>3. CASE /\ area = "links" /\ LinksNext
             /\ UNCHANGED <<vars, goalVars, configVars, authVars, limitVars, area>>
    BY <2>3
  <2>4. CASE /\ area = "models" /\ ConfigNext
             /\ UNCHANGED <<vars, goalVars, linkVars, authVars, limitVars, area>>
    BY <2>4
  <2>5. CASE /\ area = "auth" /\ AuthNext
             /\ UNCHANGED <<vars, goalVars, linkVars, configVars, limitVars, area>>
    BY <2>5
  <2>6. CASE /\ area = "limit" /\ LimitNext
             /\ UNCHANGED <<vars, goalVars, linkVars, configVars, authVars, area>>
    BY <2>6
  <2>7. CASE UNCHANGED <<all, area>>
    BY <2>7 DEF all
  <2> QED
    BY <2>1, <2>2, <2>3, <2>4, <2>5, <2>6, <2>7 DEF CommandNext
<1> QED
  BY <1>1, <1>2, PTL DEF CommandSpec, Spec, GoalSpec, LinksSpec, ConfigSpec, AuthSpec, LimitSpec

\* All columns of the tables behind the commands are well typed, whichever moves.
THEOREM CommandsTypeCorrect == CommandSpec => []CommandsTypeOK
<1>1. StoreInv => TypeOK
  BY DEF StoreInv
<1>2. GoalInv => GoalTypeOK
  BY DEF GoalInv
<1>3. ConfigInv => ConfigTypeOK
  BY DEF ConfigInv
<1>4. AuthInv => AuthTypeOK
  BY DEF AuthInv
<1>5. LimitInv => LimitTypeOK
  BY DEF LimitInv
<1>6. /\ TypeOK /\ GoalTypeOK /\ LinksTypeOK /\ ConfigTypeOK /\ AuthTypeOK /\ LimitTypeOK
      => CommandsTypeOK
  BY DEF CommandsTypeOK
<1> QED
  BY <1>1, <1>2, <1>3, <1>4, <1>5, <1>6, CommandsImplementParts, StoreInvariance,
     GoalInvariance, LinksTypes, ConfigInvariance, AuthInvariance, LimitInvariance, PTL
=============================================================================
