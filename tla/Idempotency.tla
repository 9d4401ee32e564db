---------------------------- MODULE Idempotency ----------------------------
(***************************************************************************)
(* The idempotency store (goalflow/idempotency): run_idempotent inside the *)
(* caller's write transaction, and the daily purge.                        *)
(*                                                                         *)
(* A send is one HTTP request that carries an Idempotency-Key; a client    *)
(* that retries sends the same key and content again.  A send reads the    *)
(* clock before it has the write lock and may wait for the lock, so the    *)
(* order of the transactions is not the order of their times.              *)
(*                                                                         *)
(* A record keeps a hash of what its caller passes to                      *)
(* compute_request_hash: cancel_job passes operation, path and body, every *)
(* other caller the operation only.  SHA-256 over canonical JSON is taken  *)
(* to tell any two of them apart.                                          *)
(***************************************************************************)
EXTENDS Integers

CONSTANTS
  Sends,            \* HTTP requests, retries included
  Keys,             \* (owner, Idempotency-Key)
  WriteOperations,  \* names of operations
  Details,          \* what else a request says: path parameters and body
  KeyOf,            \* the key of each send
  OperationOf,      \* and what it asks for
  DetailOf,
  WithDetail,       \* the operations whose caller passes path and body: cancel_job
  Retention,        \* RETENTION (7 days)
  MaxWait,          \* the longest wait for the write lock (busy_timeout, 5 seconds)
  MaxClock,         \* bound of the clock
  NoRecord, NoSend, NoDetail

ASSUME FunctionsAssumption ==
  /\ KeyOf \in [Sends -> Keys]
  /\ OperationOf \in [Sends -> WriteOperations]
  /\ DetailOf \in [Sends -> Details]
  /\ WithDetail \subseteq WriteOperations

ASSUME TimesAssumption ==
  /\ Retention \in Nat /\ MaxWait \in Nat /\ MaxClock \in Nat
  /\ MaxWait < Retention

ASSUME NamesAssumption == NoSend \notin Sends

VARIABLES
  clock,
  record,   \* table idempotency_requests
  now,      \* the time each send read before it asked for the lock
  reply,    \* "unsent", "waiting" for the lock, or how the send was answered
  result,   \* the resource the reply refers to: the send that created it
  effects   \* the sends whose business writes are committed

vars == <<clock, record, now, reply, result, effects>>

Replies == {"unsent", "waiting", "executed", "replayed", "conflict", "failed"}
RequestHashes == [operation : WriteOperations, detail : Details \cup {NoDetail}]
Records == [hash : RequestHashes, result : Sends, created : 0 .. MaxClock]

ASSUME RecordsAssumption == NoRecord \notin Records

TypeOK ==
  /\ clock \in 0 .. MaxClock
  /\ record \in [Keys -> Records \cup {NoRecord}]
  /\ now \in [Sends -> 0 .. MaxClock]
  /\ reply \in [Sends -> Replies]
  /\ result \in [Sends -> Sends \cup {NoSend}]
  /\ effects \subseteq Sends

Init ==
  /\ clock = 0
  /\ record = [k \in Keys |-> NoRecord]
  /\ now = [s \in Sends |-> 0]
  /\ reply = [s \in Sends |-> "unsent"]
  /\ result = [s \in Sends |-> NoSend]
  /\ effects = {}

-----------------------------------------------------------------------------
\* Definitions named X_Y are mutants of X: plausible mistakes that the runs are
\* shown to detect.  No action uses them.
Hash_OperationOnly(s) == [operation |-> OperationOf[s], detail |-> NoDetail]

\* compute_request_hash() of what the caller of the operation passes to it.
Hash(s) ==
  [operation |-> OperationOf[s],
   detail    |-> IF OperationOf[s] \in WithDetail THEN DetailOf[s] ELSE NoDetail]

\* _is_live()
Live(created, time) == time - created < Retention

\* The key's record, when there is one that still counts at the send's time.
HasLiveRecord(s) ==
  /\ record[KeyOf[s]] # NoRecord
  /\ Live(record[KeyOf[s]].created, now[s])

Answer(s, how, ref) ==
  /\ reply' = [reply EXCEPT ![s] = how]
  /\ result' = [result EXCEPT ![s] = ref]

Send_SkewedClock(s) ==
  /\ reply[s] = "unsent"
  /\ now' = [now EXCEPT ![s] = clock + 1]
  /\ Answer(s, "waiting", NoSend)
  /\ UNCHANGED <<clock, record, effects>>

Send(s) ==
  /\ reply[s] = "unsent"
  /\ now' = [now EXCEPT ![s] = clock]
  /\ Answer(s, "waiting", NoSend)
  /\ UNCHANGED <<clock, record, effects>>

Replay(s) ==
  /\ reply[s] = "waiting"
  /\ HasLiveRecord(s)
  /\ record[KeyOf[s]].hash = Hash(s)
  /\ Answer(s, "replayed", record[KeyOf[s]].result)
  /\ UNCHANGED <<clock, record, now, effects>>

Conflict(s) ==
  /\ reply[s] = "waiting"
  /\ HasLiveRecord(s)
  /\ record[KeyOf[s]].hash # Hash(s)
  /\ Answer(s, "conflict", NoSend)
  /\ UNCHANGED <<clock, record, now, effects>>

\* No record, or an expired one that is replaced: the business writes and the
\* new record are committed together.
Execute(s) ==
  /\ reply[s] = "waiting"
  /\ ~HasLiveRecord(s)
  /\ effects' = effects \cup {s}
  /\ record' = [record EXCEPT ![KeyOf[s]] =
       [hash |-> Hash(s), result |-> s, created |-> now[s]]]
  /\ Answer(s, "executed", s)
  /\ UNCHANGED <<clock, now>>

Fail_KeepsWrites(s) ==
  /\ reply[s] = "waiting"
  /\ effects' = effects \cup {s}
  /\ Answer(s, "failed", NoSend)
  /\ UNCHANGED <<clock, record, now>>

\* The business operation raises, or the lock is not to be had in time: the
\* transaction is rolled back, the deletion of an expired record included.
Fail(s) ==
  /\ reply[s] = "waiting"
  /\ Answer(s, "failed", NoSend)
  /\ UNCHANGED <<clock, record, now, effects>>

Expired_NoRetention(k, t) == record[k] # NoRecord /\ record[k].created <= t

\* The records purge_expired() deletes when it takes its own time to be t.
Expired(k, t) == record[k] # NoRecord /\ record[k].created <= t - Retention

\* purge_expired(), which also reads the clock before it has the lock.
Purge(t) ==
  /\ t <= clock /\ clock - t <= MaxWait
  /\ \E k \in Keys : Expired(k, t)
  /\ record' = [k \in Keys |-> IF Expired(k, t) THEN NoRecord ELSE record[k]]
  /\ UNCHANGED <<clock, now, reply, result, effects>>

\* Time passes; nobody waits for the lock longer than busy_timeout.
Tick ==
  /\ clock < MaxClock
  /\ \A s \in Sends : reply[s] = "waiting" => clock - now[s] < MaxWait
  /\ clock' = clock + 1
  /\ UNCHANGED <<record, now, reply, result, effects>>

Next ==
  \/ \E s \in Sends : Send(s) \/ Replay(s) \/ Conflict(s) \/ Execute(s) \/ Fail(s)
  \/ \E t \in 0 .. MaxClock : Purge(t)
  \/ Tick

Spec == Init /\ [][Next]_vars

-----------------------------------------------------------------------------
\* Two executions under one key lie at least the retention period apart, less
\* the time the second may have waited for the lock: a client that retries
\* within that time has its intent executed once, however the sends race with
\* each other and with the purge (service.py, module comment; E6, E8).
ExecutionsAreFarApart ==
  \A s, t \in effects :
    s # t /\ KeyOf[s] = KeyOf[t] =>
      \/ now[t] - now[s] >= Retention - MaxWait
      \/ now[s] - now[t] >= Retention - MaxWait

\* The store and the business tables agree: a record stands for writes that were
\* committed, committed writes are recorded until they have expired, and a send
\* that was refused or failed has written nothing, neither to the one nor to the
\* others.
RecordsMatchEffects ==
  /\ \A k \in Keys : record[k] # NoRecord =>
       LET s == record[k].result
       IN  /\ s \in effects
           /\ KeyOf[s] = k /\ Hash(s) = record[k].hash /\ now[s] = record[k].created
  /\ \A s \in effects :
       \/ clock >= now[s] + Retention
       \/ record[KeyOf[s]] # NoRecord /\ record[KeyOf[s]].result = s
  /\ \A s \in Sends : s \in effects <=> reply[s] = "executed"

\* A replay hands out the result of an executed request of the same key and
\* operation, however requests, retries and expiry are interleaved; for an operation
\* whose caller hashes path and body (cancel_job), of a request with the same path and
\* body too.  Of the other operations no more is true, see ReplayIsOfSameContent.
ReplayIsOfSameOperation ==
  \A s \in Sends : reply[s] = "replayed" =>
    /\ result[s] \in effects
    /\ KeyOf[result[s]] = KeyOf[s]
    /\ OperationOf[result[s]] = OperationOf[s]
    /\ OperationOf[s] \in WithDetail => DetailOf[result[s]] = DetailOf[s]

\* What the documents say of every write (T07, E5; 03, section 6): the same key with
\* another operation, path or body is refused, so a replay is of the very same request.
ReplayIsOfSameContent ==
  \A s \in Sends : reply[s] = "replayed" =>
    /\ OperationOf[result[s]] = OperationOf[s]
    /\ DetailOf[result[s]] = DetailOf[s]
=============================================================================
