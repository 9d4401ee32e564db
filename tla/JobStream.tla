----------------------------- MODULE JobStream -----------------------------
(***************************************************************************)
(* The event stream of one job (jobs/stream.py and the SSE route): a       *)
(* server-side generator polls the log, the connection may break at any    *)
(* moment, and the browser reconnects with the last sequence it received.  *)
(* The job itself is any feed, and that is what Jobs implements.           *)
(*                                                                         *)
(* The sequence of an event is its position in the feed.  A poll always    *)
(* returns the events cursor + 1 .. upto, so two numbers stand for the     *)
(* batch.  Heartbeats carry no event and are left out.                     *)
(***************************************************************************)
EXTENDS JobFeed

CONSTANTS
  Batch,      \* _BATCH: the events one poll returns at most
  MaxEvents   \* bound: transactions write while the feed is shorter than this

ASSUME BatchAssumption == Batch \in Nat \ {0}

VARIABLES
  conn,      \* the connection: "closed", "open", or "closing" by the server
  pc,        \* the generator: about to "poll", or to "yield" its batch
  cursor,    \* cursor of follow_events
  upto,      \* the last sequence of the batch
  full,      \* the batch had _BATCH events
  ending,    \* job_finished, as read by the poll
  wire,      \* sequences sent and not yet received
  received,  \* the sequences the browser received, in order
  done       \* the server has closed a stream because the job finished

reader == <<conn, pc, cursor, upto, full, ending, wire, received, done>>
allVars == <<feed, finished, conn, pc, cursor, upto, full, ending, wire, received, done>>

\* Definitions named X_Y are mutants of X: plausible mistakes that the runs are
\* shown to detect.  No action uses them.
LastEventId_Next == IF received = << >> THEN 0 ELSE received[Len(received)] + 1

\* The Last-Event-ID the browser reconnects with.
LastEventId == IF received = << >> THEN 0 ELSE received[Len(received)]

StreamTypeOK ==
  /\ feed \in Seq(Event) /\ finished \in BOOLEAN
  /\ conn \in {"closed", "open", "closing"}
  /\ pc \in {"poll", "yield"}
  /\ cursor \in 0 .. Len(feed) /\ upto \in 0 .. Len(feed)
  /\ full \in BOOLEAN /\ ending \in BOOLEAN /\ done \in BOOLEAN
  /\ wire \in Seq(1 .. Len(feed)) /\ received \in Seq(1 .. Len(feed))

StreamInit ==
  /\ FeedInit
  /\ conn = "closed" /\ pc = "poll" /\ cursor = 0 /\ upto = 0
  /\ full = FALSE /\ ending = FALSE /\ done = FALSE
  /\ wire = << >> /\ received = << >>

-----------------------------------------------------------------------------
\* watch_job(): a new generator starts after the Last-Event-ID it is given.  A
\* browser may also come back to a stream that was ended.
Connect ==
  /\ conn = "closed"
  /\ conn' = "open"
  /\ pc' = "poll"
  /\ cursor' = LastEventId
  /\ upto' = LastEventId
  /\ UNCHANGED <<feed, finished, full, ending, wire, received, done>>

Lesser(m, n) == IF m < n THEN m ELSE n

\* The last sequence a poll after sequence c returns.
PollEnd(c) == Lesser(c + Batch, Len(feed))

\* _poll(): status and events in one read transaction.
Poll ==
  /\ conn = "open" /\ pc = "poll"
  /\ upto' = PollEnd(cursor)
  /\ full' = (PollEnd(cursor) - cursor = Batch)
  /\ ending' = finished
  /\ pc' = "yield"
  /\ UNCHANGED <<feed, finished, conn, cursor, wire, received, done>>

Yield ==
  /\ conn = "open" /\ pc = "yield" /\ cursor < upto
  /\ wire' = Append(wire, cursor + 1)
  /\ cursor' = cursor + 1
  /\ UNCHANGED <<feed, finished, conn, pc, upto, full, ending, received, done>>

Exhausted_IgnoresFull == ending

\* The job has finished and a batch that was not full was the rest of its log.
Exhausted == ending /\ ~full

\* The batch is out: read on if it was full, end with the job, or else sleep
\* and poll again.
BatchDone ==
  /\ conn = "open" /\ pc = "yield" /\ cursor = upto
  /\ \/ /\ Exhausted
        /\ conn' = "closing" /\ done' = TRUE /\ pc' = pc
     \/ /\ ~Exhausted
        /\ pc' = "poll" /\ UNCHANGED <<conn, done>>
  /\ UNCHANGED <<feed, finished, cursor, upto, full, ending, wire, received>>

\* max_duration: the connection is closed after a batch, whatever the job does.
TimeLimit ==
  /\ conn = "open" /\ pc = "yield" /\ cursor = upto
  /\ ~full /\ ~ending
  /\ conn' = "closing"
  /\ UNCHANGED <<feed, finished, pc, cursor, upto, full, ending, wire, received, done>>

-----------------------------------------------------------------------------
\* The network (external): events arrive in order until the connection breaks,
\* and a connection closed by the server still delivers what is on the wire.
Deliver ==
  /\ wire # << >>
  /\ received' = Append(received, Head(wire))
  /\ wire' = Tail(wire)
  /\ UNCHANGED <<feed, finished, conn, pc, cursor, upto, full, ending, done>>

Closed ==
  /\ conn = "closing" /\ wire = << >>
  /\ conn' = "closed"
  /\ UNCHANGED <<feed, finished, pc, cursor, upto, full, ending, wire, received, done>>

\* What was on the wire is lost, and with it the end of a stream being closed.
Break ==
  /\ conn # "closed"
  /\ conn' = "closed"
  /\ wire' = << >>
  /\ done' = FALSE
  /\ UNCHANGED <<feed, finished, pc, cursor, upto, full, ending, received>>

JobWrites ==
  /\ Len(feed) < MaxEvents
  /\ Write
  /\ UNCHANGED reader

Server == Poll \/ Yield \/ BatchDone
Browser == Connect \/ Closed

StreamNext == JobWrites \/ Server \/ TimeLimit \/ Browser \/ Deliver \/ Break

StreamSpec == StreamInit /\ [][StreamNext]_allVars

\* The server keeps polling and the browser keeps reconnecting; connections
\* may break again and again, but not each of them before it brought an event.
StreamFairness ==
  /\ WF_allVars(Server)
  /\ WF_allVars(Browser)
  /\ SF_allVars(Poll)
  /\ SF_allVars(Yield)
  /\ SF_allVars(Deliver)

StreamFairSpec == StreamSpec /\ StreamFairness

-----------------------------------------------------------------------------
\* Over any number of connections the browser receives the events in order, each
\* exactly once (E20: reconnecting loses and repeats nothing), and when the server
\* has ended the stream what it received and what is on the wire are the whole log,
\* the terminal event included (stream.py, module comment).
StreamLosesNothing ==
  /\ \A i \in 1 .. Len(received) : received[i] = i
  /\ done => finished /\ Len(received) + Len(wire) = Len(feed)

\* Once the job has finished the browser gets its whole log.
BrowserCatchesUp == finished ~> Len(received) = Len(feed)
=============================================================================
