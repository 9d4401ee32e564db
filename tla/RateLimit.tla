----------------------------- MODULE RateLimit ------------------------------
(***************************************************************************)
(* The fixed window rate limiter of one process                            *)
(* (goalflow/auth/rate_limit.py).                                          *)
(*                                                                         *)
(* A request reads the clock and then waits for the limiter's lock, so the *)
(* readings may reach the table of windows out of order.  The table drops  *)
(* old windows of all slots whenever it has become long.                   *)
(***************************************************************************)
EXTENDS Naturals, FiniteSets

CONSTANTS
  Slots,         \* (rule name, key) pairs
  Limit,         \* RateLimitRule.limit of each slot's rule
  Window,        \* RateLimitRule.window of each slot's rule
  LongestWindow, \* _LONGEST_WINDOW, kept by hand
  PruneAbove,    \* _PRUNE_THRESHOLD
  Threads,       \* the threads that serve requests
  NoSlot,
  MaxLockWait,       \* bound of a thread's wait for the lock
  MaxReading     \* bound of the clock

ASSUME RateLimitAssumption ==
  /\ Limit \in [Slots -> Nat \ {0}] /\ Window \in [Slots -> Nat \ {0}]
  /\ LongestWindow \in Nat /\ \A s \in Slots : Window[s] <= LongestWindow
  /\ PruneAbove \in Nat /\ MaxLockWait \in Nat /\ MaxReading \in Nat /\ NoSlot \notin Slots

VARIABLES
  windows,  \* _windows; used = 0 without an entry
  hitter,   \* the slot each thread is about to hit, and its reading of the clock
  uptime,   \* the monotonic clock
  opened,   \* history: the reading that opened the last window of a slot
  granted,  \* history: the hits granted since then
  early     \* history: a window was opened before the last one had passed

limitVars == <<windows, hitter, uptime, opened, granted, early>>

Readings == 0 .. MaxReading
NoWindow == [start |-> 0, used |-> 0]
Outside == [slot |-> NoSlot, now |-> 0]

LimitTypeOK ==
  /\ windows \in [Slots -> [start : Readings, used : Nat]]
  /\ hitter \in [Threads -> [slot : Slots \cup {NoSlot}, now : Readings]]
  /\ uptime \in Readings
  /\ opened \in [Slots -> Readings] /\ granted \in [Slots -> Nat]
  /\ early \in [Slots -> BOOLEAN]

LimitInit ==
  /\ windows = [s \in Slots |-> NoWindow]
  /\ hitter = [t \in Threads |-> Outside]
  /\ uptime = 0
  /\ opened = [s \in Slots |-> 0] /\ granted = [s \in Slots |-> 0]
  /\ early = [s \in Slots |-> FALSE]

-----------------------------------------------------------------------------
\* Definitions named X_Y are mutants of X: plausible mistakes that the runs are
\* shown to detect.  No action uses them.

\* hit(), before the lock: now = self._clock().
Arrive(t, s) ==
  /\ hitter[t] = Outside
  /\ hitter' = [hitter EXCEPT ![t] = [slot |-> s, now |-> uptime]]
  /\ UNCHANGED <<windows, uptime, opened, granted, early>>

Entries == {s \in Slots : windows[s].used > 0}

Horizon_TooShort(s) == 1

\* How old the windows of a slot must be to be dropped.
Horizon(s) == LongestWindow

\* The table at a reading of the clock: too long, it loses its old windows.
Pruned(now) ==
  [s \in Slots |-> IF Cardinality(Entries) > PruneAbove /\ windows[s].start + Horizon(s) <= now
                   THEN NoWindow ELSE windows[s]]

\* The window a hit counts in: the slot's own, or a new one once that has passed.
CurrentWindow(w, s, now) ==
  IF w.used = 0 \/ now >= w.start + Window[s] THEN [start |-> now, used |-> 0] ELSE w

\* hit(), with the lock: counted, or RATE_LIMITED.  A refused hit may have pruned
\* the table.
Hit(t) ==
  LET s == hitter[t].slot
      now == hitter[t].now
      w == CurrentWindow(Pruned(now)[s], s, now)
      open == w.used = 0
  IN  /\ s # NoSlot
      /\ hitter' = [hitter EXCEPT ![t] = Outside]
      /\ \/ /\ w.used >= Limit[s]
            /\ windows' = Pruned(now)
            /\ UNCHANGED <<opened, granted, early>>
         \/ /\ w.used < Limit[s]
            /\ windows' = [Pruned(now) EXCEPT ![s] = [start |-> w.start, used |-> w.used + 1]]
            /\ opened' = [opened EXCEPT ![s] = IF open THEN now ELSE @]
            /\ granted' = [granted EXCEPT ![s] = IF open THEN 1 ELSE @ + 1]
            /\ early' = [early EXCEPT ![s] =
                 @ \/ (open /\ granted[s] > 0 /\ now + MaxLockWait < opened[s] + Window[s])]
      /\ UNCHANGED uptime

\* No thread waits longer than MaxLockWait for the lock.
LimitTick ==
  /\ uptime < MaxReading
  /\ \A t \in Threads : hitter[t] # Outside => uptime < hitter[t].now + MaxLockWait
  /\ uptime' = uptime + 1
  /\ UNCHANGED <<windows, hitter, opened, granted, early>>

LimitNext ==
  \/ \E t \in Threads : (\E s \in Slots : Arrive(t, s)) \/ Hit(t)
  \/ LimitTick

LimitSpec == LimitInit /\ [][LimitNext]_limitVars

-----------------------------------------------------------------------------
\* A slot is granted no more than its rule's limit in a window, and its next
\* window does not open before this one has passed, up to the time a hit may have
\* waited for the lock: neither a late hit nor the pruning of the table, which
\* other slots may cause, gives anyone a fresh count early.
LimitHolds ==
  \A s \in Slots : granted[s] <= Limit[s] /\ ~early[s]
=============================================================================
