-------------------------------- MODULE Timer --------------------------------
(***************************************************************************)
(* The timers of one event loop (TimerFunc.cpp): the thread of the loop    *)
(* collects the callbacks that have expired and runs them, while callbacks *)
(* and other threads add, cancel, refresh and reset timers.                *)
(*                                                                         *)
(* m_timers is a tree ordered by m_nextCallTime, which changes while the   *)
(* timer lives.  Each entry is kept here with the deadline it was inserted *)
(* under: find() sees an entry only if that is the timer's deadline now.   *)
(*                                                                         *)
(* The order in which the callbacks of one pass run is left out, and what  *)
(* a callback does: a condition timer (addConditionTimer) is a timer whose *)
(* callback may do nothing.  The clock never goes back.                    *)
(***************************************************************************)
EXTENDS Naturals

CONSTANTS
  Timers,        \* TimerFunc objects
  Cycles,        \* periods that callers ask for
  MaxNow         \* bound: the clock stops here

ASSUME TimerAssumption == Cycles \subseteq Nat /\ MaxNow \in Nat

Stages  == {"none", "made", "queued"}
Instant == 0 .. MaxNow

VARIABLES
  now,           \* the clock
  phase, cur,    \* of a pass of the loop: where it is, the clock it read
  cbs,           \* callbacks collected by the pass and not run yet
  timers,        \* m_timers: <<timer, deadline it was inserted under>>
  stage,         \* of a timer: not made, constructed, handed to its owner
  oneshot,       \* m_oneshot
  cycle,         \* m_cycle
  next,          \* m_nextCallTime
  cb,            \* m_cb is not null
  since,         \* history: when the current period began
  fired,         \* history: the timer has been collected
  cancelled      \* history: cancel() has returned true

pass    == <<phase, cur, cbs>>
fields  == <<oneshot, cycle, next, cb>>
history == <<since, fired, cancelled>>
vars    == <<now, pass, timers, stage, fields, history>>

Entries == {<<t, next[t]>> : t \in Timers}
Armed   == {e[1] : e \in timers}
Found(t)  == <<t, next[t]>> \in timers     \* m_timers.find(shared_from_this())
Erased(t) == timers \ {<<t, next[t]>>}

Init ==
  /\ now = 0 /\ phase = "idle" /\ cur = 0
  /\ cbs = {} /\ timers = {}
  /\ stage = [t \in Timers |-> "none"]
  /\ oneshot \in [Timers -> BOOLEAN]
  /\ cycle = [t \in Timers |-> 0] /\ next = [t \in Timers |-> 0]
  /\ cb = [t \in Timers |-> FALSE]
  /\ since = [t \in Timers |-> 0]
  /\ fired = [t \in Timers |-> FALSE] /\ cancelled = [t \in Timers |-> FALSE]

-----------------------------------------------------------------------------
\* Callers: other threads, or callbacks of the loop.

\* addTimer constructs the timer, and with it the deadline, outside the lock...
Construct(t) == \E ms \in Cycles :
  /\ stage[t] = "none"
  /\ stage' = [stage EXCEPT ![t] = "made"]
  /\ cycle' = [cycle EXCEPT ![t] = ms]
  /\ next' = [next EXCEPT ![t] = now + ms]
  /\ since' = [since EXCEPT ![t] = now]
  /\ cb' = [cb EXCEPT ![t] = TRUE]
  /\ UNCHANGED <<now, pass, timers, oneshot, fired, cancelled>>

\* ... and queues it under the lock.
queue(t) ==
  /\ stage[t] = "made"
  /\ stage' = [stage EXCEPT ![t] = "queued"]
  /\ timers' = timers \cup {<<t, next[t]>>}
  /\ UNCHANGED <<now, pass, fields, history>>

\* The entry stays in the tree.
MutCancelKeeps(t) ==
  /\ stage[t] = "queued" /\ cb[t]
  /\ cb' = [cb EXCEPT ![t] = FALSE]
  /\ cancelled' = [cancelled EXCEPT ![t] = TRUE]
  /\ UNCHANGED <<now, pass, timers, stage, oneshot, cycle, next, since, fired>>

\* cancel() that finds a callback, and returns TRUE.
cancel(t) ==
  /\ stage[t] = "queued" /\ cb[t]
  /\ cb' = [cb EXCEPT ![t] = FALSE]
  /\ timers' = Erased(t)
  /\ cancelled' = [cancelled EXCEPT ![t] = TRUE]
  /\ UNCHANGED <<now, pass, stage, oneshot, cycle, next, since, fired>>

\* The deadline is changed while the timer is in the tree.
MutRefreshInPlace(t) ==
  /\ stage[t] = "queued" /\ cb[t] /\ Found(t)
  /\ next' = [next EXCEPT ![t] = now + cycle[t]]
  /\ since' = [since EXCEPT ![t] = now]
  /\ UNCHANGED <<now, pass, timers, stage, oneshot, cycle, cb, fired, cancelled>>

refresh(t) ==
  /\ stage[t] = "queued" /\ cb[t] /\ Found(t)
  /\ next' = [next EXCEPT ![t] = now + cycle[t]]
  /\ since' = [since EXCEPT ![t] = now]
  /\ timers' = Erased(t) \cup {<<t, next'[t]>>}
  /\ UNCHANGED <<now, pass, stage, oneshot, cycle, cb, fired, cancelled>>

\* m_cycle is assigned before the start of the period is computed from it.
MutCycleFirst(t) == \E ms \in Cycles, fromNow \in BOOLEAN :
  LET start == IF fromNow THEN now ELSE next[t] - ms IN
  /\ stage[t] = "queued" /\ (cycle[t] # ms \/ fromNow)
  /\ cb[t] /\ Found(t) /\ next[t] >= ms
  /\ cycle' = [cycle EXCEPT ![t] = ms]
  /\ next' = [next EXCEPT ![t] = start + ms]
  /\ since' = IF fromNow THEN [since EXCEPT ![t] = now] ELSE since
  /\ timers' = Erased(t) \cup {<<t, next'[t]>>}
  /\ UNCHANGED <<now, pass, stage, oneshot, cb, fired, cancelled>>

\* Neither the callback nor the entry is looked for: whatever is reset is armed.
MutResetRevives(t) == \E ms \in Cycles :
  /\ stage[t] = "queued"
  /\ cycle' = [cycle EXCEPT ![t] = ms]
  /\ next' = [next EXCEPT ![t] = now + ms]
  /\ since' = [since EXCEPT ![t] = now]
  /\ timers' = Erased(t) \cup {<<t, next'[t]>>}
  /\ UNCHANGED <<now, pass, stage, oneshot, cb, fired, cancelled>>

\* The early return for an unchanged period is tested without the lock.  If
\* another reset() comes between, the rest moves nothing: it is a stutter.
reset(t) == \E ms \in Cycles, fromNow \in BOOLEAN :
  LET start == IF fromNow THEN now ELSE next[t] - cycle[t] IN
  /\ stage[t] = "queued" /\ (cycle[t] # ms \/ fromNow)
  /\ cb[t] /\ Found(t)
  /\ cycle' = [cycle EXCEPT ![t] = ms]
  /\ next' = [next EXCEPT ![t] = start + ms]
  /\ since' = IF fromNow THEN [since EXCEPT ![t] = now] ELSE since
  /\ timers' = Erased(t) \cup {<<t, next'[t]>>}
  /\ UNCHANGED <<now, pass, stage, oneshot, cb, fired, cancelled>>

Tick ==
  /\ now < MaxNow /\ now' = now + 1
  /\ UNCHANGED <<pass, timers, stage, fields, history>>

-----------------------------------------------------------------------------
\* The thread of the loop.

\* The clock is read once, before the first pass.
MutStaleClock ==
  /\ phase = "idle" /\ phase' = "expire"
  /\ UNCHANGED <<now, cur, cbs, timers, stage, fields, history>>

\* The poll has returned; listExpiredCb reads the clock before it locks.
ReadClock ==
  /\ phase = "idle" /\ phase' = "expire" /\ cur' = now
  /\ UNCHANGED <<now, cbs, timers, stage, fields, history>>

Due == {e \in timers : e[2] <= cur}

\* A one-shot timer that has been collected keeps its callback.
MutKeepCallback ==
  LET expired == {e[1] : e \in Due}
      again   == {t \in expired : ~oneshot[t]} IN
  /\ phase = "expire" /\ phase' = "run"
  /\ cbs' = cbs \cup expired
  /\ next' = [t \in Timers |-> IF t \in again THEN cur + cycle[t] ELSE next[t]]
  /\ since' = [t \in Timers |-> IF t \in again THEN cur ELSE since[t]]
  /\ timers' = (timers \ Due) \cup {<<t, next'[t]>> : t \in again}
  /\ fired' = [t \in Timers |-> fired[t] \/ t \in expired]
  /\ UNCHANGED <<now, cur, stage, oneshot, cycle, cb, cancelled>>

\* listExpiredCb under the lock: periodic timers are armed again at once,
\* from the clock the pass has read.
listExpiredCb ==
  LET expired == {e[1] : e \in Due}
      again   == {t \in expired : ~oneshot[t]} IN
  /\ phase = "expire" /\ phase' = "run"
  /\ cbs' = cbs \cup expired
  /\ next' = [t \in Timers |-> IF t \in again THEN cur + cycle[t] ELSE next[t]]
  /\ since' = [t \in Timers |-> IF t \in again THEN cur ELSE since[t]]
  /\ cb' = [t \in Timers |-> cb[t] /\ t \notin expired \ again]
  /\ timers' = (timers \ Due) \cup {<<t, next'[t]>> : t \in again}
  /\ fired' = [t \in Timers |-> fired[t] \/ t \in expired]
  /\ UNCHANGED <<now, cur, stage, oneshot, cycle, cancelled>>

RunCallback == \E t \in cbs :
  /\ phase = "run"
  /\ cbs' = cbs \ {t}
  /\ UNCHANGED <<now, phase, cur, timers, stage, fields, history>>

\* The pass ends: the loop polls again.
PassEnds ==
  /\ phase = "run" /\ cbs = {} /\ phase' = "idle"
  /\ UNCHANGED <<now, cur, cbs, timers, stage, fields, history>>

Caller == \E t \in Timers : Construct(t) \/ queue(t) \/ cancel(t) \/ refresh(t) \/ reset(t)
Pass   == listExpiredCb \/ RunCallback \/ PassEnds
Next   == Caller \/ Tick \/ ReadClock \/ Pass

Spec == Init /\ [][Next]_vars

\* The thread of the loop finishes a pass it has begun, and time goes on.  That
\* the poll returns, so that a pass begins, is not assumed (EventLoop.tla).
FairSpec == Spec /\ WF_vars(Pass) /\ WF_vars(Tick)

-----------------------------------------------------------------------------
TypeOK ==
  /\ now \in Instant /\ phase \in {"idle", "expire", "run"} /\ cur \in Instant
  /\ cbs \subseteq Timers /\ (phase # "run" => cbs = {})
  /\ timers \subseteq Timers \X Nat
  /\ stage \in [Timers -> Stages]
  /\ oneshot \in [Timers -> BOOLEAN] /\ cycle \in [Timers -> Nat] /\ next \in [Timers -> Nat]
  /\ cb \in [Timers -> BOOLEAN]
  /\ since \in [Timers -> Instant]
  /\ fired \in [Timers -> BOOLEAN] /\ cancelled \in [Timers -> BOOLEAN]

\* The order of the tree is the order of the deadlines: no deadline changes
\* while its timer is in the tree, so that find() finds what was inserted and
\* a timer is in it once; and a timer that still has its callback is in it.
TreeIsOrdered ==
  /\ timers \subseteq Entries
  /\ \A t \in Timers : t \in Armed <=> stage[t] = "queued" /\ cb[t]

\* A deadline is one period after a moment the clock has shown: when the timer
\* was made, refreshed, reset from now, or last collected.  The subtraction
\* with which reset() finds that moment never wraps.
DeadlineIsAPeriodAhead == \A t \in Timers :
  since[t] <= now /\ next[t] = since[t] + cycle[t]

\* A caller whose cancel() of a one-shot timer returned TRUE may rely on it:
\* its callback has not been collected by any pass, and never will.
CancelBeatsOneShot == \A t \in Timers :
  oneshot[t] /\ cancelled[t] => ~fired[t]

\* What has been collected by a pass since the step began.
Collected == {t \in Timers : t \in cbs' /\ t \notin cbs}

\* After cancel() has returned TRUE no pass collects the timer again: a
\* periodic one runs at most once more, out of the pass under way.
CancelledStaysOut == [][\A t \in Collected : ~cancelled[t]]_vars

\* A one-shot timer is collected once in its life, whatever refresh() and
\* reset() are called on it before or after.
OneShotOnce == [][\A t \in Collected : ~(oneshot[t] /\ fired[t])]_vars

\* If the poll returns again and again, a timer whose deadline has passed is
\* collected, or taken out, or moved by its owner.
Overdue(t) == \E d \in Instant : <<t, d>> \in timers /\ d <= now
DueIsCollected ==
  ([]<><<ReadClock>>_vars) => \A t \in Timers : Overdue(t) ~> (t \in cbs \/ ~Overdue(t))

=============================================================================
