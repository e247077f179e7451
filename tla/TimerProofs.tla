----------------------------- MODULE TimerProofs -----------------------------
(***************************************************************************)
(* Proofs about the timers of Timer.tla, for any set of timers, any set of *)
(* periods and a clock of any length.                                      *)
(*                                                                         *)
(* The strengthening of the properties is Inv: the tree holds exactly the  *)
(* queued timers that have a callback, each under its deadline (Tree), and *)
(* a callback is gone once the timer is cancelled, or is a one-shot one    *)
(* that has been collected (Spent).                                        *)
(***************************************************************************)
EXTENDS Timer, TLAPS

\* Timers that the tree must hold.
Active(t) == stage[t] = "queued" /\ cb[t]

Tree == \A t \in Timers, d \in Nat : <<t, d>> \in timers <=> d = next[t] /\ Active(t)

Spent == \A t \in Timers :
  /\ stage[t] = "made" => cb[t]
  /\ cancelled[t] => ~cb[t] /\ stage[t] = "queued"
  /\ fired[t] => stage[t] = "queued"
  /\ oneshot[t] /\ fired[t] => ~cb[t]

Inv ==
  /\ TypeOK /\ cur <= now
  /\ Tree /\ Spent
  /\ DeadlineIsAPeriodAhead
  /\ CancelBeatsOneShot

-----------------------------------------------------------------------------
\* The entries and the armed timers, said of the tree and said of the timers,
\* are the same.
LEMMA TreeOrdered ==
  ASSUME TypeOK, Tree PROVE TreeIsOrdered
<1>1. timers \subseteq Entries
  <2> SUFFICES ASSUME NEW e \in timers PROVE e \in Entries
    OBVIOUS
  <2>1. PICK t \in Timers, d \in Nat : e = <<t, d>>
    BY DEF TypeOK
  <2>2. d = next[t]
    BY <2>1 DEF Tree
  <2> QED BY <2>1, <2>2 DEF Entries
<1>2. ASSUME NEW t \in Timers PROVE t \in Armed <=> stage[t] = "queued" /\ cb[t]
  <2>1. next[t] \in Nat
    BY DEF TypeOK
  <2>2. ASSUME t \in Armed PROVE Active(t)
    <3>1. PICK e \in timers : t = e[1]
      BY <2>2 DEF Armed
    <3>2. PICK u \in Timers, d \in Nat : e = <<u, d>>
      BY DEF TypeOK
    <3>3. u = t
      BY <3>1, <3>2
    <3> QED BY <3>2, <3>3 DEF Tree
  <2>3. ASSUME Active(t) PROVE t \in Armed
    <3>1. <<t, next[t]>> \in timers
      BY <2>1, <2>3 DEF Tree
    <3>2. <<t, next[t]>>[1] = t
      OBVIOUS
    <3> QED BY <3>1, <3>2 DEF Armed
  <2> QED BY <2>2, <2>3 DEF Active
<1> QED BY <1>1, <1>2 DEF TreeIsOrdered

\* What listExpiredCb takes out of the tree: the active timers that are due.
LEMMA DueTimers ==
  ASSUME TypeOK, Tree, NEW t
  PROVE  t \in {e[1] : e \in Due} <=> t \in Timers /\ Active(t) /\ next[t] <= cur
<1>1. ASSUME t \in {e[1] : e \in Due}
      PROVE  t \in Timers /\ Active(t) /\ next[t] <= cur
  <2>1. PICK e \in timers : t = e[1] /\ e[2] <= cur
    BY <1>1 DEF Due
  <2>2. PICK u \in Timers, d \in Nat : e = <<u, d>>
    BY DEF TypeOK
  <2>3. u = t /\ d <= cur
    BY <2>1, <2>2
  <2> QED BY <2>2, <2>3 DEF Tree
<1>2. ASSUME t \in Timers, Active(t), next[t] <= cur
      PROVE  t \in {e[1] : e \in Due}
  <2>1. <<t, next[t]>> \in timers
    BY <1>2 DEF Tree, TypeOK
  <2>2. <<t, next[t]>>[1] = t /\ <<t, next[t]>>[2] = next[t]
    OBVIOUS
  <2>3. <<t, next[t]>> \in Due
    BY <1>2, <2>1, <2>2 DEF Due
  <2> QED BY <2>2, <2>3
<1> QED BY <1>1, <1>2

-----------------------------------------------------------------------------
LEMMA InitInv == Init => Inv
BY TimerAssumption DEF Init, Inv, TypeOK, Tree, Active, Spent, DeadlineIsAPeriodAhead,
   CancelBeatsOneShot, Instant, Stages

\* What every step of a caller keeps, given what it does to one timer.
LEMMA ConstructInv ==
  ASSUME Inv, NEW t \in Timers, Construct(t) PROVE Inv'
BY TimerAssumption DEF Construct, Inv, TypeOK, Tree, Active, Spent, DeadlineIsAPeriodAhead,
   CancelBeatsOneShot, Instant, Stages, pass

LEMMA QueueInv ==
  ASSUME Inv, NEW t \in Timers, queue(t) PROVE Inv'
<1>1. /\ stage[t] = "made" /\ stage' = [stage EXCEPT ![t] = "queued"]
      /\ timers' = timers \cup {<<t, next[t]>>}
      /\ UNCHANGED <<now, phase, cur, cbs, oneshot, cycle, next, cb, since, fired, cancelled>>
  BY DEF queue, pass, fields, history
<1>2. next[t] \in Nat /\ stage' \in [Timers -> Stages]
  BY <1>1 DEF Inv, TypeOK, Stages
<1>3. TypeOK'
  BY <1>1, <1>2 DEF Inv, TypeOK
<1>4. ~cancelled[t] /\ ~fired[t] /\ cb[t]
  BY <1>1 DEF Inv, Spent
<1>5. Tree'
  <2> SUFFICES ASSUME NEW u \in Timers, NEW d \in Nat
               PROVE  <<u, d>> \in timers' <=> d = next[u] /\ Active(u)'
    BY <1>1 DEF Tree
  <2>1. <<u, d>> \in timers' <=> <<u, d>> \in timers \/ (u = t /\ d = next[t])
    BY <1>1
  <2>2. CASE u = t
    BY <1>1, <1>3, <1>4, <2>1, <2>2 DEF Inv, Tree, TypeOK, Active
  <2>3. CASE u # t
    BY <1>1, <2>1, <2>3 DEF Inv, Tree, TypeOK, Active
  <2> QED BY <2>2, <2>3
<1>6. Spent'
  BY <1>1 DEF Inv, Spent, TypeOK
<1> QED
  BY <1>1, <1>3, <1>5, <1>6 DEF Inv, DeadlineIsAPeriodAhead, CancelBeatsOneShot

LEMMA CancelInv ==
  ASSUME Inv, NEW t \in Timers, cancel(t) PROVE Inv'
BY DEF cancel, Erased, Inv, TypeOK, Tree, Active, Spent, DeadlineIsAPeriodAhead,
   CancelBeatsOneShot, Instant, Stages, pass

LEMMA RefreshInv ==
  ASSUME Inv, NEW t \in Timers, refresh(t) PROVE Inv'
BY DEF refresh, Erased, Found, Inv, TypeOK, Tree, Active, Spent, DeadlineIsAPeriodAhead,
   CancelBeatsOneShot, Instant, Stages, pass

LEMMA ResetInv ==
  ASSUME Inv, NEW t \in Timers, reset(t) PROVE Inv'
<1>1. PICK ms \in Cycles, fromNow \in BOOLEAN :
        /\ cb[t] /\ Found(t) /\ stage[t] = "queued"
        /\ cycle' = [cycle EXCEPT ![t] = ms]
        /\ next' = [next EXCEPT ![t] = (IF fromNow THEN now ELSE next[t] - cycle[t]) + ms]
        /\ since' = IF fromNow THEN [since EXCEPT ![t] = now] ELSE since
        /\ timers' = Erased(t) \cup {<<t, next'[t]>>}
        /\ UNCHANGED <<now, pass, stage, oneshot, cb, fired, cancelled>>
  BY DEF reset
<1>2. ms \in Nat
  BY TimerAssumption
<1>3. now \in Nat /\ since[t] \in Nat /\ cycle[t] \in Nat /\ next[t] = since[t] + cycle[t]
  BY DEF Inv, TypeOK, Instant, DeadlineIsAPeriodAhead
<1>4. next'[t] = since'[t] + ms /\ since'[t] \in Instant
  BY <1>1, <1>2, <1>3 DEF Inv, TypeOK
<1>5. /\ next' = [next EXCEPT ![t] = since'[t] + ms]
      /\ since' = [since EXCEPT ![t] = since'[t]]
      /\ since'[t] <= now
  <2>1. since[t] <= now
    BY DEF Inv, DeadlineIsAPeriodAhead
  <2>2. CASE fromNow
    BY <1>1, <1>3, <1>4, <2>2 DEF Inv, TypeOK
  <2>3. CASE ~fromNow
    <3>1. since' = since /\ since = [since EXCEPT ![t] = since[t]]
      BY <1>1, <2>3 DEF Inv, TypeOK
    <3>2. next[t] - cycle[t] = since[t]
      BY <1>3
    <3> QED BY <1>1, <2>1, <2>3, <3>1, <3>2
  <2> QED BY <2>2, <2>3
<1>6. TypeOK'
  <2>1. next'[t] \in Nat
    BY <1>2, <1>4 DEF Instant
  <2>2. timers' \subseteq Timers \X Nat
    BY <1>1, <2>1 DEF Erased, Inv, TypeOK
  <2> QED BY <1>1, <1>2, <1>4, <1>5, <2>1, <2>2 DEF Inv, TypeOK, pass
<1>7. Tree'
  <2> SUFFICES ASSUME NEW u \in Timers, NEW d \in Nat
               PROVE  <<u, d>> \in timers' <=> d = next'[u] /\ Active(u)'
    BY DEF Tree
  <2>1. <<u, d>> \in timers' <=>
          \/ <<u, d>> \in timers /\ ~(u = t /\ d = next[t])
          \/ u = t /\ d = next'[t]
    BY <1>1 DEF Erased
  <2>2. CASE u = t
    BY <1>1, <2>1, <2>2 DEF Inv, Tree, TypeOK, Active
  <2>3. CASE u # t
    BY <1>1, <2>1, <2>3 DEF Inv, Tree, TypeOK, Active
  <2> QED BY <2>2, <2>3
<1>8. Spent' /\ CancelBeatsOneShot'
  BY <1>1 DEF Inv, Spent, CancelBeatsOneShot, TypeOK
<1>9. DeadlineIsAPeriodAhead' /\ (cur <= now)'
  BY <1>1, <1>2, <1>4, <1>5 DEF Inv, DeadlineIsAPeriodAhead, TypeOK, pass
<1> QED BY <1>6, <1>7, <1>8, <1>9 DEF Inv

LEMMA TickInv ==
  ASSUME Inv, Tick PROVE Inv'
BY TimerAssumption DEF Tick, Inv, TypeOK, Tree, Active, Spent, DeadlineIsAPeriodAhead,
   CancelBeatsOneShot, Instant, Stages, pass, fields, history

LEMMA ReadClockInv ==
  ASSUME Inv, ReadClock PROVE Inv'
BY DEF ReadClock, Inv, TypeOK, Tree, Active, Spent, DeadlineIsAPeriodAhead,
   CancelBeatsOneShot, Instant, Stages, fields, history

LEMMA RunInv ==
  ASSUME Inv, RunCallback \/ PassEnds PROVE Inv'
BY DEF RunCallback, PassEnds, Inv, TypeOK, Tree, Active, Spent, DeadlineIsAPeriodAhead,
   CancelBeatsOneShot, Instant, Stages, fields, history

\* A pass takes out what is due and puts the periodic ones back in.
LEMMA ExpireInv ==
  ASSUME Inv, listExpiredCb PROVE Inv'
<1> DEFINE expired == {e[1] : e \in Due}
           again   == {t \in expired : ~oneshot[t]}
<1>1. \A t : t \in expired <=> t \in Timers /\ Active(t) /\ next[t] <= cur
  BY DueTimers DEF Inv
<1>2. \A t \in Timers : t \in again <=> t \in expired /\ ~oneshot[t]
  OBVIOUS
<1>3. /\ phase' = "run" /\ cbs' = cbs \cup expired
      /\ next' = [t \in Timers |-> IF t \in again THEN cur + cycle[t] ELSE next[t]]
      /\ since' = [t \in Timers |-> IF t \in again THEN cur ELSE since[t]]
      /\ cb' = [t \in Timers |-> cb[t] /\ t \notin expired \ again]
      /\ timers' = (timers \ Due) \cup {<<t, next'[t]>> : t \in again}
      /\ fired' = [t \in Timers |-> fired[t] \/ t \in expired]
      /\ UNCHANGED <<now, cur, stage, oneshot, cycle, cancelled>>
  BY DEF listExpiredCb
<1>4. again \subseteq Timers /\ expired \subseteq Timers
  BY <1>1
<1> HIDE DEF expired, again
<1>5. next' \in [Timers -> Nat]
  BY <1>3, <1>4 DEF Inv, TypeOK, Instant
<1>6. timers' \subseteq Timers \X Nat
  BY <1>3, <1>4, <1>5 DEF Inv, TypeOK
<1>7. TypeOK'
  BY <1>3, <1>4, <1>5, <1>6 DEF Inv, TypeOK
<1>8. ASSUME NEW t \in Timers, NEW d \in Nat
      PROVE  <<t, d>> \in timers' <=> d = next'[t] /\ Active(t)'
  <2>1. <<t, d>> \in {<<u, next'[u]>> : u \in again} <=> t \in again /\ d = next'[t]
    OBVIOUS
  <2>2. <<t, d>> \in timers \ Due <=> d = next[t] /\ Active(t) /\ ~(d <= cur)
    BY DEF Due, Inv, Tree
  <2>3. <<t, d>> \in timers' <=>
          \/ d = next[t] /\ Active(t) /\ ~(next[t] <= cur)
          \/ t \in again /\ d = next'[t]
    BY <1>3, <2>1, <2>2
  <2>4. CASE t \in again
    BY <2>3, <2>4, <1>1, <1>2, <1>3 DEF Active
  <2>5. CASE t \notin again
    BY <2>3, <2>5, <1>1, <1>2, <1>3 DEF Active
  <2> QED BY <2>4, <2>5
<1>9. Tree'
  BY <1>8 DEF Tree
<1>10. Spent'
  BY <1>1, <1>2, <1>3 DEF Inv, Spent, Active, TypeOK
<1>11. (DeadlineIsAPeriodAhead /\ cur <= now)'
  BY <1>3, <1>4 DEF Inv, DeadlineIsAPeriodAhead, TypeOK, Instant
<1>12. CancelBeatsOneShot'
  BY <1>1, <1>3 DEF Inv, CancelBeatsOneShot, Spent, Active, TypeOK
<1> QED BY <1>7, <1>9, <1>10, <1>11, <1>12 DEF Inv

LEMMA StepInv == Inv /\ [Next]_vars => Inv'
<1> SUFFICES ASSUME Inv, [Next]_vars PROVE Inv'
  OBVIOUS
<1>1. CASE Caller
  BY <1>1, ConstructInv, QueueInv, CancelInv, RefreshInv, ResetInv DEF Caller
<1>2. CASE Tick
  BY <1>2, TickInv
<1>3. CASE ReadClock
  BY <1>3, ReadClockInv
<1>4. CASE Pass
  BY <1>4, ExpireInv, RunInv DEF Pass
<1>5. CASE UNCHANGED vars
  BY <1>5 DEF vars, Inv, TypeOK, Tree, Active, Spent, DeadlineIsAPeriodAhead,
     CancelBeatsOneShot, pass, fields, history
<1> QED BY <1>1, <1>2, <1>3, <1>4, <1>5 DEF Next

LEMMA Invariance == Spec => []Inv
BY InitInv, StepInv, PTL DEF Spec

\* Timer.TypeOK: the bounds of the state; callbacks are held only by a pass
\* that is running them.
THEOREM TimerTypeCorrect == Spec => []TypeOK
BY Invariance, PTL DEF Inv

\* Timer.TreeIsOrdered: refresh(), reset() and listExpiredCb change a deadline
\* only while the timer is out of the tree, and lose no timer that is active.
THEOREM TimerTreeIsOrdered == Spec => []TreeIsOrdered
<1>1. Inv => TreeIsOrdered
  BY TreeOrdered DEF Inv
<1> QED BY <1>1, Invariance, PTL

\* Timer.DeadlineIsAPeriodAhead: m_nextCallTime - m_cycle in reset() is a moment
\* the clock has shown, so the unsigned subtraction does not wrap.
THEOREM TimerDeadlines == Spec => []DeadlineIsAPeriodAhead
BY Invariance, PTL DEF Inv

\* Timer.CancelBeatsOneShot: a one-shot timer is cancelled or collected, never
\* both.
THEOREM TimerCancelBeatsOneShot == Spec => []CancelBeatsOneShot
BY Invariance, PTL DEF Inv

\* Timer.CancelledStaysOut: no pass collects a timer whose cancel() has
\* returned TRUE.
THEOREM TimerCancelledStaysOut == Spec => CancelledStaysOut
<1> DEFINE Out == \A t \in Collected : ~cancelled[t]
<1>1. Inv /\ [Next]_vars => [Out]_vars
  <2> SUFFICES ASSUME Inv, Next PROVE Out
    BY DEF vars
  <2> SUFFICES ASSUME NEW t \in Timers, t \in cbs', t \notin cbs PROVE ~cancelled[t]
    BY DEF Collected
  <2>1. listExpiredCb
    BY DEF Next, Caller, Tick, ReadClock, Pass, RunCallback, PassEnds, Construct, queue,
       cancel, refresh, reset, pass
  <2>2. t \in {e[1] : e \in Due}
    BY <2>1 DEF listExpiredCb
  <2>3. Active(t)
    BY <2>2, DueTimers DEF Inv
  <2> QED BY <2>3 DEF Inv, Spent, Active
<1> QED BY <1>1, Invariance, PTL DEF Spec, CancelledStaysOut

\* Timer.OneShotOnce: a one-shot timer is collected once in its life.
THEOREM TimerOneShotOnce == Spec => OneShotOnce
<1> DEFINE Once == \A t \in Collected : ~(oneshot[t] /\ fired[t])
<1>1. Inv /\ [Next]_vars => [Once]_vars
  <2> SUFFICES ASSUME Inv, Next PROVE Once
    BY DEF vars
  <2> SUFFICES ASSUME NEW t \in Timers, t \in cbs', t \notin cbs
               PROVE  ~(oneshot[t] /\ fired[t])
    BY DEF Collected
  <2>1. listExpiredCb
    BY DEF Next, Caller, Tick, ReadClock, Pass, RunCallback, PassEnds, Construct, queue,
       cancel, refresh, reset, pass
  <2>2. t \in {e[1] : e \in Due}
    BY <2>1 DEF listExpiredCb
  <2>3. Active(t)
    BY <2>2, DueTimers DEF Inv
  <2> QED BY <2>3 DEF Inv, Spent, Active
<1> QED BY <1>1, Invariance, PTL DEF Spec, OneShotOnce

=============================================================================
