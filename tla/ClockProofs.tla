---------------------------- MODULE ClockProofs ----------------------------
(***************************************************************************)
(* What depends on the tick counter, for any number of tasks: software     *)
(* timers, event groups and the tickless idle task.                        *)
(***************************************************************************)
EXTENDS MCClock, SchedulerProofs

-----------------------------------------------------------------------------
(* Software timers.                                                        *)

Half == TickModulus \div 2

TimerRecord ==
    [in_use : BOOLEAN, active : BOOLEAN, auto_reload : BOOLEAN,
     period_ms : Period \cup {0}, deadline_ms : Time, left : Int]

(* The deadline of timer x lies x.left milliseconds ahead of now.          *)
Counting(x, now) ==
    /\ x \in TimerRecord
    /\ x.in_use => x.period_ms \in Period
    /\ x.active => x.in_use /\ x.deadline_ms = (now + x.left) % TickModulus

(* ... and less than half the range of the tick counter, as the signed     *)
(* comparison needs it.                                                    *)
Ahead(x, now) == Counting(x, now) /\ (x.active => x.left \in 1 .. Half - 1)

(* The inductive invariant of the timers.                                  *)
TimerInv ==
    /\ SchedInv
    /\ s_timers = [i \in Timers |-> s_timers[i]]
    /\ \A i \in Timers : Ahead(s_timers[i], s_ticks)
    /\ fired \subseteq Timers \X {0}

(* The range of the tick counter ...                                       *)
LEMMA TickRange ==
    /\ TickModulus \in Nat /\ TickModulus > 0 /\ Half \in Nat /\ 2 * Half <= TickModulus
<1>1. TickModulus \in Nat /\ TickModulus > 0
  BY SchedulerAssumption
<1>2. Half \in Nat /\ 2 * Half <= TickModulus
  BY <1>1 DEF Half
<1> QED BY <1>1, <1>2

(* ... and of a period.                                                    *)
LEMMA PeriodRange ==
    ASSUME NEW p \in Period
    PROVE  p \in Int /\ p \in 1 .. Half - 1 /\ 0 + p = p
BY TimerAssumption, TickRange DEF Half

(* (int32_t)d is the number closest to zero that d is equal to modulo 2^32.*)
LEMMA SignedValue ==
    ASSUME NEW e \in Int, NEW d \in Int, d % TickModulus = e % TickModulus,
           e >= -Half, e < Half
    PROVE  Signed(d) = e
<1>1. TickModulus \in Nat /\ TickModulus > 0 /\ Half \in Nat /\ 2 * Half <= TickModulus
  BY TickRange
<1>2. CASE e >= 0
  <2>1. e \in 0 .. TickModulus - 1 /\ e = 0 * TickModulus + e /\ 0 \in Int
    BY <1>1, <1>2
  <2>2. e % TickModulus = e
    BY <1>1, <2>1, ModUnique
  <2> QED BY <2>2 DEF Signed, Half
<1>3. CASE e < 0
  <2>1. e + TickModulus \in 0 .. TickModulus - 1 /\ e = (-1) * TickModulus + (e + TickModulus) /\ -1 \in Int
    BY <1>1, <1>3
  <2>2. e % TickModulus = e + TickModulus
    BY <1>1, <2>1, ModUnique
  <2>3. ~(e + TickModulus < Half) /\ (e + TickModulus) - TickModulus = e
    BY <1>1
  <2> QED BY <2>2, <2>3 DEF Signed, Half
<1> QED BY <1>2, <1>3

(* The tests of timer_service_tick and timer_get_next_ready_in_ms see the  *)
(* distance to the deadline, across the wrap of the tick counter.          *)
LEMMA DistanceSeen ==
    ASSUME NEW x, NEW now \in Int, Counting(x, now), x.active,
           x.left >= -Half, x.left <= Half
    PROVE  /\ x.left > -Half => Signed(now - x.deadline_ms) = -x.left
           /\ x.left < Half => Signed(x.deadline_ms - now) = x.left
<1> DEFINE l == x.left
<1>1. l \in Int /\ x.deadline_ms = (now + l) % TickModulus /\ x.deadline_ms \in Int
  BY DEF Counting, TimerRecord, Time
<1>2. TickModulus \in Nat /\ TickModulus > 0 /\ Half \in Nat
  BY TickRange
<1> HIDE DEF l
<1>3. now + l \in Int /\ now - (now + l) = -l /\ (now + l) - now = l /\ -l \in Int
  BY <1>1
<1>4. /\ (now - x.deadline_ms) % TickModulus = (-l) % TickModulus
      /\ (x.deadline_ms - now) % TickModulus = l % TickModulus
  <2>1. \A y \in Int : /\ (now - (y % TickModulus)) % TickModulus = (now - y) % TickModulus
                       /\ ((y % TickModulus) - now) % TickModulus = (y - now) % TickModulus
    BY <1>2, DifferenceWraps
  <2> QED BY <1>1, <1>3, <2>1
<1>5. now - x.deadline_ms \in Int /\ x.deadline_ms - now \in Int
  BY <1>1
<1>6. l > -Half => Signed(now - x.deadline_ms) = -l
  <2> HAVE l > -Half
  <2>1. -l >= -Half /\ -l < Half
    BY <1>1, <1>2 DEF l
  <2> QED BY <1>3, <1>4, <1>5, <2>1, SignedValue
<1>7. l < Half => Signed(x.deadline_ms - now) = l
  <2> HAVE l < Half
  <2>1. l >= -Half
    BY DEF l
  <2> QED BY <1>1, <1>4, <1>5, <2>1, SignedValue
<1> QED BY <1>6, <1>7 DEF l

(* timer_start counts down from the period.                                *)
LEMMA StartingAhead ==
    ASSUME NEW x \in TimerRecord, x.in_use, x.period_ms \in Period, NEW now \in Time
    PROVE  Ahead(Starting(x, now), now)
<1> DEFINE p == x.period_ms
           dl == (now + p) % TickModulus
<1>1. p \in 1 .. Half - 1 /\ p \in Int /\ now \in Int /\ TickModulus \in Nat /\ TickModulus > 0
  BY TickRange, PeriodRange DEF Time
<1>2. dl \in Time
  BY <1>1 DEF Time
<1>3. Starting(x, now) = [x EXCEPT !.deadline_ms = dl, !.left = p, !.active = TRUE]
  BY DEF Starting, Deadline
<1> HIDE DEF dl
<1>4. /\ Starting(x, now) \in TimerRecord /\ Starting(x, now).deadline_ms = dl
      /\ Starting(x, now).left = p /\ Starting(x, now).in_use /\ Starting(x, now).period_ms = p
  BY <1>1, <1>2, <1>3 DEF TimerRecord
<1> QED BY <1>1, <1>4 DEF Ahead, Counting, dl

(* timer_stop, timer_delete and timer_set_period leave no deadline that    *)
(* counts, or the one there was.                                           *)
LEMMA StoppingAhead ==
    ASSUME NEW x, NEW now \in Time, x \in TimerRecord, x.in_use => x.period_ms \in Period
    PROVE  /\ Ahead(Stopping(x), now) /\ ~Stopping(x).active
           /\ Ahead(FreeTimer, now) /\ ~FreeTimer.active
<1>1. 0 \in Time /\ 0 \in Int
  BY TickRange DEF Time
<1>2. FreeTimer \in TimerRecord /\ ~FreeTimer.in_use /\ ~FreeTimer.active
  BY <1>1 DEF FreeTimer, TimerRecord
<1>3. /\ Stopping(x) \in TimerRecord /\ ~Stopping(x).active /\ Stopping(x).period_ms = x.period_ms
      /\ Stopping(x).in_use <=> x.in_use
  BY <1>1 DEF Stopping, TimerRecord
<1> QED BY <1>2, <1>3 DEF Ahead, Counting

(* n milliseconds pass.                                                    *)
LEMMA AgedCounting ==
    ASSUME NEW pool, NEW i \in Timers, NEW now \in Time, Counting(pool[i], now), NEW n \in Nat
    PROVE  LET x == pool[i]  y == Aged(pool, n)[i] IN
           /\ Counting(y, (now + n) % TickModulus)
           /\ y.active <=> x.active
           /\ x.active => y.left = x.left - n
           /\ y.in_use <=> x.in_use
<1> DEFINE x == pool[i]
           y == Aged(pool, n)[i]
           v == IF x.active THEN x.left - n ELSE x.left
<1>1. y = [x EXCEPT !.left = v]
  BY DEF Aged
<1>2. x \in TimerRecord
  BY DEF Counting
<1> HIDE DEF x, y
<1>3. x.left \in Int /\ now \in Int /\ v \in Int /\ TickModulus \in Nat /\ TickModulus > 0
  BY <1>2, TickRange DEF TimerRecord, Time
<1> HIDE DEF v
<1>4. /\ y \in TimerRecord /\ (y.active <=> x.active) /\ (y.in_use <=> x.in_use)
      /\ y.left = v /\ y.deadline_ms = x.deadline_ms /\ y.period_ms = x.period_ms
  BY <1>1, <1>2, <1>3 DEF TimerRecord
<1>5. x.active => y.left = x.left - n
  BY <1>4 DEF v
<1>6. x.active => x.deadline_ms = (((now + n) % TickModulus) + (x.left - n)) % TickModulus
  <2>1. now + n \in Int /\ x.left - n \in Int /\ now + x.left = (now + n) + (x.left - n)
    BY <1>3
  <2>2. \A a, b \in Int : ((a % TickModulus) + b) % TickModulus = (a + b) % TickModulus
    BY <1>3, SumWraps
  <2>3. (((now + n) % TickModulus) + (x.left - n)) % TickModulus = ((now + n) + (x.left - n)) % TickModulus
    BY <2>1, <2>2
  <2> QED BY <2>1, <2>3 DEF Counting, x
<1>7. x.in_use => x.period_ms \in Period
  BY DEF Counting, x
<1>8. x.active => x.in_use
  BY DEF Counting, x
<1>9. Counting(y, (now + n) % TickModulus)
  BY <1>4, <1>5, <1>6, <1>7, <1>8 DEF Counting
<1> QED BY <1>4, <1>5, <1>9 DEF x, y

(* An auto-reload timer expires next a period after its deadline.          *)
LEMMA RearmCounting ==
    ASSUME NEW x, NEW now \in Time, Counting(x, now), x.active
    PROVE  LET y == Rearm(x) IN
           /\ Counting(y, now)
           /\ y.active <=> x.auto_reload
           /\ y.active => y.left = x.left + x.period_ms
           /\ y.in_use /\ y.period_ms = x.period_ms
<1> DEFINE dl == (x.deadline_ms + x.period_ms) % TickModulus
           l == x.left + x.period_ms
<1>1. x \in TimerRecord /\ x.in_use /\ x.period_ms \in Period /\ x.deadline_ms = (now + x.left) % TickModulus
  BY DEF Counting
<1>2. x.left \in Int /\ x.period_ms \in Int /\ now \in Int /\ TickModulus \in Nat /\ TickModulus > 0
  BY <1>1, TickRange, PeriodRange DEF TimerRecord, Time
<1>3. x.deadline_ms \in Int /\ dl \in Time /\ l \in Int
  BY <1>1, <1>2 DEF Time, TimerRecord
<1>4. dl = (now + l) % TickModulus
  <2>1. \A a, b \in Int : ((a % TickModulus) + b) % TickModulus = (a + b) % TickModulus
    BY <1>2, SumWraps
  <2>2. now + x.left \in Int /\ (now + x.left) + x.period_ms = now + l
    BY <1>2
  <2>3. (((now + x.left) % TickModulus) + x.period_ms) % TickModulus
          = ((now + x.left) + x.period_ms) % TickModulus
    BY <1>2, <2>1, <2>2
  <2> HIDE DEF l
  <2> QED BY <1>1, <2>2, <2>3
<1> HIDE DEF dl, l
<1>5. CASE x.auto_reload
  <2>1. Rearm(x) = [x EXCEPT !.deadline_ms = dl, !.left = l]
    BY <1>5 DEF Rearm, dl, l
  <2>2. /\ Rearm(x) \in TimerRecord /\ Rearm(x).active /\ Rearm(x).in_use /\ Rearm(x).left = l
        /\ Rearm(x).deadline_ms = dl /\ Rearm(x).period_ms = x.period_ms
    BY <1>1, <1>3, <2>1 DEF TimerRecord
  <2> QED BY <1>1, <1>4, <1>5, <2>2 DEF Counting, l
<1>6. CASE ~x.auto_reload
  <2>1. Rearm(x) = Stopping(x)
    BY <1>6 DEF Rearm
  <2>2. Stopping(x).in_use /\ Stopping(x).period_ms = x.period_ms
    BY <1>1 DEF Stopping, TimerRecord
  <2> QED BY <1>1, <1>6, <2>1, <2>2, StoppingAhead DEF Ahead
<1> QED BY <1>5, <1>6

(* A timer that expires in time counts on from there, whatever its         *)
(* callback does to it.                                                    *)
LEMMA ExpireAhead ==
    ASSUME NEW x, NEW now \in Time, Counting(x, now), x.active, x.left = 0, NEW r \in Reaction
    PROVE  Ahead(Expire(x, r, now), now)
<1> DEFINE y == Rearm(x)
<1>1. /\ Counting(y, now) /\ (y.active => y.left = x.left + x.period_ms)
      /\ y.in_use /\ y.period_ms = x.period_ms
  BY RearmCounting
<1>2. x.period_ms \in Period /\ y \in TimerRecord
  BY <1>1 DEF Counting
<1> HIDE DEF y
<1>3. Ahead(y, now)
  <2>1. x.period_ms \in 1 .. Half - 1 /\ 0 + x.period_ms = x.period_ms
    BY <1>2, PeriodRange
  <2> QED BY <1>1, <2>1 DEF Ahead
<1>4. Ahead(Starting(y, now), now) /\ Ahead(Stopping(y), now) /\ Ahead(FreeTimer, now)
  BY <1>1, <1>2, StartingAhead, StoppingAhead
<1>5. Expire(x, r, now) \in {y, Starting(y, now), Stopping(y), FreeTimer}
  BY DEF Expire, React, Deleting, y
<1> QED BY <1>3, <1>4, <1>5

(* timer_service_tick, a millisecond later: exactly the timers that have   *)
(* counted down to zero are due.                                           *)
LEMMA ServiceAhead ==
    ASSUME TimerInv, NEW react \in [Timers -> Reaction],
           s_ticks' = (s_ticks + 1) % TickModulus, Service(react, s_ticks')
    PROVE  /\ \A i \in Timers : Ahead(s_timers'[i], s_ticks')
           /\ s_timers' = [i \in Timers |-> s_timers'[i]]
           /\ fired' \subseteq Timers \X {0}
<1> DEFINE now == (s_ticks + 1) % TickModulus
           pool == Aged(s_timers, 1)
<1>1. s_ticks \in Time /\ now \in Time /\ now \in Int
  BY TickRange DEF TimerInv, SchedInv, SchedCore, Time
<1>2. /\ s_timers' = timer_service_tick(pool, react, now)
      /\ fired' = {<<i, pool[i].left>> : i \in {j \in Timers : Due(pool[j], now)}}
  BY DEF Service
<1> HIDE DEF now, pool
<1>3. \A i \in Timers :
        /\ Counting(pool[i], now)
        /\ pool[i].active => pool[i].in_use /\ pool[i].left \in 0 .. Half - 2
  <2> TAKE i \in Timers
  <2>1. Ahead(s_timers[i], s_ticks)
    BY DEF TimerInv
  <2>2. Counting(s_timers[i], s_ticks) /\ (s_timers[i].active => s_timers[i].left \in 1 .. Half - 1)
    BY <2>1 DEF Ahead
  <2>3. /\ Counting(pool[i], now) /\ (pool[i].active <=> s_timers[i].active)
        /\ s_timers[i].active => pool[i].left = s_timers[i].left - 1
    BY <1>1, <2>2, AgedCounting DEF pool, now
  <2>4. \A l \in Int : l \in 1 .. Half - 1 => l - 1 \in 0 .. Half - 2
    BY TickRange
  <2>5. pool[i].active => pool[i].in_use
    BY <2>3 DEF Counting
  <2> QED BY <2>2, <2>3, <2>4, <2>5
<1>4. \A i \in Timers : Due(pool[i], now) <=> pool[i].active /\ pool[i].left = 0
  <2> TAKE i \in Timers
  <2>1. Counting(pool[i], now) /\ (pool[i].active => pool[i].in_use /\ pool[i].left \in 0 .. Half - 2)
    BY <1>3
  <2>2. CASE pool[i].active
    <3>1. /\ pool[i].left \in Int /\ pool[i].left >= -Half /\ pool[i].left <= Half /\ pool[i].left > -Half
          /\ -pool[i].left >= 0 <=> pool[i].left = 0
      BY <2>1, <2>2, TickRange
    <3>2. Signed(now - pool[i].deadline_ms) = -pool[i].left
      BY <1>1, <2>1, <2>2, <3>1, DistanceSeen
    <3> QED BY <2>1, <2>2, <3>1, <3>2 DEF Due
  <2> QED BY <2>2 DEF Due
<1>5. fired' \subseteq Timers \X {0}
  BY <1>2, <1>4
<1>6. \A i \in Timers : Ahead(s_timers'[i], now)
  <2> TAKE i \in Timers
  <2>1. s_timers'[i] = IF Due(pool[i], now) THEN Expire(pool[i], react[i], now) ELSE pool[i]
    BY <1>2 DEF timer_service_tick
  <2>2. CASE Due(pool[i], now)
    <3>1. react[i] \in Reaction
      OBVIOUS
    <3> QED BY <1>1, <1>3, <1>4, <2>1, <2>2, <3>1, ExpireAhead
  <2>3. CASE ~Due(pool[i], now)
    <3>1. \A l \in 0 .. Half - 2 : l # 0 => l \in 1 .. Half - 1
      BY TickRange
    <3> QED BY <1>3, <1>4, <2>1, <2>3, <3>1 DEF Ahead
  <2> QED BY <2>2, <2>3
<1>7. s_timers' = [i \in Timers |-> s_timers'[i]]
  BY <1>2 DEF timer_service_tick
<1> QED BY <1>5, <1>6, <1>7 DEF now

(* The calls of a task.                                                    *)
LEMMA TimerCallInv ==
    ASSUME TimerInv, NEW t \in Task, TimerCall(t)
    PROVE  TimerInv'
<1>1. UNCHANGED <<schedVars, fired>>
  BY DEF TimerCall
<1>2. SchedInv' /\ s_ticks' = s_ticks /\ fired' = fired
  BY <1>1 DEF TimerInv, schedVars, SchedInv, SchedCore, SwitchAt
<1>3. s_ticks \in Time
  BY DEF TimerInv, SchedInv, SchedCore
<1> SUFFICES ASSUME NEW i \in Timers, NEW y, s_timers' = [s_timers EXCEPT ![i] = y], Ahead(y, s_ticks)
             PROVE  TimerInv'
  <2>1. \A i \in Timers : s_timers[i] \in TimerRecord /\ (s_timers[i].in_use => s_timers[i].period_ms \in Period)
    BY DEF TimerInv, Ahead, Counting
  <2>2. ASSUME NEW p \in Period, NEW r \in BOOLEAN, timer_create(p, r)
        PROVE  \E i \in Timers : \E y : s_timers' = [s_timers EXCEPT ![i] = y] /\ Ahead(y, s_ticks)
    <3> DEFINE y == [FreeTimer EXCEPT !.in_use = TRUE, !.auto_reload = r, !.period_ms = p]
    <3>1. Free \subseteq Timers /\ Free # {} /\ Timers \subseteq Nat
      BY <2>2, TimerAssumption DEF timer_create, Free, Timers
    <3>2. Min(Free) \in Timers
      <4>1. \E m \in Free : \A n \in Free : m <= n
        BY <3>1, LeastNat
      <4> QED BY <3>1, <4>1 DEF Min
    <3>3. s_timers' = [s_timers EXCEPT ![Min(Free)] = y]
      BY <2>2 DEF timer_create
    <3>4. FreeTimer \in TimerRecord /\ ~FreeTimer.active
      BY TickRange DEF FreeTimer, TimerRecord, Time
    <3>5. y \in TimerRecord /\ ~y.active /\ y.period_ms = p
      BY <3>4 DEF TimerRecord
    <3>6. Ahead(y, s_ticks)
      BY <3>5 DEF Ahead, Counting
    <3> QED BY <3>2, <3>3, <3>6
  <2>3. ASSUME NEW i \in Timers \ Free, timer_start(i) \/ timer_stop(i) \/ timer_delete(i)
        PROVE  \E y : s_timers' = [s_timers EXCEPT ![i] = y] /\ Ahead(y, s_ticks)
    <3>1. s_timers[i].in_use /\ s_timers[i] \in TimerRecord /\ s_timers[i].period_ms \in Period
      BY <2>1 DEF Free
    <3>2. Ahead(Starting(s_timers[i], s_ticks), s_ticks) /\ Ahead(Stopping(s_timers[i]), s_ticks)
          /\ Ahead(FreeTimer, s_ticks)
      BY <1>3, <3>1, StartingAhead, StoppingAhead
    <3>3. \/ s_timers' = [s_timers EXCEPT ![i] = Starting(s_timers[i], s_ticks)]
          \/ s_timers' = [s_timers EXCEPT ![i] = Stopping(s_timers[i])]
          \/ s_timers' = [s_timers EXCEPT ![i] = FreeTimer]
      BY <2>3 DEF timer_start, timer_stop, timer_delete, Deleting
    <3> QED BY <3>2, <3>3
  <2>4. ASSUME NEW i \in Timers \ Free, NEW p \in Period, timer_set_period(i, p)
        PROVE  \E y : s_timers' = [s_timers EXCEPT ![i] = y] /\ Ahead(y, s_ticks)
    <3> DEFINE x == s_timers[i]
               y == [x EXCEPT !.period_ms = p]
    <3>1. s_timers' = [s_timers EXCEPT ![i] = y]
      BY <2>4 DEF timer_set_period
    <3>2. Ahead(x, s_ticks)
      BY DEF TimerInv
    <3> HIDE DEF x
    <3>3. x \in TimerRecord
      BY <3>2 DEF Ahead, Counting
    <3>4. /\ y \in TimerRecord /\ y.period_ms = p /\ (y.active <=> x.active) /\ (y.in_use <=> x.in_use)
          /\ y.left = x.left /\ y.deadline_ms = x.deadline_ms
      BY <3>3 DEF TimerRecord
    <3>5. Ahead(y, s_ticks)
      BY <3>2, <3>4 DEF Ahead, Counting
    <3> QED BY <3>1, <3>5
  <2>5. \E i \in Timers : \E y : s_timers' = [s_timers EXCEPT ![i] = y] /\ Ahead(y, s_ticks)
    BY <2>2, <2>3, <2>4 DEF TimerCall
  <2> QED BY <2>5
<1>4. s_timers = [j \in Timers |-> s_timers[j]]
      /\ \A j \in Timers : Ahead(s_timers[j], s_ticks)
  BY DEF TimerInv
<1>5. /\ s_timers' = [j \in Timers |-> s_timers'[j]]
      /\ \A j \in Timers : s_timers'[j] = IF j = i THEN y ELSE s_timers[j]
  BY <1>4
<1> QED BY <1>2, <1>4, <1>5 DEF TimerInv

(* At boot no timer is in use.                                             *)
LEMMA TimerInitInv == TimerInit => TimerInv
<1> SUFFICES ASSUME TimerInit PROVE TimerInv
  OBVIOUS
<1>1. SchedInv
  BY InitCore DEF TimerInit
<1>2. s_ticks \in Time
  BY <1>1 DEF SchedInv, SchedCore
<1>3. s_timers = [i \in Timers |-> FreeTimer] /\ fired = {}
  BY DEF TimerInit
<1>4. FreeTimer \in TimerRecord /\ ~FreeTimer.active /\ ~FreeTimer.in_use
  BY TickRange DEF FreeTimer, TimerRecord, Time
<1>5. Ahead(FreeTimer, s_ticks)
  BY <1>4 DEF Ahead, Counting
<1> QED BY <1>1, <1>3, <1>5 DEF TimerInv

(* Every step of the timers keeps the invariant.                           *)
LEMMA TimerNextInv == TimerInv /\ [TimerNext]_timerAllVars => TimerInv'
<1> SUFFICES ASSUME TimerInv, [TimerNext]_timerAllVars PROVE TimerInv'
  OBVIOUS
<1>1. CASE TimerTick
  <2>1. SysTick_Handler /\ s_ticks' = (s_ticks + 1) % TickModulus
    BY <1>1 DEF TimerTick, SysTick_Handler, Tick
  <2>2. SchedInv'
    BY <2>1, NextInv DEF TimerInv, SchedNext
  <2>3. PICK react \in [Timers -> Reaction] : Service(react, s_ticks')
    BY <1>1 DEF TimerTick
  <2>4. /\ \A i \in Timers : Ahead(s_timers'[i], s_ticks')
        /\ s_timers' = [j \in Timers |-> s_timers'[j]]
        /\ fired' \subseteq Timers \X {0}
    BY <2>1, <2>3, ServiceAhead
  <2> QED BY <2>2, <2>4 DEF TimerInv
<1>2. CASE PendSV /\ UNCHANGED timerVars
  <2>1. SchedInv'
    BY <1>2, NextInv DEF TimerInv, SchedNext
  <2>2. s_ticks' = s_ticks /\ s_timers' = s_timers /\ fired' = fired
    BY <1>2 DEF PendSV, timerVars
  <2> QED BY <2>1, <2>2 DEF TimerInv
<1>3. CASE \E t \in Task : TimerCall(t)
  BY <1>3, TimerCallInv
<1>4. CASE UNCHANGED timerAllVars
  <2>1. SchedInv' /\ s_ticks' = s_ticks /\ s_timers' = s_timers /\ fired' = fired
    BY <1>4, NextInv DEF TimerInv, timerAllVars, timerVars, schedVars
  <2> QED BY <2>1 DEF TimerInv
<1> QED BY <1>1, <1>2, <1>3, <1>4 DEF TimerNext

(* The invariant says what TimerOnTime says, and more.                     *)
LEMMA TimerInvOnTime == TimerInv => TimerOnTime
<1> SUFFICES ASSUME TimerInv PROVE TimerOnTime
  OBVIOUS
<1>1. SchedTypeOK
  BY DEF TimerInv, SchedInv, SchedCore, SchedTypeOK, KernelInv, KernelCore
<1>2. s_timers \in [Timers -> TimerRecord]
  BY DEF TimerInv, Ahead, Counting
<1>3. fired \subseteq Timers \X Int /\ \A f \in fired : f[2] = 0
  BY DEF TimerInv
<1>4. \A i \in Timers : s_timers[i].active => s_timers[i].left > 0
  <2>1. \A l \in 1 .. Half - 1 : l > 0
    BY TickRange
  <2> QED BY <2>1 DEF TimerInv, Ahead
<1> QED BY <1>1, <1>2, <1>3, <1>4 DEF TimerOnTime, TimerTypeOK, TimerRecord

(* A callback runs at the very tick its timer has counted down to, no      *)
(* expiry is missed and the pool keeps its types, for any number of timers *)
(* and periods below half the range of the tick counter, whatever calls    *)
(* tasks and callbacks make.                                               *)
THEOREM TimersOnTime == TimerSpec => []TimerOnTime
<1>1. TimerSpec => []TimerInv
  BY TimerInitInv, TimerNextInv, PTL DEF TimerSpec
<1> QED BY <1>1, TimerInvOnTime, PTL

(* The same of the timers among the services that use the clock.           *)
THEOREM ClockServesTimers == ClockSpec => []TicksServeTimers
<1> DEFINE Inv == focus = "timer" => TimerInv
<1>1. ClockInit => Inv
  BY TimerInitInv DEF ClockInit
<1>2. Inv /\ [ClockNext]_clockVars => Inv'
  <2> SUFFICES ASSUME Inv, [ClockNext]_clockVars PROVE Inv'
    OBVIOUS
  <2>1. focus' = focus
    BY DEF ClockNext, clockVars
  <2>2. focus = "timer" => [TimerNext]_timerAllVars
    BY DEF ClockNext, clockVars, timerAllVars, schedVars, timerVars
  <2> QED BY <2>1, <2>2, TimerNextInv
<1>3. Inv => TicksServeTimers
  BY TimerInvOnTime DEF TicksServeTimers
<1> QED BY <1>1, <1>2, <1>3, PTL DEF ClockSpec

-----------------------------------------------------------------------------
(***************************************************************************)
(* Event groups.                                                           *)
(***************************************************************************)
(* Where a task is, what it called with and what a slot holds.             *)
EventLabel == {"user", "event_try", "event_woken"}
CallRecord == [req : EventRequest, deadline : Time \cup {Forever}]
SlotRecord ==
    [task : Task \cup {NULL}, req : EventRequest \cup {NULL}, observed_bits : SUBSET Bit]

(* The variables, and which calls have arguments.                          *)
EventTypes ==
    /\ pc \in [Task -> EventLabel]
    /\ bits \in [EventGroup -> SUBSET Bit]
    /\ s_pending \in [Slot -> SlotRecord]
    /\ evCall = [t \in Task |-> evCall[t]]
    /\ \A t \in Task : IF pc[t] = "user" THEN evCall[t] = NoCall ELSE evCall[t] \in CallRecord

(* Task t is on the wait list of the group it asked for.                   *)
Waits(t) == InWait(t) /\ k.state[t] = "BLOCKED"

(* Who is on which list, once.                                             *)
EventLists ==
    /\ \A h \in WaitList : Once(k.waiters[h])
    /\ \A h \in WaitList, t \in Task :
          t \in ToSet(k.waiters[h]) <=> Waits(t) /\ evCall[t].req.group = h
    /\ \A t \in Task : k.state[t] = "BLOCKED" => InWait(t)

(* Slots and the tasks in a blocked wait are in one-to-one correspondence. *)
EventSlots ==
    /\ \A i \in Slot : s_pending[i].task # NULL =>
          InWait(s_pending[i].task) /\ s_pending[i].req = evCall[s_pending[i].task].req
    /\ \A t \in Task : InWait(t) => \E i \in Slot : s_pending[i].task = t
    /\ \A i, j \in Slot : s_pending[i].task = s_pending[j].task /\ s_pending[i].task # NULL => i = j

(* The countdown of a wait.                                                *)
EventTimes ==
    \A t \in Task :
        /\ k.state[t] # "BLOCKED" => k.delay_ticks[t] = 0
        /\ Waits(t) /\ evCall[t].deadline = Forever =>
              k.delay_ticks[t] = 0 /\ k.wait_list_head[t] = NULL
        /\ Waits(t) /\ evCall[t].deadline # Forever =>
              /\ k.delay_ticks[t] > 0 /\ s_ticks + k.delay_ticks[t] = evCall[t].deadline
              /\ k.wait_list_head[t] = evCall[t].req.group
        /\ k.timed_out[t] => InWait(t) /\ ~Waits(t) /\ evCall[t].deadline # Forever

(* The inductive invariant of the event groups.                            *)
EventInv ==
    /\ SchedCore /\ SwitchAt({})
    /\ EventTypes /\ EventLists /\ EventSlots /\ EventTimes
    /\ EventNoneForgotten /\ EventResultSatisfies

-----------------------------------------------------------------------------
(* The iterations of event_wake_satisfied exist one after the other: there *)
(* is no first one that could not be computed.                             *)
LEMMA PassedUnfolds ==
    ASSUME NEW m, NEW e, NEW list \in Seq(Task)
    PROVE  /\ Passed(m, e, list)[0] = m
           /\ \A n \in 1 .. Len(list) :
                 Passed(m, e, list)[n] = WakeIfSatisfied(Passed(m, e, list)[n - 1], e, list[n])
<1> DEFINE Step(x, n) == WakeIfSatisfied(x, e, list[n])
           Iterates(f, N) == f = [n \in 0 .. N |-> IF n = 0 THEN m ELSE Step(f[n - 1], n)]
           Missing == {N \in Nat : ~ \E f : Iterates(f, N)}
<1>1. Missing = {}
  <2> SUFFICES ASSUME Missing # {} PROVE FALSE
    OBVIOUS
  <2>1. PICK N \in Missing : \A n \in Missing : N <= n
    BY LeastNat
  <2>2. CASE N = 0
    <3> DEFINE f == [n \in 0 .. 0 |-> m]
    <3>1. f = [n \in 0 .. 0 |-> IF n = 0 THEN m ELSE Step(f[n - 1], n)]
      <4> HIDE DEF Step
      <4> QED OBVIOUS
    <3>2. Iterates(f, 0)
      BY <3>1
    <3> HIDE DEF f, Iterates
    <3> QED BY <2>1, <2>2, <3>2
  <2>3. CASE N # 0
    <3>1. N - 1 \in Nat /\ N \in Nat /\ N - 1 < N
      BY <2>3
    <3>2. PICK f : Iterates(f, N - 1)
      <4> HIDE DEF Iterates
      <4>1. ~(N <= N - 1)
        BY <3>1
      <4> QED BY <2>1, <3>1, <4>1
    <3> DEFINE last == Step(f[N - 1], N)
               g == [n \in 0 .. N |-> IF n = N THEN last ELSE f[n]]
    <3> HIDE DEF Step
    <3>3. g = [n \in 0 .. N |-> IF n = 0 THEN m ELSE Step(g[n - 1], n)]
      <4>1. \A n \in 0 .. N : n # N => n \in 0 .. N - 1 /\ f[n] = IF n = 0 THEN m ELSE Step(f[n - 1], n)
        BY <3>1, <3>2
      <4>2. \A n \in 0 .. N : n # 0 => n - 1 \in 0 .. N /\ n - 1 # N
        BY <3>1
      <4>3. ASSUME NEW n \in 0 .. N PROVE g[n] = IF n = 0 THEN m ELSE Step(g[n - 1], n)
        <5>1. CASE n = N
          <6>1. g[n] = last /\ n # 0 /\ g[n - 1] = f[n - 1]
            BY <3>1, <2>3, <4>2, <5>1
          <6> QED BY <5>1, <6>1
        <5>2. CASE n # N
          <6>1. g[n] = f[n] /\ (n # 0 => g[n - 1] = f[n - 1])
            BY <4>2, <5>2
          <6> HIDE DEF g
          <6> QED BY <4>1, <5>2, <6>1
        <5> QED BY <5>1, <5>2
      <4>4. g = [n \in 0 .. N |-> g[n]]
        OBVIOUS
      <4> HIDE DEF g
      <4> QED BY <4>3, <4>4
    <3>4. Iterates(g, N)
      BY <3>3
    <3> HIDE DEF g, Iterates
    <3> QED BY <2>1, <3>4
  <2> QED BY <2>2, <2>3
<1>2. Len(list) \in Nat
  OBVIOUS
<1>3. \E f : Iterates(f, Len(list))
  <2> HIDE DEF Iterates
  <2> QED BY <1>1, <1>2
<1>4. Passed(m, e, list) = CHOOSE f : Iterates(f, Len(list))
  BY DEF Passed
<1>5. Iterates(Passed(m, e, list), Len(list))
  <2> HIDE DEF Iterates
  <2> QED BY <1>3, <1>4
<1> DEFINE p == Passed(m, e, list)
<1> HIDE DEF Step, p
<1>6. p = [n \in 0 .. Len(list) |-> IF n = 0 THEN m ELSE Step(p[n - 1], n)]
  BY <1>5 DEF p
<1>7. p[0] = m /\ \A n \in 1 .. Len(list) : p[n] = Step(p[n - 1], n)
  BY <1>2, <1>6
<1> QED BY <1>7 DEF p, Step

(* A request that is not met by some bits is not met by fewer of them.     *)
LEMMA RequestsMet ==
    ASSUME NEW req \in EventRequest, NEW b
    PROVE  /\ event_condition_met(b, req) <=> Satisfies(b, req)
           /\ \A c \in SUBSET b : Satisfies(c, req) => Satisfies(b, req)
           /\ AfterMatch(b, req) \subseteq b
BY DEF event_condition_met, Satisfies, AfterMatch

(* A request names a group, and a group has a wait list.                   *)
LEMMA RequestGroup ==
    /\ EventGroup \subseteq WaitList
    /\ \A req \in EventRequest : req.group \in EventGroup
BY EventAssumption

-----------------------------------------------------------------------------
(* One pass of event_wake_satisfied over the list of group e.              *)

(* The pass has left task t alone ...                                      *)
Untouched(m, e, t) ==
    /\ m.kernel.state[t] = "BLOCKED" <=> k.state[t] = "BLOCKED"
    /\ m.kernel.delay_ticks[t] = k.delay_ticks[t]
    /\ m.kernel.wait_list_head[t] = k.wait_list_head[t]
    /\ t \in ToSet(m.kernel.waiters[e]) <=> t \in ToSet(k.waiters[e])
    /\ \A i \in Slot : s_pending[i].task = t => m.pool[i].observed_bits = s_pending[i].observed_bits

(* ... or has woken it with bits that satisfy it.                          *)
Handed(m, e, t) ==
    /\ t \in ToSet(k.waiters[e]) /\ t \notin ToSet(m.kernel.waiters[e])
    /\ m.kernel.state[t] # "BLOCKED" /\ m.kernel.delay_ticks[t] = 0
    /\ \A i \in Slot : s_pending[i].task = t => Satisfies(m.pool[i].observed_bits, evCall[t].req)

(* What the pass has not touched at all.                                   *)
PassKeeps(m, e) ==
    /\ KernelInv(m.kernel) /\ m.kernel.s_task_count = TASK_MAX
    /\ m.kernel.g_next_task # m.kernel.g_current_task => m.kernel.pendsv
    /\ m.kernel.timed_out = k.timed_out
    /\ \A h \in WaitList : h # e => m.kernel.waiters[h] = k.waiters[h]
    /\ m.pool \in [Slot -> SlotRecord] /\ m.bits \subseteq Bit
    /\ \A i \in Slot : m.pool[i].task = s_pending[i].task /\ m.pool[i].req = s_pending[i].req

(* After n iterations, the first n waiters have been woken, or the bits    *)
(* that are left do not satisfy them; the others are as they were.         *)
PassInv(m, n, e) ==
    /\ PassKeeps(m, e)
    /\ Once(m.kernel.waiters[e])
    /\ \A t \in Task : Untouched(m, e, t) \/ Handed(m, e, t)
    /\ \A j \in 1 .. Len(k.waiters[e]) : j > n => Untouched(m, e, k.waiters[e][j])
    /\ \A j \in 1 .. Len(k.waiters[e]) :
          j <= n /\ k.waiters[e][j] \in ToSet(m.kernel.waiters[e]) =>
             ~Satisfies(m.bits, evCall[k.waiters[e][j]].req)

(* The waiter of the next iteration, and its slot.                         *)
LEMMA NextWaiter ==
    ASSUME EventInv, NEW e \in EventGroup, NEW m, PassKeeps(m, e),
           NEW t \in Task, t \in ToSet(k.waiters[e])
    PROVE  /\ Waits(t) /\ evCall[t] \in CallRecord /\ evCall[t].req \in EventRequest
           /\ \A h \in WaitList : h # e => t \notin ToSet(k.waiters[h])
           /\ \E i \in Slot : /\ \A j \in Slot : s_pending[j].task = t <=> j = i
                              /\ Min(event_pending_find(m.pool, t)) = i
                              /\ m.pool[i].req = evCall[t].req
<1>1. EventTypes /\ EventLists /\ EventSlots /\ e \in WaitList /\ t # NULL
  BY RequestGroup, KernelAssumption DEF EventInv, Thread
<1>2. Waits(t) /\ evCall[t].req.group = e
  BY <1>1 DEF EventLists
<1>3. evCall[t] \in CallRecord
  BY <1>1, <1>2 DEF EventTypes, Waits, InWait
<1>4. evCall[t].req \in EventRequest
  BY <1>3 DEF CallRecord
<1>5. PICK i \in Slot : s_pending[i].task = t
  BY <1>1, <1>2 DEF EventSlots, Waits
<1>6. \A j \in Slot : s_pending[j].task = t <=> j = i
  BY <1>1, <1>5 DEF EventSlots
<1>7. event_pending_find(m.pool, t) = {i}
  BY <1>6 DEF event_pending_find, PassKeeps
<1>8. Min({i}) = i
  <2>1. i \in Int /\ i <= i
    BY EventAssumption DEF Slot
  <2> QED BY <2>1 DEF Min
<1>9. m.pool[i].req = evCall[t].req
  BY <1>1, <1>5 DEF EventSlots, PassKeeps
<1> QED BY <1>1, <1>2, <1>3, <1>4, <1>6, <1>7, <1>8, <1>9 DEF EventLists

(* A waiter is unlinked before it is woken.                                *)
Unlinked(K, e, t) == [K EXCEPT !.waiters[e] = Without(@, {t}), !.wait_list_head[t] = NULL]

(* Kernel R is K after waking t, a waiter of list e, and nobody else.      *)
WakesOne(K, R, e, t) ==
    /\ KernelInv(R) /\ R.s_task_count = K.s_task_count
    /\ R.g_next_task # R.g_current_task => R.pendsv
    /\ R.timed_out = K.timed_out
    /\ \A h \in WaitList : h # e => R.waiters[h] = K.waiters[h]
    /\ ToSet(R.waiters[e]) = ToSet(K.waiters[e]) \ {t}
    /\ Once(K.waiters[e]) => Once(R.waiters[e])
    /\ R.state[t] # "BLOCKED" /\ R.delay_ticks[t] = 0
    /\ \A u \in Task : u # t =>
          /\ R.state[u] = "BLOCKED" <=> K.state[u] = "BLOCKED"
          /\ R.delay_ticks[u] = K.delay_ticks[u]
          /\ R.wait_list_head[u] = K.wait_list_head[u]

(* Waking a waiter takes it off the list and changes nobody else's wait.   *)
LEMMA WakeFromList ==
    ASSUME NEW K, KernelInv(K), NEW e \in WaitList, NEW t \in Task,
           \A h \in WaitList : h # e => t \notin ToSet(K.waiters[h])
    PROVE  WakesOne(K, sched_wake_task(Unlinked(K, e, t), t), e, t)
<1> DEFINE w == Without(K.waiters[e], {t})
           ws == [K.waiters EXCEPT ![e] = w]
           hs == [K.wait_list_head EXCEPT ![t] = NULL]
           K1 == [K EXCEPT !.waiters = ws, !.wait_list_head = hs]
           R == sched_wake_task(K1, t)
<1>1. Unlinked(K, e, t) = K1
  BY DEF Unlinked
<1>2. KernelTypeOK(K) /\ K.waiters \in [WaitList -> Seq(Task)] /\ t \in Thread
      /\ K.wait_list_head \in [Task -> WaitList \cup {NULL}] /\ K.delay_ticks \in [Task -> Nat]
  BY DEF KernelInv, KernelCore, KernelTypeOK, Thread
<1>3. w \in Seq(Task) /\ SubList(w, K.waiters[e]) /\ ToSet(w) = ToSet(K.waiters[e]) \ {t}
  BY <1>2, WithoutSelects
<1>4. Once(K.waiters[e]) => Once(w)
  <2>1. PICK p \in [Task -> Priority] : TRUE
    BY <1>2 DEF KernelTypeOK
  <2> QED BY <1>2, <1>3, <2>1, SubListKeeps
<1> HIDE DEF w
<1>5. /\ ws \in [WaitList -> Seq(Task)] /\ hs \in [Task -> WaitList \cup {NULL}]
      /\ ws[e] = w /\ \A h \in WaitList : h # e => ws[h] = K.waiters[h]
      /\ \A u \in Task : u # t => hs[u] = K.wait_list_head[u]
  BY <1>2, <1>3
<1> HIDE DEF ws, hs
<1>6. /\ KernelTypeOK(K1) /\ K1.waiters = ws /\ K1.wait_list_head = hs /\ K1.state = K.state
      /\ K1.g_current_task = K.g_current_task /\ K1.g_next_task = K.g_next_task
      /\ K1.timed_out = K.timed_out /\ K1.delay_ticks = K.delay_ticks /\ K1.s_task_count = K.s_task_count
  BY <1>2, <1>5 DEF KernelTypeOK
<1> HIDE DEF K1
<1>7. KernelCore(K1)
  BY <1>6 DEF KernelInv, KernelCore, HasThreads, OnlyNext, IdleAlive
<1>8. \A h \in WaitList : t \notin ToSet(K1.waiters[h])
  BY <1>3, <1>5, <1>6
<1>9. /\ KernelInv(R) /\ (R.g_next_task # R.g_current_task => R.pendsv)
      /\ R.wait_list_head = hs /\ R.timed_out = K.timed_out /\ R.waiters = ws
      /\ R.s_task_count = K.s_task_count
      /\ R.delay_ticks = [K.delay_ticks EXCEPT ![t] = 0]
      /\ \A u \in Thread : R.state[u] = "BLOCKED" <=> u # t /\ K.state[u] = "BLOCKED"
  <2>1. /\ KernelInv(R) /\ (R.g_next_task # R.g_current_task => R.pendsv)
        /\ R.priority = K1.priority /\ R.wait_list_head = K1.wait_list_head
        /\ R.timed_out = K1.timed_out /\ R.waiters = K1.waiters
        /\ R.s_task_count = K1.s_task_count /\ R.g_current_task = K1.g_current_task
        /\ R.delay_ticks = [K1.delay_ticks EXCEPT ![t] = 0]
        /\ \A u \in Thread : R.state[u] = "BLOCKED" <=> u # t /\ K1.state[u] = "BLOCKED"
    BY <1>7, <1>8, WakeDecides
  <2> HIDE DEF R
  <2> QED BY <1>6, <2>1
<1> HIDE DEF R
<1>10. R.delay_ticks[t] = 0 /\ \A u \in Task : u # t => R.delay_ticks[u] = K.delay_ticks[u]
  BY <1>2, <1>9
<1>11. R.state[t] # "BLOCKED" /\ \A u \in Task : u # t => (R.state[u] = "BLOCKED" <=> K.state[u] = "BLOCKED")
  BY <1>2, <1>9 DEF Thread
<1> QED BY <1>1, <1>3, <1>4, <1>5, <1>9, <1>10, <1>11 DEF R, WakesOne

(* One iteration.                                                          *)
LEMMA WakeStep ==
    ASSUME EventInv, NEW e \in EventGroup, NEW m, NEW n \in 1 .. Len(k.waiters[e]),
           PassInv(m, n - 1, e)
    PROVE  PassInv(WakeIfSatisfied(m, e, k.waiters[e][n]), n, e)
<1> DEFINE list == k.waiters[e]
           t == list[n]
<1>1. e \in WaitList /\ list \in Seq(Task) /\ Once(list) /\ n \in Nat
  BY RequestGroup DEF EventInv, EventLists, SchedCore, KernelInv, KernelCore, KernelTypeOK
<1>2. t \in Task /\ t \in ToSet(list)
  BY <1>1 DEF ToSet
<1>3. PassKeeps(m, e)
  BY DEF PassInv
<1>4. PICK i \in Slot : /\ \A j \in Slot : s_pending[j].task = t <=> j = i
                        /\ Min(event_pending_find(m.pool, t)) = i
                        /\ m.pool[i].req = evCall[t].req
  BY <1>2, <1>3, NextWaiter
<1>5. Waits(t) /\ evCall[t].req \in EventRequest /\ \A h \in WaitList : h # e => t \notin ToSet(k.waiters[h])
  BY <1>2, <1>3, NextWaiter
<1> DEFINE req == evCall[t].req
           met == event_condition_met(m.bits, req)
<1>6. /\ \A j \in 1 .. Len(list) : j > n => j > n - 1
      /\ \A j \in 1 .. Len(list) : j <= n => j <= n - 1 \/ j = n
      /\ n > n - 1
  BY <1>1
<1>7. met <=> Satisfies(m.bits, req)
  BY <1>5, RequestsMet
<1>8. CASE ~met
  <2>1. WakeIfSatisfied(m, e, t) = m
    BY <1>4, <1>8 DEF WakeIfSatisfied
  <2> HIDE DEF met, list, t
  <2>2. \A j \in 1 .. Len(list) : j <= n /\ list[j] \in ToSet(m.kernel.waiters[e]) =>
             ~Satisfies(m.bits, evCall[list[j]].req)
    BY <1>6, <1>7, <1>8 DEF PassInv, list, t
  <2> QED BY <1>6, <2>1, <2>2 DEF PassInv, list, t
<1>9. CASE met
  <2> DEFINE K == m.kernel
             R == sched_wake_task(Unlinked(K, e, t), t)
             pool == [m.pool EXCEPT ![i].observed_bits = m.bits]
             left == AfterMatch(m.bits, req)
             r == [bits |-> left, pool |-> pool, kernel |-> R]
  <2>1. WakeIfSatisfied(m, e, t) = r
    BY <1>4, <1>9 DEF WakeIfSatisfied, Unlinked
  <2>2. WakesOne(K, R, e, t)
    <3>1. \A h \in WaitList : h # e => t \notin ToSet(K.waiters[h])
      BY <1>3, <1>5 DEF PassKeeps
    <3>2. KernelInv(K)
      BY <1>3 DEF PassKeeps
    <3> HIDE DEF K, t
    <3> QED BY <1>1, <1>2, <3>1, <3>2, WakeFromList
  <2>3. /\ pool \in [Slot -> SlotRecord] /\ pool[i].observed_bits = m.bits
        /\ \A j \in Slot : pool[j].task = m.pool[j].task /\ pool[j].req = m.pool[j].req
        /\ \A j \in Slot : j # i => pool[j] = m.pool[j]
    BY <1>3 DEF PassKeeps, SlotRecord
  <2>4. left \subseteq m.bits
    BY <1>5, RequestsMet
  <2>5. r.bits = left /\ r.pool = pool /\ r.kernel = R
    OBVIOUS
  <2> HIDE DEF R, pool, left, r, met, t, list
  <2>6. PassKeeps(r, e)
    BY <1>3, <2>2, <2>3, <2>4, <2>5 DEF PassKeeps, WakesOne
  <2>7. Once(R.waiters[e])
    BY <2>2 DEF PassInv, WakesOne
  <2>8. \A u \in Task : u # t /\ Untouched(m, e, u) => Untouched(r, e, u)
    BY <1>4, <2>2, <2>3, <2>5 DEF Untouched, WakesOne
  <2>9. \A u \in Task : u # t /\ Handed(m, e, u) => Handed(r, e, u)
    BY <1>4, <2>2, <2>3, <2>5 DEF Handed, WakesOne
  <2>10. Handed(r, e, t)
    <3>1. \A j \in Slot : s_pending[j].task = t => Satisfies(pool[j].observed_bits, evCall[t].req)
      BY <1>4, <1>7, <1>9, <2>3
    <3>2. t \in ToSet(k.waiters[e])
      BY <1>2 DEF list
    <3> QED BY <1>2, <2>2, <2>5, <3>1, <3>2 DEF Handed, WakesOne
  <2>11. \A u \in Task : Untouched(r, e, u) \/ Handed(r, e, u)
    BY <2>8, <2>9, <2>10 DEF PassInv
  <2>12. ASSUME NEW j \in 1 .. Len(list), j > n PROVE Untouched(r, e, list[j])
    <3>1. list[j] \in Task /\ list[j] # t
      BY <1>1, <2>12 DEF Once, t
    <3>2. Untouched(m, e, list[j])
      BY <1>6, <2>12 DEF PassInv, list
    <3> QED BY <2>8, <3>1, <3>2
  <2>13. ASSUME NEW j \in 1 .. Len(list), j <= n, list[j] \in ToSet(R.waiters[e])
         PROVE  ~Satisfies(left, evCall[list[j]].req)
    <3>1. list[j] # t /\ list[j] \in ToSet(K.waiters[e]) /\ list[j] \in Task /\ list[j] \in ToSet(list)
      <4>1. list[j] \in Task /\ list[j] \in ToSet(list)
        BY <1>1 DEF ToSet
      <4> QED BY <2>2, <2>13, <4>1 DEF WakesOne
    <3>2. j <= n - 1
      BY <1>6, <2>13, <3>1 DEF t
    <3>3. ~Satisfies(m.bits, evCall[list[j]].req)
      BY <3>1, <3>2 DEF PassInv, list
    <3>4. evCall[list[j]].req \in EventRequest
      BY <1>3, <3>1, NextWaiter DEF list
    <3> QED BY <2>4, <3>3, <3>4, RequestsMet
  <2>14. PassInv(r, n, e)
    BY <2>5, <2>6, <2>7, <2>11, <2>12, <2>13 DEF PassInv, list
  <2> QED BY <2>1, <2>14 DEF t, list
<1> QED BY <1>8, <1>9

(* The whole pass.                                                         *)
LEMMA WholePass ==
    ASSUME EventInv, NEW e \in EventGroup, NEW m, PassInv(m, 0, e)
    PROVE  LET list == k.waiters[e] IN PassInv(event_wake_satisfied(m, e, list), Len(list), e)
<1> DEFINE list == k.waiters[e]
           p == Passed(m, e, list)
           Bad == {n \in 0 .. Len(list) : ~PassInv(p[n], n, e)}
<1>1. list \in Seq(Task) /\ Len(list) \in Nat
  BY RequestGroup DEF EventInv, SchedCore, KernelInv, KernelCore, KernelTypeOK
<1>2. p[0] = m /\ \A n \in 1 .. Len(list) : p[n] = WakeIfSatisfied(p[n - 1], e, list[n])
  BY <1>1, PassedUnfolds
<1>3. \A n \in 1 .. Len(list) : PassInv(p[n - 1], n - 1, e) => PassInv(p[n], n, e)
  BY <1>2, WakeStep
<1> HIDE DEF p, list
<1>4. Bad = {}
  <2> SUFFICES ASSUME Bad # {} PROVE FALSE
    OBVIOUS
  <2>1. Bad \in SUBSET Nat
    BY <1>1
  <2>2. PICK n \in Bad : \A j \in Bad : n <= j
    BY <2>1, LeastNat
  <2>3. n # 0
    BY <1>2, <2>2
  <2>4. n \in 1 .. Len(list) /\ n - 1 \in 0 .. Len(list) /\ ~(n <= n - 1)
    BY <1>1, <2>2, <2>3
  <2>5. PassInv(p[n - 1], n - 1, e)
    BY <2>2, <2>4
  <2> QED BY <1>3, <2>2, <2>4, <2>5
<1>5. Len(list) \in 0 .. Len(list)
  BY <1>1
<1>6. PassInv(p[Len(list)], Len(list), e)
  BY <1>4, <1>5
<1> QED BY <1>6 DEF event_wake_satisfied, p, list

-----------------------------------------------------------------------------
(* The steps.                                                              *)

(* event_set, from a task or an interrupt.                                 *)
LEMMA EventSetInv ==
    ASSUME EventInv, NEW e \in EventGroup, NEW new \in SUBSET Bit, event_set(e, new)
    PROVE  EventInv'
<1> DEFINE list == k.waiters[e]
           m0 == [bits |-> bits[e] \cup new, pool |-> s_pending, kernel |-> k]
           m == event_wake_satisfied(m0, e, list)
<1>1. /\ bits' = [bits EXCEPT ![e] = m.bits] /\ s_pending' = m.pool /\ k' = m.kernel
      /\ pc' = pc /\ s_ticks' = s_ticks /\ wakeAt' = wakeAt /\ evCall' = evCall
  BY DEF event_set
<1>2. /\ SchedCore /\ SwitchAt({}) /\ EventTypes /\ EventLists /\ EventSlots /\ EventTimes
      /\ EventNoneForgotten /\ EventResultSatisfies /\ e \in WaitList
  BY RequestGroup DEF EventInv
<1>3. list \in Seq(Task) /\ Len(list) \in Nat /\ \A u \in ToSet(list) : u \in Task
  BY <1>2 DEF SchedCore, KernelInv, KernelCore, KernelTypeOK, ToSet
<1>4. PassInv(m0, 0, e)
  <2>1. m0.kernel = k /\ m0.pool = s_pending /\ m0.bits \subseteq Bit
    BY <1>2 DEF EventTypes
  <2> HIDE DEF m0
  <2>2. PassKeeps(m0, e)
    BY <1>2, <2>1 DEF PassKeeps, SchedCore, SwitchAt, EventTypes
  <2>3. \A t \in Task : Untouched(m0, e, t)
    BY <2>1 DEF Untouched
  <2>4. \A j \in 1 .. Len(list) : list[j] \in Task /\ ~(j <= 0)
    BY <1>3
  <2>5. Once(m0.kernel.waiters[e])
    BY <1>2, <2>1 DEF EventLists
  <2> QED BY <2>2, <2>3, <2>4, <2>5 DEF PassInv
<1>5. PassInv(m, Len(list), e)
  BY <1>4, WholePass
<1> HIDE DEF m, m0
<1>6. PassKeeps(m, e) /\ Once(k'.waiters[e]) /\ \A t \in Task : Untouched(m, e, t) \/ Handed(m, e, t)
  BY <1>1, <1>5 DEF PassInv
<1>7. \A u \in ToSet(k'.waiters[e]) : u \in ToSet(list) => ~Satisfies(m.bits, evCall[u].req)
  <2> SUFFICES ASSUME NEW u \in ToSet(k'.waiters[e]), u \in ToSet(list)
               PROVE  ~Satisfies(m.bits, evCall[u].req)
    OBVIOUS
  <2>1. PICK j \in 1 .. Len(list) : list[j] = u
    BY <1>3 DEF ToSet
  <2>2. j <= Len(list)
    BY <1>3
  <2> QED BY <1>1, <1>5, <2>1, <2>2 DEF PassInv
<1> HIDE DEF list
<1>8. SchedCore' /\ SwitchAt({})'
  BY <1>1, <1>2, <1>6 DEF PassKeeps, SchedCore, SwitchAt
<1>9. EventTypes'
  BY <1>1, <1>2, <1>6 DEF PassKeeps, EventTypes
<1>10. \A t \in Task : Handed(m, e, t) => Waits(t) /\ evCall[t].req.group = e /\ ~k.timed_out[t]
  BY <1>2 DEF Handed, EventLists, EventTimes
<1>11. EventLists'
  <2>1. \A h \in WaitList : Once(k'.waiters[h])
    BY <1>1, <1>2, <1>6 DEF PassKeeps, EventLists
  <2>2. \A t \in Task : k'.state[t] = "BLOCKED" => k.state[t] = "BLOCKED" /\ Untouched(m, e, t)
    BY <1>1, <1>6 DEF Untouched, Handed
  <2>3. ASSUME NEW h \in WaitList, NEW t \in Task
        PROVE  t \in ToSet(k'.waiters[h]) <=> Waits(t)' /\ evCall'[t].req.group = h
    <3>1. CASE Untouched(m, e, t)
      <4>1. t \in ToSet(k'.waiters[h]) <=> t \in ToSet(k.waiters[h])
        BY <1>1, <1>6, <3>1 DEF Untouched, PassKeeps
      <4>2. Waits(t)' <=> Waits(t)
        BY <1>1, <3>1 DEF Untouched, Waits, InWait
      <4> QED BY <1>1, <1>2, <4>1, <4>2 DEF EventLists
    <3>2. CASE Handed(m, e, t)
      <4>1. ~Waits(t)'
        BY <1>1, <3>2 DEF Handed, Waits
      <4>2. t \notin ToSet(k'.waiters[h])
        BY <1>1, <1>2, <1>6, <1>10, <3>2 DEF Handed, PassKeeps, EventLists
      <4> QED BY <4>1, <4>2
    <3> QED BY <1>6, <3>1, <3>2
  <2> QED BY <1>1, <1>2, <2>1, <2>2, <2>3 DEF EventLists, InWait
<1>12. EventSlots'
  BY <1>1, <1>2, <1>6 DEF PassKeeps, EventSlots, InWait
<1>13. EventTimes'
  <2> SUFFICES ASSUME NEW t \in Task
               PROVE  /\ k'.state[t] # "BLOCKED" => k'.delay_ticks[t] = 0
                      /\ Waits(t)' /\ evCall[t].deadline = Forever =>
                            k'.delay_ticks[t] = 0 /\ k'.wait_list_head[t] = NULL
                      /\ Waits(t)' /\ evCall[t].deadline # Forever =>
                            /\ k'.delay_ticks[t] > 0 /\ s_ticks + k'.delay_ticks[t] = evCall[t].deadline
                            /\ k'.wait_list_head[t] = evCall[t].req.group
                      /\ k.timed_out[t] => InWait(t) /\ ~Waits(t)' /\ evCall[t].deadline # Forever
    <3>1. k'.timed_out = k.timed_out
      BY <1>1, <1>6 DEF PassKeeps
    <3> QED BY <1>1, <3>1 DEF EventTimes, InWait, Forever
  <2>1. CASE Untouched(m, e, t)
    BY <1>1, <1>2, <2>1 DEF Untouched, EventTimes, Waits, InWait
  <2>2. CASE Handed(m, e, t)
    BY <1>1, <1>10, <2>2 DEF Handed, Waits
  <2> QED BY <1>6, <2>1, <2>2
<1>14. EventNoneForgotten'
  <2> SUFFICES ASSUME NEW g \in EventGroup, NEW i \in DOMAIN k'.waiters[g]
               PROVE  ~Satisfies(bits'[g], evCall[k'.waiters[g][i]].req)
    BY <1>1 DEF EventNoneForgotten
  <2>1. g \in WaitList /\ k'.waiters[g] \in Seq(Task) /\ k'.waiters[g][i] \in ToSet(k'.waiters[g])
        /\ k'.waiters[g][i] \in Task
    BY <1>8, RequestGroup DEF SchedCore, KernelInv, KernelCore, KernelTypeOK, ToSet
  <2>2. CASE g = e
    <3>1. bits'[g] = m.bits
      BY <1>1, <1>2, <2>2 DEF EventTypes
    <3>2. k'.waiters[g][i] \in ToSet(list)
      BY <1>1, <1>6, <2>1, <2>2 DEF Untouched, Handed, list
    <3> QED BY <1>7, <2>1, <2>2, <3>1, <3>2
  <2>3. CASE g # e
    <3>1. bits'[g] = bits[g] /\ k'.waiters[g] = k.waiters[g]
      BY <1>1, <1>2, <1>6, <2>1, <2>3 DEF EventTypes, PassKeeps
    <3> QED BY <1>2, <3>1 DEF EventNoneForgotten
  <2> QED BY <2>2, <2>3
<1>15. EventResultSatisfies'
  <2> SUFFICES ASSUME NEW t \in Task, Served(t)', NEW i \in Slot, s_pending'[i].task = t
               PROVE  Satisfies(s_pending'[i].observed_bits, evCall[t].req)
    BY <1>1 DEF EventResultSatisfies, event_pending_find
  <2>1. s_pending[i].task = t /\ k'.timed_out = k.timed_out
    BY <1>1, <1>6 DEF PassKeeps
  <2>2. CASE Untouched(m, e, t)
    <3>1. Served(t) /\ s_pending'[i].observed_bits = s_pending[i].observed_bits
      BY <1>1, <2>1, <2>2 DEF Untouched, Served, InWait
    <3> QED BY <1>2, <2>1, <3>1 DEF EventResultSatisfies, event_pending_find
  <2>3. CASE Handed(m, e, t)
    BY <1>1, <2>1, <2>3 DEF Handed
  <2> QED BY <1>6, <2>2, <2>3
<1> QED BY <1>8, <1>9, <1>11, <1>12, <1>13, <1>14, <1>15 DEF EventInv

(* Whatever happens in calls that are not blocked, with bits cleared.      *)
LEMMA OutsideWaits ==
    ASSUME EventInv, EventTypes', k' = k, s_ticks' = s_ticks, wakeAt' = wakeAt,
           s_pending' = s_pending, \A g \in EventGroup : bits'[g] \subseteq bits[g],
           \A u \in Task : InWait(u)' <=> InWait(u),
           \A u \in Task : InWait(u) => evCall'[u] = evCall[u]
    PROVE  EventInv'
<1>1. /\ SchedCore /\ SwitchAt({}) /\ EventTypes /\ EventLists /\ EventSlots /\ EventTimes
      /\ EventNoneForgotten /\ EventResultSatisfies
  BY DEF EventInv
<1>2. SchedCore' /\ SwitchAt({})'
  BY <1>1 DEF SchedCore, SwitchAt
<1>3. \A t \in Task : Waits(t)' <=> Waits(t)
  BY DEF Waits
<1>4. EventLists'
  BY <1>1, <1>3 DEF EventLists, Waits
<1>5. EventSlots'
  <2>1. \A i \in Slot : s_pending[i].task # NULL => s_pending[i].task \in Task
    BY <1>1 DEF EventTypes, SlotRecord
  <2> QED BY <1>1, <2>1 DEF EventSlots
<1>6. EventTimes'
  <2>1. \A t \in Task : k.timed_out[t] => InWait(t)
    BY <1>1 DEF EventTimes
  <2>2. \A t \in Task : Waits(t) => InWait(t)
    BY DEF Waits
  <2> QED BY <1>1, <1>3, <2>1, <2>2 DEF EventTimes, Forever
<1>7. EventNoneForgotten'
  <2> SUFFICES ASSUME NEW g \in EventGroup, NEW i \in DOMAIN k.waiters[g]
               PROVE  ~Satisfies(bits'[g], evCall'[k.waiters[g][i]].req)
    BY DEF EventNoneForgotten
  <2> DEFINE u == k.waiters[g][i]
  <2>1. u \in Task /\ u \in ToSet(k.waiters[g])
    BY <1>1, RequestGroup DEF SchedCore, KernelInv, KernelCore, KernelTypeOK, ToSet
  <2>2. InWait(u) /\ pc[u] # "user"
    BY <1>1, <2>1, RequestGroup DEF EventLists, Waits, InWait
  <2>3. evCall[u].req \in EventRequest /\ evCall'[u] = evCall[u]
    BY <1>1, <2>1, <2>2 DEF EventTypes, CallRecord
  <2>4. ~Satisfies(bits[g], evCall[u].req)
    BY <1>1 DEF EventNoneForgotten
  <2> HIDE DEF u
  <2>5. ~Satisfies(bits'[g], evCall[u].req)
    BY <2>3, <2>4, RequestsMet
  <2> QED BY <2>3, <2>5 DEF u
<1>8. EventResultSatisfies'
  <2>1. \A t \in Task : Served(t)' => Served(t) /\ evCall'[t] = evCall[t]
    BY DEF Served
  <2> QED BY <1>1, <2>1 DEF EventResultSatisfies, event_pending_find
<1> QED BY <1>2, <1>4, <1>5, <1>6, <1>7, <1>8 DEF EventInv

(* event_clear.                                                            *)
LEMMA EventClearInv ==
    ASSUME EventInv, NEW e \in EventGroup, NEW old \in SUBSET Bit, event_clear(e, old)
    PROVE  EventInv'
<1>1. /\ bits' = [bits EXCEPT ![e] = @ \ old] /\ k' = k /\ pc' = pc /\ s_ticks' = s_ticks
      /\ wakeAt' = wakeAt /\ s_pending' = s_pending /\ evCall' = evCall
  BY DEF event_clear, schedVars
<1>2. EventTypes'
  BY <1>1 DEF EventInv, EventTypes
<1>3. \A g \in EventGroup : bits'[g] \subseteq bits[g]
  BY <1>1 DEF EventInv, EventTypes
<1>4. \A u \in Task : InWait(u)' <=> InWait(u)
  BY <1>1 DEF InWait
<1> QED BY <1>1, <1>2, <1>3, <1>4, OutsideWaits

(* A task enters a call or leaves it without having blocked.               *)
LEMMA CallInv ==
    ASSUME EventInv, NEW t \in Task, pc[t] # "event_woken",
           NEW l \in {"user", "event_try"}, NEW c,
           IF l = "user" THEN c = NoCall ELSE c \in CallRecord,
           pc' = [pc EXCEPT ![t] = l], evCall' = [evCall EXCEPT ![t] = c],
           k' = k, s_ticks' = s_ticks, wakeAt' = wakeAt, s_pending' = s_pending,
           bits' \in [EventGroup -> SUBSET Bit], \A g \in EventGroup : bits'[g] \subseteq bits[g]
    PROVE  EventInv'
<1>1. EventTypes
  BY DEF EventInv
<1>2. /\ pc' \in [Task -> EventLabel] /\ pc'[t] = l /\ evCall'[t] = c
      /\ \A u \in Task : u # t => pc'[u] = pc[u] /\ evCall'[u] = evCall[u]
      /\ evCall' = [u \in Task |-> evCall'[u]]
  BY <1>1 DEF EventTypes, EventLabel
<1>3. EventTypes'
  BY <1>1, <1>2 DEF EventTypes
<1>4. \A u \in Task : (InWait(u)' <=> InWait(u)) /\ (InWait(u) => evCall'[u] = evCall[u])
  BY <1>2 DEF InWait
<1> QED BY <1>3, <1>4, OutsideWaits

(* Entering event_wait or event_wait_timeout.                              *)
LEMMA EnterInv ==
    ASSUME EventInv, NEW t \in Task, NEW req \in EventRequest, NEW d \in Time \cup {Forever},
           EnterWait(t, req, d)
    PROVE  EventInv'
<1> DEFINE c == [req |-> req, deadline |-> d]
<1>1. /\ pc[t] = "user" /\ evCall' = [evCall EXCEPT ![t] = c] /\ pc' = [pc EXCEPT ![t] = "event_try"]
      /\ k' = k /\ s_ticks' = s_ticks /\ wakeAt' = wakeAt /\ bits' = bits /\ s_pending' = s_pending
  BY DEF EnterWait, Goto
<1>2. c \in CallRecord
  BY DEF CallRecord
<1>3. bits' \in [EventGroup -> SUBSET Bit] /\ \A g \in EventGroup : bits'[g] \subseteq bits[g]
  BY <1>1 DEF EventInv, EventTypes
<1> HIDE DEF c
<1> QED BY <1>1, <1>2, <1>3, CallInv

(* The ways to return at once: the bits are there, or it is too late.      *)
LEMMA ReturnInv ==
    ASSUME EventInv, NEW t \in Task, EventNow(t) \/ EventTooLate(t)
    PROVE  EventInv'
<1> DEFINE req == evCall[t].req
<1>1. EventTypes /\ pc[t] = "event_try"
  BY DEF EventInv, EventNow, EventTooLate
<1>2. req \in EventRequest /\ req.group \in EventGroup
  <2>1. evCall[t] \in CallRecord
    BY <1>1 DEF EventTypes
  <2> QED BY <2>1, RequestGroup DEF CallRecord
<1>3. /\ evCall' = [evCall EXCEPT ![t] = NoCall] /\ pc' = [pc EXCEPT ![t] = "user"]
      /\ k' = k /\ s_ticks' = s_ticks /\ wakeAt' = wakeAt /\ s_pending' = s_pending
      /\ bits' = bits \/ bits' = [bits EXCEPT ![req.group] = AfterMatch(bits[req.group], req)]
  BY DEF EventNow, EventTooLate, Leave, Goto
<1>4. AfterMatch(bits[req.group], req) \subseteq bits[req.group]
  BY <1>2, RequestsMet
<1> HIDE DEF req
<1>5. bits' \in [EventGroup -> SUBSET Bit] /\ \A g \in EventGroup : bits'[g] \subseteq bits[g]
  BY <1>1, <1>2, <1>3, <1>4 DEF EventTypes
<1> QED BY <1>1, <1>3, <1>5, CallInv

(* event_pending_alloc finds a slot: there are as many as tasks, and the   *)
(* caller has none.                                                        *)
LEMMA SlotFree ==
    ASSUME EventInv, NEW t \in Task, ~InWait(t)
    PROVE  FreeSlot \in Slot /\ s_pending[FreeSlot].task = NULL
<1> DEFINE free == {i \in Slot : s_pending[i].task = NULL}
           f == [i \in Slot |-> s_pending[i].task]
           others == Task \ {t}
<1>1. EventTypes /\ EventSlots
  BY DEF EventInv
<1>2. EVENT_PENDING_MAX \in Nat /\ TASK_MAX \in Nat \ {0} /\ EVENT_PENDING_MAX >= TASK_MAX
  BY EventAssumption, KernelAssumption
<1>3. IsFiniteSet(others) /\ Cardinality(others) = TASK_MAX - 1
  <2>1. IsFiniteSet(Task) /\ Cardinality(Task) = TASK_MAX
    BY <1>2, FS_Interval DEF Task
  <2> QED BY <2>1, FS_RemoveElement
<1>4. Cardinality(Slot) = EVENT_PENDING_MAX
  BY <1>2, FS_Interval DEF Slot
<1>5. free # {}
  <2> SUFFICES ASSUME free = {} PROVE FALSE
    OBVIOUS
  <2>1. \A i \in Slot : s_pending[i].task \in others
    BY <1>1 DEF EventTypes, EventSlots, SlotRecord
  <2>2. f \in Injection(Slot, others)
    BY <1>1, <2>1 DEF EventSlots, Injection, IsInjective
  <2> HIDE DEF f, others
  <2>3. Cardinality(Slot) <= Cardinality(others)
    BY <1>3, <2>2, FS_Injection
  <2> QED BY <1>2, <1>3, <1>4, <2>3
<1>6. free \in SUBSET Nat
  BY <1>2 DEF Slot
<1>7. \E n \in free : \A j \in free : n <= j
  BY <1>5, <1>6, LeastNat
<1>8. FreeSlot \in free
  BY <1>6, <1>7 DEF FreeSlot, Min
<1> QED BY <1>8

(* Arming the countdown of a wait.                                         *)
LEMMA WaitArmed ==
    ASSUME EventInv, NEW t \in Task, pc[t] = "event_try", ~TooLate(t)
    PROVE  LET g == evCall[t].req.group
               A == ArmWait(t, g)
           IN
           /\ KernelCore(A) /\ A.priority = k.priority /\ A.s_task_count = k.s_task_count
           /\ A.waiters = k.waiters /\ A.state = k.state
           /\ \A u \in Task : u # t => /\ A.delay_ticks[u] = k.delay_ticks[u]
                                       /\ A.wait_list_head[u] = k.wait_list_head[u]
                                       /\ A.timed_out[u] <=> k.timed_out[u]
           /\ ~A.timed_out[t]
           /\ evCall[t].deadline = Forever => A.delay_ticks[t] = 0 /\ A.wait_list_head[t] = NULL
           /\ evCall[t].deadline # Forever =>
                 /\ A.delay_ticks[t] > 0 /\ s_ticks + A.delay_ticks[t] = evCall[t].deadline
                 /\ A.wait_list_head[t] = g
<1> DEFINE g == evCall[t].req.group
           d == evCall[t].deadline
           A == ArmWait(t, g)
<1>1. EventTypes /\ EventTimes /\ EventLists /\ KernelCore(k) /\ KernelTypeOK(k) /\ s_ticks \in Time
  BY DEF EventInv, SchedCore, KernelInv, KernelCore
<1>2. evCall[t] \in CallRecord
  BY <1>1 DEF EventTypes
<1>3. g \in WaitList /\ d \in Time \cup {Forever}
  BY <1>2, RequestGroup DEF CallRecord
<1>4. ~InWait(t) /\ k.state[t] # "BLOCKED" /\ k.delay_ticks[t] = 0 /\ ~k.timed_out[t]
  BY <1>1 DEF InWait, EventLists, EventTimes
<1> HIDE DEF g, d
<1>5. CASE d = Forever
  <2> DEFINE hs == [k.wait_list_head EXCEPT ![t] = NULL]
  <2>1. A = [k EXCEPT !.wait_list_head = hs] /\ hs \in [Task -> WaitList \cup {NULL}]
    BY <1>1, <1>5 DEF ArmWait, d, KernelTypeOK
  <2> HIDE DEF A, hs
  <2>2. /\ KernelTypeOK(A) /\ A.priority = k.priority /\ A.s_task_count = k.s_task_count
        /\ A.waiters = k.waiters /\ A.state = k.state /\ A.delay_ticks = k.delay_ticks
        /\ A.timed_out = k.timed_out /\ A.wait_list_head = hs
        /\ A.g_current_task = k.g_current_task /\ A.g_next_task = k.g_next_task
    BY <1>1, <2>1 DEF KernelTypeOK
  <2>3. A.wait_list_head[t] = NULL /\ \A u \in Task : u # t => A.wait_list_head[u] = k.wait_list_head[u]
    BY <1>1, <2>2 DEF KernelTypeOK, hs
  <2>4. KernelCore(A)
    BY <1>1, <2>2 DEF KernelCore, HasThreads, OnlyNext, IdleAlive
  <2> QED BY <1>4, <1>5, <2>2, <2>3, <2>4 DEF A, g, d
<1>6. CASE d # Forever
  <2> DEFINE n == d - s_ticks
  <2>1. A = ArmTimeout(k, t, g, n)
    BY <1>6 DEF ArmWait, d
  <2>2. d \in Time /\ ~(s_ticks >= d)
    BY <1>3, <1>6 DEF TooLate, DeadlinePassed, d
  <2>3. n \in Nat /\ n > 0 /\ s_ticks + n = d
    BY <1>1, <2>2, SchedulerAssumption DEF Time
  <2> HIDE DEF n
  <2> DEFINE ds == [k.delay_ticks EXCEPT ![t] = n]
             hs == [k.wait_list_head EXCEPT ![t] = g]
             os == [k.timed_out EXCEPT ![t] = FALSE]
  <2>8. A = [k EXCEPT !.delay_ticks = ds, !.wait_list_head = hs, !.timed_out = os]
    BY <2>1 DEF ArmTimeout
  <2>9. /\ ds \in [Task -> Nat] /\ hs \in [Task -> WaitList \cup {NULL}]
        /\ os \in [Task -> BOOLEAN]
    BY <1>1, <1>3, <2>3 DEF KernelTypeOK
  <2> HIDE DEF A, ds, hs, os
  <2>4. /\ KernelTypeOK(A) /\ A.priority = k.priority /\ A.s_task_count = k.s_task_count
        /\ A.waiters = k.waiters /\ A.state = k.state
        /\ A.delay_ticks = ds /\ A.timed_out = os /\ A.wait_list_head = hs
        /\ A.g_current_task = k.g_current_task /\ A.g_next_task = k.g_next_task
    BY <1>1, <2>8, <2>9 DEF KernelTypeOK
  <2>5. /\ A.wait_list_head[t] = g /\ A.delay_ticks[t] = n
        /\ \A u \in Task : u # t => /\ A.wait_list_head[u] = k.wait_list_head[u]
                                    /\ A.delay_ticks[u] = k.delay_ticks[u]
    BY <1>1, <2>4 DEF KernelTypeOK, ds, hs
  <2>6. ~A.timed_out[t] /\ \A u \in Task : u # t => (A.timed_out[u] <=> k.timed_out[u])
    <3>1. k.timed_out \in [Task -> BOOLEAN]
      BY <1>1 DEF KernelTypeOK
    <3> QED BY <2>4, <3>1, Zenon DEF os
  <2>7. KernelCore(A)
    BY <1>1, <2>4 DEF KernelCore, HasThreads, OnlyNext, IdleAlive
  <2> QED BY <1>6, <2>3, <2>4, <2>5, <2>6, <2>7 DEF A, g, d
<1> QED BY <1>5, <1>6

(* The end of event_wait when the bits are not there.                      *)
LEMMA EventBlockInv ==
    ASSUME EventInv, NEW t \in Task, EventBlock(t)
    PROVE  EventInv'
<1> DEFINE req == evCall[t].req
           g == req.group
           A == ArmWait(t, g)
           s == FreeSlot
<1>1. /\ pc[t] = "event_try" /\ ~event_condition_met(bits[g], req) /\ ~TooLate(t)
      /\ s_pending' = [s_pending EXCEPT ![s].task = t, ![s].req = req]
      /\ k' = BlockOn(A, t, g) /\ pc' = [pc EXCEPT ![t] = "event_woken"]
      /\ s_ticks' = s_ticks /\ wakeAt' = wakeAt /\ bits' = bits /\ evCall' = evCall
  BY DEF EventBlock, Goto
<1>2. /\ SchedCore /\ SwitchAt({}) /\ EventTypes /\ EventLists /\ EventSlots /\ EventTimes
      /\ EventNoneForgotten /\ EventResultSatisfies
  BY DEF EventInv
<1>3. req \in EventRequest /\ g \in EventGroup /\ g \in WaitList
  <2>1. evCall[t] \in CallRecord
    BY <1>1, <1>2 DEF EventTypes
  <2> QED BY <2>1, RequestGroup DEF CallRecord
<1>4. ~InWait(t) /\ k.state[t] # "BLOCKED" /\ ~Waits(t) /\ \A h \in WaitList : t \notin ToSet(k.waiters[h])
  BY <1>1, <1>2 DEF InWait, EventLists, Waits
<1>5. s \in Slot /\ s_pending[s].task = NULL /\ t # NULL
  BY <1>4, SlotFree, KernelAssumption DEF Thread
<1>6. /\ KernelCore(A) /\ A.priority = k.priority /\ A.s_task_count = k.s_task_count
      /\ A.waiters = k.waiters /\ A.state = k.state
      /\ \A u \in Task : u # t => /\ A.delay_ticks[u] = k.delay_ticks[u]
                                  /\ A.wait_list_head[u] = k.wait_list_head[u]
                                  /\ A.timed_out[u] <=> k.timed_out[u]
      /\ ~A.timed_out[t]
      /\ evCall[t].deadline = Forever => A.delay_ticks[t] = 0 /\ A.wait_list_head[t] = NULL
      /\ evCall[t].deadline # Forever =>
            /\ A.delay_ticks[t] > 0 /\ s_ticks + A.delay_ticks[t] = evCall[t].deadline
            /\ A.wait_list_head[t] = g
  BY <1>1, WaitArmed
<1> HIDE DEF A, s, g, req
<1>7. /\ KernelInv(k') /\ k'.pendsv
      /\ k'.priority = A.priority /\ k'.delay_ticks = A.delay_ticks
      /\ k'.wait_list_head = A.wait_list_head /\ k'.timed_out = A.timed_out
      /\ k'.g_current_task = A.g_current_task /\ k'.s_task_count = A.s_task_count
      /\ \A u \in Thread : k'.state[u] = "BLOCKED" <=> u = t \/ A.state[u] = "BLOCKED"
      /\ \A h \in WaitList : h # g => k'.waiters[h] = A.waiters[h]
      /\ ToSet(k'.waiters[g]) = ToSet(A.waiters[g]) \cup {t}
      /\ Once(A.waiters[g]) /\ t \notin ToSet(A.waiters[g]) => Once(k'.waiters[g])
      /\ Sorted(A.waiters[g], A.priority) => Sorted(k'.waiters[g], A.priority)
  <2>1. KernelCore(A) /\ g \in WaitList /\ k' = BlockOn(A, t, g)
    BY <1>1, <1>3, <1>6
  <2> QED BY <2>1, BlockOnResult
<1>8. \A u \in Task : k'.state[u] = "BLOCKED" <=> u = t \/ k.state[u] = "BLOCKED"
  BY <1>6, <1>7 DEF Thread
<1>9. /\ pc' \in [Task -> EventLabel] /\ pc'[t] = "event_woken"
      /\ \A u \in Task : u # t => pc'[u] = pc[u]
  BY <1>1, <1>2 DEF EventTypes, EventLabel
<1>10. /\ s_pending' \in [Slot -> SlotRecord] /\ s_pending'[s].task = t /\ s_pending'[s].req = req
       /\ \A i \in Slot : i # s => s_pending'[i] = s_pending[i]
  <2> DEFINE e == [s_pending[s] EXCEPT !.task = t, !.req = req]
  <2>1. s_pending \in [Slot -> SlotRecord] /\ s \in Slot /\ s_pending[s] \in SlotRecord
    BY <1>2, <1>5 DEF EventTypes
  <2>2. s_pending' = [s_pending EXCEPT ![s] = e]
    BY <1>1, <2>1
  <2>3. e \in SlotRecord /\ e.task = t /\ e.req = req
    BY <1>3, <2>1 DEF SlotRecord
  <2> HIDE DEF e
  <2> QED BY <2>1, <2>2, <2>3
<1>11. \A u \in Task : (InWait(u)' <=> u = t \/ InWait(u)) /\ (Waits(u)' <=> u = t \/ Waits(u))
  BY <1>8, <1>9 DEF InWait, Waits
<1>12. SchedCore' /\ SwitchAt({})'
  BY <1>1, <1>2, <1>6, <1>7 DEF SchedCore, SwitchAt
<1>13. EventTypes'
  BY <1>1, <1>2, <1>9, <1>10 DEF EventTypes
<1>14. EventLists'
  <2>1. \A h \in WaitList : Once(k'.waiters[h])
    BY <1>2, <1>4, <1>6, <1>7 DEF EventLists
  <2>2. \A h \in WaitList, u \in Task :
           u \in ToSet(k'.waiters[h]) <=> u \in ToSet(k.waiters[h]) \/ (u = t /\ h = g)
    BY <1>3, <1>6, <1>7
  <2>3. \A h \in WaitList, u \in Task :
           u \in ToSet(k'.waiters[h]) <=> Waits(u)' /\ evCall[u].req.group = h
    BY <1>2, <1>4, <1>11, <2>2 DEF EventLists, g, req
  <2>4. \A u \in Task : k'.state[u] = "BLOCKED" => InWait(u)'
    BY <1>2, <1>8, <1>11 DEF EventLists
  <2> QED BY <1>1, <2>1, <2>3, <2>4 DEF EventLists
<1>15. EventSlots'
  <2>1. \A i \in Slot : i # s /\ s_pending[i].task # NULL =>
           /\ s_pending[i].task \in Task /\ s_pending[i].task # t
           /\ InWait(s_pending[i].task) /\ s_pending[i].req = evCall[s_pending[i].task].req
    BY <1>2, <1>4 DEF EventTypes, EventSlots, SlotRecord
  <2>2. \A i \in Slot : s_pending'[i].task # NULL =>
           pc'[s_pending'[i].task] = "event_woken" /\ s_pending'[i].req = evCall'[s_pending'[i].task].req
    BY <1>1, <1>9, <1>10, <2>1 DEF req, InWait
  <2>3. \A u \in Task : InWait(u)' => \E i \in Slot : s_pending'[i].task = u
    BY <1>2, <1>5, <1>10, <1>11, KernelAssumption DEF EventSlots, Thread
  <2>4. \A i, j \in Slot : s_pending'[i].task = s_pending'[j].task /\ s_pending'[i].task # NULL => i = j
    BY <1>2, <1>5, <1>10, <2>1 DEF EventSlots
  <2> QED BY <2>2, <2>3, <2>4 DEF EventSlots, InWait
<1>16. EventTimes'
  <2> SUFFICES ASSUME NEW u \in Task
               PROVE  /\ k'.state[u] # "BLOCKED" => k'.delay_ticks[u] = 0
                      /\ Waits(u)' /\ evCall[u].deadline = Forever =>
                            k'.delay_ticks[u] = 0 /\ k'.wait_list_head[u] = NULL
                      /\ Waits(u)' /\ evCall[u].deadline # Forever =>
                            /\ k'.delay_ticks[u] > 0 /\ s_ticks + k'.delay_ticks[u] = evCall[u].deadline
                            /\ k'.wait_list_head[u] = evCall[u].req.group
                      /\ k'.timed_out[u] => InWait(u)' /\ ~Waits(u)' /\ evCall[u].deadline # Forever
    BY <1>1 DEF EventTimes, Forever
  <2>1. CASE u = t
    BY <1>6, <1>7, <1>8, <2>1 DEF g, req
  <2>2. CASE u # t
    BY <1>2, <1>6, <1>7, <1>8, <1>11, <2>2 DEF EventTimes
  <2> QED BY <2>1, <2>2
<1>17. EventNoneForgotten'
  <2> SUFFICES ASSUME NEW h \in EventGroup, NEW i \in DOMAIN k'.waiters[h]
               PROVE  ~Satisfies(bits[h], evCall[k'.waiters[h][i]].req)
    BY <1>1 DEF EventNoneForgotten
  <2> DEFINE u == k'.waiters[h][i]
  <2>1. h \in WaitList /\ u \in Task /\ u \in ToSet(k'.waiters[h])
    BY <1>12, RequestGroup DEF SchedCore, KernelInv, KernelCore, KernelTypeOK, ToSet
  <2> HIDE DEF u
  <2>2. (u = t /\ h = g) \/ u \in ToSet(k.waiters[h])
    BY <1>6, <1>7, <2>1
  <2>3. ~Satisfies(bits[g], req)
    BY <1>1, <1>3, RequestsMet
  <2>4. CASE u = t /\ h = g
    BY <2>3, <2>4 DEF u, req
  <2>5. CASE u \in ToSet(k.waiters[h])
    <3>1. PICK j \in DOMAIN k.waiters[h] : k.waiters[h][j] = u
      BY <2>1, <2>5, <1>2 DEF ToSet, SchedCore, KernelInv, KernelCore, KernelTypeOK
    <3> QED BY <1>2, <3>1 DEF EventNoneForgotten, u
  <2> QED BY <2>2, <2>4, <2>5
<1>18. EventResultSatisfies'
  <2> SUFFICES ASSUME NEW u \in Task, Served(u)', NEW i \in Slot, s_pending'[i].task = u
               PROVE  Satisfies(s_pending'[i].observed_bits, evCall[u].req)
    BY <1>1 DEF EventResultSatisfies, event_pending_find
  <2>1. u # t /\ Served(u)
    BY <1>6, <1>7, <1>8, <1>9 DEF Served, InWait
  <2>2. i # s /\ s_pending'[i] = s_pending[i]
    BY <1>10, <2>1
  <2> QED BY <1>2, <2>1, <2>2 DEF EventResultSatisfies, event_pending_find
<1> QED BY <1>12, <1>13, <1>14, <1>15, <1>16, <1>17, <1>18 DEF EventInv

(* The task that runs is not blocked.                                      *)
LEMMA RunnerAwake ==
    ASSUME EventInv, NEW t \in Task, Runs(t)
    PROVE  k.state[t] # "BLOCKED"
BY DEF EventInv, SchedCore, KernelInv, SwitchAt, Runs

(* The end of a wait.                                                      *)
LEMMA EventWokenInv ==
    ASSUME EventInv, NEW t \in Task, EventWoken(t)
    PROVE  EventInv'
<1>1. /\ SchedCore /\ SwitchAt({}) /\ EventTypes /\ EventLists /\ EventSlots /\ EventTimes
      /\ EventNoneForgotten /\ EventResultSatisfies /\ KernelTypeOK(k)
  BY DEF EventInv, SchedCore, KernelInv, KernelCore
<1>2. /\ InWait(t) /\ k.state[t] # "BLOCKED" /\ ~Waits(t)
      /\ \A h \in WaitList : t \notin ToSet(k.waiters[h])
  <2>1. InWait(t) /\ k.state[t] # "BLOCKED"
    BY RunnerAwake DEF EventWoken, InWait
  <2> QED BY <1>1, <2>1 DEF Waits, EventLists
<1>3. /\ s_pending' = event_pending_free(t) /\ evCall' = [evCall EXCEPT ![t] = NoCall]
      /\ pc' = [pc EXCEPT ![t] = "user"]
      /\ s_ticks' = s_ticks /\ wakeAt' = wakeAt /\ bits' = bits
  BY DEF EventWoken, Leave, Goto
<1>4. /\ KernelInv(k') /\ SameButWaits(k, k') /\ ~k'.timed_out[t]
      /\ \A u \in Task : u # t => /\ k'.timed_out[u] <=> k.timed_out[u]
                                  /\ k'.wait_list_head[u] = k.wait_list_head[u]
  <2>1. CASE evCall[t].deadline # Forever /\ k.timed_out[t]
    <3> DEFINE os == [k.timed_out EXCEPT ![t] = FALSE]
               hs == [k.wait_list_head EXCEPT ![t] = NULL]
    <3>1. k' = [k EXCEPT !.timed_out = os, !.wait_list_head = hs]
      BY <2>1 DEF EventWoken
    <3>2. os \in [Task -> BOOLEAN] /\ hs \in [Task -> WaitList \cup {NULL}]
      BY <1>1 DEF KernelTypeOK
    <3>3. \A u \in Task : u # t => hs[u] = k.wait_list_head[u]
      BY <1>1 DEF KernelTypeOK
    <3>4. k.timed_out \in [Task -> BOOLEAN]
      BY <1>1 DEF KernelTypeOK
    <3>5. ~os[t] /\ \A u \in Task : u # t => (os[u] <=> k.timed_out[u])
      BY <3>4, Zenon
    <3> HIDE DEF os, hs
    <3>6. SameButWaits(k, k') /\ k'.timed_out = os /\ k'.wait_list_head = hs
      BY <1>1, <3>1, <3>2 DEF SameButWaits, KernelTypeOK
    <3>7. KernelInv(k')
      BY <1>1, <3>6, WaitFieldsKept DEF SchedCore
    <3> QED BY <3>3, <3>5, <3>6, <3>7
  <2>2. CASE ~(evCall[t].deadline # Forever /\ k.timed_out[t])
    <3>1. k' = k /\ ~k.timed_out[t]
      BY <1>1, <2>2 DEF EventWoken, EventTimes
    <3> QED BY <1>1, <3>1 DEF SameButWaits, SchedCore
  <2> QED BY <2>1, <2>2
<1>5. /\ k'.state = k.state /\ k'.waiters = k.waiters /\ k'.delay_ticks = k.delay_ticks
      /\ k'.g_current_task = k.g_current_task /\ k'.g_next_task = k.g_next_task
      /\ k'.pendsv = k.pendsv /\ k'.s_task_count = k.s_task_count
  BY <1>4 DEF SameButWaits
<1>6. /\ pc' \in [Task -> EventLabel] /\ pc'[t] = "user" /\ evCall'[t] = NoCall
      /\ \A u \in Task : u # t => pc'[u] = pc[u] /\ evCall'[u] = evCall[u]
      /\ evCall' = [u \in Task |-> evCall'[u]]
  BY <1>1, <1>3 DEF EventTypes, EventLabel
<1>7. EmptySlot \in SlotRecord /\ EmptySlot.task = NULL
  BY DEF EmptySlot, SlotRecord
<1>8. /\ s_pending' \in [Slot -> SlotRecord]
      /\ \A i \in Slot : s_pending[i].task = t => s_pending'[i].task = NULL
      /\ \A i \in Slot : s_pending[i].task # t => s_pending'[i] = s_pending[i]
  BY <1>1, <1>3, <1>7 DEF EventTypes, event_pending_free
<1>9. \A u \in Task : (InWait(u)' <=> u # t /\ InWait(u)) /\ (Waits(u)' <=> Waits(u))
  BY <1>2, <1>5, <1>6 DEF InWait, Waits
<1>10. SchedCore' /\ SwitchAt({})'
  BY <1>1, <1>3, <1>4, <1>5 DEF SchedCore, SwitchAt
<1>11. EventTypes'
  BY <1>1, <1>3, <1>6, <1>8 DEF EventTypes
<1>12. EventLists'
  BY <1>1, <1>2, <1>5, <1>6, <1>9 DEF EventLists
<1>13. EventSlots'
  <2>1. \A i \in Slot : s_pending[i].task # NULL => s_pending[i].task \in Task
    BY <1>1 DEF EventTypes, SlotRecord
  <2>2. t # NULL
    BY KernelAssumption DEF Thread
  <2> QED BY <1>1, <1>6, <1>8, <1>9, <2>1, <2>2 DEF EventSlots
<1>14. EventTimes'
  BY <1>1, <1>2, <1>3, <1>4, <1>5, <1>6, <1>9 DEF EventTimes, Forever
<1>15. EventNoneForgotten'
  <2>1. \A h \in EventGroup : \A i \in DOMAIN k.waiters[h] : k.waiters[h][i] \in Task /\ k.waiters[h][i] # t
    BY <1>1, <1>2, RequestGroup DEF KernelTypeOK, ToSet
  <2> QED BY <1>1, <1>3, <1>5, <1>6, <2>1 DEF EventNoneForgotten
<1>16. EventResultSatisfies'
  <2> SUFFICES ASSUME NEW u \in Task, Served(u)', NEW i \in Slot, s_pending'[i].task = u
               PROVE  Satisfies(s_pending'[i].observed_bits, evCall'[u].req)
    BY DEF EventResultSatisfies, event_pending_find
  <2>1. u # t /\ Served(u)
    BY <1>4, <1>5, <1>6 DEF Served, InWait
  <2>2. s_pending'[i] = s_pending[i] /\ evCall'[u] = evCall[u]
    BY <1>6, <1>8, <2>1, KernelAssumption DEF Thread
  <2> QED BY <1>1, <2>1, <2>2 DEF EventResultSatisfies, event_pending_find
<1> QED BY <1>10, <1>11, <1>12, <1>13, <1>14, <1>15, <1>16 DEF EventInv

(* A countdown that runs out on a wait list is a timeout.                  *)
LEMMA CountDownTimesOut ==
    ASSUME NEW K, KernelTypeOK(K), NEW n \in Nat, NEW t \in Task,
           t \in Expired(K, n), K.wait_list_head[t] # NULL
    PROVE  CountDown(K, n).timed_out[t]
<1> DEFINE out == Expired(K, n)
           timedOut == {u \in out : K.wait_list_head[u] # NULL}
           os == [u \in Task |-> u \in timedOut \/ K.timed_out[u]]
<1>1. CountDown(K, n).timed_out = os
  <2>1. "timed_out" \in DOMAIN K
    BY DEF KernelTypeOK
  <2> HIDE DEF os, timedOut, out
  <2> QED BY <2>1 DEF CountDown, os, timedOut, out
<1>2. os[t]
  OBVIOUS
<1> QED BY <1>1, <1>2

(* The tick and the context switch.                                        *)
LEMMA EventTickInv ==
    ASSUME EventInv, SysTick_Handler, UNCHANGED eventVars
    PROVE  EventInv'
<1> DEFINE C == CountDown(k, 1)
           X == Expired(k, 1)
<1>1. /\ SchedCore /\ SwitchAt({}) /\ EventTypes /\ EventLists /\ EventSlots /\ EventTimes
      /\ EventNoneForgotten /\ EventResultSatisfies /\ KernelCore(k) /\ KernelTypeOK(k)
      /\ k.s_task_count = TASK_MAX /\ s_ticks \in Time
  BY DEF EventInv, SchedCore, KernelInv, KernelCore
<1>2. /\ s_ticks' = (s_ticks + 1) % TickModulus /\ pc' = pc /\ wakeAt' = wakeAt
      /\ bits' = bits /\ s_pending' = s_pending /\ evCall' = evCall /\ k' = sched_tick_n(k, 1)
  BY DEF SysTick_Handler, Tick, eventVars
<1>3. /\ KernelInv(k') /\ SameWaits(C, k') /\ (k'.g_next_task # k'.g_current_task => k'.pendsv)
  BY <1>1, <1>2, TickDecides
<1>4. /\ C.s_task_count = k.s_task_count
      /\ \A t \in Task :
           IF t \in X
           THEN C.state[t] = "READY" /\ C.delay_ticks[t] = 0 /\ C.wait_list_head[t] = NULL
           ELSE /\ C.state[t] = k.state[t]
                /\ C.delay_ticks[t] =
                     IF t \in Created(k) /\ k.state[t] = "BLOCKED" /\ k.delay_ticks[t] > 1
                     THEN k.delay_ticks[t] - 1 ELSE k.delay_ticks[t]
                /\ C.wait_list_head[t] = k.wait_list_head[t]
                /\ C.timed_out[t] <=> k.timed_out[t]
      /\ \A h \in WaitList :
           /\ C.waiters[h] \in Seq(Task) /\ SubList(C.waiters[h], k.waiters[h])
           /\ ToSet(C.waiters[h]) = ToSet(k.waiters[h]) \ {t \in X : k.wait_list_head[t] = h}
  BY <1>1, CountDownWaits
<1>5. /\ k'.delay_ticks = C.delay_ticks /\ k'.wait_list_head = C.wait_list_head
      /\ k'.waiters = C.waiters /\ k'.timed_out = C.timed_out /\ k'.s_task_count = C.s_task_count
      /\ \A t \in Task : k'.state[t] = "BLOCKED" <=> C.state[t] = "BLOCKED"
  BY <1>3 DEF SameWaits, Thread
<1>6. \A t \in X : /\ t \in Task /\ Waits(t) /\ evCall[t].deadline # Forever
                   /\ k.wait_list_head[t] = evCall[t].req.group /\ k.wait_list_head[t] # NULL
  <2> SUFFICES ASSUME NEW t \in X
               PROVE  /\ t \in Task /\ Waits(t) /\ evCall[t].deadline # Forever
                      /\ k.wait_list_head[t] = evCall[t].req.group /\ k.wait_list_head[t] # NULL
    OBVIOUS
  <2>1. t \in Task /\ k.state[t] = "BLOCKED" /\ k.delay_ticks[t] # 0
    BY <1>1 DEF Expired, Created, Task
  <2>2. Waits(t) /\ pc[t] # "user"
    BY <1>1, <2>1 DEF EventLists, Waits, InWait
  <2>3. evCall[t].req.group \in WaitList
    BY <1>1, <2>1, <2>2, RequestGroup DEF EventTypes, CallRecord
  <2> QED BY <1>1, <2>1, <2>2, <2>3, KernelAssumption DEF EventTimes
<1>7. \A t \in X : C.timed_out[t]
  BY <1>1, <1>6, CountDownTimesOut
<1> HIDE DEF C, X
<1>8. \A t \in Task : Waits(t)' <=> Waits(t) /\ t \notin X
  BY <1>2, <1>4, <1>5 DEF Waits, InWait
<1>9. SchedCore' /\ SwitchAt({})'
  <2>1. s_ticks' \in Time
    BY <1>1, <1>2, SchedulerAssumption DEF Time
  <2> QED BY <1>1, <1>2, <1>3, <1>4, <1>5, <2>1 DEF SchedCore, SwitchAt
<1>10. EventTypes'
  BY <1>1, <1>2 DEF EventTypes
<1>11. EventLists'
  <2>1. ASSUME NEW h \in WaitList PROVE Once(k'.waiters[h])
    <3>1. k.waiters[h] \in Seq(Task) /\ k.priority \in [Task -> Priority] /\ Once(k.waiters[h])
      BY <1>1 DEF KernelTypeOK, EventLists
    <3> QED BY <1>4, <1>5, <3>1, SubListKeeps
  <2>2. \A h \in WaitList, t \in Task :
           t \in ToSet(k'.waiters[h]) <=> Waits(t)' /\ evCall[t].req.group = h
    BY <1>1, <1>4, <1>5, <1>6, <1>8 DEF EventLists
  <2>3. \A t \in Task : k'.state[t] = "BLOCKED" => k.state[t] = "BLOCKED"
    BY <1>4, <1>5
  <2> QED BY <1>1, <1>2, <2>1, <2>2, <2>3 DEF EventLists, InWait
<1>12. EventSlots'
  BY <1>1, <1>2 DEF EventSlots, InWait
<1>13. EventTimes'
  <2> SUFFICES ASSUME NEW t \in Task
               PROVE  /\ k'.state[t] # "BLOCKED" => k'.delay_ticks[t] = 0
                      /\ Waits(t)' /\ evCall[t].deadline = Forever =>
                            k'.delay_ticks[t] = 0 /\ k'.wait_list_head[t] = NULL
                      /\ Waits(t)' /\ evCall[t].deadline # Forever =>
                            /\ k'.delay_ticks[t] > 0 /\ s_ticks' + k'.delay_ticks[t] = evCall[t].deadline
                            /\ k'.wait_list_head[t] = evCall[t].req.group
                      /\ k'.timed_out[t] => InWait(t) /\ ~Waits(t)' /\ evCall[t].deadline # Forever
    BY <1>2 DEF EventTimes, InWait, Forever
  <2>1. CASE t \in X
    BY <1>4, <1>5, <1>6, <1>8, <2>1 DEF Waits
  <2>2. CASE t \notin X /\ ~Waits(t)
    <3>1. k.state[t] # "BLOCKED"
      BY <1>1, <2>2 DEF EventLists, Waits
    <3> QED BY <1>1, <1>4, <1>5, <1>8, <2>2, <3>1 DEF EventTimes
  <2>3. CASE t \notin X /\ Waits(t) /\ evCall[t].deadline = Forever
    <3>1. k.delay_ticks[t] = 0 /\ k.wait_list_head[t] = NULL /\ ~k.timed_out[t] /\ k.state[t] = "BLOCKED"
      BY <1>1, <2>3 DEF EventTimes, Waits
    <3>2. k'.delay_ticks[t] = 0
      BY <1>4, <1>5, <2>3, <3>1
    <3> QED BY <1>4, <1>5, <2>3, <3>1, <3>2
  <2>4. CASE t \notin X /\ Waits(t) /\ evCall[t].deadline # Forever
    <3> DEFINE d == k.delay_ticks[t]
               end == evCall[t].deadline
    <3>1. /\ d > 0 /\ s_ticks + d = end /\ k.wait_list_head[t] = evCall[t].req.group
          /\ ~k.timed_out[t] /\ k.state[t] = "BLOCKED"
      BY <1>1, <2>4 DEF EventTimes, Waits
    <3>2. d \in Nat /\ end \in Time /\ t \in Created(k)
      <4>1. evCall[t] \in CallRecord
        BY <1>1, <2>4 DEF EventTypes, Waits, InWait
      <4> QED BY <1>1, <2>4, <4>1 DEF KernelTypeOK, CallRecord, Created, Task
    <3>3. d # 1
      BY <2>4, <3>1, <3>2 DEF X, Expired
    <3>4. k'.delay_ticks[t] = d - 1 /\ k'.wait_list_head[t] = k.wait_list_head[t] /\ ~k'.timed_out[t]
      BY <1>4, <1>5, <2>4, <3>1, <3>2, <3>3
    <3> HIDE DEF d, end
    <3>5. s_ticks + 1 < TickModulus
      BY <1>1, <3>1, <3>2, <3>3, SchedulerAssumption DEF Time
    <3>6. s_ticks' = s_ticks + 1
      BY <1>1, <1>2, <3>5, SchedulerAssumption DEF Time
    <3>7. d - 1 > 0 /\ (s_ticks + 1) + (d - 1) = end
      BY <1>1, <3>1, <3>2, <3>3 DEF Time
    <3> QED BY <1>5, <1>4, <2>4, <3>1, <3>4, <3>6, <3>7 DEF end
  <2> QED BY <2>1, <2>2, <2>3, <2>4
<1>14. EventNoneForgotten'
  <2> SUFFICES ASSUME NEW h \in EventGroup, NEW i \in DOMAIN k'.waiters[h]
               PROVE  ~Satisfies(bits[h], evCall[k'.waiters[h][i]].req)
    BY <1>2 DEF EventNoneForgotten
  <2> DEFINE u == k'.waiters[h][i]
  <2>1. h \in WaitList /\ u \in Task /\ u \in ToSet(k'.waiters[h])
    BY <1>9, RequestGroup DEF SchedCore, KernelInv, KernelCore, KernelTypeOK, ToSet
  <2> HIDE DEF u
  <2>2. u \in ToSet(k.waiters[h])
    BY <1>4, <1>5, <2>1
  <2>3. PICK j \in DOMAIN k.waiters[h] : k.waiters[h][j] = u
    BY <1>1, <2>1, <2>2 DEF ToSet, KernelTypeOK
  <2> QED BY <1>1, <2>3 DEF EventNoneForgotten, u
<1>15. EventResultSatisfies'
  <2>1. \A t \in Task : Served(t)' => Served(t)
    BY <1>2, <1>4, <1>5, <1>7 DEF Served, InWait
  <2> QED BY <1>1, <1>2, <2>1 DEF EventResultSatisfies, event_pending_find
<1> QED BY <1>9, <1>10, <1>11, <1>12, <1>13, <1>14, <1>15 DEF EventInv

(* PendSV_Handler leaves every wait as it is.                              *)
LEMMA EventSwitchInv ==
    ASSUME EventInv, PendSV, UNCHANGED eventVars
    PROVE  EventInv'
<1>1. /\ SchedCore /\ SwitchAt({}) /\ EventTypes /\ EventLists /\ EventSlots /\ EventTimes
      /\ EventNoneForgotten /\ EventResultSatisfies
  BY DEF EventInv
<1>2. /\ k' = PendSV_Handler(k) /\ pc' = pc /\ s_ticks' = s_ticks /\ wakeAt' = wakeAt
      /\ bits' = bits /\ s_pending' = s_pending /\ evCall' = evCall
  BY DEF PendSV, eventVars
<1>3. /\ KernelInv(k') /\ k'.g_current_task = k'.g_next_task /\ k'.s_task_count = k.s_task_count
      /\ k'.state = k.state /\ k'.delay_ticks = k.delay_ticks
      /\ k'.wait_list_head = k.wait_list_head /\ k'.timed_out = k.timed_out /\ k'.waiters = k.waiters
  BY <1>1, <1>2, PendSVKeeps DEF SchedCore
<1>4. SchedCore' /\ SwitchAt({})'
  BY <1>1, <1>2, <1>3 DEF SchedCore, SwitchAt
<1>5. EventTypes' /\ EventSlots'
  BY <1>1, <1>2 DEF EventTypes, EventSlots, InWait
<1>6. EventLists' /\ EventTimes'
  BY <1>1, <1>2, <1>3 DEF EventLists, EventTimes, Waits, InWait, Forever
<1>7. EventNoneForgotten' /\ EventResultSatisfies'
  BY <1>1, <1>2, <1>3 DEF EventNoneForgotten, EventResultSatisfies, event_pending_find, Served, InWait
<1> QED BY <1>4, <1>5, <1>6, <1>7 DEF EventInv

(* At boot nobody waits.                                                   *)
LEMMA EventInitInv == EventInit => EventInv
<1> SUFFICES ASSUME EventInit PROVE EventInv
  OBVIOUS
<1>1. /\ bits = [e \in EventGroup |-> {}] /\ s_pending = [i \in Slot |-> EmptySlot]
      /\ evCall = [t \in Task |-> NoCall] /\ SchedInit /\ pc = [t \in Task |-> "user"]
  BY DEF EventInit, SchedInit
<1>2. /\ SchedInv /\ k.waiters = [h \in WaitList |-> << >>] /\ k.delay_ticks = [t \in Task |-> 0]
      /\ k.g_next_task = k.g_current_task /\ \A t \in Thread : k.state[t] # "BLOCKED"
  BY <1>1, InitCore
<1>3. SchedCore /\ SwitchAt({})
  BY <1>2 DEF SchedInv, SwitchAt
<1>4. EmptySlot \in SlotRecord /\ EmptySlot.task = NULL
  BY DEF EmptySlot, SlotRecord
<1>5. EventTypes /\ EventSlots
  BY <1>1, <1>4 DEF EventTypes, EventSlots, EventLabel, InWait
<1>6. \A h \in WaitList : Once(k.waiters[h]) /\ ToSet(k.waiters[h]) = {} /\ DOMAIN k.waiters[h] = {}
  BY <1>2 DEF Once, ToSet
<1>7. EventLists
  BY <1>1, <1>2, <1>6 DEF EventLists, Waits, InWait, Thread
<1>8. \A t \in Task : ~k.timed_out[t]
  <2>1. PICK p \in InitialPriority : k = Started(TASK_MAX, p)
    BY <1>1 DEF SchedInit
  <2>2. k.timed_out = [t \in Task |-> FALSE]
    BY <2>1 DEF Started, StartRunning, StartNext, StartCurrent, sched_init
  <2> QED BY <2>2
<1>9. EventTimes
  BY <1>1, <1>2, <1>8 DEF EventTimes, Waits, InWait
<1>10. EventNoneForgotten /\ EventResultSatisfies
  BY <1>1, <1>6, RequestGroup DEF EventNoneForgotten, EventResultSatisfies, Served, InWait
<1> QED BY <1>3, <1>5, <1>7, <1>9, <1>10 DEF EventInv

(* One step of anything.                                                   *)
LEMMA EventNextInv == EventInv /\ [EventNext]_eventAllVars => EventInv'
<1> SUFFICES ASSUME EventInv, [EventNext]_eventAllVars PROVE EventInv'
  OBVIOUS
<1>1. CASE UNCHANGED eventAllVars
  <2>1. /\ k' = k /\ pc' = pc /\ s_ticks' = s_ticks /\ wakeAt' = wakeAt
        /\ bits' = bits /\ s_pending' = s_pending /\ evCall' = evCall
    BY <1>1 DEF eventAllVars, schedVars, eventVars
  <2>2. EventTypes' /\ \A u \in Task : InWait(u)' <=> InWait(u)
    BY <2>1 DEF EventInv, EventTypes, InWait
  <2> QED BY <2>1, <2>2, OutsideWaits
<1>2. CASE (SysTick_Handler \/ PendSV) /\ UNCHANGED eventVars
  BY <1>2, EventTickInv, EventSwitchInv
<1>3. ASSUME NEW e \in EventGroup, NEW b \in Bit, event_set(e, {b}) \/ event_clear(e, {b})
      PROVE  EventInv'
  <2>1. {b} \in SUBSET Bit
    OBVIOUS
  <2> QED BY <1>3, <2>1, EventSetInv, EventClearInv
<1>4. ASSUME NEW t \in Task, EventStep(t) PROVE EventInv'
  BY <1>4, ReturnInv, EventBlockInv, EventWokenInv DEF EventStep
<1>5. ASSUME NEW t \in Task, NEW req \in EventRequest, event_wait(t, req) PROVE EventInv'
  BY <1>5, EnterInv DEF event_wait
<1>6. ASSUME NEW t \in Task, NEW req \in EventRequest, NEW ms \in EventTimeout,
             event_wait_timeout(t, req, ms)
      PROVE  EventInv'
  <2>1. s_ticks \in Nat /\ ms \in Nat
    BY EventAssumption, SchedulerAssumption DEF EventInv, SchedCore, Time
  <2>2. Deadline(s_ticks, ms) \in Time
    BY <2>1, SchedulerAssumption DEF Deadline, Time
  <2> QED BY <1>6, <2>2, EnterInv DEF event_wait_timeout
<1> QED BY <1>1, <1>2, <1>3, <1>4, <1>5, <1>6 DEF EventNext, EventFromIsr, EventCall

(* What the invariant says of the slots and the lists.                     *)
LEMMA EventInvSlots == EventInv => EventSlotsExact
<1> SUFFICES ASSUME EventInv PROVE EventSlotsExact
  OBVIOUS
<1>1. SchedCore /\ EventTypes /\ EventLists /\ EventSlots /\ SchedTypeOK /\ KernelTypeOK(k)
  BY DEF EventInv, SchedCore, SchedTypeOK, KernelInv, KernelCore
<1>2. EventTypeOK
  <2>1. pc \in [Task -> SchedLabel \cup {"event_try", "event_woken"}]
    BY <1>1 DEF EventTypes, EventLabel, SchedLabel
  <2>2. \A i \in Slot : s_pending[i].task \in Task \cup {NULL} /\ s_pending[i].observed_bits \subseteq Bit
    BY <1>1 DEF EventTypes, SlotRecord
  <2>3. ASSUME NEW t \in Task, evCall[t] # NoCall
        PROVE  evCall[t].req \in EventRequest /\ evCall[t].deadline \in Time \cup {Forever}
    <3>1. evCall[t] \in CallRecord
      BY <1>1, <2>3 DEF EventTypes
    <3> QED BY <3>1 DEF CallRecord
  <2> QED BY <1>1, <2>1, <2>2, <2>3 DEF EventTypeOK, EventTypes
<1>3. LinkedOnce(k)
  <2> SUFFICES ASSUME NEW g \in WaitList, NEW h \in WaitList, NEW i \in DOMAIN k.waiters[g],
                      NEW j \in DOMAIN k.waiters[h], k.waiters[g][i] = k.waiters[h][j]
               PROVE  g = h /\ i = j
    BY DEF LinkedOnce
  <2>1. /\ k.waiters[g][i] \in Task /\ k.waiters[g][i] \in ToSet(k.waiters[g])
        /\ k.waiters[g][i] \in ToSet(k.waiters[h])
    BY <1>1 DEF KernelTypeOK, ToSet
  <2>2. g = h
    BY <1>1, <2>1 DEF EventLists
  <2> QED BY <1>1, <2>2 DEF EventLists, Once
<1>4. ASSUME NEW t \in Task
      PROVE  /\ Cardinality(event_pending_find(s_pending, t)) = IF InWait(t) THEN 1 ELSE 0
             /\ InWait(t) => \A i \in event_pending_find(s_pending, t) : s_pending[i].req = evCall[t].req
  <2> DEFINE own == event_pending_find(s_pending, t)
  <2>1. t # NULL
    BY KernelAssumption DEF Task, Thread
  <2>2. \A i \in own : i \in Slot /\ s_pending[i].task = t
    BY DEF event_pending_find
  <2>3. CASE InWait(t)
    <3>1. PICK i \in Slot : s_pending[i].task = t
      BY <1>1, <2>3 DEF EventSlots
    <3>2. own = {i}
      BY <1>1, <2>1, <3>1 DEF EventSlots, event_pending_find
    <3>3. Cardinality(own) = 1
      BY <3>2, FS_Singleton
    <3>4. \A n \in own : s_pending[n].req = evCall[t].req
      BY <1>1, <2>1, <2>2 DEF EventSlots
    <3> QED BY <2>3, <3>3, <3>4
  <2>4. CASE ~InWait(t)
    <3>1. own = {}
      BY <1>1, <2>1, <2>4 DEF EventSlots, event_pending_find
    <3> QED BY <2>4, <3>1, FS_EmptySet
  <2> QED BY <2>3, <2>4
<1>5. \A t \in Task, e \in EventGroup :
         t \in ToSet(k.waiters[e]) <=>
            InWait(t) /\ k.state[t] = "BLOCKED" /\ evCall[t].req.group = e
  BY <1>1, EventAssumption DEF EventLists, Waits
<1> QED BY <1>2, <1>3, <1>4, <1>5 DEF EventSlotsExact

(* What it says of the deadline.                                           *)
LEMMA EventInvDeadline == EventInv => EventEndsAtDeadline
BY DEF EventInv, EventTimes, EventEndsAtDeadline, Waits

(* The slots of s_pending are exactly those of the tasks in a blocked      *)
(* event_wait, and the list of a group links exactly the tasks blocked on  *)
(* it: none leaks, and event_pending_alloc always finds one, for any       *)
(* number of tasks, groups, bits and slots.                                *)
THEOREM EventSlotsKept == EventSpec => []EventSlotsExact
<1>1. EventInit => EventInv
  BY EventInitInv
<1>2. EventInv /\ [EventNext]_eventAllVars => EventInv'
  BY EventNextInv
<1>3. EventInv => EventSlotsExact
  BY EventInvSlots
<1> QED BY <1>1, <1>2, <1>3, PTL DEF EventSpec

(* One pass of event_wake_satisfied is enough: nobody sleeps on bits that  *)
(* satisfy its request, though the waiters served first clear bits.        *)
THEOREM EventWaitersServed == EventSpec => []EventNoneForgotten
<1>1. EventInit => EventInv
  BY EventInitInv
<1>2. EventInv /\ [EventNext]_eventAllVars => EventInv'
  BY EventNextInv
<1>3. EventInv => EventNoneForgotten
  BY DEF EventInv
<1> QED BY <1>1, <1>2, <1>3, PTL DEF EventSpec

(* The bits event_wait returns satisfy the request, whatever is set or     *)
(* cleared between the wake-up and the return.                             *)
THEOREM EventResults == EventSpec => []EventResultSatisfies
<1>1. EventInit => EventInv
  BY EventInitInv
<1>2. EventInv /\ [EventNext]_eventAllVars => EventInv'
  BY EventNextInv
<1>3. EventInv => EventResultSatisfies
  BY DEF EventInv
<1> QED BY <1>1, <1>2, <1>3, PTL DEF EventSpec

(* The countdown of event_wait_timeout ends at the deadline computed on    *)
(* entry, however many ticks fall before the critical section.             *)
THEOREM EventDeadlines == EventSpec => []EventEndsAtDeadline
<1>1. EventInit => EventInv
  BY EventInitInv
<1>2. EventInv /\ [EventNext]_eventAllVars => EventInv'
  BY EventNextInv
<1>3. EventInv => EventEndsAtDeadline
  BY EventInvDeadline
<1> QED BY <1>1, <1>2, <1>3, PTL DEF EventSpec

-----------------------------------------------------------------------------
(***************************************************************************)
(* Tickless idle.                                                          *)
(***************************************************************************)

(* The milliseconds a completed sleep of so many counter ticks stands for. *)
Whole(ticks) == IF ticks \div TICKS_PER_MS = 0 THEN 1 ELSE ticks \div TICKS_PER_MS

Sleeping == idle.at \in {"sleep", "woken"}

(* Places of the idle task at which another task may have the CPU.         *)
Preemptible == idle.at = "loop" \/ (idle.at = "service" /\ idle.i = 0)

(* The idle task is preempted in two places only, and a requested SysTick  *)
(* finds it there or in a wfi.                                             *)
IdlePlaces ==
    /\ idle \in [at : {"loop", "budget", "wfi", "sleep", "woken", "apply", "service", "expire"},
                 ms : Nat, i : Timers]
    /\ ~Preemptible => Runs(IdleTask)
    /\ s_tickless_active <=> Sleeping
    /\ syst.pend => ~k.pendsv /\ (Preemptible \/ idle.at \in {"wfi", "sleep"})

(* The SysTick counter: a millisecond, or the length of the sleep.         *)
SleepCounter ==
    /\ syst \in [rvr : Nat, cvr : Nat, countflag : BOOLEAN, pend : BOOLEAN]
    /\ syst.cvr <= syst.rvr /\ (syst.pend => syst.cvr = syst.rvr)
    /\ IF Sleeping THEN syst.rvr + 1 >= TICKS_PER_MS ELSE syst.rvr = TICKS_PER_MS - 1
    /\ idle.at = "sleep" => (syst.countflag <=> syst.pend)
    /\ idle.at = "woken" => syst.countflag
    /\ idle.at = "apply" => syst.cvr = syst.rvr

(* Timer i has been served since the last sleep.                           *)
ServedSince(i) ==
    /\ idle.at # "apply"
    /\ idle.at \in {"service", "expire"} => i < idle.i

(* The timers count, and no sleep goes beyond one.                         *)
SleepTimers ==
    /\ s_timers = [i \in Timers |-> s_timers[i]]
    /\ \A i \in Timers :
          /\ Counting(s_timers[i], s_ticks)
          /\ s_timers[i].active =>
                /\ s_timers[i].left \in 0 .. Half - 1
                /\ ServedSince(i) => s_timers[i].left >= 1
                /\ Sleeping => Whole(syst.rvr + 1) <= s_timers[i].left
    /\ idle.at = "expire" => s_timers[idle.i].active /\ s_timers[idle.i].left = 0
    /\ ((idle.at = "service" /\ idle.i # 0) \/ idle.at = "expire") => idle.ms = s_ticks
    /\ fired \subseteq Timers \X {0, -1}

(* Milliseconds the clock has counted and the countdowns have not.         *)
Unapplied == IF idle.at = "apply" THEN idle.ms ELSE 0

(* The countdowns of the delays, and no sleep goes beyond one.             *)
SleepDelays ==
    \A t \in Task : k.state[t] = "BLOCKED" =>
        /\ InDelay(t)
        /\ k.delay_ticks[t] \in 1 .. (TickModulus - 1)
        /\ Unapplied <= k.delay_ticks[t]
        /\ wakeAt[t] = (s_ticks + (k.delay_ticks[t] - Unapplied)) % TickModulus
        /\ idle.at = "budget" => idle.ms <= k.delay_ticks[t]
        /\ Sleeping => Whole(syst.rvr + 1) <= k.delay_ticks[t]

(* Counter ticks until a countdown of d milliseconds ends, with the idle   *)
(* task at w and the counter at c.                                         *)
Until(d, w, c) ==
    IF w.at = "apply" THEN (d - w.ms) * TICKS_PER_MS
    ELSE IF w.at \in {"sleep", "woken"}
         THEN (d - Whole(c.rvr + 1)) * TICKS_PER_MS + (IF c.countflag THEN 0 ELSE c.cvr + 1)
         ELSE (d - 1) * TICKS_PER_MS + (IF c.pend THEN 0 ELSE c.cvr + 1)

(* On the hardware clock a delay loses less than the millisecond that was  *)
(* running at the call.                                                    *)
SleepRest ==
    /\ rest \in [Task -> Int]
    /\ \A t \in Task : k.state[t] = "BLOCKED" =>
             rest[t] < Until(k.delay_ticks[t], idle, syst) + TICKS_PER_MS
    /\ \A t \in Task : InDelay(t) /\ k.state[t] # "BLOCKED" => rest[t] <= TICKS_PER_MS

(* The inductive invariant of tickless idle.                               *)
TicklessInv ==
    /\ SchedInv
    /\ IdlePlaces /\ SleepCounter /\ SleepTimers /\ SleepDelays /\ SleepRest
-----------------------------------------------------------------------------
(* The constants of the SysTick counter.                                   *)
LEMMA CounterRange ==
    /\ TICKS_PER_MS \in Nat /\ TICKS_PER_MS >= 1
    /\ TICKLESS_MAX_SLEEP_MS \in Nat /\ TICKLESS_MAX_SLEEP_MS >= 1
    /\ TICKLESS_MAX_RELOAD \in Nat /\ TICKLESS_MAX_RELOAD >= TICKS_PER_MS
BY TicklessAssumption

(* A smaller product has a smaller factor.                                 *)
LEMMA FactorBound ==
    ASSUME NEW T \in Nat, T >= 1, NEW a \in Nat, NEW b \in Nat, a * T <= b * T
    PROVE  a <= b
<1> SUFFICES ASSUME a >= b + 1 PROVE FALSE
  OBVIOUS
<1> DEFINE c == a - (b + 1)
<1>1. c \in Nat /\ a = c + b + 1
  OBVIOUS
<1> HIDE DEF c
<1>2. c * T \in Nat /\ b * T \in Nat /\ a * T = c * T + b * T + T
  BY <1>1
<1> QED BY <1>2

(* A completed sleep of at least a millisecond is not rounded up.          *)
LEMMA WholeSleep ==
    ASSUME NEW ticks \in Nat, ticks >= TICKS_PER_MS
    PROVE  /\ Whole(ticks) \in Nat /\ Whole(ticks) >= 1
           /\ Whole(ticks) * TICKS_PER_MS <= ticks
<1> DEFINE T == TICKS_PER_MS
           d == ticks \div T
           m == ticks % T
<1>1. T \in Nat /\ T >= 1
  BY CounterRange
<1>2. d \in Int /\ m \in 0 .. T - 1 /\ ticks = T * d + m
  BY <1>1
<1>3. Whole(ticks) = IF d = 0 THEN 1 ELSE d
  BY DEF Whole
<1> HIDE DEF T, d, m
<1>4. d >= 1
  <2> SUFFICES ASSUME d <= 0 PROVE FALSE
    BY <1>2
  <2> DEFINE e == -d
  <2>1. e \in Nat /\ d = -e
    BY <1>2
  <2> HIDE DEF e
  <2>2. T * e \in Nat /\ T * d = -(T * e)
    BY <1>1, <2>1
  <2>3. T * d <= 0 /\ T * d \in Int
    BY <2>2
  <2> QED BY <1>1, <1>2, <2>3 DEF T
<1>5. Whole(ticks) = d /\ d \in Nat
  BY <1>2, <1>3, <1>4
<1>6. d * T = T * d /\ T * d \in Int
  BY <1>1, <1>2
<1> QED BY <1>1, <1>2, <1>4, <1>5, <1>6 DEF T

(* systick_tickless_sleep sleeps no longer than it is asked to.            *)
LEMMA ReloadFits ==
    ASSUME NEW ms \in Nat, ms >= 1
    PROVE  /\ Reload(ms) \in Nat /\ Reload(ms) >= TICKS_PER_MS
           /\ Whole(Reload(ms)) <= ms
<1> DEFINE T == TICKS_PER_MS
           R == Reload(ms)
<1>1. T \in Nat /\ T >= 1 /\ TICKLESS_MAX_RELOAD \in Nat /\ TICKLESS_MAX_RELOAD >= T
  BY CounterRange
<1>2. ms * T \in Nat /\ ms * T >= T
  <2> DEFINE c == ms - 1
  <2>1. c \in Nat /\ ms = c + 1
    OBVIOUS
  <2> HIDE DEF c, T
  <2>2. c * T \in Nat /\ ms * T = c * T + T
    BY <1>1, <2>1
  <2> QED BY <1>1, <2>2
<1>3. R = IF ms * T > TICKLESS_MAX_RELOAD THEN TICKLESS_MAX_RELOAD ELSE ms * T
  BY DEF Reload
<1> HIDE DEF R
<1>4. R \in Nat /\ R >= T /\ R <= ms * T
  BY <1>1, <1>2, <1>3
<1>5. Whole(R) \in Nat /\ Whole(R) * T <= R
  BY <1>4, WholeSleep
<1>6. Whole(R) * T \in Nat
  BY <1>1, <1>5
<1>7. Whole(R) * T <= ms * T
  BY <1>2, <1>4, <1>5, <1>6
<1>8. Whole(R) <= ms
  BY <1>1, <1>5, <1>7, FactorBound
<1> QED BY <1>4, <1>8 DEF R

(* Min of a set of numbers.                                                *)
LEMMA MinIsLeast ==
    ASSUME NEW S \in SUBSET Nat, S # {}
    PROVE  Min(S) \in S /\ \A x \in S : Min(S) <= x
<1>1. \E m \in S : \A n \in S : m <= n
  BY LeastNat
<1> QED BY <1>1 DEF Min

(* sched_get_next_wakeup_ms is no longer than any countdown.               *)
LEMMA NextWakeup ==
    ASSUME KernelTypeOK(k), k.s_task_count = TASK_MAX
    PROVE  /\ sched_get_next_wakeup_ms \in Nat
           /\ \A t \in Task : k.state[t] = "BLOCKED" /\ k.delay_ticks[t] > 0 =>
                 sched_get_next_wakeup_ms <= k.delay_ticks[t]
<1> DEFINE S == {k.delay_ticks[t] : t \in {u \in Created(k) : k.state[u] = "BLOCKED" /\ k.delay_ticks[u] > 0}}
                   \cup {NoWakeup}
<1>1. k.delay_ticks \in [Task -> Nat] /\ Created(k) = Task
  BY DEF KernelTypeOK, Created, Task
<1>2. NoWakeup \in Nat
  BY TickRange DEF NoWakeup
<1>3. S \in SUBSET Nat /\ S # {}
  BY <1>1, <1>2
<1>4. Min(S) \in S /\ \A x \in S : Min(S) <= x
  BY <1>3, MinIsLeast
<1>5. sched_get_next_wakeup_ms = Min(S)
  BY DEF sched_get_next_wakeup_ms
<1> QED BY <1>1, <1>3, <1>4, <1>5

(* The budget of a sleep is no longer than any countdown or timer.         *)
LEMMA BudgetFits ==
    ASSUME SleepTimers, s_ticks \in Time, idle.ms \in Nat
    PROVE  /\ Budget \in Nat /\ Budget <= idle.ms
           /\ \A i \in Timers : s_timers[i].active => Budget <= s_timers[i].left
<1> DEFINE d(x) == Signed(x.deadline_ms - s_ticks)
           Left(x) == IF d(x) > 0 THEN d(x) ELSE 0
           on == {j \in Timers : s_timers[j].in_use /\ s_timers[j].active}
           S == {Left(s_timers[i]) : i \in on} \cup {NoWakeup}
           B == {idle.ms, Min(S), TICKLESS_MAX_SLEEP_MS}
<1>1. NoWakeup \in Nat /\ s_ticks \in Int /\ TICKLESS_MAX_SLEEP_MS \in Nat
  BY TickRange, CounterRange DEF NoWakeup, Time
<1>2. ASSUME NEW i \in Timers, s_timers[i].active
      PROVE  i \in on /\ Left(s_timers[i]) = s_timers[i].left /\ s_timers[i].left \in Nat
  <2>1. Counting(s_timers[i], s_ticks) /\ s_timers[i].left \in 0 .. Half - 1
    BY <1>2 DEF SleepTimers
  <2>2. s_timers[i].left >= -Half /\ s_timers[i].left < Half /\ s_timers[i].left <= Half
    BY <2>1, TickRange
  <2>3. d(s_timers[i]) = s_timers[i].left
    BY <1>1, <1>2, <2>1, <2>2, DistanceSeen
  <2>4. s_timers[i].in_use
    BY <1>2, <2>1 DEF Counting
  <2>5. s_timers[i].left \in Nat /\ s_timers[i].left >= 0
    BY <2>1, TickRange
  <2>6. Left(s_timers[i]) = s_timers[i].left
    BY <2>3, <2>5
  <2> QED BY <1>2, <2>4, <2>5, <2>6
<1>3. S \in SUBSET Nat /\ S # {}
  <2> HIDE DEF Left
  <2> QED BY <1>1, <1>2
<1>4. Min(S) \in S /\ \A x \in S : Min(S) <= x
  <2> HIDE DEF S
  <2> QED BY <1>3, MinIsLeast
<1>5. timer_get_next_ready_in_ms(s_ticks) = Min(S)
  BY DEF timer_get_next_ready_in_ms
<1>6. \A i \in Timers : s_timers[i].active => Min(S) <= s_timers[i].left /\ s_timers[i].left \in Nat
  <2> HIDE DEF Left
  <2> QED BY <1>2, <1>4
<1>7. Min(S) \in Nat
  <2> HIDE DEF S
  <2> QED BY <1>3, <1>4
<1> HIDE DEF S
<1>8. B \in SUBSET Nat /\ B # {}
  BY <1>1, <1>7
<1>9. Min(B) \in B /\ \A x \in B : Min(B) <= x
  <2> HIDE DEF B
  <2> QED BY <1>8, MinIsLeast
<1>10. Budget = Min(B)
  BY <1>5 DEF Budget
<1>11. Min(B) \in Nat /\ Min(B) <= idle.ms /\ Min(B) <= Min(S)
  <2> HIDE DEF B
  <2>1. idle.ms \in B /\ Min(S) \in B
    BY DEF B
  <2> QED BY <1>8, <1>9, <2>1
<1> HIDE DEF B
<1> QED BY <1>6, <1>7, <1>10, <1>11

(* What sched_tick_n(k, n) does to the countdowns.                         *)
LEMMA TickCountsDown ==
    ASSUME SchedCore, NEW n \in Nat, k' = sched_tick_n(k, n)
    PROVE  /\ KernelInv(k') /\ k'.s_task_count = TASK_MAX /\ k'.g_current_task = k.g_current_task
           /\ k'.g_next_task # k'.g_current_task => k'.pendsv
           /\ \A t \in Task : k.state[t] # "BLOCKED" => k'.state[t] # "BLOCKED"
           /\ \A t \in Task : k.state[t] = "BLOCKED" /\ k.delay_ticks[t] > 0 =>
                 IF k.delay_ticks[t] <= n THEN k'.state[t] # "BLOCKED"
                 ELSE k'.state[t] = "BLOCKED" /\ k'.delay_ticks[t] = k.delay_ticks[t] - n
<1> DEFINE C == CountDown(k, n)
           X == Expired(k, n)
<1>1. /\ KernelCore(k) /\ KernelTypeOK(k) /\ k.s_task_count = TASK_MAX /\ Created(k) = Task
      /\ k.delay_ticks \in [Task -> Nat] /\ Task \subseteq Thread
  BY DEF SchedCore, KernelInv, KernelCore, KernelTypeOK, Created, Task, Thread
<1>2. /\ KernelInv(k') /\ SameWaits(C, k') /\ k'.g_current_task = k.g_current_task
      /\ k'.g_next_task # k'.g_current_task => k'.pendsv
  BY <1>1, TickDecides
<1>3. /\ C.s_task_count = k.s_task_count
      /\ \A t \in Task :
           IF t \in X
           THEN C.state[t] = "READY" /\ C.delay_ticks[t] = 0
           ELSE /\ C.state[t] = k.state[t]
                /\ C.delay_ticks[t] =
                     IF t \in Created(k) /\ k.state[t] = "BLOCKED" /\ k.delay_ticks[t] > n
                     THEN k.delay_ticks[t] - n ELSE k.delay_ticks[t]
  BY <1>1, CountDownWaits
<1>4. \A t \in Task : t \in X <=> k.state[t] = "BLOCKED" /\ k.delay_ticks[t] \in 1 .. n
  BY <1>1 DEF Expired
<1> HIDE DEF C, X
<1>5. /\ k'.s_task_count = TASK_MAX /\ k'.delay_ticks = C.delay_ticks
      /\ \A t \in Task : k'.state[t] = "BLOCKED" <=> C.state[t] = "BLOCKED"
  BY <1>1, <1>2, <1>3 DEF SameWaits
<1>6. \A t \in Task : k.delay_ticks[t] \in Nat
  BY <1>1
<1> QED BY <1>1, <1>2, <1>3, <1>4, <1>5, <1>6
-----------------------------------------------------------------------------
(* Timers that are served up to a millisecond late, or in time.            *)

(* One iteration of timer_service_tick for a timer of which left was at    *)
(* least lo a millisecond before.                                          *)
LEMMA ServeLate ==
    ASSUME NEW x, NEW now \in Time, Counting(x, now), NEW lo \in {0, 1},
           x.active => x.left \in (lo - 1) .. (Half - 1)
    PROVE  LET y == IF Due(x, now) THEN Expire(x, "nothing", now) ELSE x IN
           /\ Due(x, now) <=> x.active /\ x.left <= 0
           /\ Counting(y, now)
           /\ y.active => y.left \in lo .. (Half - 1)
<1>1. x \in TimerRecord /\ now \in Int /\ Half \in Nat /\ (x.active => x.in_use)
  BY TickRange DEF Counting, Time
<1>2. CASE x.active
  <2>1. /\ x.period_ms \in Period /\ x.period_ms \in 1 .. Half - 1 /\ x.period_ms \in Int
        /\ x.left \in Int /\ x.left \in (lo - 1) .. (Half - 1)
    BY <1>1, <1>2, PeriodRange DEF Counting, TimerRecord
  <2>2. x.left > -Half /\ x.left >= -Half /\ x.left <= Half /\ (-x.left >= 0 <=> x.left <= 0)
    BY <1>1, <2>1
  <2>3. Signed(now - x.deadline_ms) = -x.left
    BY <1>1, <1>2, <2>2, DistanceSeen
  <2>4. Due(x, now) <=> x.left <= 0
    BY <1>1, <1>2, <2>2, <2>3 DEF Due
  <2>5. Expire(x, "nothing", now) = Rearm(x)
    BY DEF Expire, React
  <2>6. Counting(Rearm(x), now) /\ (Rearm(x).active => Rearm(x).left = x.left + x.period_ms)
    BY <1>2, RearmCounting
  <2>7. x.left <= 0 => x.left + x.period_ms \in lo .. (Half - 1)
    BY <1>1, <2>1
  <2>8. ~(x.left <= 0) => x.left \in lo .. (Half - 1)
    BY <1>1, <2>1
  <2> QED BY <1>2, <2>4, <2>5, <2>6, <2>7, <2>8
<1>3. CASE ~x.active
  BY <1>3 DEF Due
<1> QED BY <1>2, <1>3

(* The bounds on a timer's left that a place of the idle task gives.       *)
LEMMA ServedBounds ==
    ASSUME SleepTimers, NEW i \in Timers
    PROVE  /\ Counting(s_timers[i], s_ticks)
           /\ s_timers[i].active => s_timers[i].left \in (IF ServedSince(i) THEN 1 ELSE 0) .. (Half - 1)
<1>1. s_timers[i].active => /\ s_timers[i].left \in 0 .. (Half - 1)
                            /\ ServedSince(i) => s_timers[i].left >= 1
  BY DEF SleepTimers
<1>2. \A l \in 0 .. (Half - 1) : l >= 1 => l \in 1 .. (Half - 1)
  BY TickRange
<1> QED BY <1>1, <1>2 DEF SleepTimers

(* An ordinary tick serves all timers: none is more than a tick late.      *)
LEMMA TickServes ==
    ASSUME SleepTimers, s_ticks \in Time, s_ticks' = (s_ticks + 1) % TickModulus,
           Service([i \in Timers |-> "nothing"], s_ticks'),
           ~Sleeping', idle'.at # "expire", idle'.at = "service" => idle'.i = 0,
           \A i \in Timers : ServedSince(i)' => ServedSince(i)
    PROVE  SleepTimers'
<1> DEFINE now == (s_ticks + 1) % TickModulus
           pool == Aged(s_timers, 1)
           y(i) == IF Due(pool[i], now) THEN Expire(pool[i], "nothing", now) ELSE pool[i]
           lo(i) == IF ServedSince(i) THEN 1 ELSE 0
<1>1. now \in Time /\ Half \in Nat
  BY TickRange DEF Time
<1>2. /\ s_timers' = [i \in Timers |-> y(i)]
      /\ fired' = {<<i, pool[i].left>> : i \in {j \in Timers : Due(pool[j], now)}}
  BY DEF Service, timer_service_tick
<1> HIDE DEF now, pool
<1>3. ASSUME NEW i \in Timers
      PROVE  /\ Counting(y(i), now)
             /\ y(i).active => y(i).left \in lo(i) .. (Half - 1)
             /\ Due(pool[i], now) => pool[i].left \in {0, -1}
  <2>1. Counting(s_timers[i], s_ticks) /\ (s_timers[i].active => s_timers[i].left \in lo(i) .. (Half - 1))
    BY ServedBounds
  <2>2. /\ Counting(pool[i], now) /\ (pool[i].active <=> s_timers[i].active)
        /\ s_timers[i].active => pool[i].left = s_timers[i].left - 1
    BY <2>1, AgedCounting DEF pool, now
  <2>3. lo(i) \in {0, 1}
    OBVIOUS
  <2> HIDE DEF lo
  <2>4. \A l \in lo(i) .. (Half - 1) : l - 1 \in (lo(i) - 1) .. (Half - 1)
    BY <1>1, <2>3
  <2>5. pool[i].active => pool[i].left \in (lo(i) - 1) .. (Half - 1)
    BY <2>1, <2>2, <2>4
  <2>6. /\ Due(pool[i], now) <=> pool[i].active /\ pool[i].left <= 0
        /\ Counting(y(i), now)
        /\ y(i).active => y(i).left \in lo(i) .. (Half - 1)
    BY <1>1, <2>2, <2>3, <2>5, ServeLate
  <2>7. \A l \in (lo(i) - 1) .. (Half - 1) : l <= 0 => l \in {0, -1}
    BY <1>1, <2>3
  <2> HIDE DEF y
  <2> QED BY <2>5, <2>6, <2>7
<1> HIDE DEF y
<1>4. \A i \in Timers : s_timers'[i] = y(i)
  BY <1>2
<1>5. s_timers' = [i \in Timers |-> s_timers'[i]]
  BY <1>2
<1>6. fired' \subseteq Timers \X {0, -1}
  BY <1>2, <1>3
<1>7. ASSUME NEW i \in Timers, s_timers'[i].active
      PROVE  s_timers'[i].left \in 0 .. Half - 1 /\ (ServedSince(i)' => s_timers'[i].left >= 1)
  <2>1. y(i).left \in lo(i) .. (Half - 1)
    BY <1>3, <1>4, <1>7
  <2>2. \A l \in lo(i) .. (Half - 1) : l \in 0 .. Half - 1 /\ (ServedSince(i) => l >= 1)
    BY <1>1
  <2> QED BY <1>4, <2>1, <2>2
<1>8. \A i \in Timers : Counting(s_timers'[i], s_ticks')
  BY <1>3, <1>4 DEF now
<1> QED BY <1>5, <1>6, <1>7, <1>8 DEF SleepTimers
-----------------------------------------------------------------------------
(* The steps.                                                              *)

(* While a task runs, or a switch is pending, the idle task is in one of   *)
(* its two preemptible places.                                             *)
LEMMA TaskPreempts ==
    ASSUME TicklessInv, k.pendsv \/ k.g_current_task # IdleTask
    PROVE  Preemptible /\ ~Sleeping /\ idle.at \notin {"apply", "budget", "wfi", "expire"}
BY DEF TicklessInv, IdlePlaces, Preemptible, Sleeping, Runs

(* A step of the tasks or of PendSV at the same time.                      *)
LEMMA SameTimeInv ==
    ASSUME TicklessInv, SchedInv', s_ticks' = s_ticks,
           s_timers' = s_timers, fired' = fired, syst' = syst, idle' = idle, rest' = rest,
           s_tickless_active' = s_tickless_active,
           ~Preemptible => Runs(IdleTask)', syst.pend => ~k'.pendsv,
           \A t \in Task : k'.state[t] = "BLOCKED" =>
              k.state[t] = "BLOCKED" /\ InDelay(t)' /\ k'.delay_ticks[t] = k.delay_ticks[t]
                /\ wakeAt'[t] = wakeAt[t],
           \A t \in Task : InDelay(t)' /\ k'.state[t] # "BLOCKED" =>
              InDelay(t) /\ k.state[t] # "BLOCKED"
    PROVE  TicklessInv'
<1>1. IdlePlaces /\ SleepCounter /\ SleepTimers /\ SleepDelays /\ SleepRest
  BY DEF TicklessInv
<1>2. IdlePlaces'
  BY <1>1 DEF IdlePlaces, Preemptible, Sleeping
<1>3. SleepCounter'
  BY <1>1 DEF SleepCounter, Sleeping
<1>4. SleepTimers'
  BY <1>1 DEF SleepTimers, Sleeping, ServedSince
<1>5. SleepDelays'
  BY <1>1 DEF SleepDelays, Sleeping, Unapplied
<1>7. SleepRest'
  BY <1>1 DEF SleepRest
<1> QED BY <1>2, <1>3, <1>4, <1>5, <1>7 DEF TicklessInv

(* The context switch.                                                     *)
LEMMA TicklessSwitchInv ==
    ASSUME TicklessInv, PendSV, UNCHANGED <<timerVars, ticklessVars>>
    PROVE  TicklessInv'
<1>1. /\ k.pendsv /\ k' = PendSV_Handler(k) /\ pc' = pc /\ s_ticks' = s_ticks /\ wakeAt' = wakeAt
      /\ s_timers' = s_timers /\ fired' = fired /\ syst' = syst /\ idle' = idle /\ rest' = rest
      /\ s_tickless_active' = s_tickless_active
  BY DEF PendSV, timerVars, ticklessVars
<1>2. SchedInv'
  BY NextInv DEF TicklessInv, SchedNext
<1>3. k'.state = k.state /\ k'.delay_ticks = k.delay_ticks
  BY <1>1, PendSVKeeps DEF TicklessInv, SchedInv, SchedCore
<1>4. Preemptible
  BY <1>1, TaskPreempts
<1>5. ~syst.pend
  BY <1>1 DEF TicklessInv, IdlePlaces
<1>6. \A t \in Task : k.state[t] = "BLOCKED" => InDelay(t)
  BY DEF TicklessInv, SleepDelays
<1>7. \A t \in Task : InDelay(t)' <=> InDelay(t)
  BY <1>1 DEF InDelay
<1> QED BY <1>1, <1>2, <1>3, <1>4, <1>5, <1>6, <1>7, SameTimeInv

(* The rest of sched_delay_ms.                                             *)
LEMMA TicklessStepInv ==
    ASSUME TicklessInv, NEW t \in Task, SchedStep(t), ~syst.pend, UNCHANGED <<timerVars, ticklessVars>>
    PROVE  TicklessInv'
<1>1. /\ s_ticks' = s_ticks /\ s_timers' = s_timers /\ fired' = fired /\ syst' = syst /\ idle' = idle
      /\ rest' = rest /\ s_tickless_active' = s_tickless_active /\ k.g_current_task = t
      /\ pc \in [Task -> SchedLabel] /\ wakeAt \in [Task -> Time]
  BY DEF SchedStep, DelayTrigger, DelayReturn, SwitchTrigger, Runs, timerVars, ticklessVars,
         TicklessInv, SchedInv, SchedCore
<1>2. SchedInv'
  BY NextInv DEF TicklessInv, SchedNext
<1>3. Preemptible
  <2>1. t # IdleTask
    BY KernelAssumption DEF Task
  <2> QED BY <1>1, <2>1, TaskPreempts
<1>4. k'.state = k.state /\ k'.delay_ticks = k.delay_ticks
  <2>1. KernelTypeOK(k)
    BY DEF TicklessInv, SchedInv, SchedCore, KernelInv, KernelCore
  <2>2. k' = k \/ k' = [k EXCEPT !.pendsv = TRUE]
    BY DEF SchedStep, DelayTrigger, DelayReturn, SwitchTrigger, trigger_pendsv
  <2> QED BY <2>1, <2>2 DEF KernelTypeOK
<1>5. \A u \in Task : k.state[u] = "BLOCKED" => InDelay(u)
  BY DEF TicklessInv, SleepDelays
<1>6. \A u \in Task : u # t => pc'[u] = pc[u] /\ wakeAt'[u] = wakeAt[u]
  BY <1>1 DEF SchedStep, DelayTrigger, DelayReturn, SwitchTrigger, Goto
<1>7. CASE DelayTrigger(t)
  <2>1. pc[t] = "delay_trigger" /\ pc'[t] = "delay_wait" /\ wakeAt' = wakeAt
    BY <1>1, <1>7 DEF DelayTrigger, Goto
  <2>2. \A u \in Task : InDelay(u)' <=> InDelay(u)
    BY <1>6, <2>1 DEF InDelay
  <2> QED BY <1>1, <1>2, <1>3, <1>4, <1>5, <2>1, <2>2, SameTimeInv
<1>8. CASE DelayReturn(t) \/ SwitchTrigger(t)
  <2>1. pc'[t] = "user"
    BY <1>1, <1>8 DEF DelayReturn, SwitchTrigger, Goto
  <2>2. k.state[t] # "BLOCKED"
    <3> SUFFICES ASSUME k.state[t] = "BLOCKED" PROVE FALSE
      OBVIOUS
    <3>1. InDelay(t) /\ k.delay_ticks[t] \in 1 .. (TickModulus - 1)
      BY DEF TicklessInv, SleepDelays
    <3>2. DelayReturn(t) /\ k.delay_ticks[t] = 0
      BY <1>8, <3>1 DEF DelayReturn, SwitchTrigger, InDelay
    <3> QED BY <3>1, <3>2, TickRange
  <2>3. \A u \in Task : (u # t => (InDelay(u)' <=> InDelay(u))) /\ ~InDelay(t)'
    BY <1>6, <2>1 DEF InDelay
  <2>4. \A u \in Task : k.state[u] = "BLOCKED" => wakeAt'[u] = wakeAt[u]
    BY <1>6, <2>2
  <2> QED BY <1>1, <1>2, <1>3, <1>4, <1>5, <2>2, <2>3, <2>4, SameTimeInv
<1> QED BY <1>7, <1>8 DEF SchedStep

(* sched_delay_ms.                                                         *)
LEMMA TaskDelayInv ==
    ASSUME TicklessInv, NEW t \in Task, NEW ms \in Delay, TaskDelay(t, ms), ~syst.pend
    PROVE  TicklessInv'
<1>1. /\ sched_delay_ms(t, ms) /\ rest' = [rest EXCEPT ![t] = ms * TICKS_PER_MS]
      /\ s_timers' = s_timers /\ fired' = fired /\ syst' = syst /\ idle' = idle
      /\ s_tickless_active' = s_tickless_active
      /\ k.g_current_task = t /\ s_ticks' = s_ticks /\ k' = DelayLocked(k, t, ms)
      /\ wakeAt' = [wakeAt EXCEPT ![t] = (s_ticks + ms) % TickModulus]
      /\ pc' = [pc EXCEPT ![t] = "delay_trigger"]
  BY DEF TaskDelay, sched_delay_ms, Runs, Goto, timerVars
<1>2. IdlePlaces /\ SleepCounter /\ SleepTimers /\ SleepDelays /\ SleepRest
  BY DEF TicklessInv
<1>3. /\ ms \in Nat /\ ms \in 1 .. (TickModulus - 1) /\ Task \subseteq Thread /\ t # IdleTask
      /\ TICKS_PER_MS \in Nat /\ TICKS_PER_MS >= 1
  BY SchedulerAssumption, KernelAssumption, CounterRange DEF Task, Thread
<1>4. SchedInv'
  BY <1>1, NextInv DEF TicklessInv, SchedNext, SchedCall
<1>5. /\ k'.delay_ticks = [k.delay_ticks EXCEPT ![t] = ms]
      /\ \A u \in Thread : k'.state[u] = "BLOCKED" <=> u = t \/ k.state[u] = "BLOCKED"
  <2>1. KernelInv(k)
    BY DEF TicklessInv, SchedInv, SchedCore
  <2> QED BY <1>1, <1>3, <2>1, DelayDecides
<1>6. k.delay_ticks \in [Task -> Nat] /\ pc \in [Task -> SchedLabel] /\ wakeAt \in [Task -> Time]
  BY DEF TicklessInv, SchedInv, SchedCore, KernelInv, KernelCore, KernelTypeOK
<1>7. Preemptible /\ ~Sleeping /\ idle.at \notin {"apply", "budget"}
  BY <1>1, <1>3, TaskPreempts
<1>8. IdlePlaces' /\ SleepCounter' /\ SleepTimers'
  <2>1. (Sleeping' <=> Sleeping) /\ (Preemptible' <=> Preemptible) /\ \A i : ServedSince(i)' <=> ServedSince(i)
    BY <1>1 DEF Sleeping, Preemptible, ServedSince
  <2>2. IdlePlaces'
    BY <1>1, <1>2, <1>7, <2>1 DEF IdlePlaces
  <2>3. SleepCounter'
    BY <1>1, <1>2, <2>1 DEF SleepCounter
  <2>4. SleepTimers'
    BY <1>1, <1>2, <2>1 DEF SleepTimers
  <2> QED BY <2>2, <2>3, <2>4
<1>9. /\ pc'[t] = "delay_trigger" /\ k'.delay_ticks[t] = ms /\ rest'[t] = ms * TICKS_PER_MS
      /\ wakeAt'[t] = (s_ticks + ms) % TickModulus
      /\ \A u \in Task : u # t => /\ pc'[u] = pc[u] /\ k'.delay_ticks[u] = k.delay_ticks[u]
                                  /\ rest'[u] = rest[u] /\ wakeAt'[u] = wakeAt[u]
      /\ rest' \in [Task -> Int] /\ k'.state[t] = "BLOCKED"
      /\ \A u \in Task : u # t => (k'.state[u] = "BLOCKED" <=> k.state[u] = "BLOCKED")
  BY <1>1, <1>2, <1>3, <1>5, <1>6 DEF SleepRest
<1>10. SleepDelays'
  <2>1. Unapplied = 0 /\ Unapplied' = 0 /\ ~Sleeping' /\ idle'.at # "budget"
    BY <1>1, <1>7 DEF Unapplied, Sleeping
  <2>2. ms - 0 = ms /\ 0 <= ms
    BY <1>3
  <2>3. InDelay(t)' /\ \A u \in Task : u # t => (InDelay(u)' <=> InDelay(u))
    BY <1>9 DEF InDelay
  <2> QED BY <1>1, <1>2, <1>3, <1>9, <2>1, <2>2, <2>3 DEF SleepDelays
<1>11. SleepRest'
  <2>2. Until(ms, idle, syst) = (ms - 1) * TICKS_PER_MS + (syst.cvr + 1) /\ syst.cvr \in Nat
    BY <1>2, <1>7 DEF Until, SleepCounter, Sleeping
  <2>3. ms * TICKS_PER_MS < (ms - 1) * TICKS_PER_MS + (syst.cvr + 1) + TICKS_PER_MS
    <3>1. (ms - 1) * TICKS_PER_MS = ms * TICKS_PER_MS - TICKS_PER_MS /\ ms * TICKS_PER_MS \in Int
      BY <1>3
    <3> QED BY <1>3, <2>2, <3>1
  <2>4. \A u \in Task : k'.state[u] = "BLOCKED" => rest'[u] < Until(k'.delay_ticks[u], idle', syst') + TICKS_PER_MS
    BY <1>1, <1>2, <1>9, <2>2, <2>3 DEF SleepRest
  <2>5. \A u \in Task : InDelay(u)' /\ k'.state[u] # "BLOCKED" => rest'[u] <= TICKS_PER_MS
    BY <1>2, <1>9 DEF SleepRest, InDelay
  <2> QED BY <1>9, <2>4, <2>5 DEF SleepRest
<1> QED BY <1>4, <1>8, <1>10, <1>11 DEF TicklessInv
(* A tick of the hardware clock.                                           *)
LEMMA HwTickInv ==
    ASSUME TicklessInv, HwTick, ~syst.pend
    PROVE  TicklessInv'
<1>1. IdlePlaces /\ SleepCounter /\ SleepTimers /\ SleepDelays /\ SleepRest
  BY DEF TicklessInv
<1>2. /\ k' = k /\ pc' = pc /\ s_ticks' = s_ticks /\ wakeAt' = wakeAt
      /\ s_timers' = s_timers /\ fired' = fired /\ idle' = idle
      /\ s_tickless_active' = s_tickless_active
      /\ rest' = [t \in Task |-> IF k.state[t] = "BLOCKED" THEN rest[t] - 1 ELSE rest[t]]
  BY DEF HwTick, schedVars, timerVars
<1>3. SchedInv'
  BY <1>2, NextInv DEF TicklessInv, schedVars
<1>4. /\ syst.rvr \in Nat /\ syst.cvr \in Nat /\ syst.cvr <= syst.rvr
      /\ syst'.rvr = syst.rvr /\ syst' \in [rvr : Nat, cvr : Nat, countflag : BOOLEAN, pend : BOOLEAN]
      /\ IF syst.cvr > 0
         THEN syst'.cvr = syst.cvr - 1 /\ (syst'.countflag <=> syst.countflag) /\ ~syst'.pend
         ELSE syst.cvr = 0 /\ syst'.cvr = syst.rvr /\ syst'.countflag /\ syst'.pend
  <2>1. syst \in [rvr : Nat, cvr : Nat, countflag : BOOLEAN, pend : BOOLEAN] /\ syst.cvr <= syst.rvr
    BY <1>1 DEF SleepCounter
  <2>2. CASE syst.cvr > 0
    <3>1. syst' = [syst EXCEPT !.cvr = syst.cvr - 1]
      BY <2>2 DEF HwTick
    <3> QED BY <2>1, <2>2, <3>1
  <2>3. CASE ~(syst.cvr > 0)
    <3>1. syst' = [syst EXCEPT !.cvr = syst.rvr, !.countflag = TRUE, !.pend = TRUE]
      BY <2>3 DEF HwTick
    <3>2. syst.rvr \in Nat /\ syst.cvr \in Nat /\ syst.cvr = 0
      BY <2>1, <2>3
    <3>3. /\ syst' \in [rvr : Nat, cvr : Nat, countflag : BOOLEAN, pend : BOOLEAN]
          /\ syst'.rvr = syst.rvr /\ syst'.cvr = syst.rvr
      BY <2>1, <3>1
    <3>4. syst'.countflag /\ syst'.pend
      BY <2>1, <3>1
    <3> QED BY <2>1, <2>3, <3>2, <3>3, <3>4
  <2> QED BY <2>2, <2>3
<1>5. ~k.pendsv /\ (Preemptible \/ idle.at \in {"wfi", "sleep"}) /\ idle.at \notin {"woken", "apply"}
  <2>1. ~k.pendsv /\ (k.g_current_task = IdleTask => idle.at \in {"wfi", "sleep"})
    BY DEF HwTick, TimePasses
  <2>2. k.g_current_task # IdleTask => Preemptible
    BY TaskPreempts
  <2> QED BY <2>1, <2>2 DEF Preemptible
<1>6. (Sleeping' <=> Sleeping) /\ (Preemptible' <=> Preemptible) /\ \A i : ServedSince(i)' <=> ServedSince(i)
  BY <1>2 DEF Sleeping, Preemptible, ServedSince
<1>7. IdlePlaces'
  BY <1>1, <1>2, <1>5, <1>6 DEF IdlePlaces, Runs
<1>8. SleepCounter'
  BY <1>1, <1>2, <1>4, <1>5, <1>6 DEF SleepCounter
<1>9. SleepTimers' /\ SleepDelays'
  BY <1>1, <1>2, <1>4, <1>6 DEF SleepTimers, SleepDelays, Unapplied, InDelay
<1>10. ASSUME NEW t \in Task, k.state[t] = "BLOCKED"
       PROVE  rest'[t] < Until(k'.delay_ticks[t], idle', syst') + TICKS_PER_MS
  <2> DEFINE d == k.delay_ticks[t]
             a == (d - Whole(syst.rvr + 1)) * TICKS_PER_MS
             b == (d - 1) * TICKS_PER_MS
  <2>1. /\ rest[t] < Until(d, idle, syst) + TICKS_PER_MS /\ rest[t] \in Int /\ rest'[t] = rest[t] - 1
        /\ TICKS_PER_MS \in Nat /\ d \in Nat
    BY <1>1, <1>2, <1>10, CounterRange, TickRange DEF SleepRest, SleepDelays
  <2>2. Whole(syst.rvr + 1) \in Int
    <3>1. syst.rvr + 1 \in Nat /\ syst.rvr + 1 >= TICKS_PER_MS
      BY <1>1, <1>4, <2>1 DEF SleepCounter
    <3> QED BY <3>1, WholeSleep
  <2>3. a \in Int /\ b \in Int
    BY <2>1, <2>2
  <2> HIDE DEF a, b, d
  <2>4. CASE Sleeping
    <3>1. ~syst.countflag
      BY <1>1, <1>5, <2>4 DEF SleepCounter, Sleeping
    <3>2. Until(d, idle, syst) = a + (syst.cvr + 1)
      BY <1>5, <2>4, <3>1 DEF Until, Sleeping, a
    <3>3. Until(d, idle', syst') = a + (IF syst'.countflag THEN 0 ELSE syst'.cvr + 1)
      BY <1>2, <1>4, <1>5, <2>4 DEF Until, Sleeping, a
    <3>4. Until(d, idle', syst') = a + syst.cvr
      BY <1>4, <2>3, <3>1, <3>3
    <3>5. rest[t] - 1 < a + syst.cvr + TICKS_PER_MS
      BY <1>4, <2>1, <2>3, <3>2
    <3> QED BY <1>2, <2>1, <3>4, <3>5 DEF d
  <2>5. CASE ~Sleeping
    <3>2. Until(d, idle, syst) = b + (syst.cvr + 1)
      BY <1>5, <2>5 DEF Until, Sleeping, b
    <3>3. Until(d, idle', syst') = b + (IF syst'.pend THEN 0 ELSE syst'.cvr + 1)
      BY <1>2, <1>4, <1>5, <2>5 DEF Until, Sleeping, b
    <3>4. Until(d, idle', syst') = b + syst.cvr
      BY <1>4, <2>3, <3>3
    <3>5. rest[t] - 1 < b + syst.cvr + TICKS_PER_MS
      BY <1>4, <2>1, <2>3, <3>2
    <3> QED BY <1>2, <2>1, <3>4, <3>5 DEF d
  <2> QED BY <2>4, <2>5
<1>11. SleepRest'
  <2>1. rest' \in [Task -> Int]
    BY <1>1, <1>2 DEF SleepRest
  <2>2. \A t \in Task : InDelay(t)' /\ k'.state[t] # "BLOCKED" => rest'[t] <= TICKS_PER_MS
    BY <1>1, <1>2 DEF SleepRest, InDelay
  <2> QED BY <1>2, <1>10, <2>1, <2>2 DEF SleepRest
<1> QED BY <1>3, <1>7, <1>8, <1>9, <1>11 DEF TicklessInv

(* The SysTick that ends a sleep.                                          *)
LEMMA TickAsleepInv ==
    ASSUME TicklessInv, TickHandler, s_tickless_active
    PROVE  TicklessInv'
<1>1. IdlePlaces /\ SleepCounter /\ SleepTimers /\ SleepDelays /\ SleepRest
  BY DEF TicklessInv
<1>2. /\ syst.pend /\ ~k.pendsv /\ syst' = [syst EXCEPT !.pend = FALSE] /\ idle' = Awake
      /\ k' = k /\ pc' = pc /\ s_ticks' = s_ticks /\ wakeAt' = wakeAt
      /\ s_timers' = s_timers /\ fired' = fired /\ s_tickless_active' = s_tickless_active /\ rest' = rest
  BY DEF TickHandler, timerVars
<1>3. idle.at = "sleep" /\ Sleeping
  BY <1>1, <1>2 DEF IdlePlaces, Preemptible, Sleeping
<1>4. SchedInv'
  BY <1>2, NextInv DEF TicklessInv, schedVars
<1>5. /\ syst' \in [rvr : Nat, cvr : Nat, countflag : BOOLEAN, pend : BOOLEAN]
      /\ syst'.rvr = syst.rvr /\ syst'.cvr = syst.cvr /\ (syst'.countflag <=> syst.countflag) /\ ~syst'.pend
      /\ syst.countflag
  BY <1>1, <1>2, <1>3 DEF SleepCounter
<1>6. /\ idle'.at = "woken" /\ idle'.ms = idle.ms /\ idle'.i = idle.i
      /\ idle' \in [at : {"loop", "budget", "wfi", "sleep", "woken", "apply", "service", "expire"},
                    ms : Nat, i : Timers]
  BY <1>1, <1>2, <1>3 DEF IdlePlaces, Awake
<1>7. Sleeping' /\ ~Preemptible' /\ ~Preemptible /\ \A i : ServedSince(i)' <=> ServedSince(i)
  BY <1>3, <1>6 DEF Sleeping, Preemptible, ServedSince
<1>8. IdlePlaces'
  BY <1>1, <1>2, <1>3, <1>5, <1>6, <1>7 DEF IdlePlaces, Runs
<1>9. SleepCounter'
  BY <1>1, <1>3, <1>5, <1>6, <1>7 DEF SleepCounter
<1>10. SleepTimers'
  BY <1>1, <1>2, <1>3, <1>5, <1>6, <1>7 DEF SleepTimers
<1>11. SleepDelays'
  BY <1>1, <1>2, <1>3, <1>5, <1>6, <1>7 DEF SleepDelays, Unapplied, InDelay
<1>12. \A d : Until(d, idle', syst') = Until(d, idle, syst)
  BY <1>3, <1>5, <1>6 DEF Until
<1>13. SleepRest'
  BY <1>1, <1>2, <1>12 DEF SleepRest, InDelay
<1> QED BY <1>4, <1>8, <1>9, <1>10, <1>11, <1>13 DEF TicklessInv

(* Modular arithmetic of a countdown that goes with the clock.             *)
LEMMA CountdownMoves ==
    ASSUME NEW s \in Time, NEW n \in Nat, NEW d \in Nat
    PROVE  (((s + n) % TickModulus) + (d - n)) % TickModulus = (s + d) % TickModulus
<1>1. TickModulus \in Nat /\ TickModulus > 0 /\ s \in Int /\ s + n \in Int /\ d - n \in Int
  BY TickRange DEF Time
<1>2. (s + n) + (d - n) = s + d
  BY <1>1
<1>3. (((s + n) % TickModulus) + (d - n)) % TickModulus = ((s + n) + (d - n)) % TickModulus
  BY <1>1, SumWraps
<1> QED BY <1>2, <1>3

(* An ordinary SysTick.                                                    *)
LEMMA TickAwakeInv ==
    ASSUME TicklessInv, TickHandler, ~s_tickless_active
    PROVE  TicklessInv'
<1>1. IdlePlaces /\ SleepCounter /\ SleepTimers /\ SleepDelays /\ SleepRest /\ SchedCore
  BY DEF TicklessInv, SchedInv
<1>2. /\ syst.pend /\ ~k.pendsv /\ syst' = [syst EXCEPT !.pend = FALSE] /\ idle' = Awake
      /\ k' = sched_tick_n(k, 1) /\ pc' = pc /\ s_ticks' = (s_ticks + 1) % TickModulus /\ wakeAt' = wakeAt
      /\ s_tickless_active' = s_tickless_active /\ rest' = rest
      /\ Service([i \in Timers |-> "nothing"], s_ticks')
  BY DEF TickHandler
<1>3. ~Sleeping /\ (Preemptible \/ idle.at = "wfi")
  BY <1>1, <1>2 DEF IdlePlaces, Preemptible, Sleeping
<1>4. SchedInv'
  <2>1. SysTick_Handler
    BY <1>2 DEF SysTick_Handler, Tick
  <2> QED BY <2>1, NextInv DEF TicklessInv, SchedNext
<1>5. /\ syst' \in [rvr : Nat, cvr : Nat, countflag : BOOLEAN, pend : BOOLEAN]
      /\ syst'.rvr = syst.rvr /\ syst'.cvr = syst.cvr /\ ~syst'.pend
      /\ syst.cvr = syst.rvr /\ syst.rvr = TICKS_PER_MS - 1
  BY <1>1, <1>2, <1>3 DEF SleepCounter
<1>6. /\ idle'.at = IF idle.at = "wfi" THEN "loop" ELSE idle.at
      /\ idle'.ms = idle.ms /\ idle'.i = idle.i
      /\ idle' \in [at : {"loop", "budget", "wfi", "sleep", "woken", "apply", "service", "expire"},
                    ms : Nat, i : Timers]
  BY <1>1, <1>2, <1>3 DEF IdlePlaces, Awake, Preemptible
<1>7. Preemptible' /\ ~Sleeping' /\ idle'.at \notin {"apply", "expire", "budget"}
      /\ (idle'.at = "service" => idle'.i = 0) /\ idle.at \notin {"apply", "expire", "budget"}
  BY <1>3, <1>6 DEF Sleeping, Preemptible
<1>8. \A i \in Timers : ServedSince(i)' => ServedSince(i)
  BY <1>3, <1>6, <1>7 DEF ServedSince
<1>9. IdlePlaces'
  BY <1>1, <1>2, <1>3, <1>5, <1>6, <1>7 DEF IdlePlaces
<1>10. SleepCounter'
  BY <1>1, <1>3, <1>5, <1>6, <1>7 DEF SleepCounter, Sleeping
<1>11. SleepTimers'
  <2>1. s_ticks \in Time
    BY <1>1 DEF SchedCore
  <2> QED BY <1>1, <1>2, <1>7, <1>8, <2>1, TickServes
<1>12. /\ \A t \in Task : k.state[t] # "BLOCKED" => k'.state[t] # "BLOCKED"
       /\ \A t \in Task : k.state[t] = "BLOCKED" /\ k.delay_ticks[t] > 0 =>
            IF k.delay_ticks[t] <= 1 THEN k'.state[t] # "BLOCKED"
            ELSE k'.state[t] = "BLOCKED" /\ k'.delay_ticks[t] = k.delay_ticks[t] - 1
  BY <1>1, <1>2, TickCountsDown
<1>13. \A t \in Task : k.state[t] = "BLOCKED" =>
          /\ InDelay(t) /\ k.delay_ticks[t] \in 1 .. (TickModulus - 1) /\ k.delay_ticks[t] \in Nat
          /\ k.delay_ticks[t] > 0 /\ k.delay_ticks[t] - 0 = k.delay_ticks[t]
          /\ wakeAt[t] = (s_ticks + k.delay_ticks[t]) % TickModulus
  <2>1. \A d \in 1 .. (TickModulus - 1) : d \in Nat /\ d > 0 /\ d - 0 = d
    BY TickRange
  <2>2. Unapplied = 0
    BY <1>7 DEF Unapplied
  <2> QED BY <1>1, <2>1, <2>2 DEF SleepDelays
<1>14. SleepDelays'
  <2> SUFFICES ASSUME NEW t \in Task, k'.state[t] = "BLOCKED"
               PROVE  /\ InDelay(t)' /\ k'.delay_ticks[t] \in 1 .. (TickModulus - 1)
                      /\ 0 <= k'.delay_ticks[t]
                      /\ wakeAt'[t] = (s_ticks' + (k'.delay_ticks[t] - 0)) % TickModulus
    <3>1. Unapplied' = 0
      BY <1>7 DEF Unapplied
    <3> QED BY <1>7, <3>1 DEF SleepDelays
  <2> DEFINE d == k.delay_ticks[t]
  <2>1. /\ k.state[t] = "BLOCKED" /\ d \in Nat /\ d \in 1 .. (TickModulus - 1) /\ ~(d <= 1)
        /\ k'.delay_ticks[t] = d - 1 /\ wakeAt[t] = (s_ticks + d) % TickModulus /\ InDelay(t)
    BY <1>12, <1>13
  <2>2. (((s_ticks + 1) % TickModulus) + (d - 1)) % TickModulus = (s_ticks + d) % TickModulus
    BY <1>1, <2>1, CountdownMoves DEF SchedCore
  <2> HIDE DEF d
  <2>3. d - 1 \in 1 .. (TickModulus - 1) /\ 0 <= d - 1 /\ (d - 1) - 0 = d - 1
    BY <2>1, TickRange
  <2> QED BY <1>2, <2>1, <2>2, <2>3 DEF InDelay
<1>15. ASSUME NEW t \in Task, k.state[t] = "BLOCKED"
       PROVE  /\ k'.state[t] = "BLOCKED" => rest'[t] < Until(k'.delay_ticks[t], idle', syst') + TICKS_PER_MS
              /\ k'.state[t] # "BLOCKED" => rest'[t] <= TICKS_PER_MS
  <2> DEFINE d == k.delay_ticks[t]
  <2>1. /\ d \in Nat /\ d > 0 /\ rest[t] \in Int /\ TICKS_PER_MS \in Nat
        /\ rest[t] < Until(d, idle, syst) + TICKS_PER_MS
        /\ IF d <= 1 THEN k'.state[t] # "BLOCKED"
           ELSE k'.state[t] = "BLOCKED" /\ k'.delay_ticks[t] = d - 1
    BY <1>1, <1>12, <1>13, <1>15, CounterRange DEF SleepRest
  <2>2. Until(d, idle, syst) = (d - 1) * TICKS_PER_MS + 0
    BY <1>2, <1>3, <1>7 DEF Until, Sleeping
  <2>3. Until(d - 1, idle', syst') = ((d - 1) - 1) * TICKS_PER_MS + (syst'.cvr + 1)
    BY <1>5, <1>7 DEF Until, Sleeping
  <2> HIDE DEF d
  <2>4. syst'.cvr + 1 = TICKS_PER_MS
    BY <1>5, <2>1
  <2>5. ((d - 1) - 1) * TICKS_PER_MS + TICKS_PER_MS = (d - 1) * TICKS_PER_MS + 0
    BY <2>1
  <2>6. d <= 1 => (d - 1) * TICKS_PER_MS + 0 = 0
    <3> HAVE d <= 1
    <3>1. d - 1 = 0
      BY <2>1
    <3> QED BY <2>1, <3>1
  <2>7. CASE d <= 1
    <3>1. rest[t] < 0 + TICKS_PER_MS
      BY <2>1, <2>2, <2>6, <2>7
    <3>2. rest'[t] <= TICKS_PER_MS
      BY <1>2, <2>1, <3>1
    <3> QED BY <2>1, <2>7, <3>2
  <2>8. CASE ~(d <= 1)
    <3>1. Until(d - 1, idle', syst') = (d - 1) * TICKS_PER_MS + 0
      BY <2>3, <2>4, <2>5
    <3>2. Until(d - 1, idle', syst') = Until(d, idle, syst)
      BY <2>2, <3>1
    <3>3. k'.state[t] = "BLOCKED" /\ k'.delay_ticks[t] = d - 1 /\ rest'[t] = rest[t]
      BY <1>2, <2>1, <2>8
    <3>4. rest'[t] < Until(k'.delay_ticks[t], idle', syst') + TICKS_PER_MS
      BY <2>1, <3>2, <3>3
    <3> QED BY <3>3, <3>4
  <2> QED BY <2>7, <2>8
<1>16. SleepRest'
  BY <1>1, <1>2, <1>12, <1>15 DEF SleepRest, InDelay
<1> QED BY <1>4, <1>9, <1>10, <1>11, <1>14, <1>16 DEF TicklessInv
(* What every step of the idle task has in common.                         *)
LEMMA IdleRuns ==
    ASSUME TicklessInv, NEW l, IdleAt(l)
    PROVE  /\ idle.at = l /\ Runs(IdleTask) /\ idle.ms \in Nat /\ idle.i \in Timers
           /\ IdlePlaces /\ SleepCounter /\ SleepTimers /\ SleepDelays /\ SleepRest /\ SchedInv
           /\ SchedCore /\ s_ticks \in Time /\ KernelTypeOK(k) /\ k.s_task_count = TASK_MAX
           /\ TICKS_PER_MS \in Nat /\ TICKS_PER_MS >= 1
BY CounterRange DEF TicklessInv, IdlePlaces, IdleAt, SchedInv, SchedCore, KernelInv, KernelCore

(* Steps of the idle task that only move it: between places where nothing  *)
(* sleeps, with the timers served so far.                                  *)
LEMMA IdleMoves ==
    ASSUME TicklessInv, Runs(IdleTask), ~syst.pend, UNCHANGED schedVars,
           s_timers' = s_timers, fired' = fired, syst' = syst, rest' = rest,
           s_tickless_active' = s_tickless_active,
           ~Sleeping, ~Sleeping', idle.at # "apply", idle'.at # "apply",
           idle' \in [at : {"loop", "budget", "wfi", "sleep", "woken", "apply", "service", "expire"},
                      ms : Nat, i : Timers],
           \A i \in Timers : ServedSince(i)' /\ s_timers[i].active => s_timers[i].left >= 1,
           idle'.at = "expire" => s_timers[idle'.i].active /\ s_timers[idle'.i].left = 0,
           ((idle'.at = "service" /\ idle'.i # 0) \/ idle'.at = "expire") => idle'.ms = s_ticks,
           \A t \in Task : idle'.at = "budget" /\ k.state[t] = "BLOCKED" => idle'.ms <= k.delay_ticks[t]
    PROVE  TicklessInv'
<1>1. IdlePlaces /\ SleepCounter /\ SleepTimers /\ SleepDelays /\ SleepRest
  BY DEF TicklessInv
<1>2. k' = k /\ pc' = pc /\ s_ticks' = s_ticks /\ wakeAt' = wakeAt
  BY DEF schedVars
<1>3. SchedInv'
  BY NextInv DEF TicklessInv
<1>4. IdlePlaces'
  BY <1>1, <1>2 DEF IdlePlaces, Runs
<1>5. SleepCounter'
  BY <1>1 DEF SleepCounter, Sleeping
<1>6. SleepTimers'
  BY <1>1, <1>2 DEF SleepTimers
<1>7. SleepDelays'
  BY <1>1, <1>2 DEF SleepDelays, Unapplied, InDelay
<1>8. \A d : Until(d, idle', syst') = Until(d, idle, syst)
  BY DEF Until, Sleeping
<1>9. SleepRest'
  BY <1>1, <1>2, <1>8 DEF SleepRest, InDelay
<1> QED BY <1>3, <1>4, <1>5, <1>6, <1>7, <1>9 DEF TicklessInv

(* The idle task looks for the next countdown, or waits for an interrupt.  *)
LEMMA IdleLoopInv ==
    ASSUME TicklessInv, IdleLoop, ~syst.pend
    PROVE  TicklessInv'
<1>1. /\ IdleAt("loop") /\ UNCHANGED schedVars
      /\ s_timers' = s_timers /\ fired' = fired /\ syst' = syst /\ rest' = rest
      /\ s_tickless_active' = s_tickless_active
  BY DEF IdleLoop, timerVars
<1>2. /\ idle.at = "loop" /\ Runs(IdleTask) /\ idle.ms \in Nat /\ idle.i \in Timers
      /\ IdlePlaces /\ SleepTimers /\ SleepDelays /\ KernelTypeOK(k) /\ k.s_task_count = TASK_MAX
  BY <1>1, IdleRuns
<1>3. /\ sched_get_next_wakeup_ms \in Nat
      /\ \A t \in Task : k.state[t] = "BLOCKED" /\ k.delay_ticks[t] > 0 =>
            sched_get_next_wakeup_ms <= k.delay_ticks[t]
  BY <1>2, NextWakeup
<1>4. \A t \in Task : k.state[t] = "BLOCKED" => k.delay_ticks[t] > 0
  <2>1. \A d \in 1 .. (TickModulus - 1) : d > 0
    BY TickRange
  <2> QED BY <1>2, <2>1 DEF SleepDelays
<1>5. /\ idle' \in [at : {"loop", "budget", "wfi", "sleep", "woken", "apply", "service", "expire"},
                    ms : Nat, i : Timers]
      /\ idle'.at \in {"budget", "wfi"} /\ (idle'.at = "budget" => idle'.ms = sched_get_next_wakeup_ms)
  BY <1>2, <1>3 DEF IdleLoop, IdlePlaces
<1>6. ~Sleeping /\ ~Sleeping' /\ \A i \in Timers : ServedSince(i)
  BY <1>2, <1>5 DEF Sleeping, ServedSince
<1>7. \A i \in Timers : s_timers[i].active => s_timers[i].left >= 1
  BY <1>2, <1>6 DEF SleepTimers
<1>8. \A t \in Task : idle'.at = "budget" /\ k.state[t] = "BLOCKED" => idle'.ms <= k.delay_ticks[t]
  BY <1>3, <1>4, <1>5
<1>9. idle.at # "apply" /\ idle'.at \notin {"apply", "expire", "service"}
  BY <1>2, <1>5
<1> QED BY <1>1, <1>2, <1>5, <1>6, <1>7, <1>8, <1>9, IdleMoves

(* With nothing to sleep for it waits for an interrupt; else the counter   *)
(* is armed for a sleep no longer than any countdown and any timer.        *)
LEMMA IdleArmInv ==
    ASSUME TicklessInv, IdleArm, ~syst.pend
    PROVE  TicklessInv'
<1> DEFINE B == Budget
           R == Reload(B)
           W == Whole(R)
           T == TICKS_PER_MS
<1>1. /\ IdleAt("budget") /\ UNCHANGED schedVars
      /\ s_timers' = s_timers /\ fired' = fired /\ rest' = rest
      /\ k' = k /\ pc' = pc /\ s_ticks' = s_ticks /\ wakeAt' = wakeAt
  BY DEF IdleArm, timerVars, schedVars
<1>2. /\ idle.at = "budget" /\ Runs(IdleTask) /\ idle.ms \in Nat /\ idle.i \in Timers
      /\ IdlePlaces /\ SleepCounter /\ SleepTimers /\ SleepDelays /\ SleepRest /\ SchedInv
      /\ s_ticks \in Time /\ T \in Nat /\ T >= 1
  BY <1>1, IdleRuns
<1>3. B \in Nat /\ B <= idle.ms /\ \A i \in Timers : s_timers[i].active => B <= s_timers[i].left
  BY <1>2, BudgetFits
<1>4. ~Sleeping /\ \A i \in Timers : ServedSince(i)
  BY <1>2 DEF Sleeping, ServedSince
<1>5. \A i \in Timers : s_timers[i].active => s_timers[i].left \in 0 .. Half - 1 /\ s_timers[i].left >= 1
  BY <1>2, <1>4 DEF SleepTimers
<1>6. \A t \in Task : k.state[t] = "BLOCKED" =>
         k.delay_ticks[t] \in 1 .. (TickModulus - 1) /\ idle.ms <= k.delay_ticks[t]
  BY <1>2 DEF SleepDelays
<1>7. CASE B = 0
  <2>1. idle' = [idle EXCEPT !.at = "wfi"] /\ syst' = syst /\ s_tickless_active' = s_tickless_active
    BY <1>7 DEF IdleArm, IdleGoto
  <2>2. /\ idle' \in [at : {"loop", "budget", "wfi", "sleep", "woken", "apply", "service", "expire"},
                      ms : Nat, i : Timers]
        /\ idle'.at = "wfi"
    BY <1>2, <2>1 DEF IdlePlaces
  <2>3. ~Sleeping' /\ idle.at # "apply"
    BY <1>2, <2>2 DEF Sleeping
  <2> QED BY <1>1, <1>2, <1>4, <1>5, <2>1, <2>2, <2>3, IdleMoves
<1>8. CASE B # 0
  <2>1. syst' = Armed(R) /\ s_tickless_active' = TRUE /\ idle' = [idle EXCEPT !.at = "sleep"]
    BY <1>8 DEF IdleArm, IdleGoto
  <2> HIDE DEF B
  <2>2. R \in Nat /\ R >= T /\ W <= B
    BY <1>3, <1>8, ReloadFits
  <2> HIDE DEF R
  <2>3. W \in Nat /\ W * T <= R
    BY <2>2, WholeSleep
  <2>4. /\ syst' \in [rvr : Nat, cvr : Nat, countflag : BOOLEAN, pend : BOOLEAN]
        /\ syst'.rvr = R - 1 /\ syst'.cvr = R - 1 /\ ~syst'.countflag /\ ~syst'.pend
        /\ syst'.rvr + 1 = R
    <3>1. R - 1 \in Nat /\ (R - 1) + 1 = R
      BY <1>2, <2>2
    <3> QED BY <2>1, <3>1 DEF Armed
  <2>5. /\ idle' \in [at : {"loop", "budget", "wfi", "sleep", "woken", "apply", "service", "expire"},
                      ms : Nat, i : Timers]
        /\ idle'.at = "sleep" /\ idle'.i = idle.i /\ idle'.ms = idle.ms
    BY <1>2, <2>1 DEF IdlePlaces
  <2> HIDE DEF W, T
  <2>6. Sleeping' /\ ~Preemptible' /\ \A i \in Timers : ServedSince(i)'
    BY <2>5 DEF Sleeping, Preemptible, ServedSince
  <2>7. SchedInv'
    BY <1>1, <1>2, NextInv
  <2>8. IdlePlaces'
    BY <1>1, <1>2, <2>1, <2>4, <2>5, <2>6 DEF IdlePlaces, Runs
  <2>9. SleepCounter'
    <3>1. R - 1 <= R - 1 /\ R >= TICKS_PER_MS
      BY <2>2 DEF T
    <3> QED BY <2>4, <2>5, <2>6, <3>1 DEF SleepCounter
  <2>10. SleepTimers'
    <3>1. ASSUME NEW i \in Timers, s_timers[i].active PROVE W <= s_timers[i].left
      <4>1. s_timers[i].left \in Int /\ B <= s_timers[i].left
        BY <1>2, <1>3, <3>1 DEF SleepTimers
      <4> QED BY <1>3, <2>2, <2>3, <4>1
    <3>2. Whole(syst'.rvr + 1) = W
      BY <2>4 DEF W
    <3> QED BY <1>1, <1>2, <1>5, <2>5, <2>6, <3>1, <3>2 DEF SleepTimers
  <2>11. SleepDelays'
    <3>1. ASSUME NEW t \in Task, k.state[t] = "BLOCKED" PROVE W <= k.delay_ticks[t]
      <4>1. k.delay_ticks[t] \in Int /\ idle.ms <= k.delay_ticks[t]
        BY <1>6, <3>1, TickRange
      <4> QED BY <1>2, <1>3, <2>2, <2>3, <4>1
    <3>2. Whole(syst'.rvr + 1) = W /\ Unapplied' = 0 /\ Unapplied = 0 /\ idle'.at # "budget"
      BY <1>2, <2>4, <2>5 DEF W, Unapplied
    <3> QED BY <1>1, <1>2, <3>1, <3>2 DEF SleepDelays, InDelay
  <2>12. ASSUME NEW t \in Task, k.state[t] = "BLOCKED"
         PROVE  rest'[t] < Until(k'.delay_ticks[t], idle', syst') + TICKS_PER_MS
    <3> DEFINE d == k.delay_ticks[t]
    <3>1. d \in Nat /\ rest[t] \in Int /\ rest[t] < Until(d, idle, syst) + T
      BY <1>2, <1>6, <2>12, TickRange DEF SleepRest, T
    <3>2. Until(d, idle, syst) = (d - 1) * T + (syst.cvr + 1)
      BY <1>2 DEF Until, T
    <3>3. syst.cvr \in Nat /\ syst.cvr + 1 <= T
      <4>1. syst.cvr \in Nat /\ syst.cvr <= syst.rvr /\ syst.rvr = T - 1
        BY <1>2, <1>4 DEF SleepCounter, T
      <4> QED BY <1>2, <4>1
    <3>4. Until(d, idle', syst') = (d - W) * T + ((R - 1) + 1)
      BY <2>4, <2>5 DEF Until, W, T
    <3> HIDE DEF d
    <3>5. /\ (d - 1) * T = d * T - T /\ (d - W) * T = d * T - W * T
          /\ d * T \in Int /\ W * T \in Int
      BY <1>2, <2>3, <3>1
    <3>6. Until(d, idle, syst) <= d * T /\ Until(d, idle, syst) \in Int
      BY <1>2, <3>2, <3>3, <3>5
    <3>7. Until(d, idle', syst') >= d * T /\ Until(d, idle', syst') \in Int
      BY <2>2, <2>3, <3>4, <3>5
    <3>8. rest[t] < Until(d, idle', syst') + T
      BY <1>2, <3>1, <3>5, <3>6, <3>7
    <3> QED BY <1>1, <3>8 DEF d, T
  <2>13. SleepRest'
    BY <1>1, <1>2, <2>12 DEF SleepRest, InDelay
  <2> QED BY <2>7, <2>8, <2>9, <2>10, <2>11, <2>13 DEF TicklessInv
<1> QED BY <1>7, <1>8
(* After the sleep the clock and the timers move by the time slept, the    *)
(* countdowns do not yet.                                                  *)
LEMMA IdleWokenInv ==
    ASSUME TicklessInv, IdleWoken, ~syst.pend
    PROVE  TicklessInv'
<1> DEFINE W == Whole(syst.rvr + 1)
           T == TICKS_PER_MS
<1>1. /\ IdleAt("woken") /\ s_tickless_active' = FALSE /\ syst' = Armed(TICKS_PER_MS)
      /\ s_ticks' = (s_ticks + elapsed_ms) % TickModulus /\ s_timers' = Aged(s_timers, elapsed_ms)
      /\ idle' = [idle EXCEPT !.at = "apply", !.ms = elapsed_ms]
      /\ k' = k /\ pc' = pc /\ wakeAt' = wakeAt /\ fired' = fired /\ rest' = rest
  BY DEF IdleWoken
<1>2. /\ idle.at = "woken" /\ Runs(IdleTask) /\ idle.ms \in Nat /\ idle.i \in Timers
      /\ IdlePlaces /\ SleepCounter /\ SleepTimers /\ SleepDelays /\ SleepRest /\ SchedInv
      /\ s_ticks \in Time /\ T \in Nat /\ T >= 1
  BY <1>1, IdleRuns
<1>3. elapsed_ms = W
  BY <1>2 DEF elapsed_ms, SleepCounter, Whole
<1>4. Sleeping /\ W \in Nat /\ W >= 1
  <2>1. Sleeping
    BY <1>2 DEF Sleeping
  <2>2. syst.rvr + 1 \in Nat /\ syst.rvr + 1 >= TICKS_PER_MS
    BY <1>2, <2>1 DEF SleepCounter
  <2> QED BY <2>1, <2>2, WholeSleep
<1> HIDE DEF W
<1>5. /\ syst' \in [rvr : Nat, cvr : Nat, countflag : BOOLEAN, pend : BOOLEAN]
      /\ syst'.rvr = T - 1 /\ syst'.cvr = T - 1 /\ ~syst'.pend
  <2>1. T - 1 \in Nat
    BY <1>2
  <2> QED BY <1>1, <2>1 DEF Armed
<1>6. /\ idle' \in [at : {"loop", "budget", "wfi", "sleep", "woken", "apply", "service", "expire"},
                    ms : Nat, i : Timers]
      /\ idle'.at = "apply" /\ idle'.i = idle.i /\ idle'.ms = W
  BY <1>1, <1>2, <1>3, <1>4 DEF IdlePlaces
<1> HIDE DEF T
<1>7. ~Sleeping' /\ ~Preemptible' /\ \A i \in Timers : ~ServedSince(i)'
  BY <1>6 DEF Sleeping, Preemptible, ServedSince
<1>8. s_ticks' \in Time /\ s_ticks' = (s_ticks + W) % TickModulus
  BY <1>1, <1>2, <1>3, <1>4, TickRange DEF Time
<1>9. SchedInv'
  BY <1>1, <1>2, <1>8 DEF SchedInv, SchedCore, SwitchAt
<1>10. IdlePlaces'
  BY <1>1, <1>2, <1>5, <1>6, <1>7 DEF IdlePlaces, Runs
<1>11. SleepCounter'
  <2>1. T - 1 <= T - 1
    BY <1>2
  <2> QED BY <1>5, <1>6, <1>7, <2>1 DEF SleepCounter, T
<1>12. SleepTimers'
  <2>1. ASSUME NEW i \in Timers
        PROVE  /\ Counting(s_timers'[i], s_ticks')
               /\ s_timers'[i].active => s_timers'[i].left \in 0 .. Half - 1
    <3>1. Counting(s_timers[i], s_ticks)
      BY <1>2 DEF SleepTimers
    <3>2. /\ Counting(s_timers'[i], s_ticks') /\ (s_timers'[i].active <=> s_timers[i].active)
          /\ s_timers[i].active => s_timers'[i].left = s_timers[i].left - W
      BY <1>1, <1>2, <1>3, <1>4, <1>8, <3>1, AgedCounting
    <3>3. s_timers[i].active => s_timers[i].left \in 0 .. Half - 1 /\ W <= s_timers[i].left
      BY <1>2, <1>4 DEF SleepTimers, W
    <3>4. \A l \in 0 .. Half - 1 : W <= l => l - W \in 0 .. Half - 1
      BY <1>4, TickRange
    <3> QED BY <3>2, <3>3, <3>4
  <2>2. s_timers' = [i \in Timers |-> s_timers'[i]]
    BY <1>1 DEF Aged
  <2>3. fired' \subseteq Timers \X {0, -1}
    BY <1>1, <1>2 DEF SleepTimers
  <2> QED BY <1>6, <1>7, <2>1, <2>2, <2>3 DEF SleepTimers
<1>13. ASSUME NEW t \in Task, k.state[t] = "BLOCKED"
       PROVE  /\ InDelay(t) /\ k.delay_ticks[t] \in 1 .. (TickModulus - 1) /\ k.delay_ticks[t] \in Nat
              /\ W <= k.delay_ticks[t]
              /\ wakeAt[t] = (s_ticks' + (k.delay_ticks[t] - W)) % TickModulus
  <2> DEFINE d == k.delay_ticks[t]
  <2>1. Unapplied = 0
    BY <1>2 DEF Unapplied
  <2>2. /\ InDelay(t) /\ d \in 1 .. (TickModulus - 1) /\ W <= d
        /\ wakeAt[t] = (s_ticks + (d - 0)) % TickModulus
    BY <1>2, <1>4, <1>13, <2>1 DEF SleepDelays, W
  <2> HIDE DEF d
  <2>3. d \in Nat /\ d - 0 = d
    BY <2>2, TickRange
  <2>4. (((s_ticks + W) % TickModulus) + (d - W)) % TickModulus = (s_ticks + d) % TickModulus
    BY <1>2, <1>4, <2>3, CountdownMoves
  <2> QED BY <1>8, <2>2, <2>3, <2>4 DEF d
<1>14. SleepDelays'
  <2>1. Unapplied' = W /\ idle'.at # "budget"
    BY <1>6 DEF Unapplied
  <2> QED BY <1>1, <1>7, <1>13, <2>1 DEF SleepDelays, InDelay
<1>15. ASSUME NEW t \in Task, k.state[t] = "BLOCKED"
       PROVE  Until(k.delay_ticks[t], idle', syst') = Until(k.delay_ticks[t], idle, syst)
  <2> DEFINE d == k.delay_ticks[t]
  <2>1. Until(d, idle', syst') = (d - W) * T
    BY <1>6 DEF Until, T
  <2>2. Until(d, idle, syst) = (d - W) * T + 0
    BY <1>2 DEF Until, W, T, SleepCounter
  <2>3. d \in Nat
    BY <1>13, <1>15
  <2> HIDE DEF d
  <2>4. (d - W) * T \in Int
    BY <1>2, <1>4, <2>3
  <2>5. (d - W) * T + 0 = (d - W) * T
    BY <2>4
  <2> QED BY <2>1, <2>2, <2>5 DEF d
<1>16. SleepRest'
  BY <1>1, <1>2, <1>15 DEF SleepRest, InDelay
<1> QED BY <1>9, <1>10, <1>11, <1>12, <1>14, <1>16 DEF TicklessInv

(* The countdowns follow.                                                  *)
LEMMA IdleApplyInv ==
    ASSUME TicklessInv, IdleApply, ~syst.pend
    PROVE  TicklessInv'
<1> DEFINE n == idle.ms
           T == TICKS_PER_MS
<1>1. /\ IdleAt("apply") /\ k' = sched_tick_n(k, n) /\ idle' = [at |-> "service", ms |-> 0, i |-> 0]
      /\ pc' = pc /\ s_ticks' = s_ticks /\ wakeAt' = wakeAt /\ s_timers' = s_timers /\ fired' = fired
      /\ syst' = syst /\ s_tickless_active' = s_tickless_active /\ rest' = rest
  BY DEF IdleApply, timerVars
<1>2. /\ idle.at = "apply" /\ Runs(IdleTask) /\ n \in Nat /\ idle.i \in Timers
      /\ IdlePlaces /\ SleepCounter /\ SleepTimers /\ SleepDelays /\ SleepRest /\ SchedInv
      /\ SchedCore /\ s_ticks \in Time /\ T \in Nat /\ T >= 1
  BY <1>1, IdleRuns
<1>3. /\ KernelInv(k') /\ k'.s_task_count = TASK_MAX
      /\ k'.g_next_task # k'.g_current_task => k'.pendsv
      /\ \A t \in Task : k.state[t] # "BLOCKED" => k'.state[t] # "BLOCKED"
      /\ \A t \in Task : k.state[t] = "BLOCKED" /\ k.delay_ticks[t] > 0 =>
           IF k.delay_ticks[t] <= n THEN k'.state[t] # "BLOCKED"
           ELSE k'.state[t] = "BLOCKED" /\ k'.delay_ticks[t] = k.delay_ticks[t] - n
  BY <1>1, <1>2, TickCountsDown
<1>4. SchedInv'
  BY <1>1, <1>2, <1>3 DEF SchedInv, SchedCore, SwitchAt
<1>5. 0 \in Timers /\ \A i \in Timers : ~(i < 0)
  BY TimerAssumption DEF Timers
<1>6. /\ ~Sleeping /\ ~Sleeping' /\ Preemptible' /\ idle'.at = "service" /\ idle'.i = 0
      /\ \A i \in Timers : ~ServedSince(i)'
  BY <1>1, <1>2, <1>5 DEF Sleeping, Preemptible, ServedSince
<1>7. IdlePlaces'
  BY <1>1, <1>2, <1>5, <1>6 DEF IdlePlaces
<1>8. SleepCounter'
  BY <1>1, <1>2, <1>6 DEF SleepCounter
<1>9. SleepTimers'
  BY <1>1, <1>2, <1>6 DEF SleepTimers
<1>10. ASSUME NEW t \in Task, k.state[t] = "BLOCKED"
       PROVE  LET d == k.delay_ticks[t] IN
              /\ InDelay(t) /\ d \in Nat /\ d \in 1 .. (TickModulus - 1) /\ n <= d
              /\ wakeAt[t] = (s_ticks + (d - n)) % TickModulus
              /\ IF d = n THEN k'.state[t] # "BLOCKED" /\ d - n = 0
                 ELSE /\ k'.state[t] = "BLOCKED" /\ k'.delay_ticks[t] = d - n
                      /\ d - n \in 1 .. (TickModulus - 1) /\ d - n - 0 = d - n /\ 0 <= d - n
  <2> DEFINE d == k.delay_ticks[t]
  <2>1. Unapplied = n
    BY <1>2 DEF Unapplied
  <2>2. /\ InDelay(t) /\ d \in 1 .. (TickModulus - 1) /\ n <= d
        /\ wakeAt[t] = (s_ticks + (d - n)) % TickModulus
    BY <1>2, <1>10, <2>1 DEF SleepDelays
  <2>3. d \in Nat /\ d > 0 /\ (d <= n <=> d = n)
    BY <1>2, <2>2, TickRange
  <2>4. IF d = n THEN k'.state[t] # "BLOCKED" ELSE k'.state[t] = "BLOCKED" /\ k'.delay_ticks[t] = d - n
    BY <1>3, <1>10, <2>3
  <2> HIDE DEF d, n
  <2>5. IF d = n THEN d - n = 0
        ELSE d - n \in 1 .. (TickModulus - 1) /\ d - n - 0 = d - n /\ 0 <= d - n
    BY <1>2, <2>2, <2>3, TickRange
  <2> QED BY <2>2, <2>3, <2>4, <2>5 DEF d
<1>11. SleepDelays'
  <2>1. Unapplied' = 0 /\ idle'.at # "budget"
    BY <1>6 DEF Unapplied
  <2>2. \A t \in Task : InDelay(t)' <=> InDelay(t)
    BY <1>1 DEF InDelay
  <2>3. ASSUME NEW t \in Task, k'.state[t] = "BLOCKED"
        PROVE  /\ InDelay(t)' /\ k'.delay_ticks[t] \in 1 .. (TickModulus - 1)
               /\ 0 <= k'.delay_ticks[t]
               /\ wakeAt'[t] = (s_ticks' + (k'.delay_ticks[t] - 0)) % TickModulus
    <3>1. k.state[t] = "BLOCKED"
      BY <1>3, <2>3
    <3> HIDE DEF n
    <3> QED BY <1>1, <1>10, <2>2, <2>3, <3>1
  <2> QED BY <1>6, <2>1, <2>3 DEF SleepDelays
<1>12. ASSUME NEW t \in Task, k.state[t] = "BLOCKED"
       PROVE  /\ k'.state[t] = "BLOCKED" => rest'[t] < Until(k'.delay_ticks[t], idle', syst') + TICKS_PER_MS
              /\ k'.state[t] # "BLOCKED" => rest'[t] <= TICKS_PER_MS
  <2> DEFINE d == k.delay_ticks[t]
             e == d - n
  <2>1. /\ d \in Nat /\ e \in Int /\ rest[t] \in Int /\ rest[t] < Until(d, idle, syst) + T
        /\ IF d = n THEN k'.state[t] # "BLOCKED" /\ e = 0
           ELSE k'.state[t] = "BLOCKED" /\ k'.delay_ticks[t] = e
    BY <1>2, <1>10, <1>12 DEF SleepRest
  <2>2. Until(d, idle, syst) = e * T
    BY <1>2 DEF Until
  <2>3. Until(e, idle', syst') = (e - 1) * T + (syst.cvr + 1)
    BY <1>1, <1>6 DEF Until
  <2>4. syst.cvr + 1 = T
    <3>1. syst.cvr = T - 1
      BY <1>2, <1>6 DEF SleepCounter
    <3> QED BY <1>2, <3>1
  <2> HIDE DEF d, e, T
  <2>5. (e - 1) * T + T = e * T /\ e * T \in Int
    BY <1>2, <2>1
  <2>6. Until(e, idle', syst') = Until(d, idle, syst)
    BY <2>2, <2>3, <2>4, <2>5
  <2>7. CASE d = n
    <3>1. e * T = 0
      BY <1>2, <2>1, <2>7
    <3>2. rest[t] <= T
      BY <1>2, <2>1, <2>2, <3>1
    <3> QED BY <1>1, <2>1, <2>7, <3>2 DEF T
  <2>8. CASE d # n
    BY <1>1, <2>1, <2>6, <2>8 DEF T
  <2> QED BY <2>7, <2>8
<1>13. SleepRest'
  BY <1>1, <1>2, <1>3, <1>12 DEF SleepRest, InDelay
<1> QED BY <1>4, <1>7, <1>8, <1>9, <1>11, <1>13 DEF TicklessInv
(* The place after timer i has been looked at at time now.                 *)
LEMMA NextTimerPlace ==
    ASSUME idle.i \in Timers, NEW now \in Nat
    PROVE  /\ NextTimer(now) \in
                [at : {"loop", "budget", "wfi", "sleep", "woken", "apply", "service", "expire"},
                 ms : Nat, i : Timers]
           /\ NextTimer(now).at \in {"loop", "service"}
           /\ NextTimer(now).at = "service" => NextTimer(now).ms = now
           /\ NextTimer(now).at = "service" => NextTimer(now).i = idle.i + 1
           /\ NextTimer(now).at = "loop" => idle.i = TIMER_MAX_COUNT - 1
<1>1. TIMER_MAX_COUNT \in Nat /\ TIMER_MAX_COUNT >= 1 /\ idle.i \in Nat /\ idle.i <= TIMER_MAX_COUNT - 1
  BY TimerAssumption DEF Timers
<1>2. CASE idle.i + 1 < TIMER_MAX_COUNT
  <2>1. idle.i + 1 \in Timers
    BY <1>1, <1>2 DEF Timers
  <2> QED BY <1>2, <2>1 DEF NextTimer
<1>3. CASE ~(idle.i + 1 < TIMER_MAX_COUNT)
  <2>1. 0 \in Timers /\ idle.i = TIMER_MAX_COUNT - 1
    BY <1>1, <1>3 DEF Timers
  <2> QED BY <1>3, <2>1 DEF NextTimer
<1> QED BY <1>2, <1>3

(* Then the timers up to it have been served.                              *)
LEMMA NextTimerServed ==
    ASSUME idle.i \in Timers, NEW now \in Nat, idle' = NextTimer(now), NEW j \in Timers, ServedSince(j)'
    PROVE  j <= idle.i /\ j \in Int /\ idle.i \in Int
<1>1. /\ NextTimer(now).at \in {"loop", "service"}
      /\ NextTimer(now).at = "service" => NextTimer(now).i = idle.i + 1
      /\ NextTimer(now).at = "loop" => idle.i = TIMER_MAX_COUNT - 1
  BY NextTimerPlace
<1>2. TIMER_MAX_COUNT \in Nat /\ idle.i \in Nat /\ j \in Nat /\ j <= TIMER_MAX_COUNT - 1
  BY TimerAssumption DEF Timers
<1>3. idle'.at = "service" => j < idle.i + 1
  BY <1>1 DEF ServedSince
<1> QED BY <1>1, <1>2, <1>3

(* timer_service_tick in the idle task: the test of one timer.             *)
LEMMA IdleTestInv ==
    ASSUME TicklessInv, IdleTest, ~syst.pend
    PROVE  TicklessInv'
<1> DEFINE n == idle.i
           x == s_timers[n]
<1>1. /\ IdleAt("service") /\ UNCHANGED schedVars /\ s_timers' = s_timers /\ fired' = fired
      /\ syst' = syst /\ s_tickless_active' = s_tickless_active /\ rest' = rest
  BY DEF IdleTest, timerVars
<1>2. /\ idle.at = "service" /\ Runs(IdleTask) /\ idle.ms \in Nat /\ n \in Timers
      /\ IdlePlaces /\ SleepCounter /\ SleepTimers /\ SleepDelays /\ SleepRest /\ SchedInv
      /\ s_ticks \in Time
  BY <1>1, IdleRuns
<1>3. idle' = IF Due(x, s_ticks) THEN [idle EXCEPT !.at = "expire", !.ms = s_ticks] ELSE NextTimer(s_ticks)
  <2>1. idle.i # 0 => idle.ms = s_ticks
    BY <1>2 DEF SleepTimers
  <2> QED BY <2>1 DEF IdleTest
<1>4. s_ticks \in Nat
  BY <1>2, TickRange DEF Time
<1>5. ~Sleeping
  BY <1>2 DEF Sleeping
<1>6. /\ Counting(x, s_ticks) /\ (x.active => x.left \in 0 .. (Half - 1) /\ x.left \in Int)
      /\ \A j \in Timers : j < n /\ s_timers[j].active => s_timers[j].left >= 1
  <2>1. \A j \in Timers : j < n => ServedSince(j)
    BY <1>2 DEF ServedSince
  <2> QED BY <1>2, <2>1 DEF SleepTimers
<1>7. Due(x, s_ticks) <=> x.active /\ x.left <= 0
  <2>1. \A l \in 0 .. (Half - 1) : l \in (0 - 1) .. (Half - 1)
    BY TickRange
  <2>2. x.active => x.left \in (0 - 1) .. (Half - 1)
    BY <1>6, <2>1
  <2> QED BY <1>2, <1>6, <2>2, ServeLate
<1>8. CASE Due(x, s_ticks)
  <2>1. idle' = [idle EXCEPT !.at = "expire", !.ms = s_ticks]
    BY <1>3, <1>8
  <2>2. /\ idle' \in [at : {"loop", "budget", "wfi", "sleep", "woken", "apply", "service", "expire"},
                      ms : Nat, i : Timers]
        /\ idle'.at = "expire" /\ idle'.ms = s_ticks /\ idle'.i = n
    BY <1>2, <1>4, <2>1 DEF IdlePlaces
  <2>3. x.active /\ x.left = 0
    BY <1>6, <1>7, <1>8, TickRange
  <2>4. ~Sleeping' /\ idle'.at # "apply" /\ idle.at # "apply" /\ idle'.at # "budget"
    BY <1>2, <2>2 DEF Sleeping
  <2>5. \A j \in Timers : ServedSince(j)' => j < n
    BY <2>2 DEF ServedSince
  <2> QED BY <1>1, <1>2, <1>5, <1>6, <2>2, <2>3, <2>4, <2>5, IdleMoves
<1>9. CASE ~Due(x, s_ticks)
  <2>1. idle' = NextTimer(s_ticks)
    BY <1>3, <1>9
  <2>2. /\ NextTimer(s_ticks) \in
             [at : {"loop", "budget", "wfi", "sleep", "woken", "apply", "service", "expire"},
              ms : Nat, i : Timers]
        /\ NextTimer(s_ticks).at \in {"loop", "service"}
        /\ NextTimer(s_ticks).at = "service" => NextTimer(s_ticks).ms = s_ticks
    BY <1>2, <1>4, NextTimerPlace
  <2>3. ~Sleeping' /\ idle'.at \notin {"apply", "expire", "budget"} /\ idle.at # "apply"
    BY <1>2, <2>1, <2>2 DEF Sleeping
  <2>4. x.active => x.left >= 1
    BY <1>6, <1>7, <1>9, TickRange
  <2>5. ASSUME NEW j \in Timers, ServedSince(j)', s_timers[j].active PROVE s_timers[j].left >= 1
    <3>1. j <= n /\ j \in Int /\ n \in Int
      BY <1>2, <1>4, <2>1, <2>5, NextTimerServed
    <3>2. j = n \/ j < n
      BY <3>1
    <3> QED BY <1>6, <2>4, <2>5, <3>2
  <2> QED BY <1>1, <1>2, <1>5, <2>1, <2>2, <2>3, <2>5, IdleMoves
<1> QED BY <1>8, <1>9

(* ... and its expiry, at its very tick.                                   *)
LEMMA IdleExpireInv ==
    ASSUME TicklessInv, IdleExpire, ~syst.pend
    PROVE  TicklessInv'
<1> DEFINE n == idle.i
           x == s_timers[n]
           y == Expire(x, "nothing", s_ticks)
<1>1. /\ IdleAt("expire") /\ UNCHANGED schedVars /\ idle' = NextTimer(idle.ms)
      /\ s_timers' = [s_timers EXCEPT ![n] = Expire(x, "nothing", idle.ms)] /\ fired' = {<<n, x.left>>}
      /\ syst' = syst /\ s_tickless_active' = s_tickless_active /\ rest' = rest
      /\ k' = k /\ pc' = pc /\ s_ticks' = s_ticks /\ wakeAt' = wakeAt
  BY DEF IdleExpire, schedVars
<1>2. /\ idle.at = "expire" /\ Runs(IdleTask) /\ idle.ms \in Nat /\ n \in Timers
      /\ IdlePlaces /\ SleepCounter /\ SleepTimers /\ SleepDelays /\ SleepRest /\ SchedInv
      /\ s_ticks \in Time
  BY <1>1, IdleRuns
<1>3. idle.ms = s_ticks /\ x.active /\ x.left = 0 /\ Counting(x, s_ticks)
  BY <1>2 DEF SleepTimers
<1>4. Counting(y, s_ticks) /\ (y.active => y.left \in 1 .. (Half - 1))
  <2>1. x.active => x.left \in (1 - 1) .. (Half - 1)
    <3>1. x.left \in 0 .. (Half - 1)
      BY <1>2, <1>3 DEF SleepTimers
    <3> QED BY <3>1
  <2>2. x.left <= 0
    BY <1>3
  <2>3. Due(x, s_ticks) <=> x.active /\ x.left <= 0
    BY <1>2, <1>3, <2>1, ServeLate
  <2>4. /\ Counting(IF Due(x, s_ticks) THEN y ELSE x, s_ticks)
        /\ (IF Due(x, s_ticks) THEN y ELSE x).active =>
              (IF Due(x, s_ticks) THEN y ELSE x).left \in 1 .. (Half - 1)
    BY <1>2, <1>3, <2>1, ServeLate
  <2> HIDE DEF y
  <2> QED BY <1>3, <2>2, <2>3, <2>4
<1> HIDE DEF y
<1>5. /\ NextTimer(s_ticks) \in
           [at : {"loop", "budget", "wfi", "sleep", "woken", "apply", "service", "expire"},
            ms : Nat, i : Timers]
      /\ NextTimer(s_ticks).at \in {"loop", "service"}
      /\ NextTimer(s_ticks).at = "service" => NextTimer(s_ticks).ms = s_ticks
  BY <1>2, <1>3, NextTimerPlace
<1>6. idle' = NextTimer(s_ticks)
  BY <1>1, <1>3
<1>7. /\ ~Sleeping /\ ~Sleeping' /\ idle'.at \notin {"apply", "expire", "budget"} /\ idle.at # "apply"
      /\ ~Preemptible /\ idle.at # "budget"
  BY <1>2, <1>5, <1>6 DEF Sleeping, Preemptible
<1>8. SchedInv'
  BY <1>1, <1>2, NextInv
<1>9. IdlePlaces'
  BY <1>1, <1>2, <1>5, <1>6, <1>7 DEF IdlePlaces, Runs
<1>10. SleepCounter'
  BY <1>1, <1>2, <1>7 DEF SleepCounter, Sleeping
<1>11. SleepTimers'
  <2>1. /\ s_timers' = [i \in Timers |-> s_timers'[i]]
        /\ \A i \in Timers : s_timers'[i] = IF i = n THEN y ELSE s_timers[i]
    BY <1>1, <1>2, <1>3 DEF SleepTimers, y
  <2>2. fired' \subseteq Timers \X {0, -1}
    BY <1>1, <1>2, <1>3
  <2>3. ASSUME NEW i \in Timers
        PROVE  /\ Counting(s_timers'[i], s_ticks')
               /\ s_timers'[i].active =>
                     s_timers'[i].left \in 0 .. Half - 1 /\ (ServedSince(i)' => s_timers'[i].left >= 1)
    <3>1. CASE i = n
      <4>1. \A l \in 1 .. (Half - 1) : l \in 0 .. Half - 1 /\ l >= 1
        BY TickRange
      <4> QED BY <1>1, <1>4, <2>1, <3>1, <4>1
    <3>2. CASE i # n
      <4>1. ServedSince(i)' => ServedSince(i)
        <5> HAVE ServedSince(i)'
        <5>1. i <= n /\ i \in Int /\ n \in Int
          BY <1>2, <1>3, <1>6, NextTimerServed
        <5>2. i < n
          BY <3>2, <5>1
        <5> QED BY <1>2, <5>2 DEF ServedSince
      <4> QED BY <1>1, <1>2, <2>1, <3>2, <4>1 DEF SleepTimers
    <3> QED BY <3>1, <3>2
  <2> QED BY <1>1, <1>5, <1>6, <1>7, <2>1, <2>2, <2>3 DEF SleepTimers
<1>12. SleepDelays'
  BY <1>1, <1>2, <1>7 DEF SleepDelays, Unapplied, InDelay
<1>13. \A d : Until(d, idle', syst') = Until(d, idle, syst)
  BY <1>1, <1>7 DEF Until, Sleeping
<1>14. SleepRest'
  BY <1>1, <1>2, <1>13 DEF SleepRest, InDelay
<1> QED BY <1>8, <1>9, <1>10, <1>11, <1>12, <1>14 DEF TicklessInv

(* At first no task is delayed and the timers have just been started.      *)
LEMMA TicklessInitInv == TicklessInit => TicklessInv
<1> SUFFICES ASSUME TicklessInit PROVE TicklessInv
  OBVIOUS
<1>1. /\ SchedInit /\ RunningTimers /\ fired = {} /\ syst = Armed(TICKS_PER_MS) /\ s_tickless_active = FALSE
      /\ idle = [at |-> "loop", ms |-> 0, i |-> 0] /\ rest = [t \in Task |-> 0]
      /\ s_ticks = 0 /\ pc = [t \in Task |-> "user"]
  BY DEF TicklessInit, IdleInit, SchedInit
<1>2. SchedInv /\ \A t \in Thread : k.state[t] # "BLOCKED"
  BY <1>1, InitCore
<1>3. 0 \in Timers /\ 0 \in Time /\ Task \subseteq Thread /\ 0 \in Nat
  BY TimerAssumption, TickRange DEF Timers, Time, Thread
<1>4. Preemptible /\ ~Sleeping /\ \A i \in Timers : ServedSince(i)
  BY <1>1 DEF Preemptible, Sleeping, ServedSince
<1>5. /\ syst \in [rvr : Nat, cvr : Nat, countflag : BOOLEAN, pend : BOOLEAN]
      /\ syst.rvr = TICKS_PER_MS - 1 /\ syst.cvr = syst.rvr /\ ~syst.pend
      /\ syst.cvr <= syst.rvr
  <2>1. TICKS_PER_MS - 1 \in Nat /\ TICKS_PER_MS - 1 <= TICKS_PER_MS - 1
    BY CounterRange
  <2> QED BY <1>1, <2>1 DEF Armed
<1>6. IdlePlaces
  BY <1>1, <1>3, <1>4, <1>5 DEF IdlePlaces
<1>7. SleepCounter
  BY <1>1, <1>4, <1>5 DEF SleepCounter
<1>8. SleepTimers
  <2>1. PICK x \in InitialTimer :
          s_timers = [i \in Timers |->
             Starting([FreeTimer EXCEPT !.in_use = TRUE, !.period_ms = x[1], !.auto_reload = x[2]], 0)]
    BY <1>1 DEF RunningTimers
  <2>2. PICK p \in Period, r \in BOOLEAN : x[1] = p /\ x[2] = r
    BY TicklessAssumption
  <2> DEFINE f == [FreeTimer EXCEPT !.in_use = TRUE, !.period_ms = p, !.auto_reload = r]
  <2>3. f \in TimerRecord /\ f.in_use /\ f.period_ms \in Period
    <3>1. FreeTimer \in TimerRecord
      BY <1>3 DEF FreeTimer, TimerRecord
    <3> QED BY <2>2, <3>1 DEF TimerRecord
  <2>4. \A i \in Timers : s_timers[i] = Starting(f, 0)
    BY <2>1, <2>2
  <2>5. s_timers = [i \in Timers |-> s_timers[i]]
    BY <2>1
  <2> HIDE DEF f
  <2>6. Ahead(Starting(f, 0), 0)
    BY <1>3, <2>3, StartingAhead
  <2>7. \A l \in 1 .. Half - 1 : l \in 0 .. Half - 1 /\ l >= 1
    BY TickRange
  <2> QED BY <1>1, <1>4, <2>4, <2>5, <2>6, <2>7 DEF SleepTimers, Ahead
<1>9. SleepDelays
  BY <1>2, <1>3 DEF SleepDelays
<1>10. SleepRest
  BY <1>1, <1>2, <1>3 DEF SleepRest, InDelay
<1> QED BY <1>2, <1>6, <1>7, <1>8, <1>9, <1>10 DEF TicklessInv

(* Every step.                                                             *)
LEMMA TicklessNextInv == TicklessInv /\ [TicklessNext]_TicklessAllVars => TicklessInv'
<1> SUFFICES ASSUME TicklessInv, [TicklessNext]_TicklessAllVars PROVE TicklessInv'
  OBVIOUS
<1>1. ASSUME UNCHANGED schedVars, UNCHANGED <<timerVars, syst, s_tickless_active, idle, rest>>
      PROVE  TicklessInv'
  <2>1. /\ k' = k /\ pc' = pc /\ s_ticks' = s_ticks /\ wakeAt' = wakeAt
        /\ s_timers' = s_timers /\ fired' = fired /\ syst' = syst /\ idle' = idle /\ rest' = rest
        /\ s_tickless_active' = s_tickless_active
    BY <1>1 DEF schedVars, timerVars
  <2>2. SchedInv'
    BY <1>1, NextInv DEF TicklessInv
  <2>3. (~Preemptible => Runs(IdleTask)') /\ (syst.pend => ~k'.pendsv)
    BY <2>1 DEF TicklessInv, IdlePlaces, Runs
  <2>4. \A t \in Task : (InDelay(t)' <=> InDelay(t)) /\ (k.state[t] = "BLOCKED" => InDelay(t))
    BY <2>1 DEF TicklessInv, SleepDelays, InDelay
  <2> QED BY <2>1, <2>2, <2>3, <2>4, SameTimeInv
<1>2. CASE UNCHANGED TicklessAllVars
  BY <1>1, <1>2 DEF TicklessAllVars, timerAllVars, ticklessVars
<1>3. CASE TickHandler
  BY <1>3, TickAsleepInv, TickAwakeInv
<1>4. CASE PendSV /\ UNCHANGED <<timerVars, ticklessVars>>
  BY <1>4, TicklessSwitchInv
<1>5. CASE ~syst.pend /\ (HwTick \/ IdleNext)
  BY <1>5, HwTickInv, IdleLoopInv, IdleArmInv, IdleWokenInv, IdleApplyInv, IdleTestInv, IdleExpireInv
     DEF IdleNext
<1>6. ASSUME ~syst.pend, NEW t \in Task, SchedStep(t), UNCHANGED <<timerVars, ticklessVars>>
      PROVE  TicklessInv'
  BY <1>6, TicklessStepInv
<1>7. ASSUME ~syst.pend, NEW t \in Task, NEW ms \in Delay, TaskDelay(t, ms)
      PROVE  TicklessInv'
  BY <1>7, TaskDelayInv
<1>8. ASSUME NEW t \in Task, NEW on \in BOOLEAN, sched_tickless_idle_set(t, on)
      PROVE  TicklessInv'
  BY <1>1, <1>8 DEF sched_tickless_idle_set
<1> QED BY <1>2, <1>3, <1>4, <1>5, <1>6, <1>7, <1>8 DEF TicklessNext
(* The timers, early or late.                                              *)
LEMMA TicklessInvServed == TicklessInv => TicklessTimersServed
<1> SUFFICES ASSUME TicklessInv PROVE TicklessTimersServed
  OBVIOUS
<1>1. SleepTimers
  BY DEF TicklessInv
<1>2. \A f \in fired : f[2] \in {0, -1}
  BY <1>1 DEF SleepTimers
<1>3. \A l \in 0 .. Half - 1 : l >= -1
  BY TickRange
<1> QED BY <1>1, <1>2, <1>3 DEF SleepTimers, TicklessTimersServed

(* The end of a delay: at the sleep's end the clock shows the time, and    *)
(* the countdown is applied afterwards.                                    *)
LEMMA TicklessDelayStep ==
    ASSUME TicklessInv, [TicklessNext]_TicklessAllVars, NEW t \in Task,
           k.state[t] = "BLOCKED", k'.state[t] # "BLOCKED"
    PROVE  s_ticks' = wakeAt[t]
<1> DEFINE d == k.delay_ticks[t]
<1>1. /\ SchedCore /\ KernelInv(k) /\ KernelTypeOK(k) /\ s_ticks \in Time /\ d \in Nat /\ d >= 1
      /\ IdlePlaces /\ SleepDelays /\ wakeAt[t] \in Time
  <2>1. \A n \in 1 .. (TickModulus - 1) : n \in Nat /\ n >= 1
    BY TickRange
  <2> QED BY <2>1 DEF TicklessInv, SchedInv, SchedCore, KernelInv, KernelCore, SleepDelays
<1>2. wakeAt[t] = (s_ticks + (d - Unapplied)) % TickModulus /\ Unapplied <= d
  BY <1>1 DEF SleepDelays
<1>3. \A x \in Time : (x + 0) % TickModulus = x
  BY TickRange DEF Time
<1>4. CASE TickHandler
  <2>1. ~s_tickless_active /\ k' = sched_tick_n(k, 1) /\ s_ticks' = (s_ticks + 1) % TickModulus /\ syst.pend
    BY <1>4 DEF TickHandler
  <2>2. Unapplied = 0
    BY <1>1, <2>1 DEF IdlePlaces, Preemptible, Unapplied
  <2>3. d <= 1
    BY <1>1, <2>1, TickCountsDown
  <2>4. d - 0 = 1
    BY <1>1, <2>3
  <2> QED BY <1>2, <2>1, <2>2, <2>4
<1>5. CASE IdleApply
  <2>1. IdleAt("apply") /\ k' = sched_tick_n(k, idle.ms) /\ s_ticks' = s_ticks
    BY <1>5 DEF IdleApply
  <2>2. Unapplied = idle.ms /\ idle.ms \in Nat
    BY <1>1, <2>1 DEF IdleAt, Unapplied, IdlePlaces
  <2>3. d <= idle.ms
    BY <1>1, <2>1, <2>2, TickCountsDown
  <2>4. d - idle.ms = 0
    BY <1>1, <1>2, <2>2, <2>3
  <2> QED BY <1>1, <1>2, <1>3, <2>1, <2>2, <2>4
<1>6. CASE PendSV
  BY <1>1, <1>6, PendSVKeeps DEF PendSV
<1>7. ASSUME NEW u \in Task, SchedStep(u) PROVE FALSE
  <2>1. k' = k \/ k' = [k EXCEPT !.pendsv = TRUE]
    BY <1>7 DEF SchedStep, DelayTrigger, DelayReturn, SwitchTrigger, trigger_pendsv
  <2> QED BY <1>1, <2>1 DEF KernelTypeOK
<1>8. ASSUME NEW u \in Task, NEW ms \in Delay, TaskDelay(u, ms) PROVE FALSE
  <2>1. k' = DelayLocked(k, u, ms) /\ k.g_current_task = u /\ ms \in Nat /\ t \in Thread
    BY <1>8, SchedulerAssumption DEF TaskDelay, sched_delay_ms, Runs, Thread
  <2>2. KernelInv(k)
    BY <1>1
  <2>3. /\ k'.delay_ticks = [k.delay_ticks EXCEPT ![u] = ms]
        /\ \A v \in Thread : k'.state[v] = "BLOCKED" <=> v = u \/ k.state[v] = "BLOCKED"
    BY <2>1, <2>2, DelayDecides
  <2> QED BY <2>1, <2>3
<1>9. CASE k' = k
  BY <1>9
<1> QED BY <1>4, <1>5, <1>6, <1>7, <1>8, <1>9
        DEF TicklessNext, IdleNext, HwTick, IdleLoop, IdleArm, IdleWoken, IdleTest, IdleExpire,
            sched_tickless_idle_set, schedVars, TicklessAllVars, timerAllVars

(* The invariant holds.                                                    *)
LEMMA TicklessAlways == TicklessSpec => []TicklessInv
BY TicklessInitInv, TicklessNextInv, PTL DEF TicklessSpec

(* Tickless sleeps of any length, tasks that preempt the idle task before  *)
(* it has served the timers, and ordinary ticks in between: no callback    *)
(* runs early or more than a tick late, and no sleep skips an expiry.      *)
THEOREM TicklessServesTimers == TicklessSpec => []TicklessTimersServed
BY TicklessAlways, TicklessInvServed, PTL

(* On the hardware clock no delay is short by more than the millisecond    *)
(* that was running at the call, though a sleep restarts the counter and   *)
(* rounds to whole milliseconds.                                           *)
THEOREM TicklessDelaysLast == TicklessSpec => []TicklessNeverEarly
<1>1. TicklessInv => TicklessNeverEarly
  BY DEF TicklessInv, SleepRest, TicklessNeverEarly, InDelay
<1> QED BY <1>1, TicklessAlways, PTL

(* A delay ends when the tick counter shows the time asked for, though the *)
(* idle task moves the clock and the countdowns in two steps.              *)
THEOREM TicklessDelaysEnd == TicklessSpec => TicklessDelayExact
<1>1. TicklessInv /\ [TicklessNext]_TicklessAllVars =>
        [\A t \in Task :
           InDelay(t) /\ k.state[t] = "BLOCKED" /\ k'.state[t] # "BLOCKED" =>
              s_ticks' = wakeAt[t]]_TicklessAllVars
  BY TicklessDelayStep
<1> QED BY <1>1, TicklessAlways, PTL DEF TicklessSpec, TicklessDelayExact
=============================================================================
