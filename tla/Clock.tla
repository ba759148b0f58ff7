------------------------------- MODULE Clock -------------------------------
(***************************************************************************)
(* Ticks against real time.  The timer a port starts interrupts once every *)
(* so many units of the clock it counts (processor cycles for SysTick,     *)
(* microseconds for SIGALRM); hrt__tick_isr counts the interrupts and ends *)
(* the sleep that is due; a task calls hrt_sleep at any moment in between. *)
(* The counters wrap.  A second has `timer.clock' units: 10^6 or the core  *)
(* clock in the sources, a small number here.                              *)
(***************************************************************************)
EXTENDS Time

CONSTANTS
  Timers,      (* [kind, clock, hz]: the port, its clock and tick_hz        *)
  Sleeps,      (* arguments of hrt_sleep, in milliseconds                   *)
  ReloadMax,   (* 0xFFFFFF, the largest period of SysTick                   *)
  Word         (* 2^32                                                      *)

ASSUME ClockAssumption ==
  /\ Timers \subseteq [kind : {"systick", "sigalrm"}, clock : Nat \ {0},
                       hz : Nat \ {0}]
  /\ Sleeps \subseteq Nat
  /\ ReloadMax \in Nat \ {0}
  /\ Word \in Nat \ {0, 1}

(* setitimer takes a tv_usec of less than a second, and 0 stops the timer.  *)
ASSUME TimerStarts ==
  \A t \in Timers : t.kind = "sigalrm" => 1 < t.hz /\ t.hz <= t.clock

VARIABLES
  timer,                 (* the configuration, fixed                        *)
  phase,                 (* units since the last interrupt                  *)
  g_tick,
  task_state, wake_tick, (* of the task                                     *)
  ms,                    (* argument of its last hrt_sleep                  *)
  slept, left,           (* history: units it has slept and ticks it has    *)
                         (* still to sleep, 0 when READY                    *)
  real,                  (* history: 1000 * units since the start, modulo   *)
                         (* Word milliseconds                               *)
  wrapped                (* history: g_tick has wrapped                     *)

clockVars ==
  <<timer, phase, g_tick, task_state, wake_tick, ms, slept, left, real,
    wrapped>>

period ==
  IF timer.kind = "systick"
  THEN systick_period(timer.clock, timer.hz, ReloadMax)
  ELSE itimer_period(timer.hz, timer.clock)

Ticks(m) == hrt__ms_to_ticks(m, timer.hz, Word)

ClockInit ==
  /\ timer \in Timers
  /\ phase = 0 /\ g_tick = 0
  /\ task_state = "READY" /\ wake_tick = 0
  /\ ms = 0 /\ slept = 0 /\ left = 0
  /\ real = 0 /\ wrapped = FALSE

(* Bound: sleeps of less than half the range of g_tick.                     *)
hrt_sleep ==
  /\ task_state = "READY"
  /\ \E m \in Sleeps :
       /\ 2 * Ticks(m) < Word
       /\ ms' = m
       /\ wake_tick' = (g_tick + Ticks(m)) % Word
       /\ left' = Ticks(m)
  /\ task_state' = "SLEEP"
  /\ slept' = 0
  /\ UNCHANGED <<timer, phase, g_tick, real, wrapped>>

(* A unit of time passes.                                                   *)
Elapse ==
  /\ real' = (real + 1000) % (Word * timer.clock)
  /\ slept' = IF task_state' = "SLEEP" THEN slept + 1 ELSE 0
  /\ UNCHANGED <<timer, ms, wake_tick>>

Count ==
  /\ phase + 1 < period
  /\ phase' = phase + 1
  /\ UNCHANGED <<g_tick, task_state, left, wrapped>>
  /\ Elapse

Due(now) ==
  LET d == (wake_tick - now) % Word
  IN  d = 0 \/ 2 * d >= Word

Tick ==
  /\ phase + 1 = period
  /\ phase' = 0
  /\ g_tick' = (g_tick + 1) % Word
  /\ wrapped' = (wrapped \/ g_tick' = 0)
  /\ task_state' = IF task_state = "SLEEP" /\ Due(g_tick')
                   THEN "READY"
                   ELSE task_state
  /\ left' = IF task_state = "SLEEP" THEN left - 1 ELSE left
  /\ Elapse

ClockNext == hrt_sleep \/ Count \/ Tick

ClockSpec == ClockInit /\ [][ClockNext]_clockVars

-----------------------------------------------------------------------------
(* Properties.                                                              *)

(* The timer runs at exactly the rate that was asked for.                   *)
Exact == period * timer.hz = timer.clock

(* The reload register is too small for the period.                         *)
Clamped == timer.kind = "systick" /\ timer.clock \div timer.hz > ReloadMax

(* What truncated periods take from a sleep, at most: a unit for each tick. *)
Truncation == IF Exact THEN 0 ELSE Ticks(ms)

(* A sleep of ms milliseconds lasts at most ms and one tick, and more than  *)
(* ms less one tick and what the truncation of the periods takes: the tick  *)
(* in which the call falls counts as a whole one.  hrt_sleep(0) is a sleep  *)
(* too, of at most a tick.  (A core clock below tick_hz is too slow for the *)
(* upper bound; with a clamped period the sleep has its number of ticks and *)
(* these are too short.)                                                    *)
SleepWindow ==
  [][task_state = "SLEEP" /\ task_state' = "READY" =>
       /\ timer.hz <= timer.clock =>
            1000 * timer.hz * (slept + 1) <= (ms * timer.hz + 1000) * timer.clock
       /\ ~ Clamped =>
            1000 * (slept + 1 + period + Truncation) > ms * timer.clock]_clockVars

(* "Sleep the calling task for at least the specified milliseconds."        *)
SleepsAtLeast ==
  [][task_state = "SLEEP" /\ task_state' = "READY" =>
       1000 * (slept + 1) >= ms * timer.clock]_clockVars

(* The inductive strengthening of SleepWindow: a sleeper has a deadline     *)
(* `left' ticks ahead, and has slept for the ticks that have passed since   *)
(* its call, up to one tick.                                                *)
ClockInv ==
  /\ timer \in Timers
  /\ phase \in 0 .. (period - 1)
  /\ g_tick \in 0 .. (Word - 1)
  /\ task_state \in {"READY", "SLEEP"}
  /\ ms \in Nat /\ slept \in Nat /\ left \in Nat
  /\ task_state = "SLEEP" =>
       /\ left > 0 /\ left <= Ticks(ms) /\ 2 * Ticks(ms) < Word
       /\ wake_tick = (g_tick + left) % Word
       /\ slept <= (Ticks(ms) - left) * period + phase
       /\ (Ticks(ms) - left) * period + phase < slept + period

(* hrt_now_ms is the time since the start, behind by less than a tick and a *)
(* millisecond, up to the wrap of the tick counter; if tick_hz divides 1000 *)
(* also beyond it, as a number modulo 2^32.                                 *)
NowIsTime ==
  Exact /\ (1000 % timer.hz = 0 \/ ~ wrapped) =>
    LET now == hrt_now_ms(g_tick, timer.hz, Word)
    IN  (real - now * timer.clock) % (Word * timer.clock)
          < 1000 * period + timer.clock

(* Its inductive strengthening: the units counted in g_tick and phase are   *)
(* the time since the start.  When g_tick wraps at a rate that divides 1000,*)
(* Word ticks are a multiple of Word milliseconds.                          *)
CountsTime ==
  Exact /\ (1000 % timer.hz = 0 \/ ~ wrapped) =>
    real = (1000 * (g_tick * period + phase)) % (Word * timer.clock)
=============================================================================
