-------------------------------- MODULE Time --------------------------------
(***************************************************************************)
(* Conversions between milliseconds, ticks and the settings of the timers: *)
(* hardrt_core.c, and the SysTick and SIGALRM set-up of the ports.  `word' *)
(* is the number of values of a uint32_t, so word - 1 is UINT32_MAX.       *)
(***************************************************************************)
EXTENDS Integers

Least(a, b) == IF a < b THEN a ELSE b
Largest(a, b) == IF a < b THEN b ELSE a

(* Mistaken form of hrt__ms_to_ticks: the quotient is rounded down.         *)
MutRoundDown(ms, tick_hz, word) ==
  IF ms = 0 \/ tick_hz = 0 THEN 1
  ELSE Least((ms * tick_hz) \div 1000, word - 1)

(* Rounded up, at least one tick, saturated; the product is 64 bits wide.   *)
hrt__ms_to_ticks(ms, tick_hz, word) ==
  IF ms = 0 \/ tick_hz = 0 THEN 1
  ELSE Least((ms * tick_hz + 999) \div 1000, word - 1)

(* Mistaken form of hrt_now_ms: the division comes first.                   *)
MutDivideFirst(tick, tick_hz, word) ==
  IF tick_hz = 0 THEN 0 ELSE (tick * (1000 \div tick_hz)) % word

(* The quotient, computed with 64 bits, is cut to 32.                       *)
hrt_now_ms(tick, tick_hz, word) ==
  IF tick_hz = 0 THEN 0 ELSE ((tick * 1000) \div tick_hz) % word

-----------------------------------------------------------------------------
(* The period of a timer asked for hz events a second, in units of the      *)
(* clock it counts.                                                         *)

(* hrt_port_start_systick of the Cortex-M port: LOAD is the quotient, kept  *)
(* within 1 .. 0xFFFFFF, less one; the counter takes LOAD + 1 cycles.       *)
systick_period(core_hz, hz, reload_max) ==
  Least(Largest(core_hz \div hz, 1), reload_max)

(* hrt_port_start_systick of the POSIX port: microseconds.                  *)
itimer_period(hz, usec) == usec \div hz
=============================================================================
