-------------------------------- MODULE Timer -------------------------------
(***************************************************************************)
(* Time: the calibration of busy waits and the conversion of sleeps and    *)
(* delays to ticks and loops (devices/timer.c), the divisor of the timer   *)
(* chip (devices/pit.c), and the time of day (devices/rtc.c).  A machine   *)
(* runs speed loops in a tick.                                             *)
(***************************************************************************)
EXTENDS Integers, Sequences

CONSTANTS TIMER_FREQ,   \* ticks in a second, 100
          PIT_HZ        \* cycles of the timer chip in a second, 1193180

\* Whether a tick passes while LOOPS loops run.
too_many_loops(loops, speed) == loops > speed
\* The largest power of two that is not too many, from 2^10 on.
RECURSIVE HighBit(_, _)
HighBit(loops, speed) ==
  IF too_many_loops(2 * loops, speed) THEN loops ELSE HighBit(2 * loops, speed)
\* The bits below, each tried with high_bit alone.
RECURSIVE Refine(_, _, _, _)
Refine(loops, high_bit, test_bit, speed) ==
  IF test_bit = high_bit \div 2^10 THEN loops
  ELSE Refine(IF too_many_loops(high_bit + test_bit, speed) THEN loops ELSE loops + test_bit,
              high_bit, test_bit \div 2, speed)
\* loops_per_tick after timer_calibrate.
timer_calibrate(speed) ==
  LET high_bit == HighBit(2^10, speed) IN Refine(high_bit, high_bit, high_bit \div 2, speed)

\* The loops of real_time_delay, for NUM / DENOM seconds.
real_time_delay(loops_per_tick, num, denom) ==
  (((loops_per_tick * num) \div 1000) * TIMER_FREQ) \div (denom \div 1000)
\* real_time_sleep: the ticks slept, or the loops waited if that is no tick.
real_time_sleep(loops_per_tick, num, denom) ==
  LET ticks == (num * TIMER_FREQ) \div denom
  IN  [ticks |-> ticks,
       loops |-> IF ticks > 0 THEN 0 ELSE real_time_delay(loops_per_tick, num, denom)]

\* The count of pit_configure_channel, which the chip has 16 bits for and of
\* which it takes 0 for 65536.
pit_count(frequency) ==
  IF frequency < 19 THEN 0 ELSE IF frequency > PIT_HZ THEN 2
  ELSE ((PIT_HZ + frequency \div 2) \div frequency) % 2^16
-----------------------------------------------------------------------------
\* A clock has a byte in BCD for each of its registers.
bcd_to_bin(x) == (x % 16) + (x \div 16) * 10
days_per_month == <<31, 28, 31, 30, 31, 30, 31, 31, 30, 31, 30, 31>>
Quot(a, b) == IF a < 0 THEN -((-a) \div b) ELSE a \div b
RECURSIVE DaysOfMonths(_)
DaysOfMonths(mon) == IF mon = 0 THEN 0 ELSE days_per_month[mon] + DaysOfMonths(mon - 1)
\* The days and the seconds of rtc_get_time, for a time in registers.
Days(t) ==
  LET year == (IF t.year < 70 THEN t.year + 100 ELSE t.year) - 70
  IN  year * 365 + Quot(year - 1, 4) + DaysOfMonths(t.mon)
        + (IF t.mon > 2 /\ year % 4 = 0 THEN 1 ELSE 0) + t.mday - 1
Seconds(t) == t.hour * 3600 + t.min * 60 + t.sec

Registers == <<"sec", "min", "hour", "mday", "mon", "year">>
Stable(first, again) == first = again
\* One turn of the loop of rtc_get_time: clock[i] is the clock when the i-th
\* register is read, clock[7] when the seconds are read again.
rtc_read(clock) ==
  LET r == [k \in {Registers[i] : i \in 1 .. 6} |->
              bcd_to_bin(clock[CHOOSE i \in 1 .. 6 : Registers[i] = k][k])]
  IN  [time |-> r, done |-> Stable(r.sec, bcd_to_bin(clock[7].sec))]
=============================================================================
