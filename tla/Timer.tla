-------------------------------- MODULE Timer --------------------------------
(***************************************************************************)
(* timer.c and timer.h: timestamps of the monotonic clock and their        *)
(* differences in four units.  Kilo is 1000; a struct timespec holds whole *)
(* seconds and the nanoseconds above them.  The quotients of timer.c       *)
(* truncate; their operands are never negative, so \div is the same.       *)
(***************************************************************************)
EXTENDS Integers

CONSTANTS
  Kilo,       \* 1000
  MaxClock    \* bound: the last nanosecond the clock shows

ASSUME KiloAssumption  == Kilo \in Nat \ {0}
ASSUME ClockAssumption == MaxClock \in Nat

Mega == Kilo * Kilo
Giga == Kilo * Mega

diff_nano(start, end) ==
  (end.tv_sec * Giga + end.tv_nsec) - (start.tv_sec * Giga + start.tv_nsec)

diff_micro(start, end) ==
  (end.tv_sec * Mega + (end.tv_nsec \div Kilo))
    - (start.tv_sec * Mega + (start.tv_nsec \div Kilo))

\* Mutant: nanoseconds are turned into microseconds and not milliseconds.
diff_milli_wrongUnit(start, end) ==
  (end.tv_sec * Kilo + (end.tv_nsec \div Kilo))
    - (start.tv_sec * Kilo + (start.tv_nsec \div Kilo))

diff_milli(start, end) ==
  (end.tv_sec * Kilo + (end.tv_nsec \div Mega))
    - (start.tv_sec * Kilo + (start.tv_nsec \div Mega))

diff_seconds(start, end) ==
  (end.tv_sec + (end.tv_nsec \div Giga))
    - (start.tv_sec + (start.tv_nsec \div Giga))

\* What clock_gettime(CLOCK_MONOTONIC) stores at a time given in nanoseconds.
timespec(ns) == [tv_sec |-> ns \div Giga, tv_nsec |-> ns % Giga]

VARIABLES
  clock,            \* the monotonic clock, in nanoseconds
  start, now,       \* the two timestamps a measurement keeps
  startAt, nowAt    \* history: when they were taken

timerVars == <<clock, start, now, startAt, nowAt>>

\* Nothing reads the timestamps before they are taken: they start as those
\* of an empty measurement.
TimerInit ==
  /\ clock \in 0 .. MaxClock
  /\ startAt = clock /\ start = timespec(clock)
  /\ nowAt = clock /\ now = timespec(clock)

Tick ==
  /\ clock < MaxClock
  /\ clock' = clock + 1
  /\ UNCHANGED <<start, now, startAt, nowAt>>

\* timestamp(&start) opens a measurement, timestamp(&now) closes it.
TimestampStart ==
  /\ start' = timespec(clock)
  /\ startAt' = clock
  /\ UNCHANGED <<clock, now, nowAt>>

TimestampNow ==
  /\ now' = timespec(clock)
  /\ nowAt' = clock
  /\ UNCHANGED <<clock, start, startAt>>

TimerNext == Tick \/ TimestampStart \/ TimestampNow

TimerSpec == TimerInit /\ [][TimerNext]_timerVars

-----------------------------------------------------------------------------
\* d units of u nanoseconds are less than one unit away from ns nanoseconds.
Within(d, u, ns) == d * u - ns < u /\ ns - d * u < u

\* The four functions measure the same interval: each is less than one of its
\* units away from the time that really passed, although all but diff_nano
\* truncate both timestamps before they subtract.  So none is negative for a
\* measurement in order, also across a second.
Accurate ==
  LET elapsed == nowAt - startAt IN
    /\ diff_nano(start, now) = elapsed
    /\ Within(diff_micro(start, now), Kilo, elapsed)
    /\ Within(diff_milli(start, now), Mega, elapsed)
    /\ Within(diff_seconds(start, now), Giga, elapsed)

=============================================================================
