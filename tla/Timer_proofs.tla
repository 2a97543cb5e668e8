----------------------------- MODULE Timer_proofs -----------------------------
(***************************************************************************)
(* Proofs about timer.c, for every size of the units and every time.       *)
(***************************************************************************)
EXTENDS Timer, TLAPS

\* The timestamps are the clock readings they were taken from.
TimerInv ==
  /\ clock \in Nat /\ startAt \in Nat /\ nowAt \in Nat
  /\ start = timespec(startAt)
  /\ now = timespec(nowAt)

\* A timestamp in units of u nanoseconds, f of them to the second, as the
\* functions of timer.c compute it.
InUnits(ns, f, u) == timespec(ns).tv_sec * f + (timespec(ns).tv_nsec \div u)

\* What integer division returns.
LEMMA Division ==
  ASSUME NEW n \in Nat, NEW d \in Nat \ {0}
  PROVE  /\ n \div d \in Nat /\ n % d \in Nat
         /\ n = d * (n \div d) + (n % d)
         /\ n % d < d
<1>1. n \div d \in Nat
  BY Z3
<1>2. n % d \in Nat /\ n % d < d
  BY Z3
<1>3. n = d * (n \div d) + (n % d)
  BY Z3
<1> QED BY <1>1, <1>2, <1>3

\* The units are positive.
LEMMA Units == Kilo \in Nat \ {0} /\ Mega \in Nat \ {0} /\ Giga \in Nat \ {0}
<1>1. Mega \in Nat \ {0}
  BY KiloAssumption, Z3 DEF Mega
<1> QED
  BY KiloAssumption, <1>1, Z3 DEF Giga

\* A timestamp in units of u nanoseconds is the time rounded down.
LEMMA Floor ==
  ASSUME NEW ns \in Nat, NEW u \in Nat \ {0}, NEW f \in Nat \ {0}, f * u = Giga
  PROVE  /\ InUnits(ns, f, u) \in Nat
         /\ InUnits(ns, f, u) * u <= ns
         /\ ns < InUnits(ns, f, u) * u + u
<1> DEFINE s == ns \div Giga
           m == ns % Giga
           q == m \div u
<1>1. s \in Nat /\ m \in Nat /\ ns = Giga * s + m
  BY Division, Units
<1>2. q \in Nat /\ m = u * q + (m % u) /\ m % u \in Nat /\ m % u < u
  BY <1>1, Division
<1>3. (s * f + q) * u = Giga * s + u * q
  <2> HIDE DEF s, q, m
  <2>1. (s * f + q) * u = s * (f * u) + u * q
    BY <1>1, <1>2, Z3
  <2>2. s * (f * u) = Giga * s
    BY <1>1, Units, Z3
  <2> QED
    BY <2>1, <2>2
<1>4. s * f + q \in Nat
  <2> HIDE DEF s, q, m
  <2> QED BY <1>1, <1>2, Z3
<1>5. timespec(ns).tv_sec = s /\ timespec(ns).tv_nsec = m
  BY DEF timespec
<1>6. (s * f + q) * u \in Nat /\ (s * f + q) * u <= ns /\ ns < (s * f + q) * u + u
  <2> HIDE DEF s, q, m
  <2>1. u * q \in Nat /\ Giga * s \in Nat
    BY <1>1, <1>2, Units, Z3
  <2> DEFINE w == (s * f + q) * u
             gs == Giga * s
             uq == u * q
  <2>2. w = gs + uq /\ ns = gs + m /\ m = uq + (m % u)
    BY <1>1, <1>2, <1>3
  <2>3. gs \in Nat /\ uq \in Nat
    BY <2>1
  <2> HIDE DEF w, gs, uq
  <2>4. w \in Nat /\ w <= ns /\ ns < w + u
    BY <1>1, <1>2, <2>2, <2>3
  <2> QED
    BY <2>4, Zenon DEF w
<1>7. InUnits(ns, f, u) = s * f + q
  BY <1>5, Zenon DEF InUnits
<1> HIDE DEF s, q, m
<1> QED
  BY <1>4, <1>6, <1>7, Zenon

\* The difference of two timestamps in one unit.
LEMMA Difference ==
  ASSUME NEW n1 \in Nat, NEW n2 \in Nat,
         NEW u \in Nat \ {0}, NEW f \in Nat \ {0}, f * u = Giga
  PROVE  Within(InUnits(n2, f, u) - InUnits(n1, f, u), u, n2 - n1)
<1> DEFINE v1 == InUnits(n1, f, u)
           v2 == InUnits(n2, f, u)
<1>1. /\ v1 \in Nat /\ v1 * u <= n1 /\ n1 < v1 * u + u
      /\ v2 \in Nat /\ v2 * u <= n2 /\ n2 < v2 * u + u
  BY Floor
<1> HIDE DEF v1, v2
<1>2. (v2 - v1) * u = v2 * u - v1 * u /\ v1 * u \in Nat /\ v2 * u \in Nat
  BY <1>1, Z3
<1>3. Within(v2 - v1, u, n2 - n1)
  <2> DEFINE p1 == v1 * u
             p2 == v2 * u
             pd == (v2 - v1) * u
  <2>1. /\ pd = p2 - p1 /\ p1 \in Nat /\ p2 \in Nat
        /\ p1 <= n1 /\ n1 < p1 + u /\ p2 <= n2 /\ n2 < p2 + u
    BY <1>1, <1>2
  <2> HIDE DEF p1, p2, pd
  <2>2. pd - (n2 - n1) < u /\ (n2 - n1) - pd < u
    BY <2>1
  <2> QED
    BY <2>2, Zenon DEF Within, pd
<1> QED
  BY <1>3, Zenon DEF v1, v2

\* The four functions of timer.c in terms of InUnits.
LEMMA Diffs ==
  ASSUME TimerInv
  PROVE  /\ diff_nano(start, now) = nowAt - startAt
         /\ diff_micro(start, now) = InUnits(nowAt, Mega, Kilo) - InUnits(startAt, Mega, Kilo)
         /\ diff_milli(start, now) = InUnits(nowAt, Kilo, Mega) - InUnits(startAt, Kilo, Mega)
         /\ diff_seconds(start, now) = InUnits(nowAt, 1, Giga) - InUnits(startAt, 1, Giga)
<1>1. ASSUME NEW n \in Nat
      PROVE  timespec(n).tv_sec * Giga + timespec(n).tv_nsec = n
  <2>1. timespec(n).tv_sec = n \div Giga /\ timespec(n).tv_nsec = n % Giga
    BY DEF timespec
  <2> QED
    BY <2>1, Division, Units
<1>2. diff_nano(start, now) = nowAt - startAt
  BY <1>1 DEF TimerInv, diff_nano
<1>3. ASSUME NEW n \in Nat PROVE timespec(n).tv_sec * 1 = timespec(n).tv_sec
  BY Division, Units DEF timespec
<1>4. diff_seconds(start, now) = InUnits(nowAt, 1, Giga) - InUnits(startAt, 1, Giga)
  BY <1>3, Zenon DEF TimerInv, diff_seconds, InUnits
<1> QED
  BY <1>2, <1>4, Zenon DEF TimerInv, diff_micro, diff_milli, InUnits

\* The timestamps are the clock readings they were taken from.
LEMMA TimerInvariant == TimerSpec => []TimerInv
<1>1. TimerInit => TimerInv
  BY ClockAssumption DEF TimerInit, TimerInv
<1>2. TimerInv /\ [TimerNext]_timerVars => TimerInv'
  BY DEF TimerInv, TimerNext, timerVars, Tick, TimestampStart, TimestampNow
<1> QED
  BY <1>1, <1>2, PTL DEF TimerSpec

\* diff_nano is exact and the other three are less than one unit off
\* (timer.c, lines 3-29), for all units and times.
THEOREM DifferencesAreAccurate == TimerSpec => []Accurate
<1>1. TimerInv => Accurate
  <2> SUFFICES ASSUME TimerInv PROVE Accurate
    OBVIOUS
  <2>1. Mega * Kilo = Giga /\ Kilo * Mega = Giga /\ 1 * Giga = Giga
    BY Units DEF Giga
  <2>2. startAt \in Nat /\ nowAt \in Nat
    BY DEF TimerInv
  <2> QED
    BY <2>1, <2>2, Units, Diffs, Difference DEF Accurate
<1> QED
  BY <1>1, TimerInvariant, PTL

=============================================================================
