------------------------------ MODULE Benchmark ------------------------------
(***************************************************************************)
(* The main functions of main.c and task1/main.c: they generate a random   *)
(* system, solve one copy with LAPACKE_dgesv and the other with my_dgesv,  *)
(* time both calls with one pair of timestamps and compare the results.    *)
(* Harness and SerialHarness say which my_dgesv runs and what is freed.    *)
(* size is N, and NRHS = N; argc < 2 is a separate start.                  *)
(***************************************************************************)
EXTENDS SolverCall, ExactArithmetic, Timer

CONSTANTS
  RelEps,         \* the epsilon 1e-5 of is_nearly_equal
  LessEq(_, _),   \* the comparison <= on finite doubles
  NaNCompares,    \* what the build may make of x <= y when one is a NaN
  Durations,      \* the nanoseconds a call may take
  Boots           \* what the clock may show when main starts

ASSUME SquareAssumption == NRHS = N
ASSUME TimeAssumption   == Boots \subseteq Nat /\ Durations \subseteq Nat
ASSUME NaNAssumption    == NaNCompares \subseteq BOOLEAN

\* A number is nearly equal to itself.
ASSUME ToleranceAssumption ==
  \A x \in Fin : LessEq(Abs(Sub(x, x)), Mul(RelEps, Abs(x)))

VARIABLES
  mpc,                         \* where main is
  live,                        \* the buffers that are allocated and not freed
  aref, bref,                  \* the copies LAPACKE_dgesv works on
  verdict,                     \* what check_result makes main print
  nanEqual,                    \* what this build makes of x <= y for a NaN
  lapackMs, myMs,              \* the times main prints
  lapackTook, myTook           \* history: the time each call really took

dataVars == <<live, aref, bref, verdict, nanEqual>>
timeVars == <<timerVars, lapackMs, myMs, lapackTook, myTook>>
mainVars == <<mpc, dataVars, timeVars>>

ZeroA == [r \in Row |-> [c \in Row |-> Zero]]
ZeroB == [r \in Row |-> [c \in Col |-> Zero]]

\* main starts, with an argument or without.  Its arrays and timestamps are
\* uninitialised, and each is set before it is read; the values they have
\* here stand for that.
MainInit ==
  /\ mpc \in {"start", "usage"}
  /\ live = {}
  /\ aref = ZeroA /\ bref = ZeroB
  /\ verdict = "none" /\ nanEqual \in NaNCompares
  /\ TimerInit /\ clock \in Boots
  /\ lapackMs = 0 /\ myMs = 0 /\ lapackTook = 0 /\ myTook = 0

\* No matrix size on the command line: a hint, and exit status 1.
Usage ==
  /\ mpc = "usage"
  /\ mpc' = "exit_1"
  /\ UNCHANGED <<a, b, ret, dataVars, timeVars>>

\* The allocator succeeds for the buffer and main goes on at next, or it
\* returns NULL, which nobody checks: the first access to the buffer is a
\* segmentation fault.  An empty system accesses nothing.
Allocate(buf, next) ==
  \/ live' = live \cup {buf} /\ mpc' = next
  \/ live' = live /\ mpc' = IF N > 0 THEN "crashed" ELSE next

\* a = generate_matrix(size, 1)
GenerateA ==
  /\ mpc = "start"
  /\ Allocate("a", "b")
  /\ a' \in InputA
  /\ UNCHANGED <<b, ret, aref, bref, verdict, nanEqual, timeVars>>

\* b = generate_matrix(size, 2)
GenerateB ==
  /\ mpc = "b"
  /\ Allocate("b", "aref")
  /\ b' \in InputB
  /\ UNCHANGED <<a, ret, aref, bref, verdict, nanEqual, timeVars>>

\* aref = duplicate_matrix(a, size)
DuplicateA ==
  /\ mpc = "aref"
  /\ Allocate("aref", "bref")
  /\ aref' = a
  /\ UNCHANGED <<a, b, ret, bref, verdict, nanEqual, timeVars>>

\* What bref is a copy of.  Mutant: of the matrix.
OriginalB_ofA == a
OriginalB == b

\* bref = duplicate_matrix(b, size)
DuplicateB ==
  /\ mpc = "bref"
  /\ Allocate("bref", "ipiv")
  /\ bref' = OriginalB
  /\ UNCHANGED <<a, b, ret, aref, verdict, nanEqual, timeVars>>

AllocatePivots ==
  /\ mpc = "ipiv"
  /\ Allocate("ipiv", "lapack_start")
  /\ UNCHANGED <<a, b, ret, aref, bref, verdict, nanEqual, timeVars>>

\* Mutant: the second measurement starts where the first one did.
Restart_once == IF mpc = "lapack_start" THEN TimestampStart ELSE UNCHANGED timerVars
Restart == TimestampStart

\* timestamp(&start) before one of the two calls.
Timestamp ==
  /\ \/ mpc = "lapack_start" /\ mpc' = "lapack"
     \/ mpc = "my_dgesv_start" /\ mpc' = "my_dgesv"
  /\ Restart
  /\ UNCHANGED <<a, b, ret, dataVars, lapackMs, myMs, lapackTook, myTook>>

\* The library's solver: the solution in place of bref, or a positive info
\* and bref as it was if the matrix is singular.  What it leaves in aref is
\* never read.  The time it takes passes on the clock.
LAPACKE_dgesv ==
  /\ mpc = "lapack"
  /\ \/ /\ ~IsSingular(aref)
        /\ bref' \in [Row -> [Col -> Fin]]
        /\ \A c \in Col : Solves(aref, bref, c, Column(bref', c))
     \/ IsSingular(aref) /\ UNCHANGED bref
  /\ \E d \in Durations : clock' = clock + d /\ lapackTook' = d
  /\ mpc' = "lapack_now"
  /\ UNCHANGED <<a, b, ret, live, aref, verdict, nanEqual, start, now, startAt,
                 nowAt, lapackMs, myMs, myTook>>

\* timestamp(&now), and the time is printed.
LapackTime ==
  /\ mpc = "lapack_now"
  /\ TimestampNow
  /\ lapackMs' = diff_milli(start, now')
  /\ mpc' = "my_dgesv_start"
  /\ UNCHANGED <<a, b, ret, dataVars, myMs, lapackTook, myTook>>

\* my_dgesv(n, nrhs, a, b) is entered
EnterMyDgesv ==
  /\ mpc = "my_dgesv"
  /\ mpc' = "in_my_dgesv"
  /\ UNCHANGED <<a, b, ret, dataVars, timeVars>>

\* and returns after some time.  main stores the result in info, which it
\* never reads.
LeaveMyDgesv ==
  /\ mpc = "in_my_dgesv"
  /\ ret # Running
  /\ \E d \in Durations : clock' = clock + d /\ myTook' = d
  /\ mpc' = "my_dgesv_now"
  /\ UNCHANGED <<a, b, ret, dataVars, start, now, startAt, nowAt,
                 lapackMs, myMs, lapackTook>>

MyTime ==
  /\ mpc = "my_dgesv_now"
  /\ TimestampNow
  /\ myMs' = diff_milli(start, now')
  /\ mpc' = "check"
  /\ UNCHANGED <<a, b, ret, dataVars, lapackMs, lapackTook, myTook>>

\* Mutants: the tolerance is relative to the tested value; !(x > y) is written
\* for x <= y, which is its opposite where there is a NaN.
is_nearly_equal_ofTested(x, y, ifNaN) ==
  IF {x, y} \subseteq Fin THEN LessEq(Abs(Sub(x, y)), Mul(RelEps, Abs(y))) ELSE ifNaN
is_nearly_equal_notGreater(x, y, ifNaN) ==
  IF {x, y} \subseteq Fin THEN LessEq(Abs(Sub(x, y)), Mul(RelEps, Abs(x))) ELSE ~ifNaN

\* A NaN on either side decides the comparison by itself.
is_nearly_equal(x, y, ifNaN) ==
  IF {x, y} \subseteq Fin THEN LessEq(Abs(Sub(x, y)), Mul(RelEps, Abs(x))) ELSE ifNaN

\* Mutant: the loop goes over the first size entries only.
check_result_oneRow(ref, sol, ifNaN) ==
  \A r \in Row, c \in Col : r = 0 => is_nearly_equal(ref[r][c], sol[r][c], ifNaN)

\* Every entry of b is compared with the one of bref at its place.
check_result(ref, sol, ifNaN) ==
  \A r \in Row, c \in Col : is_nearly_equal(ref[r][c], sol[r][c], ifNaN)

Check ==
  /\ mpc = "check"
  /\ verdict' = IF check_result(bref, b, nanEqual) THEN "ok" ELSE "wrong"
  /\ mpc' = "end"
  /\ UNCHANGED <<a, b, ret, live, aref, bref, nanEqual, timeVars>>

\* The end of main: free() of some buffers, and exit status 0.
Exit(freed) ==
  /\ mpc = "end"
  /\ live' = live \ freed
  /\ mpc' = "exit_0"
  /\ UNCHANGED <<a, b, ret, aref, bref, verdict, nanEqual, timeVars>>

MainStep ==
  \/ Usage \/ GenerateA \/ GenerateB \/ DuplicateA \/ DuplicateB \/ AllocatePivots
  \/ Timestamp \/ LAPACKE_dgesv \/ LapackTime \/ LeaveMyDgesv \/ MyTime \/ Check

MainEnded == mpc \in {"exit_0", "exit_1", "crashed"}

-----------------------------------------------------------------------------
(* What the verdict should be, without check_result. *)

\* y is a number that is off from the number x by at most the fraction 1e-5.
Near(x, y) ==
  {x, y} \subseteq Fin /\ LessEq(Abs(Sub(x, y)), Mul(RelEps, Abs(x)))

\* Every column of s is near a solution of its system.
NearlySolves(aa, bb, s) ==
  \A c \in Col : \E x \in Vector : /\ Solves(aa, bb, c, x)
                                   /\ \A r \in Row : Near(x[r], s[r][c])

\* The numbers in s are near those at their place in m.
NearWhereNumber(m, s) ==
  \A r \in Row, c \in Col : s[r][c] \in Fin => Near(m[r][c], s[r][c])

HoldsNaN(s) == \E r \in Row, c \in Col : s[r][c] \notin Fin

\* Each printed time is that of its own call, to the millisecond, although
\* both measurements use the same two timestamps.
TimesAreOwn ==
  verdict # "none" =>
    /\ Within(lapackMs, Mega, lapackTook)
    /\ Within(myMs, Mega, myTook)

\* main ends: it exits, or crashes on a buffer that it could not allocate.
MainEnds == <>MainEnded

=============================================================================
