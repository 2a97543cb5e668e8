---------------------------- MODULE Harness_proofs ----------------------------
(***************************************************************************)
(* Proofs about the benchmark program, for every size, team, schedule and  *)
(* duration of the calls: the times it prints are those of the two calls,  *)
(* its verdict on a regular system is right, and what an "ok" means for a  *)
(* singular one.                                                           *)
(***************************************************************************)
EXTENDS Harness, Dgesv_proofs, Timer_proofs

-----------------------------------------------------------------------------
(* The two measurements share the timestamps start and now. *)

\* The time that has passed since the timestamp start, and what was printed.
TimesInv ==
  /\ TimerInv
  /\ lapackTook \in Nat /\ myTook \in Nat
  /\ mpc \in {"lapack", "my_dgesv", "in_my_dgesv"} => startAt = clock
  /\ mpc = "lapack_now" => clock = startAt + lapackTook
  /\ mpc = "my_dgesv_now" => clock = startAt + myTook
  /\ mpc \in {"my_dgesv_start", "my_dgesv", "in_my_dgesv", "my_dgesv_now", "check",
              "end", "exit_0"} => Within(lapackMs, Mega, lapackTook)
  /\ mpc \in {"check", "end", "exit_0"} => Within(myMs, Mega, myTook)
  /\ verdict # "none" => mpc \in {"end", "exit_0"}

\* A printed time is right if its measurement took as long as the call.
LEMMA Printed ==
  ASSUME NEW n1 \in Nat, NEW n2 \in Nat
  PROVE  Within(diff_milli(timespec(n1), timespec(n2)), Mega, n2 - n1)
<1>1. Kilo * Mega = Giga
  BY DEF Giga
<1>2. diff_milli(timespec(n1), timespec(n2))
        = InUnits(n2, Kilo, Mega) - InUnits(n1, Kilo, Mega)
  BY Zenon DEF diff_milli, InUnits
<1> QED
  BY <1>1, <1>2, Units, Difference

LEMMA TimesStep == TimesInv /\ [HarnessNext \/ Ended]_allVars => TimesInv'
<1> SUFFICES ASSUME TimesInv, [HarnessNext \/ Ended]_allVars PROVE TimesInv'
  OBVIOUS
<1> USE DEF TimesInv, TimerInv, dataVars, timeVars, timerVars
<1>1. CASE Usage
  BY <1>1 DEF Usage
<1>2. CASE GenerateA \/ GenerateB \/ DuplicateA \/ DuplicateB \/ AllocatePivots
  BY <1>2 DEF GenerateA, GenerateB, DuplicateA, DuplicateB, AllocatePivots, Allocate
<1>3. CASE Timestamp
  BY <1>3 DEF Timestamp, Restart, TimestampStart
<1>4. CASE LAPACKE_dgesv
  BY <1>4, TimeAssumption DEF LAPACKE_dgesv
<1>5. CASE LapackTime
  <2>1. clock \in Nat /\ startAt \in Nat /\ clock - startAt = lapackTook
    BY <1>5 DEF LapackTime
  <2>2. lapackMs' = diff_milli(timespec(startAt), timespec(clock))
    BY <1>5 DEF LapackTime, TimestampNow
  <2>3. Within(lapackMs', Mega, lapackTook)
    BY <2>1, <2>2, Printed
  <2> QED
    BY <1>5, <2>3 DEF LapackTime, TimestampNow
<1>6. CASE EnterMyDgesv
  BY <1>6 DEF EnterMyDgesv
<1>7. CASE LeaveMyDgesv
  BY <1>7, TimeAssumption DEF LeaveMyDgesv
<1>8. CASE MyTime
  <2>1. clock \in Nat /\ startAt \in Nat /\ clock - startAt = myTook
    BY <1>8 DEF MyTime
  <2>2. myMs' = diff_milli(timespec(startAt), timespec(clock))
    BY <1>8 DEF MyTime, TimestampNow
  <2>3. Within(myMs', Mega, myTook)
    BY <2>1, <2>2, Printed
  <2> QED
    BY <1>8, <2>3 DEF MyTime, TimestampNow
<1>9. CASE Check
  BY <1>9 DEF Check
<1>10. CASE Free
  BY <1>10 DEF Free, Exit
<1>11. CASE UNCHANGED mainVars
  BY <1>11 DEF mainVars
<1> QED
  BY <1>1, <1>2, <1>3, <1>4, <1>5, <1>6, <1>7, <1>8, <1>9, <1>10, <1>11
     DEF HarnessNext, MainStep, Call, Run, Ended, allVars

\* The two times main prints are those of the two calls, to the millisecond
\* (main.c, lines 72-85; timer.c, lines 17-22).
THEOREM TimesAreTheirOwn == HarnessSpec => []TimesAreOwn
<1>1. HarnessInit => TimesInv
  BY ClockAssumption DEF HarnessInit, MainInit, TimesInv, TimerInit, TimerInv
<1>2. TimesInv => TimesAreOwn
  BY DEF TimesInv, TimesAreOwn
<1> QED
  BY <1>1, <1>2, TimesStep, PTL DEF HarnessSpec

-----------------------------------------------------------------------------
(* main calls my_dgesv once, with the system it generated. *)

Called == mpc \in {"in_my_dgesv", "my_dgesv_now", "check", "end", "exit_0"}

\* Before the call my_dgesv's variables are fresh and main fills the arrays;
\* from the call on the invariant of Dgesv_proofs holds.
CalledInv ==
  /\ mpc \in {"start", "usage", "b", "aref", "bref", "ipiv", "lapack_start", "lapack",
              "lapack_now", "my_dgesv_start", "my_dgesv", "in_my_dgesv",
              "my_dgesv_now", "check", "end", "exit_0", "exit_1", "crashed"}
  /\ ~Called => Fresh
  /\ mpc \in {"b", "aref", "bref", "ipiv", "lapack_start", "lapack", "lapack_now",
              "my_dgesv_start", "my_dgesv"} => a \in InputA
  /\ mpc \in {"aref", "bref", "ipiv", "lapack_start", "lapack", "lapack_now",
              "my_dgesv_start", "my_dgesv"} => b \in InputB
  /\ Called => CallInv
  /\ Called /\ mpc # "in_my_dgesv" => ret # Running
  /\ verdict # "none" => mpc \in {"end", "exit_0"}

\* The invariant holds after the step that enters my_dgesv.
LEMMA EntryStep == Entered' => CallInv'
BY EntryInv, PTL

LEMMA CalledStep == CalledInv /\ [HarnessNext \/ Ended]_allVars => CalledInv'
<1> SUFFICES ASSUME CalledInv, [HarnessNext \/ Ended]_allVars PROVE CalledInv'
  OBVIOUS
<1> USE DEF CalledInv, Called
<1>1. ASSUME UNCHANGED solverVars, ret' = ret PROVE Fresh' <=> Fresh
  BY <1>1 DEF solverVars, eliminationVars, regionVars, Fresh
<1>2. ASSUME UNCHANGED solverVars, UNCHANGED <<a, b, ret>> PROVE CallInv => CallInv'
  BY <1>2, StutterInv DEF solverVars, vars
<1>3. ASSUME UNCHANGED solverVars, Usage PROVE CalledInv'
  BY <1>1, <1>2, <1>3 DEF Usage, dataVars
<1>4. ASSUME UNCHANGED solverVars,
             GenerateA \/ GenerateB \/ DuplicateA \/ DuplicateB \/ AllocatePivots
      PROVE  CalledInv'
  BY <1>1, <1>4 DEF GenerateA, GenerateB, DuplicateA, DuplicateB, AllocatePivots, Allocate
<1>5. ASSUME UNCHANGED solverVars, Timestamp \/ LAPACKE_dgesv \/ LapackTime
      PROVE  CalledInv'
  BY <1>1, <1>5 DEF Timestamp, LAPACKE_dgesv, LapackTime, dataVars
<1>6. ASSUME UNCHANGED solverVars, LeaveMyDgesv \/ MyTime \/ Check \/ Free
      PROVE  CalledInv'
  BY <1>2, <1>6 DEF LeaveMyDgesv, MyTime, Check, Free, Exit, dataVars
<1>7. CASE Call
  <2>1. /\ Fresh /\ a \in InputA /\ b \in InputB
        /\ a0' = a' /\ b0' = b' /\ UNCHANGED <<a, b, ret>>
        /\ mpc = "my_dgesv" /\ mpc' = "in_my_dgesv" /\ verdict' = verdict
    BY <1>7 DEF Call, EnterMyDgesv, dataVars
  <2>2. Fresh'
    BY <1>7, <2>1 DEF Call, regionVars, Fresh
  <2>3. CallInv'
    BY <2>1, <2>2, EntryStep DEF Entered
  <2> QED
    BY <2>1, <2>3
<1>8. CASE Run
  BY <1>8, EliminationPhase, BackPhase DEF Run, mainVars, dataVars
<1>9. CASE UNCHANGED allVars
  <2>1. UNCHANGED <<vars, mpc, verdict>> /\ UNCHANGED solverVars /\ UNCHANGED <<a, b, ret>>
    BY <1>9 DEF allVars, mainVars, dataVars, vars, solverVars
  <2> QED
    BY <1>1, <1>2, <2>1
<1> QED
  BY <1>3, <1>4, <1>5, <1>6, <1>7, <1>8, <1>9 DEF HarnessNext, MainStep, Ended

\* When main starts my_dgesv's variables are fresh.
LEMMA CalledEntered == HarnessInit => CalledInv
<1> SUFFICES ASSUME HarnessInit PROVE CalledInv
  OBVIOUS
<1>1. mpc \in {"start", "usage"} /\ verdict = "none"
  BY DEF HarnessInit, MainInit
<1>2. ZeroB \in MatrixB
  BY NumClosed DEF ZeroB, MatrixB
<1>3. Fresh
  BY <1>2 DEF HarnessInit, NotCalled!Init, NotCalled!ElimInit, NotCalled!BackInit,
              NotCalled!Threads, NotCalled!Running, Threads, Running, Fresh
<1> QED
  BY <1>1, <1>3 DEF CalledInv, Called

-----------------------------------------------------------------------------
(* The two solvers work on copies of one system. *)

\* m is the solution of the system aa x = bb, column by column.
IsSolution(aa, bb, m) ==
  /\ m \in FiniteB
  /\ \A c \in Col : Solves(aa, bb, c, Column(m, c))

\* bref is a copy of b until LAPACKE_dgesv has replaced it by the solution, and
\* stays one if there is none.
CopiesInv ==
  /\ mpc \in {"bref", "ipiv", "lapack_start", "lapack"} => aref = a
  /\ mpc \in {"ipiv", "lapack_start", "lapack"} => bref = b
  /\ mpc \in {"lapack_now", "my_dgesv_start", "my_dgesv"} /\ ~IsSingular(a) =>
       IsSolution(a, b, bref)
  /\ mpc \in {"lapack_now", "my_dgesv_start", "my_dgesv"} /\ IsSingular(a) => bref = b
  /\ Called => a0 \in FiniteA /\ b0 \in FiniteB
  /\ Called /\ ~IsSingular(a0) => IsSolution(a0, b0, bref)
  /\ Called /\ IsSingular(a0) => bref = b0
  /\ nanEqual \in BOOLEAN
  /\ RegularIsOk /\ VerdictIsRight /\ OkOfSingular

\* Equal results pass the check.
LEMMA SameIsOk ==
  ASSUME NEW m \in FiniteB, NEW s \in FiniteB, NEW f,
         \A c \in Col : Column(m, c) = Column(s, c)
  PROVE  check_result(m, s, f)
<1> SUFFICES ASSUME NEW r \in Row, NEW c \in Col
             PROVE  is_nearly_equal(m[r][c], s[r][c], f)
  BY DEF check_result
<1>1. Column(m, c)[r] = m[r][c] /\ Column(s, c)[r] = s[r][c]
  BY DEF Column
<1>2. m[r][c] = s[r][c] /\ m[r][c] \in Fin
  BY <1>1 DEF FiniteB
<1> QED
  BY <1>2, ToleranceAssumption DEF is_nearly_equal

\* A regular system that my_dgesv has returned from passes the check, or
\* my_dgesv took one of its pivots for zero.
LEMMA RegularPasses ==
  ASSUME CallInv, ret # Running, IsSolution(a0, b0, bref), ~IsSingular(a0), NEW f
  PROVE  check_result(bref, b, f) \/ (ret = -1 /\ TakenForZero(a))
<1>1. Outcome /\ ret \in {-1, 0}
  BY Outcomes DEF CallInv, ElimTypeOK
<1>2. CASE ret = -1
  BY <1>1, <1>2 DEF Outcome
<1>3. CASE ret = 0
  <2>1. ASSUME NEW c \in Col PROVE Column(bref, c) = Column(b, c)
    <3>1. Column(bref, c) \in Vector /\ Solves(a0, b0, c, Column(bref, c))
      BY DEF IsSolution, Column, Vector, FiniteB
    <3> QED
      BY <1>3, <3>1, ReturnInv
  <2> QED
    BY <1>1, <1>3, <2>1, SameIsOk DEF Outcome, IsSolution
<1> QED
  BY <1>1, <1>2, <1>3

\* Comparing with LAPACK's result is comparing with any solution: there is
\* only one, and only a NaN in b is left to the build.
LEMMA ComparisonIsRight ==
  ASSUME a0 \in FiniteA, ~IsSingular(a0), IsSolution(a0, b0, bref), NEW f \in BOOLEAN
  PROVE  (check_result(bref, b, f) <=> NearlySolves(a0, b0, b)) \/ (f /\ HoldsNaN(b))
<1>1. ASSUME NEW r \in Row, NEW c \in Col
      PROVE  /\ bref[r][c] \in Fin /\ Column(bref, c)[r] = bref[r][c]
             /\ Near(bref[r][c], b[r][c])
                  <=> b[r][c] \in Fin /\ is_nearly_equal(bref[r][c], b[r][c], f)
             /\ b[r][c] \notin Fin => (is_nearly_equal(bref[r][c], b[r][c], f) <=> f)
  BY DEF IsSolution, FiniteB, Column, Near, is_nearly_equal
<1>2. NearlySolves(a0, b0, b) <=> \A r \in Row, c \in Col : Near(bref[r][c], b[r][c])
  <2>1. ASSUME NEW c \in Col
        PROVE  /\ Column(bref, c) \in Vector /\ Solves(a0, b0, c, Column(bref, c))
               /\ \A x \in Vector : Solves(a0, b0, c, x) => x = Column(bref, c)
    <3>1. Column(bref, c) \in Vector /\ Solves(a0, b0, c, Column(bref, c))
      BY DEF IsSolution, Column, Vector, FiniteB
    <3> QED
      BY <3>1, UniqueSolution
  <2> QED
    BY <1>1, <2>1 DEF NearlySolves
<1>3. CASE HoldsNaN(b)
  BY <1>1, <1>2, <1>3 DEF HoldsNaN, check_result
<1>4. CASE ~HoldsNaN(b)
  BY <1>1, <1>2, <1>4 DEF HoldsNaN, check_result
<1> QED
  BY <1>3, <1>4

\* What passes the comparison with the right-hand sides themselves.
LEMMA PassedIsNear ==
  ASSUME b0 \in FiniteB, NEW f \in BOOLEAN, check_result(b0, b, f)
  PROVE  NearWhereNumber(b0, b) /\ (HoldsNaN(b) => f)
BY DEF FiniteB, check_result, is_nearly_equal, NearWhereNumber, Near, HoldsNaN

\* my_dgesv does not return 0 for a singular matrix.
LEMMA SingularIsRefused ==
  ASSUME CallInv, ret # Running, IsSingular(a0)
  PROVE  ret = -1
<1>1. Row # {}
  BY DEF IsSingular
<1>2. Col # {}
  BY <1>1, SquareAssumption DEF Row, Col
<1> QED
  BY <1>2, Outcomes DEF Outcome, CallInv, ElimTypeOK

LEMMA CopiesStep ==
  CalledInv /\ CopiesInv /\ [HarnessNext \/ Ended]_allVars => CopiesInv'
<1> SUFFICES ASSUME CalledInv, CopiesInv, [HarnessNext \/ Ended]_allVars
             PROVE  CopiesInv'
  OBVIOUS
<1> USE DEF CopiesInv, Called, RegularIsOk, VerdictIsRight, OkOfSingular, dataVars
<1>0. verdict # "none" => mpc \in {"end", "exit_0"}
  BY DEF CalledInv
<1>1. ASSUME UNCHANGED solverVars PROVE UNCHANGED <<a0, b0>>
  BY <1>1 DEF solverVars, eliminationVars
<1>2. CASE UNCHANGED solverVars /\ (Usage \/ GenerateA \/ GenerateB)
  BY <1>0, <1>2 DEF Usage, GenerateA, GenerateB, Allocate
<1>3. CASE UNCHANGED solverVars /\ (DuplicateA \/ DuplicateB \/ AllocatePivots)
  BY <1>0, <1>3 DEF DuplicateA, DuplicateB, AllocatePivots, Allocate, OriginalB
<1>4. CASE UNCHANGED solverVars /\ LAPACKE_dgesv
  BY <1>0, <1>4 DEF LAPACKE_dgesv, IsSolution, FiniteB
<1>5. CASE UNCHANGED solverVars /\ (Timestamp \/ LapackTime)
  BY <1>0, <1>5 DEF Timestamp, LapackTime
<1>6. CASE UNCHANGED solverVars /\ (LeaveMyDgesv \/ MyTime)
  BY <1>0, <1>1, <1>6 DEF LeaveMyDgesv, MyTime
<1>7. CASE UNCHANGED solverVars /\ Check
  <2>1. /\ mpc = "check" /\ mpc' = "end"
        /\ UNCHANGED <<a, b, ret, bref, a0, b0, nanEqual>>
    BY <1>1, <1>7 DEF Check
  <2>2. CallInv /\ ret # Running
    BY <2>1 DEF CalledInv
  <2>3. verdict' = IF check_result(bref, b, nanEqual) THEN "ok" ELSE "wrong"
    BY <1>7 DEF Check
  <2>4. RegularIsOk'
    BY <2>1, <2>2, <2>3, RegularPasses
  <2>5. VerdictIsRight'
    <3>1. ~IsSingular(a0) => \/ check_result(bref, b, nanEqual) <=> NearlySolves(a0, b0, b)
                             \/ nanEqual /\ HoldsNaN(b)
      BY <2>1, ComparisonIsRight
    <3> QED
      BY <2>1, <2>3, <3>1 DEF NearlySolves, HoldsNaN
  <2>6. OkOfSingular'
    <3>1. IsSingular(a0) /\ check_result(bref, b, nanEqual) =>
            ret = -1 /\ NearWhereNumber(b0, b) /\ (HoldsNaN(b) => nanEqual)
      BY <2>1, <2>2, PassedIsNear, SingularIsRefused
    <3> QED
      BY <2>1, <2>3, <3>1 DEF NearWhereNumber, HoldsNaN
  <2> QED
    BY <2>1, <2>4, <2>5, <2>6
<1>8. CASE UNCHANGED solverVars /\ Free
  BY <1>1, <1>8 DEF Free, Exit
<1>9. CASE Call
  <2>1. a \in FiniteA /\ b \in FiniteB
    BY <1>9, ExactCall DEF Call, EnterMyDgesv, CalledInv, FiniteA, FiniteB
  <2> QED
    BY <1>0, <1>9, <2>1 DEF Call, EnterMyDgesv
<1>10. CASE Run
  <2>1. mpc = "in_my_dgesv" /\ UNCHANGED <<mpc, bref, verdict, nanEqual>>
    BY <1>10 DEF Run, mainVars
  <2>2. UNCHANGED <<a0, b0>>
    BY <1>10, <2>1, StepsWhileRunning DEF Run, CalledInv
  <2> QED
    BY <1>0, <2>1, <2>2
<1>11. CASE UNCHANGED allVars
  BY <1>11 DEF allVars, mainVars, vars, eliminationVars
<1> QED
  BY <1>2, <1>3, <1>4, <1>5, <1>6, <1>7, <1>8, <1>9, <1>10, <1>11
     DEF HarnessNext, MainStep, Ended

LEMMA CopiesInvariance == HarnessSpec => []CopiesInv
<1>1. HarnessInit => CopiesInv
  BY NaNAssumption DEF HarnessInit, MainInit, CopiesInv, Called, RegularIsOk,
                       VerdictIsRight, OkOfSingular
<1> QED
  BY <1>1, CalledEntered, CalledStep, CopiesStep, PTL DEF HarnessSpec

\* A regular system is called wrong only if my_dgesv refused it for a nonzero
\* pivot below its threshold (main.c, lines 64-90): the copies are of the
\* same system, and LAPACK's result is the one my_dgesv computes.
THEOREM RegularSystemsPass == HarnessSpec => []RegularIsOk
<1>1. CopiesInv => RegularIsOk
  BY DEF CopiesInv
<1> QED
  BY <1>1, CopiesInvariance, PTL

\* The verdict on a regular system is right (main.c, lines 33-50 and 87-90),
\* also if my_dgesv refused it; a NaN in b can pass only in a build that takes
\* it for equal.
THEOREM VerdictOnRegularIsRight == HarnessSpec => []VerdictIsRight
<1>1. CopiesInv => VerdictIsRight
  BY DEF CopiesInv
<1> QED
  BY <1>1, CopiesInvariance, PTL

\* "Result is ok!" is printed for a singular system only if my_dgesv returned
\* -1, which main ignores (main.c, line 82), and every number in b is near the
\* one it was given; NaNs pass only in a build that takes them for equal.
THEOREM OkOfSingularIsRefused == HarnessSpec => []OkOfSingular
<1>1. CopiesInv => OkOfSingular
  BY DEF CopiesInv
<1> QED
  BY <1>1, CopiesInvariance, PTL

=============================================================================
