------------------------------- MODULE Harness -------------------------------
(***************************************************************************)
(* The benchmark program (main.c): main as in Benchmark, my_dgesv as in    *)
(* Dgesv.                                                                  *)
(***************************************************************************)
EXTENDS Dgesv, Benchmark

solverVars == <<eliminationVars, regionVars>>
allVars    == <<vars, mainVars>>

\* my_dgesv has not been called: its variables have no meaning yet.
NotCalled == INSTANCE Dgesv WITH InputA <- {ZeroA}, InputB <- {ZeroB}

HarnessInit == MainInit /\ NotCalled!Init

\* my_dgesv is entered,
Call ==
  /\ EnterMyDgesv
  /\ a0' = a /\ b0' = b
  /\ UNCHANGED <<k, i, maxIndex, maxVal, pc, regionVars>>

\* and runs.
Run ==
  /\ mpc = "in_my_dgesv"
  /\ Eliminate \/ BackSubstitute
  /\ UNCHANGED mainVars

\* The buffers main frees.
Freed == {"a", "b", "aref", "bref", "ipiv"}

Free == Exit(Freed)

HarnessNext ==
  \/ (MainStep \/ Free) /\ UNCHANGED solverVars
  \/ Call
  \/ Run

Ended == MainEnded /\ UNCHANGED allVars

\* main never blocks, and inside my_dgesv some thread of the team can always
\* run until the call returns.
HarnessSpec ==
  /\ HarnessInit /\ [][HarnessNext \/ Ended]_allVars
  /\ WF_allVars(HarnessNext)

-----------------------------------------------------------------------------
\* A regular system is called wrong only if my_dgesv refused it because of a
\* nonzero pivot below its threshold: both solvers get the same system, each
\* its own copy of it, and their results agree.
RegularIsOk ==
  verdict # "none" /\ ~IsSingular(a0) =>
    verdict = "ok" \/ (ret = -1 /\ TakenForZero(a))

\* The comparison decides right on a regular system, also if my_dgesv refused
\* it and left b half eliminated or divided by a tiny number: "Result is ok!"
\* is printed exactly if b nearly solves the system.  Only in a build where a
\* NaN compares equal can a NaN in b make it "ok".
VerdictIsRight ==
  verdict # "none" /\ ~IsSingular(a0) =>
    (verdict = "ok" <=> NearlySolves(a0, b0, b)) \/ (nanEqual /\ HoldsNaN(b))

\* main calls a singular system, which has no solution or many, "ok" only if
\* my_dgesv returned -1, which main does not look at, and b is still near what
\* it was: then it agrees with the copy that LAPACKE_dgesv refused as well.
\* The NaNs that back substitution leaves in b pass only in a build where a
\* NaN compares equal.
OkOfSingular ==
  verdict = "ok" /\ IsSingular(a0) =>
    /\ ret = -1
    /\ NearWhereNumber(b0, b)
    /\ HoldsNaN(b) => nanEqual

=============================================================================
