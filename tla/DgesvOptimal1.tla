---------------------------- MODULE DgesvOptimal1 ----------------------------
(***************************************************************************)
(* The previous version of my_dgesv (dgesv-optimal1.c).  It is dgesv.c but *)
(* for the pragma of the parallel loop, which has no schedule clause: the  *)
(* columns are dealt out in blocks, so that a thread with a short block,   *)
(* or with none when nrhs < T, waits for the others at the barrier.        *)
(***************************************************************************)
EXTENDS ExactArithmetic

CONSTANTS
  T,               \* the size of the OpenMP team
  InputA, InputB   \* the arguments my_dgesv may be called with

VARIABLES
  a, b, ret,
  a0, b0, k, i, maxIndex, maxVal, pc,
  bIn, error_flag, region, pending, tpc, tj, ti, tk, tt

Sched == INSTANCE OmpSchedules
Static(th) == Sched!StaticShare(th)

V == INSTANCE Dgesv WITH Share <- Static

vars == <<a, b, ret, a0, b0, k, i, maxIndex, maxVal, pc,
          bIn, error_flag, region, pending, tpc, tj, ti, tk, tt>>

Init           == V!Init
Eliminate      == V!Eliminate
BackSubstitute == V!BackSubstitute
Returned       == V!Returned

Next == Eliminate \/ BackSubstitute \/ Returned

Spec == Init /\ [][Next]_vars /\ V!Fairness

-----------------------------------------------------------------------------
\* This version implements LinearSolver as well: 0 with the solution of a
\* regular system, -1 for a singular one, also when some threads of the team
\* have no column to solve.
SolvesOrGivesUp == V!SolvesOrGivesUp

\* my_dgesv returns: no thread is missing at the barrier.
Termination == <>(ret # Running)

=============================================================================
