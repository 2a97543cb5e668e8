-------------------------------- MODULE Dgesv --------------------------------
(***************************************************************************)
(* my_dgesv (dgesv.c) as a whole: the sequential elimination, then the     *)
(* parallel back substitution on the arrays it leaves behind.              *)
(***************************************************************************)
EXTENDS ForwardElimination, BackSubstitution, ExactArithmetic

vars == <<a, b, ret, eliminationVars, regionVars>>

Init == ElimInit /\ BackInit

Eliminate      == ElimNext /\ UNCHANGED regionVars
Later(A)       == pc = "eliminated" /\ A /\ UNCHANGED eliminationVars
BackSubstitute == Later(BackNext)
Returned       == ret # Running /\ UNCHANGED vars

Next == Eliminate \/ BackSubstitute \/ Returned

\* The calling thread runs, and so does every thread of the team.
Fairness ==
  /\ WF_vars(Eliminate)
  /\ WF_vars(Later(Fork))
  /\ WF_vars(Later(Join))
  /\ \A th \in Threads : WF_vars(Later(Step(th)))

Spec == Init /\ [][Next]_vars /\ Fairness

-----------------------------------------------------------------------------
\* The call as its caller sees it: b counts once my_dgesv has returned.
Caller == INSTANCE LinearSolver WITH x <- IF ret = Running THEN b0 ELSE b

\* my_dgesv implements LinearSolver: it returns 0 with the solution of the
\* system it was called with if the matrix is regular, and -1 if it is
\* singular, although the two halves detect singularity in different places
\* (lines 33 and 57) and the second one only after b was overwritten.
SolvesOrGivesUp == Caller!Spec

\* A return of 0 means that every column of b is the one solution of the
\* system of the call, whichever thread computed it and when.
ZeroMeansSolved ==
  ret = 0 => \A c \in Col, x \in Vector :
               Solves(a0, b0, c, x) <=> x = Column(b, c)

\* my_dgesv returns, whatever the schedule and the team do.
Termination == <>(ret # Running)

=============================================================================
