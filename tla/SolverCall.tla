------------------------------ MODULE SolverCall ------------------------------
(***************************************************************************)
(* What the two halves of my_dgesv share: the arguments a and b, which it  *)
(* works on in place, and its return value.                                *)
(***************************************************************************)
EXTENDS Matrices

CONSTANTS
  InputA,     \* the matrices a may hold on entry
  InputB      \* the right-hand sides b may hold on entry

ASSUME InputAssumption == InputA \subseteq MatrixA /\ InputB \subseteq MatrixB

VARIABLES
  a, b,       \* the arrays of my_dgesv
  ret         \* the value my_dgesv returns

=============================================================================
