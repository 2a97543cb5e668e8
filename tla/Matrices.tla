------------------------------- MODULE Matrices -------------------------------
(***************************************************************************)
(* The arrays my_dgesv works on.  The C code stores a (n x n) and b        *)
(* (n x nrhs) row by row in one array each and writes a[i*n + j] and       *)
(* b[i*nrhs + j]; here they are matrices with rows and columns from 0.     *)
(***************************************************************************)
EXTENDS Arithmetic

CONSTANTS
  N,          \* n: the order of the system
  NRHS        \* nrhs: the number of right-hand sides

ASSUME SizeAssumption == N \in Nat /\ NRHS \in Nat

Row     == 0 .. (N - 1)
Col     == 0 .. (NRHS - 1)
MatrixA == [Row -> [Row -> Num]]
MatrixB == [Row -> [Col -> Num]]

Running == 1     \* stands for "has not returned": my_dgesv returns 0 or -1

=============================================================================
