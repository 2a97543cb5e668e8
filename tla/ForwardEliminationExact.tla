----------------------- MODULE ForwardEliminationExact -----------------------
(***************************************************************************)
(* What the elimination achieves when its arithmetic is exact: it produces *)
(* an upper triangular system with the solutions of the one it was given.  *)
(***************************************************************************)
EXTENDS ForwardElimination, ExactArithmetic

ASSUME ExactCall ==
  /\ InputA \subseteq [Row -> [Row -> Fin]]
  /\ InputB \subseteq [Row -> [Col -> Fin]]

\* No NaN and no infinity enters a or b during the elimination: it never
\* divides by a pivot it has not tested.
StaysFinite ==
  /\ a \in [Row -> [Row -> Fin]]
  /\ b \in [Row -> [Col -> Fin]]

\* Column c has zeros below the diagonal once it is eliminated, and keeps
\* them: starting the j loop at k (line 38) relies on it.
Echelon ==
  /\ \A c \in Row : c < k => \A r \in (c + 1) .. (N - 1) : a[r][c] = Zero
  /\ pc = "eliminate" => \A r \in (k + 1) .. (i - 1) : a[r][k] = Zero

\* In every state, also when my_dgesv gives up half way, the system in a and b
\* has exactly the solutions of the system it was called with.
SolutionsPreserved ==
  \A c \in Col, x \in Vector : Solves(a0, b0, c, x) <=> Solves(a, b, c, x)

\* my_dgesv gives up on a regular matrix only if the largest pivot it found is
\* a nonzero number below the absolute threshold 1e-10.  Where it is zero the
\* matrix of the call is singular: it maps some nonzero vector to zero.
GivesUpOnSingular ==
  ret = -1 => IsSingular(a0) \/ (Tiny(a[k][k]) /\ a[k][k] # Zero)

=============================================================================
