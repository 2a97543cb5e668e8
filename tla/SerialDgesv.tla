----------------------------- MODULE SerialDgesv -----------------------------
(***************************************************************************)
(* The first version of my_dgesv (task1/dgesv.c): Gaussian elimination     *)
(* without pivoting and sequential back substitution, which returns as     *)
(* soon as it meets a tiny diagonal entry.                                 *)
(***************************************************************************)
EXTENDS SolverCall, ExactArithmetic

ASSUME SerialExactCall ==
  /\ InputA \subseteq [Row -> [Row -> Fin]]
  /\ InputB \subseteq [Row -> [Col -> Fin]]

VARIABLES
  a0, b0,     \* history: the arguments of the call
  k, i, j, t, \* the local variables
  pc          \* "column", "eliminate", "back", "inner", "returned"

localVars == <<a0, b0, k, i, j, t, pc>>
vars == <<a, b, ret, localVars>>

Init ==
  /\ a \in InputA /\ a0 = a
  /\ b \in InputB /\ b0 = b
  /\ k = 0 /\ i = 0 /\ j = 0 /\ t = Zero
  /\ pc = "column"
  /\ ret = Running

Return(value) == ret' = value /\ pc' = "returned"

\* The diagonal entries that are refused.  Mutant: none is.
Refused_never(r) == FALSE
Refused(r) == Tiny(a[r][r])

\* The outer loop enters its body: the pivot is whatever is on the diagonal.
TestPivot ==
  /\ pc = "column"
  /\ k < N - 1
  /\ \/ Refused(k) /\ Return(-1) /\ UNCHANGED i
     \/ ~Refused(k) /\ i' = k + 1 /\ pc' = "eliminate" /\ UNCHANGED ret
  /\ UNCHANGED <<a, b, a0, b0, k, j, t>>

\* Where the loop over the right-hand sides starts.  Mutant: at k, as the one
\* over a.
FirstRhs_k == k
FirstRhs == 0

\* A multiple of row k is added to row i, in columns k..n-1 of a and in b.
EliminateRow ==
  /\ pc = "eliminate"
  /\ i < N
  /\ LET m == Div(Neg(a[i][k]), a[k][k]) IN
       /\ a' = [a EXCEPT ![i] = [c \in Row |->
                  IF c < k THEN a[i][c] ELSE Add(a[i][c], Mul(m, a[k][c]))]]
       /\ b' = [b EXCEPT ![i] = [c \in Col |->
                  IF c < FirstRhs THEN b[i][c] ELSE Add(b[i][c], Mul(m, b[k][c]))]]
  /\ i' = i + 1
  /\ UNCHANGED <<a0, b0, k, j, t, pc, ret>>

EndColumn ==
  /\ pc = "eliminate"
  /\ i >= N
  /\ k' = k + 1
  /\ pc' = "column"
  /\ UNCHANGED <<a, b, a0, b0, i, j, t, ret>>

\* The elimination is over: back substitution starts at the last row.
StartBack ==
  /\ pc = "column"
  /\ k >= N - 1
  /\ j' = 0
  /\ i' = N - 1
  /\ pc' = "back"
  /\ UNCHANGED <<a, b, a0, b0, k, t, ret>>

\* The next row of right-hand side j; k is now the inner loop's variable.
LoadRow ==
  /\ pc = "back"
  /\ j < NRHS
  /\ i >= 0
  /\ t' = b[i][j]
  /\ k' = i + 1
  /\ pc' = "inner"
  /\ UNCHANGED <<a, b, a0, b0, i, j, ret>>

Inner ==
  /\ pc = "inner"
  /\ k < N
  /\ t' = Sub(t, Mul(a[i][k], b[k][j]))
  /\ k' = k + 1
  /\ UNCHANGED <<a, b, a0, b0, i, j, pc, ret>>

Quotient == [b EXCEPT ![i][j] = Div(t, a[i][i])]

\* What giving up leaves in b.  Mutant: the quotient was already stored.
OnFailure_stored == Quotient
OnFailure == b

\* The diagonal is tested before b[i][j] is overwritten.
GiveUp ==
  /\ pc = "inner"
  /\ k >= N
  /\ Refused(i)
  /\ b' = OnFailure
  /\ Return(-1)
  /\ UNCHANGED <<a, a0, b0, k, i, j, t>>

Store ==
  /\ pc = "inner"
  /\ k >= N
  /\ ~Refused(i)
  /\ b' = Quotient
  /\ i' = i - 1
  /\ pc' = "back"
  /\ UNCHANGED <<a, a0, b0, k, j, t, ret>>

\* j++.  Mutant: the next right-hand side is the same one again.
FollowingRhs_same == j
FollowingRhs == j + 1

NextRhs ==
  /\ pc = "back"
  /\ j < NRHS
  /\ i < 0
  /\ j' = FollowingRhs
  /\ i' = N - 1
  /\ UNCHANGED <<a, b, a0, b0, k, t, pc, ret>>

Finish ==
  /\ pc = "back"
  /\ j >= NRHS
  /\ Return(0)
  /\ UNCHANGED <<a, b, a0, b0, k, i, j, t>>

Next ==
  \/ TestPivot \/ EliminateRow \/ EndColumn
  \/ StartBack \/ LoadRow \/ Inner \/ GiveUp \/ Store \/ NextRhs \/ Finish

Returned == pc = "returned" /\ UNCHANGED vars

Spec == Init /\ [][Next \/ Returned]_vars /\ WF_vars(Next)

-----------------------------------------------------------------------------
\* The leading m x m block of the matrix maps some nonzero vector to zero.
ZeroMinor(aa, m) ==
  \E v \in Vector :
    /\ \E c \in 0 .. (m - 1) : v[c] # Zero
    /\ \A c \in m .. (N - 1) : v[c] = Zero
    /\ \A r \in 0 .. (m - 1) : Dot(aa[r], v) = Zero

\* A return of 0 means that every column of b is the one solution of the
\* system of the call.
ZeroMeansSolved ==
  ret = 0 => \A c \in Col, x \in Vector :
               Solves(a0, b0, c, x) <=> x = Column(b, c)

\* A leading block that the call divides by is singular; the last diagonal
\* entry counts only if there is a right-hand side.
SingularBlock == \E m \in 1 .. N : ZeroMinor(a0, m) /\ (m = N => Col # {})

\* Without pivoting my_dgesv gives up whenever a leading block is singular, so
\* also on regular matrices, and otherwise only because of a nonzero diagonal
\* entry below the threshold.
GivesUpOnZeroMinor ==
  /\ ret = 0 => ~SingularBlock
  /\ ret = -1 => SingularBlock \/ TakenForZero(a)

\* Giving up leaves a system with the same solutions in a and b, also from
\* within back substitution: the diagonal is tested before b is written.
FailureKeepsSystem ==
  ret = -1 => \A c \in Col, x \in Vector :
                Solves(a0, b0, c, x) <=> Solves(a, b, c, x)

\* my_dgesv returns.
Termination == <>(ret # Running)

=============================================================================
