-------------------------- MODULE ForwardElimination --------------------------
(***************************************************************************)
(* The first half of my_dgesv (dgesv.c, lines 6-45): Gaussian elimination  *)
(* with partial pivoting.  It is sequential; an action is one iteration of *)
(* the search for the pivot, the row exchange, the test of the pivot or    *)
(* the elimination of one row.                                             *)
(***************************************************************************)
EXTENDS SolverCall

VARIABLES
  a0, b0,           \* history: the arguments of the call
  k, i,             \* the loop variables
  maxIndex, maxVal, \* the largest entry found so far in column k, and its row
  pc                \* "column", "scan", "test", "eliminate", "eliminated"

eliminationVars == <<a0, b0, k, i, maxIndex, maxVal, pc>>
elimVars == <<a, b, eliminationVars, ret>>

ElimInit ==
  /\ a \in InputA /\ a0 = a
  /\ b \in InputB /\ b0 = b
  /\ k = 0
  /\ i = 0
  /\ maxIndex = 0
  /\ maxVal = Zero
  /\ pc = "column"
  /\ ret = Running

\* The condition of the outer loop.  Mutant: it runs to k < n.
MoreColumns_toN == k < N
MoreColumns == k < N - 1

\* The first row that is compared with row k.  Mutant: the search starts at the
\* top, among the pivots of earlier columns.
FirstCandidate_top == 0
FirstCandidate == k + 1

\* The outer loop enters its body and starts the search at row k.
StartColumn ==
  /\ pc = "column"
  /\ MoreColumns
  /\ maxIndex' = k
  /\ maxVal' = Abs(a[k][k])
  /\ i' = FirstCandidate
  /\ pc' = "scan"
  /\ UNCHANGED <<a, b, a0, b0, k, ret>>

\* The outer loop is over (k = n-1, or n <= 1 from the start).
EndElimination ==
  /\ pc = "column"
  /\ ~MoreColumns
  /\ pc' = "eliminated"
  /\ UNCHANGED <<a, b, a0, b0, k, i, maxIndex, maxVal, ret>>

\* maxVal after row i is found to be larger.  Mutant: only maxIndex is updated.
NewMax_stale == maxVal
NewMax == Abs(a[i][k])

\* Row i is the candidate if its entry is larger than the largest so far.
Scan ==
  /\ pc = "scan"
  /\ i < N
  /\ LET larger == Less(maxVal, Abs(a[i][k])) IN
       /\ maxVal' = IF larger THEN NewMax ELSE maxVal
       /\ maxIndex' = IF larger THEN i ELSE maxIndex
  /\ i' = i + 1
  /\ UNCHANGED <<a, b, a0, b0, k, pc, ret>>

Exchanged(m, r, s) == [m EXCEPT ![r] = m[s], ![s] = m[r]]

\* The rows of b are exchanged with those of a.  Mutant: they are not.
SwappedB_not == b
SwappedB == Exchanged(b, k, maxIndex)

\* When rows are exchanged.  Mutant: the condition is inverted.
NeedsSwap_not == maxIndex = k
NeedsSwap == maxIndex # k

\* Rows k and maxIndex change places, in a and in b alike.
Swap ==
  /\ pc = "scan"
  /\ i >= N
  /\ a' = IF NeedsSwap THEN Exchanged(a, k, maxIndex) ELSE a
  /\ b' = IF NeedsSwap THEN SwappedB ELSE b
  /\ pc' = "test"
  /\ UNCHANGED <<a0, b0, k, i, maxIndex, maxVal, ret>>

\* The pivots that are refused.  Mutant: none is.
Refused_never == FALSE
Refused == Tiny(a[k][k])

\* A tiny pivot: my_dgesv gives up, leaving a and b as they are.
Singular ==
  /\ pc = "test"
  /\ Refused
  /\ ret' = -1
  /\ pc' = "returned"
  /\ UNCHANGED <<a, b, a0, b0, k, i, maxIndex, maxVal>>

PivotAccepted ==
  /\ pc = "test"
  /\ ~Refused
  /\ i' = k + 1
  /\ pc' = "eliminate"
  /\ UNCHANGED <<a, b, a0, b0, k, maxIndex, maxVal, ret>>

\* The columns of row i that the j loop leaves alone.  Mutant: it starts at
\* k + 1, as if the entry below the pivot were not stored.
LeftAlone_pivot(j) == j <= k
LeftAlone(j) == j < k

\* A multiple of row k that clears a[i][k] is added to row i: columns k..n-1
\* of a (the j loop starts at k) and all of b.
EliminateRow ==
  /\ pc = "eliminate"
  /\ i < N
  /\ LET t == Div(Neg(a[i][k]), a[k][k]) IN
       /\ a' = [a EXCEPT ![i] = [j \in Row |->
                  IF LeftAlone(j) THEN a[i][j] ELSE Add(a[i][j], Mul(t, a[k][j]))]]
       /\ b' = [b EXCEPT ![i] = [j \in Col |-> Add(b[i][j], Mul(t, b[k][j]))]]
  /\ i' = i + 1
  /\ UNCHANGED <<a0, b0, k, maxIndex, maxVal, pc, ret>>

\* k++.  Mutant: k stays.
NextColumn_same == k
NextColumn == k + 1

\* All rows below k are done: k++.
EndColumn ==
  /\ pc = "eliminate"
  /\ i >= N
  /\ k' = NextColumn
  /\ pc' = "column"
  /\ UNCHANGED <<a, b, a0, b0, i, maxIndex, maxVal, ret>>

ElimNext ==
  \/ StartColumn \/ EndElimination \/ Scan \/ Swap
  \/ Singular \/ PivotAccepted \/ EliminateRow \/ EndColumn

\* The elimination is over: back substitution, or the caller, goes on.
ElimFinished == pc \in {"eliminated", "returned"} /\ UNCHANGED elimVars

ElimSpec == ElimInit /\ [][ElimNext \/ ElimFinished]_elimVars

-----------------------------------------------------------------------------
\* Every variable keeps its type, and the indices stay within the arrays.
ElimTypeOK ==
  /\ a \in MatrixA /\ a0 \in MatrixA
  /\ b \in MatrixB /\ b0 \in MatrixB
  /\ k \in Nat
  /\ i \in Nat
  /\ maxIndex \in Nat
  /\ maxVal \in Num
  /\ pc \in {"column", "scan", "test", "eliminate", "eliminated", "returned"}
  /\ ret \in {-1, 0, Running}
  /\ pc = "column" => k < N \/ k = 0
  /\ pc \in {"scan", "test", "eliminate", "returned"} =>
       /\ k < N - 1
       /\ i \in (k + 1) .. N
       /\ maxIndex \in k .. (N - 1)

\* Partial pivoting does its job: while column k is being eliminated, no entry
\* that is still to be cleared is larger than the pivot, so that no multiplier
\* exceeds 1 in magnitude and rounding errors are not amplified.
PivotDominates ==
  pc = "eliminate" =>
    \A r \in i .. (N - 1) : ~Less(Abs(a[k][k]), Abs(a[r][k]))

\* The pivots that were divided by stay on the diagonal through the exchanges
\* and eliminations of later columns, and are not tiny: when back substitution
\* starts only the last diagonal entry can be.
PivotsNotTiny ==
  /\ pc \in {"column", "scan", "test", "returned"} =>
       \A c \in 0 .. (k - 1) : ~Tiny(a[c][c])
  /\ pc = "eliminate" => \A c \in 0 .. k : ~Tiny(a[c][c])
  /\ pc = "eliminated" => \A c \in 0 .. (N - 2) : ~Tiny(a[c][c])

=============================================================================
