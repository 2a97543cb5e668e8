----------------------- MODULE ForwardElimination_proofs -----------------------
(***************************************************************************)
(* Proofs about the elimination of my_dgesv, for every order and number of *)
(* right-hand sides.  The first three theorems hold for any arithmetic     *)
(* with an order, IEEE doubles with NaN included; the last three need the  *)
(* laws of ExactArithmetic.                                                *)
(***************************************************************************)
EXTENDS ForwardEliminationExact, ExactArithmetic_proofs

\* The largest entry found so far really is: in the part of column k that was
\* searched, and in all of it once the rows were exchanged.
PivotInv ==
  /\ pc = "scan" =>
       /\ maxIndex < i
       /\ maxVal = Abs(a[maxIndex][k])
       /\ \A r \in k .. (i - 1) : ~Less(maxVal, Abs(a[r][k]))
  /\ pc \in {"test", "returned"} =>
       \A r \in k .. (N - 1) : ~Less(Abs(a[k][k]), Abs(a[r][k]))
  /\ PivotDominates

-----------------------------------------------------------------------------
USE DEF MoreColumns, NewMax, SwappedB, NeedsSwap, Refused, LeftAlone, NextColumn

\* Every step keeps indices and types.
LEMMA ElimTypeStep ==
  ElimTypeOK /\ [ElimNext \/ ElimFinished]_elimVars => ElimTypeOK'
<1> SUFFICES ASSUME ElimTypeOK, [ElimNext \/ ElimFinished]_elimVars PROVE ElimTypeOK'
  OBVIOUS
<1> USE SizeAssumption, NumClosed
<1>1. CASE StartColumn
  BY <1>1 DEF StartColumn, FirstCandidate, ElimTypeOK, MatrixA, Row
<1>2. CASE EndElimination
  BY <1>2 DEF EndElimination, ElimTypeOK
<1>3. CASE Scan
  BY <1>3 DEF Scan, ElimTypeOK, MatrixA, Row
<1>4. CASE Swap
  <2>1. k \in Row /\ maxIndex \in Row
    BY <1>4 DEF Swap, ElimTypeOK, Row
  <2>2. a' \in MatrixA
    BY <1>4, <2>1 DEF Swap, Exchanged, ElimTypeOK, MatrixA
  <2>3. b' \in MatrixB
    BY <1>4, <2>1 DEF Swap, Exchanged, ElimTypeOK, MatrixB
  <2> QED
    BY <1>4, <2>2, <2>3 DEF Swap, ElimTypeOK
<1>5. CASE Singular
  BY <1>5 DEF Singular, ElimTypeOK
<1>6. CASE PivotAccepted
  BY <1>6 DEF PivotAccepted, ElimTypeOK
<1>7. CASE EliminateRow
  <2>1. k \in Row /\ i \in Row
    BY <1>7 DEF EliminateRow, ElimTypeOK, Row
  <2> DEFINE t == Div(Neg(a[i][k]), a[k][k])
  <2>2. t \in Num
    BY <2>1 DEF ElimTypeOK, MatrixA
  <2>3. [j \in Row |-> IF j < k THEN a[i][j] ELSE Add(a[i][j], Mul(t, a[k][j]))]
          \in [Row -> Num]
    BY <2>1, <2>2 DEF ElimTypeOK, MatrixA
  <2>4. [j \in Col |-> Add(b[i][j], Mul(t, b[k][j]))] \in [Col -> Num]
    BY <2>1, <2>2 DEF ElimTypeOK, MatrixB
  <2>5. a' \in MatrixA /\ b' \in MatrixB
    BY <1>7, <2>3, <2>4 DEF EliminateRow, ElimTypeOK, MatrixA, MatrixB
  <2> QED
    BY <1>7, <2>5 DEF EliminateRow, ElimTypeOK
<1>8. CASE EndColumn
  BY <1>8 DEF EndColumn, ElimTypeOK
<1>9. CASE UNCHANGED elimVars
  BY <1>9 DEF elimVars, eliminationVars, ElimTypeOK
<1> QED
  BY <1>1, <1>2, <1>3, <1>4, <1>5, <1>6, <1>7, <1>8, <1>9 DEF ElimNext, ElimFinished

\* All indices of the elimination stay within a and b, and all variables keep
\* their types (lines 11-45).
THEOREM ElimTypeCorrect == ElimSpec => []ElimTypeOK
<1>1. ElimInit => ElimTypeOK
  BY NumClosed, SizeAssumption, InputAssumption DEF ElimInit, ElimTypeOK, Running
<1> QED
  BY <1>1, ElimTypeStep, PTL DEF ElimSpec

\* Every step keeps what the search of the pivot has established.
LEMMA PivotStep ==
  ElimTypeOK /\ PivotInv /\ [ElimNext \/ ElimFinished]_elimVars => PivotInv'
<1> SUFFICES ASSUME ElimTypeOK, PivotInv, [ElimNext \/ ElimFinished]_elimVars PROVE PivotInv'
  OBVIOUS
<1> USE SizeAssumption DEF PivotInv, PivotDominates
<1>1. CASE StartColumn
  <2>1. Abs(a[k][k]) \in Num
    BY <1>1, NumClosed DEF StartColumn, FirstCandidate, ElimTypeOK, MatrixA, Row
  <2> QED
    BY <1>1, <2>1, LessOrder DEF StartColumn, FirstCandidate, ElimTypeOK
<1>2. CASE EndElimination
  BY <1>2 DEF EndElimination
<1>3. CASE Scan
  <2>1. \A r \in k .. i : Abs(a[r][k]) \in Num
    BY <1>3, NumClosed DEF Scan, ElimTypeOK, MatrixA, Row
  <2>2. maxVal \in Num /\ maxIndex \in k .. (N - 1) /\ k \in Nat /\ i \in Nat /\ k < i
    BY <1>3 DEF Scan, ElimTypeOK
  <2>3. CASE Less(maxVal, Abs(a[i][k]))
    <3>1. ASSUME NEW r \in k .. i PROVE ~Less(Abs(a[i][k]), Abs(a[r][k]))
      <4>1. CASE r = i
        BY <4>1, <2>1, LessOrder
      <4>2. CASE r # i
        <5>1. ~Less(maxVal, Abs(a[r][k]))
          BY <4>2, <2>2, <1>3 DEF Scan
        <5>2. Abs(a[i][k]) \in Num /\ Abs(a[r][k]) \in Num
          BY <2>1, <2>2
        <5> QED
          BY <5>1, <5>2, <2>2, <2>3, LessOrder
      <4> QED
        BY <4>1, <4>2
    <3>2. maxVal' = Abs(a[i][k]) /\ maxIndex' = i
      BY <1>3, <2>3 DEF Scan
    <3>3. /\ pc' = "scan" /\ k' = k /\ a' = a /\ i' = i + 1
      BY <1>3 DEF Scan
    <3>4. (i + 1) - 1 = i
      BY <2>2
    <3>5. maxIndex' < i' /\ maxVal' = Abs(a'[maxIndex'][k'])
      BY <2>2, <3>2, <3>3
    <3>6. \A r \in k' .. (i' - 1) : ~Less(maxVal', Abs(a'[r][k']))
      BY <3>1, <3>2, <3>3, <3>4
    <3> QED
      BY <3>3, <3>5, <3>6
  <2>4. CASE ~Less(maxVal, Abs(a[i][k]))
    BY <1>3, <2>2, <2>4 DEF Scan
  <2> QED
    BY <2>3, <2>4
<1>4. CASE Swap
  <2>1. k \in Row /\ maxIndex \in Row /\ i = N /\ maxIndex \in k .. (N - 1)
    BY <1>4 DEF Swap, ElimTypeOK, Row
  <2>2. a'[k] = a[maxIndex] /\ a'[maxIndex] = a[k]
    BY <1>4, <2>1 DEF Swap, Exchanged, ElimTypeOK, MatrixA
  <2>3. \A r \in Row \ {k, maxIndex} : a'[r] = a[r]
    BY <1>4, <2>1 DEF Swap, Exchanged, ElimTypeOK, MatrixA
  <2>4. ASSUME NEW r \in k .. (N - 1)
        PROVE  ~Less(Abs(a'[k][k]), Abs(a'[r][k]))
    <3>1. PICK q \in k .. (N - 1) : a'[r] = a[q]
      BY <2>1, <2>2, <2>3 DEF Row, ElimTypeOK
    <3> QED
      BY <1>4, <2>1, <2>2, <3>1 DEF Swap
  <2> QED
    BY <1>4, <2>4 DEF Swap
<1>5. CASE Singular
  BY <1>5 DEF Singular
<1>6. CASE PivotAccepted
  BY <1>6 DEF PivotAccepted, ElimTypeOK
<1>7. CASE EliminateRow
  <2>1. k \in Row /\ i \in Row /\ k < i
    BY <1>7 DEF EliminateRow, ElimTypeOK, Row
  <2>2. \A r \in Row \ {i} : a'[r] = a[r]
    BY <1>7, <2>1 DEF EliminateRow, ElimTypeOK, MatrixA
  <2> QED
    BY <1>7, <2>1, <2>2 DEF EliminateRow, Row, ElimTypeOK
<1>8. CASE EndColumn
  BY <1>8 DEF EndColumn
<1>9. CASE UNCHANGED elimVars
  BY <1>9 DEF elimVars, eliminationVars
<1> QED
  BY <1>1, <1>2, <1>3, <1>4, <1>5, <1>6, <1>7, <1>8, <1>9 DEF ElimNext, ElimFinished

\* While a column is eliminated no entry still to be cleared exceeds the pivot
\* (lines 12-31), for any order in which NaN compares with nothing.
THEOREM PivotIsLargest == ElimSpec => []PivotDominates
<1>1. ElimInit => PivotInv
  BY DEF ElimInit, PivotInv, PivotDominates
<1>2. PivotInv => PivotDominates
  BY DEF PivotInv
<1> QED
  BY <1>1, <1>2, PivotStep, ElimTypeCorrect, PTL DEF ElimSpec

\* Which rows of a and b an exchange touches, and how.
LEMMA SwapRows ==
  ASSUME ElimTypeOK, Swap
  PROVE  /\ k \in Row /\ maxIndex \in Row /\ k <= maxIndex /\ k < N - 1
         /\ a'[k] = a[maxIndex] /\ a'[maxIndex] = a[k]
         /\ b'[k] = b[maxIndex] /\ b'[maxIndex] = b[k]
         /\ \A r \in Row \ {k, maxIndex} : a'[r] = a[r] /\ b'[r] = b[r]
<1>1. k \in Row /\ maxIndex \in Row /\ k <= maxIndex /\ k < N - 1
  BY SizeAssumption DEF Swap, ElimTypeOK, Row
<1>2. /\ a'[k] = a[maxIndex] /\ a'[maxIndex] = a[k]
      /\ \A r \in Row \ {k, maxIndex} : a'[r] = a[r]
  BY <1>1 DEF Swap, Exchanged, ElimTypeOK, MatrixA
<1>3. /\ b'[k] = b[maxIndex] /\ b'[maxIndex] = b[k]
      /\ \A r \in Row \ {k, maxIndex} : b'[r] = b[r]
  BY <1>1 DEF Swap, Exchanged, ElimTypeOK, MatrixB
<1> QED
  BY <1>1, <1>2, <1>3

\* The multiple of row k that EliminateRow adds to row i.
t == Div(Neg(a[i][k]), a[k][k])

\* Which rows of a and b the elimination of a row touches, and how.
LEMMA EliminatedRow ==
  ASSUME ElimTypeOK, EliminateRow
  PROVE  /\ k \in Row /\ i \in Row /\ k < i /\ k < N - 1
         /\ \A r \in Row \ {i} : a'[r] = a[r] /\ b'[r] = b[r]
         /\ a'[i] = [j \in Row |-> IF j < k THEN a[i][j]
                                   ELSE Add(a[i][j], Mul(t, a[k][j]))]
         /\ b'[i] = [j \in Col |-> Add(b[i][j], Mul(t, b[k][j]))]
<1>1. k \in Row /\ i \in Row /\ k < i /\ k < N - 1
  BY SizeAssumption DEF EliminateRow, ElimTypeOK, Row
<1> QED
  BY <1>1 DEF EliminateRow, ElimTypeOK, MatrixA, MatrixB, t

\* Every step keeps the pivots that were divided by on the diagonal.
LEMMA PivotsStep ==
  ElimTypeOK /\ PivotsNotTiny /\ [ElimNext \/ ElimFinished]_elimVars => PivotsNotTiny'
<1> SUFFICES ASSUME ElimTypeOK, PivotsNotTiny, [ElimNext \/ ElimFinished]_elimVars
             PROVE  PivotsNotTiny'
  OBVIOUS
<1> USE SizeAssumption
<1>1. CASE StartColumn
  BY <1>1 DEF StartColumn, PivotsNotTiny
<1>2. CASE EndElimination
  BY <1>2 DEF EndElimination, PivotsNotTiny, ElimTypeOK
<1>3. CASE Scan
  BY <1>3 DEF Scan, PivotsNotTiny
<1>4. CASE Swap
  <2>1. \A c \in 0 .. (k - 1) : a'[c][c] = a[c][c]
    BY <1>4, SwapRows DEF Row
  <2> QED
    BY <1>4, <2>1 DEF Swap, PivotsNotTiny
<1>5. CASE Singular
  BY <1>5 DEF Singular, PivotsNotTiny
<1>6. CASE PivotAccepted
  BY <1>6 DEF PivotAccepted, PivotsNotTiny, ElimTypeOK
<1>7. CASE EliminateRow
  <2>1. \A c \in 0 .. k : a'[c][c] = a[c][c]
    BY <1>7, EliminatedRow DEF Row
  <2> QED
    BY <1>7, <2>1 DEF EliminateRow, PivotsNotTiny
<1>8. CASE EndColumn
  BY <1>8 DEF EndColumn, PivotsNotTiny, ElimTypeOK
<1>9. CASE UNCHANGED elimVars
  BY <1>9 DEF elimVars, eliminationVars, PivotsNotTiny
<1> QED
  BY <1>1, <1>2, <1>3, <1>4, <1>5, <1>6, <1>7, <1>8, <1>9 DEF ElimNext, ElimFinished

\* No pivot that was divided by is tiny, then or later (lines 33-35): of the
\* diagonal only the last entry is left for back substitution to find tiny.
THEOREM PivotsAreNotTiny == ElimSpec => []PivotsNotTiny
<1>1. ElimInit => PivotsNotTiny
  BY DEF ElimInit, PivotsNotTiny
<1> QED
  BY <1>1, PivotsStep, ElimTypeCorrect, PTL DEF ElimSpec

\* The multiplier is finite, as the pivot it is divided by is not tiny.
LEMMA MultiplierIsFinite ==
  ASSUME ElimTypeOK, PivotsNotTiny, StaysFinite, EliminateRow
  PROVE  t \in Fin /\ ~Tiny(a[k][k]) /\ a[k][k] \in Fin /\ a[i][k] \in Fin
<1>1. a[k][k] \in Fin /\ a[i][k] \in Fin
  BY EliminatedRow DEF StaysFinite
<1>2. ~Tiny(a[k][k])
  BY EliminatedRow DEF PivotsNotTiny, EliminateRow, Row
<1> QED
  BY <1>1, <1>2, FinClosed DEF t

\* Every step keeps a and b free of NaN and infinity.
LEMMA FiniteStep ==
  ElimTypeOK /\ PivotsNotTiny /\ StaysFinite /\ [ElimNext \/ ElimFinished]_elimVars
    => StaysFinite'
<1> SUFFICES ASSUME ElimTypeOK, PivotsNotTiny, StaysFinite, [ElimNext \/ ElimFinished]_elimVars
             PROVE  StaysFinite'
  OBVIOUS
<1>1. CASE Swap
  <2>1. k \in Row /\ maxIndex \in Row
    BY <1>1, SwapRows
  <2> QED
    BY <1>1, <2>1 DEF Swap, Exchanged, StaysFinite
<1>2. CASE EliminateRow
  <2>0. t \in Fin /\ k \in Row /\ i \in Row
    BY <1>2, EliminatedRow, MultiplierIsFinite
  <2>1. a'[i] \in [Row -> Fin]
    <3>1. ASSUME NEW j \in Row
          PROVE  a[i][j] \in Fin /\ Add(a[i][j], Mul(t, a[k][j])) \in Fin
      BY <2>0, FinClosed DEF StaysFinite
    <3> QED
      BY <1>2, <3>1, EliminatedRow
  <2>2. b'[i] \in [Col -> Fin]
    <3>1. ASSUME NEW j \in Col PROVE Add(b[i][j], Mul(t, b[k][j])) \in Fin
      BY <2>0, FinClosed DEF StaysFinite
    <3> QED
      BY <1>2, <3>1, EliminatedRow
  <2>3. a' = [a EXCEPT ![i] = a'[i]] /\ b' = [b EXCEPT ![i] = b'[i]]
    BY <1>2, EliminatedRow DEF EliminateRow, StaysFinite
  <2> QED
    BY <2>1, <2>2, <2>3 DEF StaysFinite
<1>3. CASE UNCHANGED <<a, b>>
  BY <1>3 DEF StaysFinite
<1> QED
  BY <1>1, <1>2, <1>3
     DEF ElimNext, ElimFinished, elimVars, StartColumn, EndElimination, Scan, Singular,
         PivotAccepted, EndColumn

\* No NaN and no infinity arises during the elimination (lines 33-44), since
\* it divides only by pivots that it has tested.
THEOREM EliminationStaysFinite == ElimSpec => []StaysFinite
<1>1. ElimInit => StaysFinite
  BY ExactCall DEF ElimInit, StaysFinite
<1> QED
  BY <1>1, FiniteStep, ElimTypeCorrect, PivotsAreNotTiny, PTL DEF ElimSpec

\* Every step keeps the zeros below the diagonal.
LEMMA EchelonStep ==
  ElimTypeOK /\ PivotsNotTiny /\ StaysFinite /\ Echelon /\ [ElimNext \/ ElimFinished]_elimVars
    => Echelon'
<1> SUFFICES ASSUME ElimTypeOK, PivotsNotTiny, StaysFinite, Echelon,
                    [ElimNext \/ ElimFinished]_elimVars
             PROVE  Echelon'
  OBVIOUS
<1> USE SizeAssumption
<1>1. CASE StartColumn
  BY <1>1 DEF StartColumn, Echelon
<1>2. CASE EndElimination
  BY <1>2 DEF EndElimination, Echelon
<1>3. CASE Scan
  BY <1>3 DEF Scan, Echelon
<1>4. CASE Swap
  <2>1. ASSUME NEW c \in Row, c < k, NEW r \in (c + 1) .. (N - 1)
        PROVE  a'[r][c] = Zero
    BY <1>4, <2>1, SwapRows DEF Echelon, Row
  <2> QED
    BY <1>4, <2>1 DEF Swap, Echelon
<1>5. CASE Singular
  BY <1>5 DEF Singular, Echelon
<1>6. CASE PivotAccepted
  BY <1>6 DEF PivotAccepted, Echelon, ElimTypeOK
<1>7. CASE EliminateRow
  <2>1. k \in Row /\ i \in Row /\ k < i /\ i' = i + 1 /\ k' = k /\ pc' = pc
    BY <1>7, EliminatedRow DEF EliminateRow
  <2>2. ASSUME NEW c \in Row, c < k, NEW r \in (c + 1) .. (N - 1)
        PROVE  a'[r][c] = Zero
    BY <1>7, <2>2, EliminatedRow DEF Echelon, Row
  <2>3. a'[i][k] = Zero
    <3>1. a'[i][k] = Add(a[i][k], Mul(t, a[k][k]))
      BY <1>7, <2>1, EliminatedRow DEF Row
    <3> QED
      BY <1>7, <3>1, MultiplierIsFinite, FinExact DEF t
  <2>4. ASSUME NEW r \in (k + 1) .. (i - 1) PROVE a'[r][k] = Zero
    <3>1. r \in Row /\ r # i
      BY <2>1 DEF Row
    <3> QED
      BY <1>7, <3>1, EliminatedRow DEF Echelon, EliminateRow
  <2> QED
    BY <2>1, <2>2, <2>3, <2>4 DEF Echelon, Row
<1>8. CASE EndColumn
  BY <1>8 DEF EndColumn, Echelon, ElimTypeOK, Row
<1>9. CASE UNCHANGED elimVars
  BY <1>9 DEF elimVars, eliminationVars, Echelon
<1> QED
  BY <1>1, <1>2, <1>3, <1>4, <1>5, <1>6, <1>7, <1>8, <1>9 DEF ElimNext, ElimFinished

\* The columns already eliminated keep their zeros below the diagonal, which
\* the j loop that starts at k relies on (line 38).
THEOREM EliminationIsEchelon == ElimSpec => []Echelon
<1>1. ElimInit => Echelon
  BY DEF ElimInit, Echelon, Row
<1> QED
  BY <1>1, EchelonStep, ElimTypeCorrect, PivotsAreNotTiny, EliminationStaysFinite, PTL DEF ElimSpec

\* As the columns before k are zero in rows k and i, EliminateRow is a row
\* operation on the whole row.
LEMMA EliminationAddsRow ==
  ASSUME ElimTypeOK, PivotsNotTiny, StaysFinite, Echelon, EliminateRow
  PROVE  RowAdded(a, b, a', b', k, i, t)
<1>1. k \in Row /\ i \in Row /\ k < i /\ t \in Fin
  BY EliminatedRow, MultiplierIsFinite
<1>2. a[i] \in Vector /\ a[k] \in Vector
  BY <1>1 DEF StaysFinite, Vector
<1>3. a'[i] = [c \in Row |-> Add(a[i][c], Mul(t, a[k][c]))]
  <2>1. ASSUME NEW j \in Row, j < k
        PROVE  a[i][j] = Add(a[i][j], Mul(t, a[k][j]))
    <3>1. a[k][j] = Zero
      BY <1>1, <2>1 DEF Echelon, Row
    <3>2. a[i][j] \in Fin
      BY <1>2 DEF Vector
    <3> QED
      BY <1>1, <3>1, <3>2, FinExact
  <2> QED
    BY <2>1, EliminatedRow
<1> QED
  BY <1>1, <1>3, EliminatedRow, SizeAssumption
     DEF Row, StaysFinite, FiniteA, FiniteB, RowAdded

\* Every step keeps the solutions of the system.
LEMMA SolutionsStep ==
  ElimTypeOK /\ PivotsNotTiny /\ StaysFinite /\ Echelon /\ SolutionsPreserved
    /\ [ElimNext \/ ElimFinished]_elimVars => SolutionsPreserved'
<1> SUFFICES ASSUME ElimTypeOK, PivotsNotTiny, StaysFinite, Echelon,
                    SolutionsPreserved, [ElimNext \/ ElimFinished]_elimVars
             PROVE  SolutionsPreserved'
  OBVIOUS
<1>1. CASE Swap
  <2>1. ASSUME NEW c \in Col, NEW x \in Vector
        PROVE  Solves(a, b, c, x) <=> Solves(a', b', c, x)
    BY <1>1, SwapRows DEF Solves
  <2> QED
    BY <1>1, <2>1 DEF Swap, SolutionsPreserved
<1>2. CASE EliminateRow
  <2>1. \A c \in Col, x \in Vector : Solves(a, b, c, x) <=> Solves(a', b', c, x)
    BY <1>2, EliminationAddsRow, RowOperation
  <2> QED
    BY <1>2, <2>1 DEF EliminateRow, SolutionsPreserved
<1>3. CASE UNCHANGED <<a, b, a0, b0>>
  BY <1>3 DEF SolutionsPreserved
<1> QED
  BY <1>1, <1>2, <1>3
     DEF ElimNext, ElimFinished, elimVars, eliminationVars, StartColumn, EndElimination,
         Scan, Singular, PivotAccepted, EndColumn

\* The system in a and b keeps the solutions of the system of the call, in
\* every state of the elimination (lines 11-45), exchanges included.
THEOREM EliminationPreservesSolutions == ElimSpec => []SolutionsPreserved
<1>1. ElimInit => SolutionsPreserved
  BY DEF ElimInit, SolutionsPreserved
<1> QED
  BY <1>1, SolutionsStep, ElimTypeCorrect, PivotsAreNotTiny, EliminationStaysFinite,
     EliminationIsEchelon, PTL DEF ElimSpec

-----------------------------------------------------------------------------
(* What giving up means. *)

\* The matrix of the call and the one in a map the same vectors to zero.
KernelKept == \A x \in Vector : Annuls(a0, N, x) <=> Annuls(a, N, x)

\* Every step keeps the vectors that are mapped to zero.
LEMMA KernelStep ==
  ElimTypeOK /\ PivotsNotTiny /\ StaysFinite /\ Echelon /\ KernelKept
    /\ [ElimNext \/ ElimFinished]_elimVars => KernelKept'
<1> SUFFICES ASSUME ElimTypeOK, PivotsNotTiny, StaysFinite, Echelon, KernelKept,
                    [ElimNext \/ ElimFinished]_elimVars
             PROVE  KernelKept'
  OBVIOUS
<1>1. CASE Swap
  <2>1. \A r \in Row : r < N
    BY SizeAssumption DEF Row
  <2>2. ASSUME NEW x \in Vector PROVE Annuls(a, N, x) <=> Annuls(a', N, x)
    BY <1>1, <2>1, SwapRows DEF Annuls
  <2> QED
    BY <1>1, <2>2 DEF Swap, KernelKept
<1>2. CASE EliminateRow
  <2>1. N \in Int /\ k < i
    BY <1>2, EliminatedRow, SizeAssumption
  <2>2. \A x \in Vector : Annuls(a, N, x) <=> Annuls(a', N, x)
    BY <1>2, <2>1, EliminationAddsRow, KernelRowOperation
  <2> QED
    BY <1>2, <2>2 DEF EliminateRow, KernelKept
<1>3. CASE UNCHANGED <<a, b, a0, b0>>
  BY <1>3 DEF KernelKept
<1> QED
  BY <1>1, <1>2, <1>3
     DEF ElimNext, ElimFinished, elimVars, eliminationVars, StartColumn, EndElimination,
         Scan, Singular, PivotAccepted, EndColumn

\* The matrix of the call is singular if the one in a is.
LEMMA SingularCall ==
  ASSUME KernelKept, NEW v \in Vector, Annuls(a, N, v), NEW c \in Row, v[c] # Zero
  PROVE  IsSingular(a0)
<1>1. Annuls(a0, N, v)
  BY DEF KernelKept
<1>2. \A r \in Row : r < N
  BY SizeAssumption DEF Row
<1> QED
  BY <1>1, <1>2 DEF Annuls, IsSingular

\* A pivot that is zero is the largest of zeros only.
LEMMA ZeroPivot ==
  ASSUME ElimTypeOK, PivotInv, PivotsNotTiny, StaysFinite, Echelon, KernelKept,
         pc = "returned", a[k][k] = Zero
  PROVE  IsSingular(a0)
<1>1. /\ k \in Row /\ k \in Int /\ k < N /\ N \in Int
      /\ a \in FiniteA
  BY SizeAssumption DEF ElimTypeOK, Row, StaysFinite, FiniteA
<1>2. \A r \in Row : k <= r => a[r][k] = Zero
  <2>1. ASSUME NEW r \in Row, k <= r PROVE a[r][k] = Zero
    <3>1. ~Less(Abs(a[k][k]), Abs(a[r][k]))
      BY <1>1, <2>1 DEF PivotInv, Row
    <3>2. a[r][k] \in Fin
      BY <1>1 DEF FiniteA
    <3> QED
      BY <3>1, <3>2, FinNonzero
  <2> QED
    BY <2>1
<1>3. \A c \in Row : c < k => ~Tiny(a[c][c])
  BY <1>1 DEF PivotsNotTiny, Row
<1>4. \A r, c \in Row : c < k /\ c < r => a[r][c] = Zero
  BY <1>1 DEF Echelon, Row
<1>5. PICK v \in Vector : v[k] # Zero /\ Annuls(a, N, v)
  BY <1>1, <1>2, <1>3, <1>4, ZeroColumn
<1> QED
  BY <1>1, <1>5, SingularCall

\* The elimination gives up on a regular matrix only if its largest pivot is a
\* nonzero number below the threshold (lines 33-35).
THEOREM GivingUpMeansSingular == ElimSpec => []GivesUpOnSingular
<1> DEFINE I == /\ ElimTypeOK /\ PivotInv /\ PivotsNotTiny /\ StaysFinite
                /\ Echelon /\ KernelKept
                /\ ret = -1 => pc = "returned" /\ Tiny(a[k][k])
<1>1. ElimInit => I
  <2> SUFFICES ASSUME ElimInit PROVE I
    OBVIOUS
  <2>1. ElimTypeOK
    BY NumClosed, SizeAssumption, InputAssumption DEF ElimInit, ElimTypeOK, Running
  <2>2. PivotInv /\ PivotsNotTiny /\ Echelon
    BY DEF ElimInit, PivotInv, PivotDominates, PivotsNotTiny, Echelon, Row
  <2>3. StaysFinite /\ KernelKept /\ ret # -1
    BY ExactCall DEF ElimInit, StaysFinite, KernelKept, Running
  <2> QED
    BY <2>1, <2>2, <2>3
<1>2. I /\ [ElimNext \/ ElimFinished]_elimVars => I'
  <2> SUFFICES ASSUME I, [ElimNext \/ ElimFinished]_elimVars PROVE I'
    OBVIOUS
  <2>1. (ret = -1 => pc = "returned" /\ Tiny(a[k][k]))'
    BY DEF ElimNext, ElimFinished, elimVars, eliminationVars, StartColumn,
           EndElimination, Scan, Swap, Singular, PivotAccepted, EliminateRow, EndColumn
  <2> QED
    BY <2>1, ElimTypeStep, PivotStep, PivotsStep, FiniteStep, EchelonStep, KernelStep
<1>3. I => GivesUpOnSingular
  BY ZeroPivot DEF GivesUpOnSingular
<1> QED
  BY <1>1, <1>2, <1>3, PTL DEF ElimSpec

=============================================================================
