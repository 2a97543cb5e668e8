-------------------------- MODULE SerialDgesv_proofs --------------------------
(***************************************************************************)
(* Proofs about the serial solver of task 1, for every order and number of *)
(* right-hand sides, from the laws of ExactArithmetic: it returns 0 only   *)
(* with the solution of the call's system, and -1 only with the system     *)
(* intact.  The benchmark program around it tells the two apart.           *)
(***************************************************************************)
EXTENDS SerialHarness, ExactArithmetic_proofs

Eliminating == pc \in {"column", "eliminate"}
Solving     == pc \in {"back", "inner"}

\* All indices stay within the arrays, and no number is a NaN or infinite.
TypeOK ==
  /\ a \in FiniteA /\ b \in FiniteB /\ t \in Fin
  /\ k \in Nat /\ j \in Nat /\ i \in -1 .. N
  /\ pc \in {"column", "eliminate", "back", "inner", "returned"}
  /\ ret \in {-1, 0, Running}
  /\ pc # "returned" => ret = Running
  /\ pc = "eliminate" => k < N - 1 /\ i \in (k + 1) .. N
  /\ Solving => i \in -1 .. (N - 1) /\ j \in 0 .. NRHS
  /\ pc = "inner" => i \in Row /\ j \in Col /\ k \in (i + 1) .. N

\* The columns before k are eliminated, and their pivots are not tiny.
EchelonInv ==
  Eliminating =>
    /\ \A c \in Row : c < k => /\ ~Tiny(a[c][c])
                               /\ \A r \in Row : r > c => a[r][c] = Zero
    /\ pc = "eliminate" => /\ ~Tiny(a[k][k])
                           /\ \A r \in Row : k < r /\ r < i => a[r][k] = Zero

\* What back substitution starts from.  Only the last diagonal entry may still
\* be tiny, and only while nothing has been stored.
TriangularInv ==
  Solving =>
    /\ \A r, c \in Row : c < r => a[r][c] = Zero
    /\ \A r \in Row : Tiny(a[r][r]) => r = N - 1 /\ i = N - 1 /\ j = 0

\* Column c of the call's system when its rows after w are solved.
Form(c, w) ==
  \A x \in Vector : Solves(a0, b0, c, x) <=> Rest(a, b, c, w, x)

Intact == \A c \in Col, x \in Vector : Solves(a0, b0, c, x) <=> Solves(a, b, c, x)

\* The columns before j are solved, those after j untouched, and column j is
\* solved after row i.
ColumnsInv ==
  /\ Eliminating => Intact
  /\ Solving => \A c \in Col : /\ c < j => Form(c, -1)
                               /\ c = j => Form(c, i)
                               /\ c > j => Form(c, N - 1)
  /\ ret = 0 => \A c \in Col : Form(c, -1)
  /\ ret = -1 => Intact

\* t and the terms taken off so far add up to the right-hand side.
InnerInv ==
  pc = "inner" =>
    \A x \in Vector : (\A r \in Row : r > i => x[r] = b[r][j]) =>
      Add(t, DotOver((i + 1) .. (k - 1), a[i], x)) = b[i][j]

Inv == TypeOK /\ EchelonInv /\ TriangularInv /\ ColumnsInv /\ InnerInv

-----------------------------------------------------------------------------
USE DEF Refused, FirstRhs, OnFailure, FollowingRhs, Eliminating, Solving

\* An untouched column has its equations, all of them.
LEMMA Untouched ==
  Intact <=> \A c \in Col : Form(c, N - 1)
<1>1. \A r \in Row : ~(r > N - 1)
  BY SizeAssumption DEF Row
<1>2. \A c \in Col, x \in Vector : Rest(a, b, c, N - 1, x) <=> Solves(a, b, c, x)
  BY <1>1 DEF Rest, Solves
<1> QED
  BY <1>2 DEF Intact, Form

\* A state with the arrays of another has the same solutions.
LEMMA SameArrays ==
  ASSUME UNCHANGED <<a, b, a0, b0>>
  PROVE  /\ Intact' <=> Intact
         /\ \A c, w : Form(c, w)' <=> Form(c, w)
BY DEF Intact, Form, Rest, Solves

LEMMA InitInv == Init => Inv
<1> SUFFICES ASSUME Init PROVE Inv
  OBVIOUS
<1>1. TypeOK
  BY SizeAssumption, SerialExactCall, FinClosed DEF Init, TypeOK, FiniteA, FiniteB, Running
<1>2. EchelonInv /\ TriangularInv /\ InnerInv
  BY DEF Init, EchelonInv, TriangularInv, InnerInv, Row
<1>3. ColumnsInv
  BY DEF Init, ColumnsInv, Intact, Running
<1> QED
  BY <1>1, <1>2, <1>3 DEF Inv

\* The pivot is tested, and my_dgesv gives up with the system intact.
LEMMA TestPivotInv == ASSUME Inv, TestPivot PROVE Inv'
<1> USE SizeAssumption DEF Inv, TestPivot, Return
<1>1. UNCHANGED <<a, b, a0, b0, k, j, t>> /\ pc = "column" /\ ret = Running
  BY DEF TypeOK
<1>2. TypeOK'
  BY <1>1 DEF TypeOK
<1>3. EchelonInv' /\ TriangularInv' /\ InnerInv'
  BY <1>1 DEF EchelonInv, TriangularInv, InnerInv, TypeOK, Row
<1>4. ColumnsInv'
  BY <1>1, SameArrays DEF ColumnsInv, Running
<1> QED
  BY <1>2, <1>3, <1>4

\* The multiple of row k that EliminateRow adds to row i.
m == Div(Neg(a[i][k]), a[k][k])

\* EliminateRow adds a multiple of row k to row i: the columns before k that it
\* leaves alone are zero in both.
LEMMA RowCombined ==
  ASSUME Inv, EliminateRow
  PROVE  /\ RowAdded(a, b, a', b', k, i, m) /\ k < i
         /\ b'[i] = [c \in Col |-> Add(b[i][c], Mul(m, b[k][c]))]
         /\ a' = [a EXCEPT ![i] = a'[i]] /\ b' = [b EXCEPT ![i] = b'[i]]
         /\ \A c \in Row : c < k => a'[i][c] = Zero
<1>1. /\ k \in Row /\ i \in Row /\ k < i /\ pc = "eliminate" /\ ret = Running
      /\ i' = i + 1 /\ UNCHANGED <<a0, b0, k, j, t, pc, ret>>
      /\ i \in Int /\ k \in Int /\ Row \subseteq Int
  BY SizeAssumption DEF Inv, TypeOK, EliminateRow, Row
<1>2. a \in FiniteA /\ b \in FiniteB /\ ~Tiny(a[k][k])
  BY <1>1 DEF Inv, TypeOK, EchelonInv
<1>3. m \in Fin /\ a[i][k] \in Fin /\ a[k][k] \in Fin
  BY <1>1, <1>2, FinClosed DEF FiniteA, m
<1>4. \A c \in Row : c < k => a[k][c] = Zero /\ a[i][c] = Zero
  <2>1. \A c \in Row : c < k => \A r \in Row : r > c => a[r][c] = Zero
    BY <1>1 DEF Inv, EchelonInv
  <2>2. \A c \in Row : c < k => k > c /\ i > c
    BY <1>1
  <2> QED
    BY <1>1, <2>1, <2>2
<1>5. /\ \A r \in Row \ {i} : a'[r] = a[r] /\ b'[r] = b[r]
      /\ a'[i] = [c \in Row |-> IF c < k THEN a[i][c] ELSE Add(a[i][c], Mul(m, a[k][c]))]
      /\ b'[i] = [c \in Col |-> Add(b[i][c], Mul(m, b[k][c]))]
      /\ a' = [a EXCEPT ![i] = a'[i]] /\ b' = [b EXCEPT ![i] = b'[i]]
  <2>1. \A c \in Col : ~(c < 0)
    BY SizeAssumption DEF Col
  <2> QED
    BY <1>1, <1>2, <2>1 DEF EliminateRow, FiniteA, FiniteB, m
<1>6. a'[i] = [c \in Row |-> Add(a[i][c], Mul(m, a[k][c]))]
  <2>1. ASSUME NEW c \in Row, c < k PROVE a[i][c] = Add(a[i][c], Mul(m, a[k][c]))
    BY <1>1, <1>2, <1>3, <1>4, <2>1, FinExact DEF FiniteA
  <2> QED
    BY <1>5, <2>1
<1> QED
  BY <1>1, <1>2, <1>3, <1>4, <1>5, <1>6 DEF RowAdded

\* A row operation keeps the solutions and clears the entry below the pivot.
LEMMA EliminateRowInv == ASSUME Inv, EliminateRow PROVE Inv'
<1>1. /\ k \in Row /\ i \in Row /\ k < i /\ pc = "eliminate" /\ ret = Running
      /\ i' = i + 1 /\ UNCHANGED <<a0, b0, k, j, t, pc, ret>>
      /\ i \in Int /\ k \in Int /\ Row \subseteq Int
  BY SizeAssumption DEF Inv, TypeOK, EliminateRow, Row
<1>2. a \in FiniteA /\ b \in FiniteB /\ ~Tiny(a[k][k])
  BY <1>1 DEF Inv, TypeOK, EchelonInv
<1>3. m \in Fin /\ a[i][k] \in Fin /\ a[k][k] \in Fin
  BY <1>1, <1>2, FinClosed DEF FiniteA, m
<1>4. \A c \in Row : c < k => a'[i][c] = Zero
  BY RowCombined
<1>5. /\ \A r \in Row \ {i} : a'[r] = a[r] /\ b'[r] = b[r]
      /\ b'[i] = [c \in Col |-> Add(b[i][c], Mul(m, b[k][c]))]
      /\ a' = [a EXCEPT ![i] = a'[i]] /\ b' = [b EXCEPT ![i] = b'[i]]
  BY RowCombined DEF RowAdded
<1>6. a'[i] = [c \in Row |-> Add(a[i][c], Mul(m, a[k][c]))]
  BY RowCombined DEF RowAdded
<1>7. a' \in FiniteA /\ b' \in FiniteB
  <2>1. \A c \in Row : Add(a[i][c], Mul(m, a[k][c])) \in Fin
    BY <1>1, <1>2, <1>3, FinClosed DEF FiniteA
  <2>2. \A c \in Col : Add(b[i][c], Mul(m, b[k][c])) \in Fin
    BY <1>1, <1>2, <1>3, FinClosed DEF FiniteB
  <2>3. a'[i] \in [Row -> Fin] /\ b'[i] \in [Col -> Fin]
    BY <1>5, <1>6, <2>1, <2>2
  <2> QED
    BY <1>1, <1>2, <1>5, <2>3 DEF FiniteA, FiniteB
<1>8. TypeOK'
  <2>1. TypeOK /\ i < N
    BY DEF Inv, EliminateRow
  <2> QED
    BY <1>1, <1>7, <2>1, SizeAssumption DEF TypeOK
<1>9. EchelonInv'
  <2>1. a'[i][k] = Zero
    <3>1. a'[i][k] = Add(a[i][k], Mul(m, a[k][k]))
      BY <1>1, <1>6
    <3> QED
      BY <1>2, <1>3, <3>1, FinExact DEF m
  <2>2. \A c \in Row : c < k => /\ a'[c][c] = a[c][c]
                                /\ \A r \in Row : r > c => a'[r][c] = Zero
    <3>1. ASSUME NEW c \in Row, c < k, NEW r \in Row, r > c PROVE a'[r][c] = Zero
      BY <1>1, <1>4, <1>5, <3>1 DEF Inv, EchelonInv
    <3>2. ASSUME NEW c \in Row, c < k PROVE a'[c] = a[c]
      BY <1>1, <1>5, <3>2
    <3> QED
      BY <3>1, <3>2
  <2>3. a'[k] = a[k]
    BY <1>1, <1>5
  <2>4. \A r \in Row : k < r /\ r < i + 1 => a'[r][k] = Zero
    BY <1>1, <1>5, <2>1 DEF Inv, EchelonInv
  <2> QED
    BY <1>1, <2>2, <2>3, <2>4 DEF Inv, EchelonInv
<1>10. ColumnsInv'
  <2>1. ASSUME NEW c \in Col, NEW x \in Vector
        PROVE  Solves(a, b, c, x) <=> Solves(a', b', c, x)
    BY RowCombined, RowOperation
  <2>2. Intact
    BY <1>1 DEF Inv, ColumnsInv
  <2> QED
    BY <1>1, <2>1, <2>2 DEF ColumnsInv, Intact, Running
<1>11. TriangularInv' /\ InnerInv'
  BY <1>1 DEF TriangularInv, InnerInv
<1> QED
  BY <1>8, <1>9, <1>10, <1>11 DEF Inv

LEMMA EndColumnInv == ASSUME Inv, EndColumn PROVE Inv'
<1> USE SizeAssumption DEF Inv, EndColumn
<1>1. UNCHANGED <<a, b, a0, b0, i, j, t, ret>> /\ ret = Running /\ pc' = "column"
  BY DEF TypeOK
<1>2. TypeOK'
  BY DEF TypeOK
<1>3. EchelonInv'
  BY DEF EchelonInv, TypeOK, Row
<1>4. TriangularInv' /\ InnerInv' /\ ColumnsInv'
  BY <1>1, SameArrays DEF TriangularInv, InnerInv, ColumnsInv, Running
<1> QED
  BY <1>2, <1>3, <1>4

\* The elimination hands over a triangular system.
LEMMA StartBackInv == ASSUME Inv, StartBack PROVE Inv'
<1> USE SizeAssumption DEF Inv, StartBack
<1>1. UNCHANGED <<a, b, a0, b0, k, t, ret>> /\ ret = Running
      /\ j' = 0 /\ i' = N - 1 /\ pc' = "back" /\ Intact
  BY DEF TypeOK, ColumnsInv
<1>2. TypeOK'
  BY <1>1 DEF TypeOK
<1>3. EchelonInv' /\ InnerInv'
  BY <1>1 DEF EchelonInv, InnerInv
<1>4. TriangularInv'
  <2>1. \A r, c \in Row : c < r => a[r][c] = Zero
    BY DEF EchelonInv, TypeOK, Row
  <2>2. \A r \in Row : Tiny(a[r][r]) => r = N - 1
    BY DEF EchelonInv, TypeOK, Row
  <2> QED
    BY <1>1, <2>1, <2>2 DEF TriangularInv
<1>5. ColumnsInv'
  <2>1. \A c \in Col : Form(c, N - 1)'
    BY <1>1, Untouched, SameArrays
  <2>2. \A c \in Col : ~(c < 0)
    BY DEF Col
  <2> QED
    BY <1>1, <2>1, <2>2 DEF ColumnsInv, Running
<1> QED
  BY <1>2, <1>3, <1>4, <1>5

LEMMA LoadRowInv == ASSUME Inv, LoadRow PROVE Inv'
<1> USE SizeAssumption DEF Inv, LoadRow
<1>1. /\ UNCHANGED <<a, b, a0, b0, i, j, ret>> /\ ret = Running
      /\ pc = "back" /\ pc' = "inner" /\ k' = i + 1 /\ t' = b[i][j]
      /\ i \in Row /\ j \in Col
  BY DEF TypeOK, Row, Col
<1>2. b[i][j] \in Fin /\ a[i] \in Vector
  BY <1>1 DEF TypeOK, FiniteA, FiniteB, Vector
<1>3. TypeOK'
  BY <1>1, <1>2 DEF TypeOK, Row
<1>4. EchelonInv' /\ TriangularInv'
  BY <1>1 DEF EchelonInv, TriangularInv
<1>5. ColumnsInv'
  BY <1>1, SameArrays DEF ColumnsInv, Running
<1>6. InnerInv'
  <2>1. (i + 1) .. (k' - 1) = {}
    BY <1>1 DEF Row
  <2>2. \A x \in Vector : Add(b[i][j], DotOver({}, a[i], x)) = b[i][j]
    BY <1>2, DotTerms, FinExact
  <2>3. \A x \in Vector : Add(t', DotOver((i' + 1) .. (k' - 1), a'[i'], x)) = b'[i'][j']
    BY <1>1, <2>1, <2>2
  <2> QED
    BY <2>3 DEF InnerInv
<1> QED
  BY <1>3, <1>4, <1>5, <1>6

LEMMA InnerStepInv == ASSUME Inv, Inner PROVE Inv'
<1> USE SizeAssumption DEF Inv, Inner
<1>1. /\ UNCHANGED <<a, b, a0, b0, i, j, pc, ret>> /\ ret = Running
      /\ pc = "inner" /\ k' = k + 1 /\ t' = Sub(t, Mul(a[i][k], b[k][j]))
      /\ i \in Row /\ j \in Col /\ k \in Row /\ i < k /\ t \in Fin
      /\ i \in Int /\ k \in Int
  BY DEF TypeOK, Row
<1>2. /\ b[i][j] \in Fin /\ b[k][j] \in Fin /\ a[i] \in Vector /\ a[i][k] \in Fin
  BY <1>1 DEF TypeOK, FiniteA, FiniteB, Vector
<1>3. TypeOK'
  <2>1. t' \in Fin
    BY <1>1, <1>2, FinClosed
  <2> QED
    BY <1>1, <2>1 DEF TypeOK, Row
<1>4. EchelonInv' /\ TriangularInv'
  BY <1>1 DEF EchelonInv, TriangularInv
<1>5. ColumnsInv'
  BY <1>1, SameArrays DEF ColumnsInv, Running
<1>6. InnerInv'
  <2> DEFINE S == (i + 1) .. (k - 1)
  <2>1. S \in SUBSET Row /\ k \in Row \ S /\ (i + 1) .. ((k + 1) - 1) = S \cup {k}
    BY <1>1 DEF Row
  <2>2. ASSUME NEW x \in Vector, \A r \in Row : r > i => x[r] = b[r][j]
        PROVE  Add(t', DotOver(S \cup {k}, a[i], x)) = b[i][j]
    <3>1. Add(t, DotOver(S, a[i], x)) = b[i][j]
      BY <1>1, <2>2 DEF InnerInv
    <3>2. x[k] = b[k][j]
      BY <1>1, <2>2
    <3> HIDE DEF S
    <3>3. Add(Sub(t, Mul(a[i][k], x[k])), DotOver(S \cup {k}, a[i], x))
            = Add(t, DotOver(S, a[i], x))
      BY <1>1, <1>2, <2>1, OneMoreTerm
    <3> QED
      BY <1>1, <3>1, <3>2, <3>3
  <2> HIDE DEF S
  <2> QED
    BY <1>1, <2>1, <2>2 DEF InnerInv
<1> QED
  BY <1>3, <1>4, <1>5, <1>6

\* Giving up in back substitution: nothing has been stored yet.
LEMMA GiveUpInv == ASSUME Inv, GiveUp PROVE Inv'
<1> USE SizeAssumption DEF Inv, GiveUp, Return
<1>1. /\ UNCHANGED <<a, b, a0, b0, k, i, j, t>> /\ pc = "inner" /\ pc' = "returned"
      /\ ret' = -1 /\ i \in Row /\ j \in Col /\ Tiny(a[i][i])
  BY DEF TypeOK
<1>2. i = N - 1 /\ j = 0
  BY <1>1 DEF TriangularInv
<1>3. \A c \in Col : Form(c, N - 1)
  BY <1>1, <1>2 DEF ColumnsInv, Col
<1>4. Intact'
  BY <1>1, <1>3, Untouched, SameArrays
<1>5. TypeOK'
  BY <1>1 DEF TypeOK
<1>6. EchelonInv' /\ TriangularInv' /\ InnerInv'
  BY <1>1 DEF EchelonInv, TriangularInv, InnerInv
<1>7. ColumnsInv'
  BY <1>1, <1>4 DEF ColumnsInv
<1> QED
  BY <1>5, <1>6, <1>7

\* Storing the quotient solves row i of column j.
LEMMA StoreInv == ASSUME Inv, Store PROVE Inv'
<1>1. /\ UNCHANGED <<a, a0, b0, k, j, t, ret>> /\ ret = Running /\ t \in Fin
      /\ pc = "inner" /\ pc' = "back" /\ i' = i - 1 /\ i \in Row /\ j \in Col
      /\ k = N /\ ~Tiny(a[i][i]) /\ i \in Int /\ j \in Nat
      /\ b' = [b EXCEPT ![i][j] = Div(t, a[i][i])]
  BY SizeAssumption DEF Inv, Store, TypeOK, Row, Col, Quotient
<1>2. a \in FiniteA /\ b \in FiniteB /\ Div(t, a[i][i]) \in Fin
  BY <1>1, FinClosed DEF Inv, TypeOK, FiniteA
<1>3. /\ b' \in FiniteB /\ b'[i][j] = Div(t, a[i][i])
      /\ \A r \in Row, c \in Col : (r # i \/ c # j) => b'[r][c] = b[r][c]
  BY <1>1, <1>2 DEF FiniteB
<1>4. TypeOK'
  BY <1>1, <1>2, <1>3, SizeAssumption DEF Inv, TypeOK, Row
<1>5. EchelonInv' /\ InnerInv'
  BY <1>1 DEF EchelonInv, InnerInv
<1>6. TriangularInv'
  BY <1>1 DEF Inv, TriangularInv
<1>7. Form(j, i)'
  <2>1. Form(j, i)
    BY <1>1 DEF Inv, ColumnsInv
  <2>2. ASSUME NEW x \in Vector PROVE Rest(a, b, j, i, x) <=> Rest(a, b', j, i - 1, x)
    <3>1. \A y \in Vector : (\A r \in Row : r > i => y[r] = b[r][j]) =>
            Add(t, DotOver((i + 1) .. (N - 1), a[i], y)) = b[i][j]
      BY <1>1 DEF Inv, InnerInv
    <3>2. \A d \in Row : d < i => a[i][d] = Zero
      BY <1>1 DEF Inv, TriangularInv
    <3>3. \A r \in Row \ {i} : b'[r][j] = b[r][j]
      BY <1>1, <1>3
    <3>4. /\ a \in FiniteA /\ b \in FiniteB /\ j \in Col /\ i \in Row /\ t \in Fin
          /\ ~Tiny(a[i][i]) /\ b'[i][j] = Div(t, a[i][i])
      BY <1>1, <1>2, <1>3
    <3> QED
      BY <3>1, <3>2, <3>3, <3>4, SolvedRow, SMTT(60)
  <2>3. \A x \in Vector : Solves(a0, b0, j, x) <=> Rest(a, b', j, i - 1, x)
    BY <2>1, <2>2 DEF Form
  <2> QED
    <3>1. a' = a /\ a0' = a0 /\ b0' = b0 /\ j' = j /\ i' = i - 1
      BY <1>1
    <3>2. Form(j, i)' <=>
            \A x \in Vector : Solves(a0', b0', j', x) <=> Rest(a', b', j', i', x)
      BY DEF Form, Rest, Solves
    <3> QED
      BY <3>1, <3>2, <2>3
<1>8. ASSUME NEW c \in Col, c # j, NEW w, Form(c, w) PROVE Form(c, w)'
  <2>1. \A r \in Row : b'[r][c] = b[r][c]
    BY <1>3, <1>8
  <2> QED
    BY <1>1, <1>8, <2>1 DEF Form, Rest
<1>9. ColumnsInv'
  <2>1. \A c \in Col : c < j \/ c > j => c # j
    BY <1>1 DEF Col
  <2> QED
    BY <1>1, <1>7, <1>8, <2>1 DEF Inv, ColumnsInv, Running
<1> QED
  BY <1>4, <1>5, <1>6, <1>9 DEF Inv

LEMMA NextRhsInv == ASSUME Inv, NextRhs PROVE Inv'
<1> USE SizeAssumption DEF Inv, NextRhs
<1>1. /\ UNCHANGED <<a, b, a0, b0, k, t, pc, ret>> /\ ret = Running /\ pc = "back"
      /\ i = -1 /\ i' = N - 1 /\ j' = j + 1 /\ j \in Nat /\ j < NRHS
  BY DEF TypeOK
<1>2. TypeOK'
  BY <1>1 DEF TypeOK
<1>3. EchelonInv' /\ InnerInv'
  BY <1>1 DEF EchelonInv, InnerInv
<1>4. TriangularInv'
  BY <1>1 DEF TriangularInv, Row
<1>5. ColumnsInv'
  <2>1. \A c \in Col : /\ c < j + 1 => Form(c, -1)
                       /\ c >= j + 1 => Form(c, N - 1)
    BY <1>1 DEF ColumnsInv, Col
  <2>2. \A c \in Col : /\ c < j' => Form(c, -1)'
                       /\ c >= j' => Form(c, N - 1)'
    BY <1>1, <2>1, SameArrays
  <2>3. \A c \in Col : (c = j' \/ c > j') => c >= j'
    BY <1>1 DEF Col
  <2> QED
    BY <1>1, <2>2, <2>3 DEF ColumnsInv, Running
<1> QED
  BY <1>2, <1>3, <1>4, <1>5

LEMMA FinishInv == ASSUME Inv, Finish PROVE Inv'
<1> USE SizeAssumption DEF Inv, Finish, Return
<1>1. /\ UNCHANGED <<a, b, a0, b0, k, i, j, t>> /\ pc = "back" /\ pc' = "returned"
      /\ ret' = 0 /\ j = NRHS
  BY DEF TypeOK
<1>2. TypeOK'
  BY <1>1 DEF TypeOK
<1>3. EchelonInv' /\ TriangularInv' /\ InnerInv'
  BY <1>1 DEF EchelonInv, TriangularInv, InnerInv
<1>4. ColumnsInv'
  <2>1. \A c \in Col : Form(c, -1)
    BY <1>1 DEF ColumnsInv, Col
  <2> QED
    BY <1>1, <2>1, SameArrays DEF ColumnsInv
<1> QED
  BY <1>2, <1>3, <1>4

LEMMA StepInv == Inv /\ [Next \/ Returned]_vars => Inv'
<1>1. ASSUME Inv, UNCHANGED vars PROVE Inv'
  <2>1. UNCHANGED <<a, b, ret, a0, b0, k, i, j, t, pc>>
    BY <1>1 DEF vars, localVars
  <2>2. ColumnsInv'
    BY <1>1, <2>1, SameArrays DEF Inv, ColumnsInv
  <2> QED
    BY <1>1, <2>1, <2>2 DEF Inv, TypeOK, EchelonInv, TriangularInv, InnerInv
<1> QED
  BY <1>1, TestPivotInv, EliminateRowInv, EndColumnInv, StartBackInv, LoadRowInv,
     InnerStepInv, GiveUpInv, StoreInv, NextRhsInv, FinishInv DEF Next, Returned

LEMMA Invariance == Spec => []Inv
BY InitInv, StepInv, PTL DEF Spec

\* The invariant at a return of 0.
LEMMA ReturnInv == Inv => ZeroMeansSolved
<1> SUFFICES ASSUME Inv, ret = 0, NEW c \in Col, NEW x \in Vector
             PROVE  Solves(a0, b0, c, x) <=> x = Column(b, c)
  BY DEF ZeroMeansSolved
<1>1. Form(c, -1) /\ \A r \in Row : r > -1
  BY SizeAssumption DEF Inv, ColumnsInv, Row
<1>2. Rest(a, b, c, -1, x) <=> \A r \in Row : x[r] = b[r][c]
  BY <1>1 DEF Rest
<1>3. (\A r \in Row : x[r] = b[r][c]) <=> x = Column(b, c)
  BY DEF Column, Vector
<1> QED
  BY <1>1, <1>2, <1>3 DEF Form

\* The serial my_dgesv returns 0 only with the solution of the call's system
\* in b, and that solution is unique (task1/dgesv.c, lines 5-38).
THEOREM SerialReturnsTheSolution == Spec => []ZeroMeansSolved
BY ReturnInv, Invariance, PTL

\* When the serial my_dgesv gives up, a and b still hold a system with the
\* solutions of the call's: it tests the diagonal before it stores
\* (task1/dgesv.c, lines 10 and 29-33).
THEOREM SerialFailureKeepsSystem == Spec => []FailureKeepsSystem
<1>1. Inv => FailureKeepsSystem
  BY DEF Inv, ColumnsInv, Intact, FailureKeepsSystem
<1> QED
  BY <1>1, Invariance, PTL

-----------------------------------------------------------------------------
(* What giving up means. *)

\* The first n rows of the call's matrix and of a map the same vectors to zero.
KernelInv == \A n \in Int, x \in Vector : Annuls(a0, n, x) <=> Annuls(a, n, x)

\* A refused entry is the first tiny one of the diagonal, and the columns
\* before it are eliminated.
RefusedInv ==
  ret = -1 => \E r \in Row :
    /\ Tiny(a[r][r]) /\ (r = N - 1 => Col # {})
    /\ \A c \in Row : c < r => ~Tiny(a[c][c])
    /\ \A p, c \in Row : c < r /\ c < p => a[p][c] = Zero

\* A return of 0 leaves a triangular matrix whose diagonal was divided by.
SolvedInv ==
  ret = 0 =>
    /\ \A r, c \in Row : c < r => a[r][c] = Zero
    /\ \A r \in Row : Tiny(a[r][r]) => r = N - 1 /\ Col = {}

MinorInv == KernelInv /\ RefusedInv /\ SolvedInv

LEMMA InitMinor == Init => MinorInv
BY DEF Init, MinorInv, KernelInv, RefusedInv, SolvedInv, Running

LEMMA MinorStep == Inv /\ MinorInv /\ [Next \/ Returned]_vars => MinorInv'
<1> SUFFICES ASSUME Inv, MinorInv, [Next \/ Returned]_vars PROVE MinorInv'
  OBVIOUS
<1> USE DEF MinorInv
<1>1. CASE EliminateRow
  <2>1. \A n \in Int, x \in Vector : Annuls(a, n, x) <=> Annuls(a', n, x)
    BY <1>1, RowCombined, KernelRowOperation
  <2>2. UNCHANGED <<a0, ret>> /\ ret = Running
    BY <1>1 DEF EliminateRow, Inv, TypeOK
  <2> QED
    BY <2>1, <2>2 DEF KernelInv, RefusedInv, SolvedInv, Running
<1>2. ASSUME UNCHANGED <<a, a0>> PROVE KernelInv'
  BY <1>2 DEF KernelInv
<1>3. CASE TestPivot
  <2>1. UNCHANGED <<a, a0>> /\ pc = "column" /\ ret = Running /\ ret' # 0
    BY <1>3 DEF TestPivot, Return, Inv, TypeOK, Running
  <2>2. ASSUME ret' = -1
        PROVE  /\ k \in Row /\ Tiny(a[k][k]) /\ k # N - 1
               /\ \A c \in Row : c < k => ~Tiny(a[c][c])
               /\ \A p, c \in Row : c < k /\ c < p => a[p][c] = Zero
    BY <1>3, <2>1, <2>2, SizeAssumption
       DEF TestPivot, Return, Inv, TypeOK, EchelonInv, Row, Running
  <2> QED
    BY <1>2, <2>1, <2>2 DEF RefusedInv, SolvedInv
<1>4. CASE GiveUp
  <2>1. UNCHANGED <<a, a0>> /\ ret' = -1 /\ pc = "inner" /\ j \in Col
        /\ i \in Row /\ Tiny(a[i][i])
    BY <1>4 DEF GiveUp, Return, Inv, TypeOK
  <2>2. /\ i = N - 1 /\ \A r, c \in Row : c < r => a[r][c] = Zero
        /\ \A r \in Row : Tiny(a[r][r]) => r = N - 1
    BY <2>1 DEF Inv, TriangularInv
  <2>3. \A c \in Row : c < i => c # N - 1
    BY <2>2, SizeAssumption DEF Row
  <2> QED
    BY <1>2, <2>1, <2>2, <2>3 DEF RefusedInv, SolvedInv
<1>5. CASE Finish
  <2>1. UNCHANGED <<a, a0>> /\ ret' = 0 /\ pc = "back" /\ j = NRHS
    BY <1>5, SizeAssumption DEF Finish, Return, Inv, TypeOK
  <2>2. j = 0 => Col = {}
    BY <2>1 DEF Col
  <2> QED
    BY <1>2, <2>1, <2>2 DEF RefusedInv, SolvedInv, Inv, TriangularInv
<1>6. CASE UNCHANGED <<a, a0, ret>>
  BY <1>2, <1>6 DEF RefusedInv, SolvedInv
<1> QED
  BY <1>1, <1>3, <1>4, <1>5, <1>6
     DEF Next, Returned, vars, localVars, EndColumn, StartBack, LoadRow, Inner, Store,
         NextRhs

\* Where the call divides by all pivots no leading block is singular.
LEMMA NoSingularBlock ==
  ASSUME Inv, MinorInv, ret = 0
  PROVE  ~SingularBlock
<1> SUFFICES ASSUME NEW n \in 1 .. N, ZeroMinor(a0, n), n = N => Col # {} PROVE FALSE
  BY DEF SingularBlock
<1>1. PICK v \in Vector : /\ \E c \in 0 .. (n - 1) : v[c] # Zero
                          /\ \A c \in n .. (N - 1) : v[c] = Zero
                          /\ \A r \in 0 .. (n - 1) : Dot(a0[r], v) = Zero
  BY DEF ZeroMinor
<1>2. n \in Int /\ n \in 0 .. N /\ \A r \in Row : r < n => r \in 0 .. (n - 1)
  BY SizeAssumption DEF Row
<1>3. Annuls(a, n, v)
  BY <1>1, <1>2 DEF MinorInv, KernelInv, Annuls
<1>4. \A r \in Row : r < n => ~Tiny(a[r][r])
  <2>1. \A r \in Row : r < n /\ r = N - 1 => n = N
    BY SizeAssumption DEF Row
  <2> QED
    BY <2>1 DEF MinorInv, SolvedInv
<1>5. \A r, c \in Row : c < r /\ r < n => a[r][c] = Zero
  BY DEF MinorInv, SolvedInv
<1>6. \A c \in Row : c >= n => v[c] = Zero
  BY <1>1, SizeAssumption DEF Row
<1>7. a \in FiniteA /\ \A c \in 0 .. (n - 1) : c \in Row
  BY SizeAssumption DEF Inv, TypeOK, Row
<1> QED
  BY <1>1, <1>2, <1>3, <1>4, <1>5, <1>6, <1>7, OnlyZero

\* A zero pivot ends a leading block that is singular.
LEMMA ZeroPivotBlock ==
  ASSUME Inv, MinorInv, ret = -1, ~TakenForZero(a)
  PROVE  SingularBlock
<1>1. PICK r \in Row : /\ Tiny(a[r][r]) /\ (r = N - 1 => Col # {})
                       /\ \A c \in Row : c < r => ~Tiny(a[c][c])
                       /\ \A p, c \in Row : c < r /\ c < p => a[p][c] = Zero
  BY DEF MinorInv, RefusedInv
<1>2. a[r][r] = Zero /\ a \in FiniteA
  BY <1>1 DEF TakenForZero, Inv, TypeOK
<1>3. /\ r + 1 \in Int /\ r < r + 1 /\ r + 1 \in 1 .. N
      /\ \A p \in Row : r <= p /\ p < r + 1 => p = r
      /\ \A p \in 0 .. ((r + 1) - 1) : p \in Row /\ p < r + 1
      /\ \A c \in (r + 1) .. (N - 1) : c \in Row /\ c > r
      /\ r \in 0 .. ((r + 1) - 1)
      /\ r + 1 = N => r = N - 1
  BY SizeAssumption DEF Row
<1>4. PICK v \in Vector : /\ v[r] # Zero
                          /\ \A c \in Row : c > r => v[c] = Zero
                          /\ Annuls(a, r + 1, v)
  BY <1>1, <1>2, <1>3, ZeroColumn
<1>5. Annuls(a0, r + 1, v)
  BY <1>3, <1>4 DEF MinorInv, KernelInv
<1>6. ZeroMinor(a0, r + 1)
  BY <1>3, <1>4, <1>5 DEF ZeroMinor, Annuls
<1> QED
  BY <1>1, <1>3, <1>6 DEF SingularBlock

\* The serial my_dgesv gives up on every matrix with a singular leading block,
\* and on another one only for a nonzero diagonal entry below the threshold
\* (task1/dgesv.c, lines 10 and 29).
THEOREM SerialGivesUpOnMinors == Spec => []GivesUpOnZeroMinor
<1>1. Inv /\ MinorInv => GivesUpOnZeroMinor
  BY NoSingularBlock, ZeroPivotBlock DEF GivesUpOnZeroMinor
<1> QED
  BY <1>1, InitMinor, InitInv, StepInv, MinorStep, PTL DEF Spec

-----------------------------------------------------------------------------
(* The benchmark program of task 1. *)

\* The state my_dgesv is entered in, but for its arguments.
Fresh == k = 0 /\ i = 0 /\ j = 0 /\ t = Zero /\ pc = "column" /\ ret = Running

Called == mpc \in {"in_my_dgesv", "my_dgesv_now", "check", "end", "exit_0"}

\* s solves the system aa x = bb, column by column.
IsSolution(aa, bb, s) ==
  /\ s \in FiniteB
  /\ \A c \in Col : Solves(aa, bb, c, Column(s, c))

\* Before the call my_dgesv's variables are fresh and main fills the arrays,
\* from which LAPACKE_dgesv has computed the solution in bref.
MainInv ==
  /\ mpc \in {"start", "usage", "b", "aref", "bref", "ipiv", "lapack_start", "lapack",
              "lapack_now", "my_dgesv_start", "my_dgesv", "in_my_dgesv",
              "my_dgesv_now", "check", "end", "exit_0", "exit_1", "crashed"}
  /\ ~Called => Fresh
  /\ mpc \in {"b", "aref", "bref", "ipiv", "lapack_start", "lapack", "lapack_now",
              "my_dgesv_start", "my_dgesv"} => a \in InputA
  /\ mpc \in {"aref", "bref", "ipiv", "lapack_start", "lapack", "lapack_now",
              "my_dgesv_start", "my_dgesv"} => b \in InputB
  /\ mpc \in {"bref", "ipiv", "lapack_start", "lapack"} => aref = a
  /\ mpc \in {"ipiv", "lapack_start", "lapack"} => bref = b
  /\ mpc \in {"lapack_now", "my_dgesv_start", "my_dgesv"} /\ ~IsSingular(a) =>
       IsSolution(a, b, bref)
  /\ mpc \in {"lapack_now", "my_dgesv_start", "my_dgesv"} /\ IsSingular(a) => bref = b
  /\ Called => Inv /\ MinorInv /\ a0 \in FiniteA /\ b0 \in FiniteB
  /\ Called /\ ~IsSingular(a0) => IsSolution(a0, b0, bref)
  /\ Called /\ IsSingular(a0) => bref = b0
  /\ Called /\ mpc # "in_my_dgesv" => ret # Running
  /\ verdict # "none" => mpc \in {"end", "exit_0"}
  /\ VerdictIsRight /\ OkOfSingular

\* Comparing with LAPACK's result is comparing with any solution: there is
\* only one, and no NaN is left to the build's choice.
LEMMA ComparisonIsRight ==
  ASSUME Inv, a0 \in FiniteA, ~IsSingular(a0), IsSolution(a0, b0, bref), NEW f
  PROVE  check_result(bref, b, f) <=> NearlySolves(a0, b0, b)
<1>1. b \in FiniteB /\ bref \in FiniteB
  BY DEF Inv, TypeOK, IsSolution
<1>2. ASSUME NEW r \in Row, NEW c \in Col
      PROVE  /\ Column(bref, c)[r] = bref[r][c]
             /\ Near(bref[r][c], b[r][c]) <=> is_nearly_equal(bref[r][c], b[r][c], f)
  BY <1>1 DEF FiniteB, Column, Near, is_nearly_equal
<1>3. ASSUME NEW c \in Col
      PROVE  /\ Column(bref, c) \in Vector /\ Solves(a0, b0, c, Column(bref, c))
             /\ \A x \in Vector : Solves(a0, b0, c, x) => x = Column(bref, c)
  <2>1. Column(bref, c) \in Vector /\ Solves(a0, b0, c, Column(bref, c))
    BY DEF IsSolution, Column, Vector, FiniteB
  <2> QED
    BY <2>1, UniqueSolution
<1> QED
  BY <1>2, <1>3 DEF NearlySolves, check_result

\* What passes the comparison with the right-hand sides themselves.
LEMMA PassedIsNear ==
  ASSUME Inv, b0 \in FiniteB, NEW f, check_result(b0, b, f)
  PROVE  NearWhereNumber(b0, b) /\ ~HoldsNaN(b)
BY DEF Inv, TypeOK, FiniteB, check_result, is_nearly_equal, NearWhereNumber, Near, HoldsNaN

\* The serial my_dgesv does not return 0 for a singular matrix either.
LEMMA SingularIsRefused ==
  ASSUME Inv, MinorInv, ret # Running, IsSingular(a0)
  PROVE  ret = -1
<1>1. Row # {}
  BY DEF IsSingular
<1>2. /\ Col # {} /\ N \in 1 .. N
      /\ 0 .. (N - 1) = Row /\ N .. (N - 1) = {}
  BY <1>1, SquareAssumption, SizeAssumption DEF Row, Col
<1>3. SingularBlock
  BY <1>2 DEF IsSingular, ZeroMinor, SingularBlock
<1> QED
  BY <1>3, NoSingularBlock DEF Inv, TypeOK

\* my_dgesv's invariant holds when it is entered, and after each of its steps.
LEMMA EntryStep == Init' => Inv' /\ MinorInv'
BY InitInv, InitMinor, PTL

LEMMA CallKeepsArguments == Next => UNCHANGED <<a0, b0>>
BY DEF Next, TestPivot, EliminateRow, EndColumn, StartBack, LoadRow, Inner, GiveUp,
       Store, NextRhs, Finish

LEMMA MainInvStep == MainInv /\ [HarnessNext \/ Ended]_allVars => MainInv'
<1> SUFFICES ASSUME MainInv, [HarnessNext \/ Ended]_allVars PROVE MainInv'
  OBVIOUS
<1> USE DEF MainInv, Called, VerdictIsRight, OkOfSingular, dataVars
<1>1. ASSUME UNCHANGED localVars, ret' = ret PROVE (Fresh' <=> Fresh) /\ UNCHANGED <<a0, b0>>
  BY <1>1 DEF localVars, Fresh
<1>2. ASSUME UNCHANGED localVars, UNCHANGED <<a, b, ret>>
      PROVE  Inv /\ MinorInv => Inv' /\ MinorInv'
  BY <1>2, StepInv, MinorStep DEF vars
<1>3. CASE UNCHANGED localVars /\ (Usage \/ GenerateA \/ GenerateB)
  BY <1>1, <1>3 DEF Usage, GenerateA, GenerateB, Allocate
<1>4. CASE UNCHANGED localVars /\ (DuplicateA \/ DuplicateB \/ AllocatePivots)
  BY <1>1, <1>4 DEF DuplicateA, DuplicateB, AllocatePivots, Allocate, OriginalB
<1>5. CASE UNCHANGED localVars /\ LAPACKE_dgesv
  BY <1>1, <1>5 DEF LAPACKE_dgesv, IsSolution, FiniteB
<1>6. CASE UNCHANGED localVars /\ (Timestamp \/ LapackTime)
  BY <1>1, <1>6 DEF Timestamp, LapackTime
<1>7. CASE UNCHANGED localVars /\ (LeaveMyDgesv \/ MyTime)
  BY <1>1, <1>2, <1>7 DEF LeaveMyDgesv, MyTime
<1>8. CASE UNCHANGED localVars /\ Check
  <2>1. /\ mpc = "check" /\ mpc' = "end" /\ UNCHANGED <<a, b, ret, bref, a0, b0>>
        /\ Inv' /\ MinorInv'
    BY <1>1, <1>2, <1>8 DEF Check
  <2>2. verdict' = IF check_result(bref, b, nanEqual) THEN "ok" ELSE "wrong"
    BY <1>8 DEF Check
  <2>3. VerdictIsRight'
    <3>1. ~IsSingular(a0) => (check_result(bref, b, nanEqual) <=> NearlySolves(a0, b0, b))
      BY <2>1, ComparisonIsRight
    <3> QED
      BY <2>1, <2>2, <3>1 DEF NearlySolves
  <2>4. OkOfSingular'
    <3>1. IsSingular(a0) /\ check_result(bref, b, nanEqual) =>
            ret = -1 /\ NearWhereNumber(b0, b) /\ ~HoldsNaN(b)
      BY <2>1, PassedIsNear, SingularIsRefused
    <3> QED
      BY <2>1, <2>2, <3>1 DEF NearWhereNumber, HoldsNaN
  <2> QED
    BY <2>1, <2>2, <2>3, <2>4
<1>9. CASE UNCHANGED localVars /\ Exit({})
  BY <1>1, <1>2, <1>9 DEF Exit
<1>10. CASE Call
  <2>1. /\ mpc = "my_dgesv" /\ mpc' = "in_my_dgesv" /\ UNCHANGED <<a, b, ret, bref, verdict>>
        /\ a0' = a /\ b0' = b /\ UNCHANGED <<k, i, j, t, pc>>
    BY <1>10 DEF Call, EnterMyDgesv
  <2>2. Init' /\ a0' \in FiniteA /\ b0' \in FiniteB
    BY <2>1, SerialExactCall DEF Init, Fresh, FiniteA, FiniteB
  <2> QED
    BY <2>1, <2>2, EntryStep
<1>11. CASE Run
  <2>1. mpc = "in_my_dgesv" /\ UNCHANGED <<mpc, bref, verdict>> /\ Next
    BY <1>11 DEF Run, mainVars
  <2>2. Inv' /\ MinorInv' /\ UNCHANGED <<a0, b0>>
    BY <2>1, StepInv, MinorStep, CallKeepsArguments
  <2> QED
    BY <2>1, <2>2
<1>12. CASE UNCHANGED allVars
  <2>1. /\ UNCHANGED <<mpc, aref, bref, verdict>> /\ UNCHANGED localVars
        /\ UNCHANGED <<a, b, ret>>
    BY <1>12 DEF allVars, mainVars, vars
  <2> QED
    BY <1>1, <1>2, <2>1
<1> QED
  BY <1>3, <1>4, <1>5, <1>6, <1>7, <1>8, <1>9, <1>10, <1>11, <1>12
     DEF HarnessNext, MainStep, Ended

LEMMA MainInvariance == HarnessSpec => []MainInv
<1>1. HarnessInit => MainInv
  <2> SUFFICES ASSUME HarnessInit PROVE MainInv
    OBVIOUS
  <2>1. mpc \in {"start", "usage"} /\ verdict = "none"
    BY DEF HarnessInit, MainInit
  <2>2. Fresh
    BY DEF HarnessInit, NotCalled!Init, NotCalled!Running, Running, Fresh
  <2> QED
    BY <2>1, <2>2 DEF MainInv, Called, VerdictIsRight, OkOfSingular
<1> QED
  BY <1>1, MainInvStep, PTL DEF HarnessSpec

\* The verdict on a regular system is right (task1/main.c, lines 67-101): it
\* compares b with the only solution, also where my_dgesv has given up.
THEOREM SerialVerdictIsRight == HarnessSpec => []VerdictIsRight
<1>1. MainInv => VerdictIsRight
  BY DEF MainInv
<1> QED
  BY <1>1, MainInvariance, PTL

\* "Result is ok!" is printed for a singular system only if my_dgesv returned
\* -1 and b is near what it was given (task1/main.c, lines 93-101).
THEOREM SerialOkOfSingularIsRefused == HarnessSpec => []OkOfSingular
<1>1. MainInv => OkOfSingular
  BY DEF MainInv
<1> QED
  BY <1>1, MainInvariance, PTL

=============================================================================
