----------------------------- MODULE Dgesv_proofs -----------------------------
(***************************************************************************)
(* my_dgesv as a whole computes what it promises: when it returns 0, b     *)
(* holds the solution of the system of the call.  For every order, number  *)
(* of right-hand sides, team and schedule, from the laws of                *)
(* ExactArithmetic and the step lemmas of the two halves.                  *)
(***************************************************************************)
EXTENDS Dgesv, ForwardElimination_proofs, BackSubstitution_proofs

\* What column c of the call's system has become when the rows after m are
\* solved: those give their unknown, the others are still equations.
Form(c, m) ==
  \A x \in Vector :
    Solves(a0, b0, c, x) <=> Rest(a, b, c, m, x)

\* t and the terms already taken off add up to the right-hand side.
Accumulated(th) ==
  \A x \in Vector :
    (\A r \in Row : r > ti[th] => x[r] = b[r][tj[th]]) =>
      Add(tt[th], DotOver(InnerLoop(ti[th]) \ tk[th], a[ti[th]], x))
        = b[ti[th]][tj[th]]

ThreadForm(th) ==
  /\ Form(tj[th], ti[th])
  /\ tpc[th] \in {"inner", "store"} =>
       tk[th] \subseteq InnerLoop(ti[th]) /\ tt[th] \in Fin /\ Accumulated(th)
  /\ tpc[th] = "store" => tk[th] = {}

\* Every column is untouched, in work or solved.
ColumnsInv ==
  /\ b \in FiniteB
  /\ \A c \in pending : Form(c, N - 1)
  /\ \A c \in Col : Solved(c) => Form(c, -1)
  /\ \A th \in Threads : Active(th) => ThreadForm(th)

\* What the elimination hands over.
Triangular ==
  /\ a \in FiniteA
  /\ \A r, c \in Row : c < r => a[r][c] = Zero

CallInv ==
  /\ ElimTypeOK /\ BackTypeOK /\ OneThreadPerColumn /\ TeamInv /\ FlagInv
  /\ PivotInv /\ PivotsNotTiny /\ Echelon /\ KernelKept
  /\ a \in FiniteA
  /\ pc = "returned" => Tiny(a[k][k])
  /\ pc # "eliminated" => region = "before"
  /\ pc = "eliminated" => k >= N - 1
  /\ region = "before" => /\ StaysFinite /\ SolutionsPreserved
                          /\ error_flag = 0
                          /\ ret = IF pc = "returned" THEN -1 ELSE Running
  /\ region = "parallel" => ret = Running
  /\ region # "before" /\ ~TinyPivot => ColumnsInv

-----------------------------------------------------------------------------
\* A step that leaves a thread, a and its column of b alone.
LEMMA ThreadFormKept ==
  ASSUME NEW o \in Threads, ThreadForm(o),
         UNCHANGED <<a, a0, b0>>,
         tpc'[o] = tpc[o], tj'[o] = tj[o], ti'[o] = ti[o],
         tk'[o] = tk[o], tt'[o] = tt[o], ti[o] \in Int,
         tpc[o] \in {"inner", "store"} => ti[o] \in Row,
         \A r \in Row : b'[r][tj[o]] = b[r][tj[o]]
  PROVE  ThreadForm(o)'
<1>1. Form(tj[o], ti[o])'
  BY DEF ThreadForm, Form, Rest
<1>2. ASSUME tpc[o] \in {"inner", "store"} PROVE Accumulated(o)'
  <2>1. Accumulated(o) /\ b'[ti[o]][tj[o]] = b[ti[o]][tj[o]]
    BY <1>2 DEF ThreadForm
  <2> QED
    BY <2>1, ZenonT(30) DEF Accumulated, InnerLoop
<1> QED
  BY <1>1, <1>2 DEF ThreadForm, InnerLoop

\* A step that leaves a and the column of b alone.
LEMMA FormKept ==
  ASSUME NEW c, NEW m, Form(c, m), UNCHANGED <<a, a0, b0>>,
         \A r \in Row : b'[r][c] = b[r][c]
  PROVE  Form(c, m)'
BY DEF Form, Rest

\* What the elimination leaves is triangular.
LEMMA HandedOver ==
  ASSUME CallInv, pc = "eliminated"
  PROVE  Triangular
<1>1. ASSUME NEW r \in Row, NEW c \in Row, c < r PROVE a[r][c] = Zero
  BY <1>1, SizeAssumption DEF CallInv, Echelon, ElimTypeOK, Row
<1> QED
  BY <1>1 DEF Triangular, CallInv

\* The region starts: no row of any column is solved.
LEMMA ForkColumns ==
  ASSUME CallInv, Fork, UNCHANGED eliminationVars
  PROVE  ColumnsInv'
<1>1. StaysFinite /\ SolutionsPreserved
  BY DEF CallInv, Fork
<1>2. b' \in FiniteB
  BY <1>1 DEF StaysFinite, FiniteB, Fork
<1>3. ASSUME NEW c \in Col PROVE Form(c, N - 1)'
  <2>1. \A r \in Row : ~(r > N - 1)
    BY SizeAssumption DEF Row
  <2>2. \A x \in Vector : Solves(a0, b0, c, x) <=>
                            \A r \in Row : Dot(a[r], x) = b[r][c]
    BY <1>1 DEF SolutionsPreserved, Solves
  <2> QED
    BY <2>1, <2>2 DEF Form, Rest, Fork, eliminationVars
<1>4. pending' = Col /\ \A th \in Threads : ~Active(th)'
  BY DEF Fork, Active
<1> QED
  BY <1>2, <1>3, <1>4 DEF ColumnsInv, Solved

\* A thread takes a column, of which no row is solved.
LEMMA FetchColumns ==
  ASSUME CallInv, ColumnsInv, NEW th \in Threads, Fetch(th),
         UNCHANGED eliminationVars
  PROVE  ColumnsInv'
<1> USE DEF Remaining
<1>0. UNCHANGED <<a, a0, b0>> /\ BackTypeOK
  BY DEF Fetch, eliminationVars, CallInv
<1>1. PICK c \in pending : pending' = pending \ {c} /\ tj' = [tj EXCEPT ![th] = c]
  BY DEF Fetch
<1>2. Owned(c)'
  BY <1>0, <1>1 DEF Fetch, Owned, Active, BackTypeOK
<1>3. ASSUME NEW d \in Col, Solved(d)' PROVE Form(d, -1)'
  <2>1. d # c
    BY <1>2, <1>3 DEF Solved
  <2>2. ASSUME NEW o \in Threads, Active(o), tj[o] = d PROVE FALSE
    <3>1. o # th
      BY <2>2 DEF Fetch, Active
    <3>2. Active(o)' /\ tj'[o] = d
      BY <1>0, <1>1, <2>2, <3>1 DEF Fetch, Active, BackTypeOK
    <3> QED
      BY <1>3, <3>2 DEF Solved, Owned
  <2>3. Solved(d)
    BY <1>1, <1>3, <2>1, <2>2 DEF Solved, Owned, Fetch
  <2>4. Form(d, -1) /\ b' = b
    BY <2>3 DEF ColumnsInv, Fetch
  <2> QED
    BY <1>0, <2>4, FormKept
<1>4. ASSUME NEW d \in pending PROVE Form(d, N - 1)'
  <2>1. Form(d, N - 1) /\ b' = b
    BY DEF ColumnsInv, Fetch
  <2> QED
    BY <1>0, <2>1, FormKept
<1>5. ThreadForm(th)'
  <2>1. tpc'[th] = "row" /\ tj'[th] = c /\ ti'[th] = N - 1
    BY <1>0, <1>1 DEF Fetch, BackTypeOK
  <2> QED
    BY <1>4, <2>1 DEF ThreadForm, Form, Rest
<1>6. ASSUME NEW o \in Threads, Active(o)', o # th PROVE ThreadForm(o)'
  <2>1. Active(o)
    BY <1>0, <1>6 DEF Fetch, Active, BackTypeOK
  <2>2. ThreadForm(o)
    BY <2>1 DEF ColumnsInv
  <2> QED
    BY <1>0, <1>1, <1>6, <2>2, ThreadFormKept DEF Fetch, BackTypeOK
<1> QED
  BY <1>1, <1>3, <1>4, <1>5, <1>6 DEF ColumnsInv, Fetch

\* The steps of a thread that leave b and the columns' owners alone.
LEMMA QuietColumns ==
  ASSUME CallInv, ColumnsInv, NEW th \in Threads,
         UNCHANGED <<a, a0, b0, b, region, pending, tj>>,
         \A o \in Threads : Active(o)' <=> Active(o),
         \A o \in Threads \ {th} : /\ tpc'[o] = tpc[o] /\ ti'[o] = ti[o]
                                   /\ tk'[o] = tk[o] /\ tt'[o] = tt[o],
         Active(th) => ThreadForm(th)'
  PROVE  ColumnsInv'
<1>1. \A c \in Col : Solved(c)' <=> Solved(c)
  BY DEF Solved, Owned
<1>2. ASSUME NEW c, NEW m, Form(c, m) PROVE Form(c, m)'
  BY <1>2, FormKept
<1>3. ASSUME NEW o \in Threads, Active(o), o # th PROVE ThreadForm(o)'
  <2>1. ThreadForm(o)
    BY <1>3 DEF ColumnsInv
  <2>2. ti[o] \in Int /\ (tpc[o] \in {"inner", "store"} => ti[o] \in Row)
    BY SizeAssumption DEF CallInv, BackTypeOK, Row
  <2> QED
    BY <1>3, <2>1, <2>2, ThreadFormKept
<1>4. /\ b' \in FiniteB
      /\ \A c \in pending' : Form(c, N - 1)'
      /\ \A c \in Col : Solved(c)' => Form(c, -1)'
  BY <1>1, <1>2 DEF ColumnsInv
<1> QED
  BY <1>3, <1>4 DEF ColumnsInv

\* One action of a thread inside the loop body.
LEMMA BodyColumns ==
  ASSUME CallInv, pc = "eliminated", ~TinyPivot, ColumnsInv, NEW th \in Threads,
         LoadRow(th) \/ Inner(th) \/ Test(th) \/ Arrive(th),
         UNCHANGED eliminationVars
  PROVE  ColumnsInv'
<1> USE DEF InnerLoop, StartInner
<1>0. BackTypeOK /\ Triangular /\ UNCHANGED <<a0, b0>>
  BY HandedOver DEF CallInv, eliminationVars
<1>1. CASE LoadRow(th)
  <2>1. Active(th) /\ ti[th] \in Row /\ tj[th] \in Col
    BY <1>0, <1>1 DEF LoadRow, Active, BackTypeOK, Row
  <2>2. Form(tj[th], ti[th]) /\ b[ti[th]][tj[th]] \in Fin /\ a[ti[th]] \in Vector
    BY <1>0, <2>1 DEF ColumnsInv, ThreadForm, FiniteB, Triangular, FiniteA, Vector
  <2>3. /\ tk'[th] = InnerLoop(ti[th]) /\ tt'[th] = b[ti[th]][tj[th]]
        /\ tpc'[th] = "inner" /\ UNCHANGED <<ti, tj, b, a, region, pending>>
    BY <1>0, <1>1 DEF LoadRow, BackTypeOK
  <2>4. Accumulated(th)'
    <3>1. InnerLoop(ti[th]) \ InnerLoop(ti[th]) = {}
      OBVIOUS
    <3>2. \A x \in Vector :
            Add(b[ti[th]][tj[th]], DotOver({}, a[ti[th]], x)) = b[ti[th]][tj[th]]
      BY <2>2, DotTerms, FinExact
    <3>3. InnerLoop(ti[th])' \ tk'[th] = {}
      BY <2>3, <3>1
    <3> HIDE DEF InnerLoop
    <3>4. \A x \in Vector :
            Add(tt'[th], DotOver(InnerLoop(ti[th])' \ tk'[th], a'[ti'[th]], x))
              = b'[ti'[th]][tj'[th]]
      BY <2>3, <3>2, <3>3
    <3> QED
      BY <3>4 DEF Accumulated
  <2>5. Form(tj[th], ti[th])'
    BY <1>0, <2>2, <2>3 DEF Form, Rest
  <2>6. ThreadForm(th)'
    BY <2>2, <2>3, <2>4, <2>5 DEF ThreadForm
  <2>7. \A o \in Threads : Active(o)' <=> Active(o)
    BY <1>0, <1>1 DEF LoadRow, Active, BackTypeOK
  <2> QED
    BY <1>0, <1>1, <2>3, <2>6, <2>7, QuietColumns DEF LoadRow, BackTypeOK
<1>2. CASE Inner(th)
  <2>1. /\ Active(th) /\ ti[th] \in Row /\ tj[th] \in Col /\ tpc[th] = "inner"
        /\ UNCHANGED <<ti, tj, b, a, region, pending, tpc>>
    BY <1>0, <1>2 DEF Inner, Active, BackTypeOK
  <2>2. /\ Form(tj[th], ti[th]) /\ tk[th] \subseteq InnerLoop(ti[th])
        /\ tt[th] \in Fin /\ Accumulated(th) /\ a[ti[th]] \in Vector
    BY <1>0, <2>1 DEF ColumnsInv, ThreadForm, Triangular, FiniteA, Vector
  <2>3. PICK c \in tk[th] :
          /\ tt'[th] = Sub(tt[th], Mul(a[ti[th]][c], b[c][tj[th]]))
          /\ tk'[th] = tk[th] \ {c}
    BY <1>0, <1>2 DEF Inner, BackTypeOK
  <2>4. c \in Row /\ c > ti[th] /\ c \in InnerLoop(ti[th])
    BY <2>1, <2>2, <2>3 DEF Row
  <2>5. tt'[th] \in Fin
    <3>1. a[ti[th]][c] \in Fin /\ b[c][tj[th]] \in Fin
      BY <1>0, <2>1, <2>4 DEF ColumnsInv, Triangular, FiniteA, FiniteB
    <3> QED
      BY <2>2, <2>3, <3>1, FinClosed
  <2>6. Accumulated(th)'
    <3> DEFINE S == InnerLoop(ti[th]) \ tk[th]
    <3>1. S \in SUBSET Row /\ c \in Row \ S
      BY <2>1, <2>3, <2>4 DEF Row
    <3>2. InnerLoop(ti[th]) \ tk'[th] = S \cup {c}
      BY <2>3, <2>4
    <3> HIDE DEF InnerLoop
    <3>3. ASSUME NEW x \in Vector, \A r \in Row : r > ti[th] => x[r] = b[r][tj[th]]
          PROVE  Add(tt'[th], DotOver(S \cup {c}, a[ti[th]], x)) = b[ti[th]][tj[th]]
      <4>1. Add(tt[th], DotOver(S, a[ti[th]], x)) = b[ti[th]][tj[th]]
        BY <2>2, <3>3 DEF Accumulated
      <4>2. x[c] = b[c][tj[th]]
        BY <2>4, <3>3
      <4>3. Add(Sub(tt[th], Mul(a[ti[th]][c], x[c])), DotOver(S \cup {c}, a[ti[th]], x))
              = Add(tt[th], DotOver(S, a[ti[th]], x))
        <5> HIDE DEF S
        <5> QED
          BY <2>2, <3>1, OneMoreTerm
      <4> QED
        BY <2>3, <4>1, <4>2, <4>3
    <3>4. InnerLoop(ti[th])' = InnerLoop(ti[th])
      BY <2>1 DEF InnerLoop
    <3> QED
      BY <2>1, <3>2, <3>3, <3>4 DEF Accumulated
  <2>7. Form(tj[th], ti[th])'
    BY <1>0, <2>1, <2>2 DEF Form, Rest
  <2>8. ThreadForm(th)'
    BY <2>1, <2>2, <2>3, <2>5, <2>6, <2>7 DEF ThreadForm
  <2>9. \A o \in Threads : Active(o)' <=> Active(o)
    BY <2>1 DEF Active
  <2> QED
    BY <1>0, <1>2, <2>1, <2>8, <2>9, QuietColumns DEF Inner, BackTypeOK
<1>3. CASE Test(th)
  <2>1. /\ Active(th) /\ tpc[th] = "inner" /\ tk[th] = {} /\ tpc'[th] = "store"
        /\ UNCHANGED <<ti, tj, tk, tt, b, a, region, pending>>
    BY <1>0, <1>3 DEF Test, Active, BackTypeOK
  <2>2. Form(tj[th], ti[th]) /\ tt[th] \in Fin /\ Accumulated(th)
    BY <2>1 DEF ColumnsInv, ThreadForm
  <2>3. Form(tj[th], ti[th])' /\ Accumulated(th)'
    BY <1>0, <2>1, <2>2 DEF Form, Rest, Accumulated
  <2>4. ThreadForm(th)'
    BY <2>1, <2>2, <2>3 DEF ThreadForm
  <2>5. \A o \in Threads : Active(o)' <=> Active(o)
    BY <1>0, <1>3 DEF Test, Active, BackTypeOK
  <2> QED
    BY <1>0, <1>3, <2>1, <2>4, <2>5, QuietColumns DEF Test, BackTypeOK
<1>4. CASE Arrive(th)
  <2>1. ~Active(th) /\ \A o \in Threads : Active(o)' <=> Active(o)
    BY <1>0, <1>4 DEF Arrive, Active, BackTypeOK
  <2> QED
    BY <1>0, <1>4, <2>1, QuietColumns DEF Arrive, BackTypeOK
<1> QED
  BY <1>1, <1>2, <1>3, <1>4

\* Storing the quotient solves one more row of the thread's column.
LEMMA StoreColumns ==
  ASSUME CallInv, pc = "eliminated", ~TinyPivot, ColumnsInv, NEW th \in Threads,
         Store(th), UNCHANGED eliminationVars
  PROVE  ColumnsInv'
<1> USE DEF InnerLoop, NextRow
<1> DEFINE w == ti[th]
           c == tj[th]
           q == Div(tt[th], a[w][w])
<1>0. BackTypeOK /\ Triangular /\ OneThreadPerColumn /\ UNCHANGED <<a, a0, b0>>
  BY HandedOver DEF CallInv, eliminationVars, Store
<1>1. Active(th) /\ w \in Row /\ c \in Col
  BY <1>0 DEF Store, Active, BackTypeOK
<1>2. /\ Form(c, w) /\ tk[th] = {} /\ tt[th] \in Fin /\ Accumulated(th)
      /\ a[w] \in Vector /\ ~Tiny(a[w][w]) /\ a[w][w] \in Fin
  BY <1>0, <1>1 DEF Store, ColumnsInv, ThreadForm, Triangular, FiniteA, Vector, TinyPivot
<1>3. q \in Fin
  BY <1>2, FinClosed
<1>4. /\ tpc'[th] = "row" /\ ti'[th] = w - 1 /\ tj' = tj
      /\ b' = [b EXCEPT ![w][c] = q]
      /\ UNCHANGED <<region, pending>>
  BY <1>0 DEF Store, BackTypeOK
<1>5. /\ b' \in FiniteB /\ b'[w][c] = q
      /\ \A r \in Row, d \in Col : (r # w \/ d # c) => b'[r][d] = b[r][d]
  BY <1>1, <1>3, <1>4 DEF ColumnsInv, FiniteB
<1>6. ThreadForm(th)'
  <2>1. InnerLoop(w) \ {} = (w + 1) .. (N - 1)
    OBVIOUS
  <2>2. ASSUME NEW x \in Vector
        PROVE  Rest(a, b, c, w, x) <=> Rest(a, b', c, w - 1, x)
    <3>1. \A y \in Vector : (\A r \in Row : r > w => y[r] = b[r][c]) =>
            Add(tt[th], DotOver((w + 1) .. (N - 1), a[w], y)) = b[w][c]
      BY <1>2, <2>1 DEF Accumulated
    <3>2. \A d \in Row : d < w => a[w][d] = Zero
      BY <1>0, <1>1 DEF Triangular
    <3>3. a \in FiniteA /\ b \in FiniteB
      BY <1>0 DEF ColumnsInv, Triangular
    <3>4. b'[w][c] = Div(tt[th], a[w][w]) /\ \A r \in Row \ {w} : b'[r][c] = b[r][c]
      BY <1>1, <1>5
    <3> HIDE DEF w, c, q, InnerLoop
    <3> QED
      BY <1>1, <1>2, <3>1, <3>2, <3>3, <3>4, SolvedRow, SMTT(60)
  <2>3. Form(tj[th], ti[th])'
    <3> HIDE DEF w, c, q, InnerLoop
    <3>1. \A x \in Vector : Solves(a0, b0, c, x) <=> Rest(a, b', c, w - 1, x)
      BY <1>2, <2>2 DEF Form
    <3> QED
      BY <1>0, <1>4, <3>1 DEF Form, Rest, w, c
  <2> QED
    BY <1>4, <2>3 DEF ThreadForm
<1>7. ASSUME NEW d \in Col, d # c, NEW m, Form(d, m) PROVE Form(d, m)'
  BY <1>0, <1>5, <1>7, FormKept
<1>8. \A o \in Threads : Active(o)' <=> Active(o)
  BY <1>0 DEF Store, Active, BackTypeOK
<1>9. \A d \in Col : Solved(d)' <=> Solved(d)
  BY <1>4, <1>8 DEF Solved, Owned
<1>10. ASSUME NEW o \in Threads, Active(o), o # th PROVE ThreadForm(o)'
  <2>1. tj[o] # c /\ tj[o] \in Col /\ ti[o] \in Int
    BY <1>0, <1>1, <1>10, SizeAssumption DEF OneThreadPerColumn, BackTypeOK
  <2>2. \A r \in Row : b'[r][tj[o]] = b[r][tj[o]]
    BY <1>5, <2>1
  <2>3. ThreadForm(o)
    BY <1>10 DEF ColumnsInv
  <2>4. /\ tpc'[o] = tpc[o] /\ tj'[o] = tj[o] /\ ti'[o] = ti[o]
        /\ tk'[o] = tk[o] /\ tt'[o] = tt[o]
        /\ tpc[o] \in {"inner", "store"} => ti[o] \in Row
    BY <1>0, <1>10 DEF Store, BackTypeOK
  <2> QED
    BY <1>0, <2>1, <2>2, <2>3, <2>4, ThreadFormKept
<1>11. \A d \in Col : d \in pending \/ Solved(d) => d # c
  BY <1>0, <1>1 DEF OneThreadPerColumn, Solved, Owned
<1>12. pending \subseteq Col
  BY <1>0 DEF BackTypeOK
<1>13. \A d \in pending' : Form(d, N - 1)'
  BY <1>4, <1>7, <1>11, <1>12 DEF ColumnsInv
<1>14. \A d \in Col : Solved(d)' => Form(d, -1)'
  BY <1>7, <1>9, <1>11 DEF ColumnsInv
<1> QED
  BY <1>5, <1>6, <1>8, <1>10, <1>13, <1>14 DEF ColumnsInv

\* When the i loop is over all rows of the column are solved.
LEMMA DoneColumns ==
  ASSUME CallInv, ColumnsInv, NEW th \in Threads, ColumnDone(th),
         UNCHANGED eliminationVars
  PROVE  ColumnsInv'
<1>0. BackTypeOK /\ UNCHANGED <<a, a0, b0, b>>
  BY DEF CallInv, eliminationVars, ColumnDone
<1>1. Active(th) /\ ~Active(th)' /\ tj[th] \in Col /\ ti[th] = -1
  BY <1>0 DEF ColumnDone, Active, BackTypeOK
<1>2. Form(tj[th], -1)
  BY <1>1 DEF ColumnsInv, ThreadForm
<1>3. \A o \in Threads \ {th} : Active(o)' <=> Active(o)
  BY <1>0 DEF ColumnDone, Active, BackTypeOK
<1>4. \A d \in Col : Solved(d)' => Solved(d) \/ d = tj[th]
  BY <1>1, <1>3 DEF Solved, Owned, ColumnDone
<1>5. ASSUME NEW d, NEW m, Form(d, m) PROVE Form(d, m)'
  BY <1>0, <1>5, FormKept
<1>6. ASSUME NEW o \in Threads, Active(o)' PROVE ThreadForm(o)'
  <2>1. o # th /\ Active(o)
    BY <1>1, <1>3, <1>6
  <2>2. ThreadForm(o)
    BY <2>1 DEF ColumnsInv
  <2>3. ti[o] \in Int /\ (tpc[o] \in {"inner", "store"} => ti[o] \in Row)
    BY <1>0, SizeAssumption DEF BackTypeOK, Row
  <2> QED
    BY <1>0, <2>1, <2>2, <2>3, ThreadFormKept DEF ColumnDone, BackTypeOK
<1>7. \A d \in Col : Solved(d)' => Form(d, -1)'
  BY <1>2, <1>4, <1>5 DEF ColumnsInv
<1>8. b' \in FiniteB /\ \A d \in pending' : Form(d, N - 1)'
  BY <1>0, <1>5 DEF ColumnsInv, ColumnDone
<1> QED
  BY <1>6, <1>7, <1>8 DEF ColumnsInv

\* Leaving the region changes nothing.
LEMMA JoinColumns ==
  ASSUME CallInv, ColumnsInv, Join, UNCHANGED eliminationVars
  PROVE  ColumnsInv'
<1>0. UNCHANGED <<a, a0, b0, b, pending>> /\ region # "before" /\ region' # "before"
  BY DEF eliminationVars, Join
<1>1. \A o \in Threads : ~Active(o) /\ ~Active(o)'
  BY DEF Join, threadVars, Active
<1>2. \A d \in Col : Solved(d)' <=> Solved(d)
  BY <1>0, <1>1 DEF Solved, Owned
<1>3. ASSUME NEW d, NEW m, Form(d, m) PROVE Form(d, m)'
  BY <1>0, <1>3, FormKept
<1> QED
  BY <1>0, <1>1, <1>2, <1>3 DEF ColumnsInv

-----------------------------------------------------------------------------
\* The elimination keeps the invariant: the team is idle meanwhile.
LEMMA EliminationPhase ==
  ASSUME CallInv, Eliminate
  PROVE  CallInv'
<1> USE DEF MoreColumns
<1>1. /\ ElimTypeOK /\ PivotInv /\ PivotsNotTiny /\ Echelon /\ KernelKept
      /\ [ElimNext \/ ElimFinished]_elimVars /\ UNCHANGED regionVars
  BY DEF CallInv, Eliminate
<1>2. pc # "eliminated" /\ pc # "returned"
  BY DEF Eliminate, ElimNext, StartColumn, EndElimination, Scan, Swap, Singular,
         PivotAccepted, EliminateRow, EndColumn
<1>3. /\ region = "before" /\ StaysFinite /\ SolutionsPreserved /\ error_flag = 0
      /\ ret = Running /\ BackTypeOK /\ TeamInv
  BY <1>2 DEF CallInv
<1>4. ElimTypeOK'
  BY <1>1, ElimTypeStep
<1>5. PivotsNotTiny'
  BY <1>1, PivotsStep
<1>6. StaysFinite'
  BY <1>1, <1>3, FiniteStep
<1>7. Echelon'
  BY <1>1, <1>3, EchelonStep
<1>8. SolutionsPreserved'
  BY <1>1, <1>3, SolutionsStep
<1>9. UNCHANGED <<bIn, error_flag, region, pending, tpc, tj, ti, tk, tt>>
  BY <1>1 DEF regionVars
<1>10. \A th \in Threads : tpc[th] = "idle"
  BY <1>3 DEF TeamInv
<1>11. \A th \in Threads : ~Active(th)'
  BY <1>9, <1>10 DEF Active
<1>12. BackTypeOK'
  BY <1>3, <1>4, <1>9 DEF BackTypeOK, ElimTypeOK, Active
<1>13. OneThreadPerColumn'
  BY <1>11 DEF OneThreadPerColumn
<1>14. TeamInv'
  BY <1>3, <1>9 DEF TeamInv
<1>15. FlagInv'
  BY <1>3, <1>9, <1>11 DEF FlagInv, Solved
<1>16. ret' = IF pc' = "returned" THEN -1 ELSE Running
  BY <1>2, <1>3 DEF Eliminate, ElimNext, StartColumn, EndElimination, Scan, Swap,
                    Singular, PivotAccepted, EliminateRow, EndColumn
<1>17. pc' = "eliminated" => k' >= N - 1
  BY <1>2, SizeAssumption
     DEF Eliminate, ElimNext, StartColumn, EndElimination, Scan, Swap, Singular,
         PivotAccepted, EliminateRow, EndColumn, CallInv, ElimTypeOK
<1>18. a' \in FiniteA
  BY <1>6 DEF StaysFinite, FiniteA
<1>19. region' = "before" /\ error_flag' = 0
  BY <1>3, <1>9
<1>20. PivotInv' /\ KernelKept'
  BY <1>1, <1>3, PivotStep, KernelStep
<1>21. pc' = "returned" => Tiny(a[k][k])'
  BY <1>2 DEF Eliminate, ElimNext, StartColumn, EndElimination, Scan, Swap, Singular,
              PivotAccepted, EliminateRow, EndColumn, Refused
<1> QED
  BY <1>4, <1>5, <1>6, <1>7, <1>8, <1>12, <1>13, <1>14, <1>15, <1>16, <1>17, <1>18,
     <1>19, <1>20, <1>21 DEF CallInv

\* Back substitution keeps the invariant.
LEMMA BackPhase ==
  ASSUME CallInv, BackSubstitute
  PROVE  CallInv'
<1>1. /\ BackTypeOK /\ OneThreadPerColumn /\ TeamInv /\ FlagInv /\ ElimTypeOK
      /\ pc = "eliminated" /\ BackNext /\ [BackNext \/ BackReturned]_backVars
      /\ UNCHANGED eliminationVars
  BY DEF CallInv, BackSubstitute, Later
<1>2. BackTypeOK' /\ OneThreadPerColumn' /\ TeamInv' /\ FlagInv'
  BY <1>1, BackTypeStep, OneThreadStep, TeamStep, FlagStep
<1>3. a' = a
  BY <1>1 DEF BackNext, Step, Fork, Fetch, Arrive, LoadRow, ColumnDone, Inner, Test,
              Store, Join
<1>4. UNCHANGED <<a0, b0, k, i, maxIndex, maxVal, pc>>
  BY <1>1 DEF eliminationVars
<1>5. ElimTypeOK'
  BY <1>1, <1>2, <1>3, <1>4 DEF ElimTypeOK, BackTypeOK
<1>6. /\ PivotsNotTiny' /\ Echelon' /\ a' \in FiniteA /\ k' >= N - 1
      /\ PivotInv' /\ KernelKept' /\ pc' # "returned"
  BY <1>1, <1>3, <1>4 DEF CallInv, PivotsNotTiny, Echelon, PivotInv, PivotDominates,
                          KernelKept
<1>7. region' # "before" /\ (region' = "parallel" => ret' = Running)
  <2>1. CASE Fork
    BY <1>1, <2>1 DEF Fork, CallInv
  <2>2. CASE Join
    BY <2>2 DEF Join
  <2>3. ASSUME NEW th \in Threads, Step(th)
        PROVE  region # "before" /\ UNCHANGED <<region, ret>>
    <3>1. tpc[th] # "idle"
      BY <2>3 DEF Step, Fetch, Arrive, LoadRow, ColumnDone, Inner, Test, Store
    <3>2. UNCHANGED <<region, ret>>
      BY <2>3 DEF Step, Fetch, Arrive, LoadRow, ColumnDone, Inner, Test, Store
    <3> QED
      BY <1>1, <3>1, <3>2 DEF TeamInv
  <2> QED
    BY <1>1, <2>1, <2>2, <2>3 DEF BackNext, CallInv
<1>8. ASSUME ~TinyPivot' PROVE ColumnsInv'
  <2>1. ~TinyPivot
    BY <1>3, <1>8 DEF TinyPivot
  <2>2. CASE Fork
    BY <1>1, <2>2, ForkColumns
  <2>3. region # "before" => ColumnsInv
    BY <2>1 DEF CallInv
  <2>4. CASE Join
    BY <1>1, <2>3, <2>4, JoinColumns DEF Join
  <2>5. ASSUME NEW th \in Threads, Step(th) PROVE ColumnsInv'
    <3>1. ColumnsInv
      <4>1. tpc[th] # "idle"
        BY <2>5 DEF Step, Fetch, Arrive, LoadRow, ColumnDone, Inner, Test, Store
      <4> QED
        BY <1>1, <2>3, <4>1 DEF TeamInv
    <3> QED
      BY <1>1, <2>1, <2>5, <3>1, FetchColumns, BodyColumns, StoreColumns, DoneColumns
         DEF Step
  <2> QED
    BY <1>1, <2>2, <2>4, <2>5 DEF BackNext
<1> QED
  BY <1>1, <1>2, <1>4, <1>5, <1>6, <1>7, <1>8 DEF CallInv

\* The state my_dgesv is entered in, but for its arguments.
Fresh ==
  /\ k = 0 /\ i = 0 /\ maxIndex = 0 /\ maxVal = Zero
  /\ pc = "column" /\ ret = Running
  /\ bIn \in MatrixB /\ error_flag = 0 /\ region = "before" /\ pending = {}
  /\ tpc = [th \in Threads |-> "idle"]
  /\ tj = [th \in Threads |-> 0] /\ ti = [th \in Threads |-> 0]
  /\ tk = [th \in Threads |-> {}] /\ tt = [th \in Threads |-> Zero]

Entered == Fresh /\ a \in InputA /\ b \in InputB /\ a0 = a /\ b0 = b

\* The invariant holds when my_dgesv is entered.
LEMMA EntryInv == Entered => CallInv
<1> SUFFICES ASSUME Entered PROVE CallInv
  OBVIOUS
<1> USE SizeAssumption, NumClosed, InputAssumption, ExactCall DEF Entered, Fresh
<1>1. ElimTypeOK
  BY DEF ElimTypeOK, Running
<1>2. BackTypeOK
  BY DEF BackTypeOK, Active, Running
<1>3. OneThreadPerColumn /\ TeamInv /\ FlagInv
  BY DEF OneThreadPerColumn, TeamInv, FlagInv, Active, Solved
<1>4. /\ PivotsNotTiny /\ Echelon /\ StaysFinite /\ SolutionsPreserved
      /\ PivotInv /\ KernelKept
  BY DEF PivotsNotTiny, Echelon, StaysFinite, SolutionsPreserved, Row, PivotInv,
         PivotDominates, KernelKept
<1>5. a \in FiniteA
  BY <1>4 DEF StaysFinite, FiniteA
<1> QED
  BY <1>1, <1>2, <1>3, <1>4, <1>5 DEF CallInv

\* The invariant does not depend on anything but my_dgesv's variables.
LEMMA StutterInv ==
  ASSUME CallInv, UNCHANGED vars
  PROVE  CallInv'
<1>1. UNCHANGED <<a, b, ret, a0, b0, k, i, maxIndex, maxVal, pc, bIn, error_flag,
                  region, pending, tpc, tj, ti, tk, tt>>
  BY DEF vars, eliminationVars, regionVars
<1>2. /\ ElimTypeOK' = ElimTypeOK /\ BackTypeOK' = BackTypeOK
      /\ OneThreadPerColumn' = OneThreadPerColumn /\ TeamInv' = TeamInv
      /\ FlagInv' = FlagInv /\ PivotsNotTiny' = PivotsNotTiny
      /\ Echelon' = Echelon /\ StaysFinite' = StaysFinite
      /\ SolutionsPreserved' = SolutionsPreserved /\ TinyPivot' = TinyPivot
      /\ ColumnsInv' = ColumnsInv /\ PivotInv' = PivotInv /\ KernelKept' = KernelKept
  BY <1>1 DEF ElimTypeOK, BackTypeOK, OneThreadPerColumn, TeamInv, FlagInv,
              PivotsNotTiny, Echelon, StaysFinite, SolutionsPreserved, TinyPivot,
              ColumnsInv, Solved, Owned, Active, Tested, Form, Rest, ThreadForm,
              Accumulated, Solves, PivotInv, PivotDominates, KernelKept
<1> QED
  BY <1>1, <1>2 DEF CallInv

\* The invariant at a return of 0.
LEMMA ReturnInv ==
  ASSUME CallInv, ret = 0, NEW c \in Col
  PROVE  /\ Column(b, c) \in Vector
         /\ \A x \in Vector : Solves(a0, b0, c, x) <=> x = Column(b, c)
<1>1. region = "after" /\ BackTypeOK /\ TeamInv /\ FlagInv
  BY DEF CallInv, BackTypeOK, Running
<1>2. Solved(c)
  BY <1>1, AllSolved DEF TeamInv
<1>3. ~TinyPivot
  BY <1>1, <1>2 DEF FlagInv
<1>4. Form(c, -1) /\ b \in FiniteB
  BY <1>1, <1>2, <1>3 DEF CallInv, ColumnsInv
<1>5. ASSUME NEW x \in Vector
      PROVE  Solves(a0, b0, c, x) <=> \A r \in Row : x[r] = b[r][c]
  <2>1. \A r \in Row : r > -1
    BY SizeAssumption DEF Row
  <2> QED
    BY <1>4, <2>1 DEF Form, Rest
<1>6. ASSUME NEW x \in Vector
      PROVE  (\A r \in Row : x[r] = b[r][c]) <=> x = Column(b, c)
  BY DEF Column, Vector
<1>7. Column(b, c) \in Vector
  BY <1>4 DEF Column, Vector, FiniteB
<1> QED
  BY <1>5, <1>6, <1>7

\* The invariant holds in every state of the call.
LEMMA CallEntered == Init => CallInv
BY EntryInv, InputAssumption DEF Init, ElimInit, BackInit, Fresh, Entered

LEMMA CallStep == CallInv /\ [Next]_vars => CallInv'
BY EliminationPhase, BackPhase, StutterInv DEF Next, Returned

\* my_dgesv returns 0 only with the solution of the call's system in b
\* (lines 6-70), for any team and schedule, and the solution is unique.
THEOREM ReturnsTheSolution == Spec => []ZeroMeansSolved
<1>1. CallInv => ZeroMeansSolved
  BY ReturnInv DEF ZeroMeansSolved
<1> QED
  BY <1>1, CallEntered, CallStep, PTL DEF Spec

-----------------------------------------------------------------------------
(* my_dgesv implements LinearSolver. *)

\* A return of 0 with a right-hand side: the matrix was regular.
LEMMA ZeroMeansRegular ==
  ASSUME CallInv, ret = 0, Col # {}
  PROVE  ~IsSingular(a0)
<1>1. region = "after" /\ BackTypeOK /\ TeamInv /\ FlagInv
  BY DEF CallInv, BackTypeOK, Running
<1>2. ~TinyPivot
  BY <1>1, AllSolved DEF TeamInv, FlagInv
<1>3. Triangular /\ a \in FiniteA
  BY <1>1, HandedOver DEF CallInv
<1>4. N \in 0 .. N /\ \A r \in Row : r < N /\ ~(r >= N)
  BY SizeAssumption DEF Row
<1>5. ASSUME NEW v \in Vector, \A r \in Row : Dot(a0[r], v) = Zero
      PROVE  \A c \in Row : v[c] = Zero
  <2>1. Annuls(a, N, v)
    BY <1>5 DEF CallInv, KernelKept, Annuls
  <2> QED
    BY <1>2, <1>3, <1>4, <2>1, OnlyZero DEF TinyPivot, Triangular
<1> QED
  BY <1>5 DEF IsSingular

\* What the result tells of the matrix and of b.
Outcome ==
  /\ ret = 0 => /\ Col # {} => ~IsSingular(a0)
                /\ b \in FiniteB
                /\ \A c \in Col : Solves(a0, b0, c, Column(b, c))
  /\ ret = -1 => IsSingular(a0) \/ TakenForZero(a)

LEMMA Outcomes == CallInv => Outcome
<1> SUFFICES ASSUME CallInv PROVE Outcome
  OBVIOUS
<1>1. ASSUME ret = 0 PROVE b \in FiniteB
  <2>1. CASE Col = {}
    BY <2>1 DEF CallInv, BackTypeOK, MatrixB, FiniteB
  <2>2. CASE Col # {}
    <3>1. region = "after" /\ BackTypeOK /\ TeamInv /\ FlagInv
      BY <1>1 DEF CallInv, BackTypeOK, Running
    <3>2. ~TinyPivot
      BY <1>1, <2>2, <3>1, AllSolved DEF TeamInv, FlagInv
    <3> QED
      BY <3>1, <3>2 DEF CallInv, ColumnsInv
  <2> QED
    BY <2>1, <2>2
<1>2. ASSUME ret = -1, ~TakenForZero(a) PROVE IsSingular(a0)
  <2>1. CASE region = "before"
    <3>1. pc = "returned" /\ StaysFinite /\ Tiny(a[k][k])
      BY <1>2, <2>1 DEF CallInv, Running
    <3>2. k \in Row
      BY <3>1, SizeAssumption DEF CallInv, ElimTypeOK, Row
    <3>3. a[k][k] = Zero
      BY <1>2, <3>1, <3>2 DEF TakenForZero
    <3> QED
      BY <3>1, <3>3, ZeroPivot DEF CallInv
  <2>2. CASE region # "before"
    <3>1. /\ region = "after" /\ FlagInv /\ pc = "eliminated" /\ Triangular
          /\ a \in FiniteA
      BY <1>2, <2>2, HandedOver DEF CallInv, BackTypeOK, Running
    <3>2. PICK w \in Row : Tiny(a[w][w])
      BY <1>2, <3>1 DEF FlagInv, TinyPivot
    <3>3. w = N - 1 /\ \A c \in Row : c < w => ~Tiny(a[c][c])
      BY <3>1, <3>2, SizeAssumption DEF CallInv, PivotsNotTiny, Row
    <3>4. a[w][w] = Zero
      BY <1>2, <3>2 DEF TakenForZero
    <3>5. \A r \in Row : w <= r => a[r][w] = Zero
      BY <3>3, <3>4, SizeAssumption DEF Row
    <3>6. w \in Int /\ w < N /\ N \in Int
      BY <3>3, SizeAssumption
    <3>7. \A r, c \in Row : c < w /\ c < r => a[r][c] = Zero
      BY <3>1 DEF Triangular
    <3>8. PICK v \in Vector : v[w] # Zero /\ Annuls(a, N, v)
      BY <3>1, <3>3, <3>5, <3>6, <3>7, ZeroColumn
    <3> QED
      BY <3>8, SingularCall DEF CallInv
  <2> QED
    BY <2>1, <2>2
<1> QED
  BY <1>1, <1>2, ReturnInv, ZeroMeansRegular DEF Outcome

LEMMA NextOutcome == CallInv' => Outcome'
BY Outcomes, PTL

\* Only a call that has not returned takes a step.
LEMMA StepsWhileRunning ==
  ASSUME CallInv, Eliminate \/ BackSubstitute
  PROVE  ret = Running /\ UNCHANGED <<a0, b0>>
<1>1. CASE Eliminate
  <2>1. pc # "eliminated" /\ pc # "returned" /\ UNCHANGED <<a0, b0>>
    BY <1>1 DEF Eliminate, ElimNext, StartColumn, EndElimination, Scan, Swap, Singular,
                PivotAccepted, EliminateRow, EndColumn
  <2> QED
    BY <2>1 DEF CallInv
<1>2. CASE BackSubstitute
  <2>1. BackNext /\ pc = "eliminated" /\ UNCHANGED <<a0, b0>>
    BY <1>2 DEF BackSubstitute, Later, eliminationVars
  <2>2. region # "after"
    <3>1. ASSUME NEW th \in Threads, Step(th) PROVE tpc[th] # "barrier"
      BY <3>1 DEF Step, Fetch, Arrive, LoadRow, ColumnDone, Inner, Test, Store
    <3> QED
      BY <2>1, <3>1 DEF BackNext, Fork, Join, CallInv, TeamInv
  <2> QED
    BY <2>1, <2>2 DEF CallInv, BackTypeOK
<1> QED
  BY <1>1, <1>2

\* Without the fairness: every step of the call is one that LinearSolver allows.
LEMMA StepsRefine == Init /\ [][Next]_vars => SolvesOrGivesUp
<1> USE DEF Caller!Row, Caller!Col, Caller!MatrixB, Caller!Running, Caller!Vector,
            Caller!Dot, Caller!Solves, Caller!Column, Caller!IsSingular, Caller!Tiny,
            Row, Col, MatrixB, Vector, Dot, Solves, Column, IsSingular, Tiny
<1>1. Init => Caller!Init
  BY DEF Init, ElimInit, Caller!Init, Running
<1>2. CallInv /\ CallInv' /\ [Next]_vars => [Caller!Next]_(Caller!vars)
  <2> SUFFICES ASSUME CallInv, CallInv', [Next]_vars PROVE [Caller!Next]_(Caller!vars)
    OBVIOUS
  <2>1. CASE Eliminate \/ BackSubstitute
    <3>1. ret = Running /\ UNCHANGED <<a0, b0>>
      BY <2>1, StepsWhileRunning
    <3>2. ret' \in {-1, 0, Running} /\ b' \in MatrixB
      BY DEF CallInv, ElimTypeOK
    <3>3. CASE ret' = Running
      BY <3>1, <3>3 DEF Caller!vars
    <3>4. CASE ret' = 0
      BY <3>1, <3>4, NextOutcome DEF Outcome, FiniteB, Caller!Next, Caller!Solve, Running
    <3>5. CASE ret' = -1
      <4>1. \A r \in 0 .. (N - 1) : a'[r][r] \in Fin
        BY DEF CallInv, FiniteA
      <4>2. Caller!ZeroThreshold => IsSingular(a0)
        BY <3>1, <3>5, <4>1, NextOutcome DEF Outcome, TakenForZero, Caller!ZeroThreshold
      <4> QED
        BY <3>1, <3>2, <3>5, <4>2 DEF Caller!Next, Caller!GiveUp, Running
    <3> QED
      BY <3>2, <3>3, <3>4, <3>5
  <2>2. CASE UNCHANGED vars
    BY <2>2 DEF vars, eliminationVars, Caller!vars
  <2> QED
    BY <2>1, <2>2 DEF Next, Returned
<1> QED
  BY <1>1, <1>2, CallEntered, CallStep, PTL DEF SolvesOrGivesUp, Caller!Spec

\* my_dgesv implements LinearSolver (lines 6-70): to its caller the whole
\* computation is one step that solves the system or refuses the matrix.
THEOREM CallRefinesLinearSolver == Spec => SolvesOrGivesUp
BY StepsRefine, PTL DEF Spec

-----------------------------------------------------------------------------
(* The version with the static schedule (dgesv-optimal1.c). *)

Optimal1 == INSTANCE DgesvOptimal1

\* It starts as dgesv.c does, and eliminates as it does.
LEMMA SameElimination ==
  /\ Optimal1!Init => Init
  /\ Optimal1!V!ElimNext => ElimNext
<1> USE DEF Running, Threads, Tiny, Row, Col, Optimal1!V!Running,
            Optimal1!V!Threads, Optimal1!V!Tiny, Optimal1!V!Row, Optimal1!V!Col
<1>1. Optimal1!Init => Init
  BY DEF Optimal1!Init, Init, ElimInit, BackInit, Optimal1!V!Init,
         Optimal1!V!ElimInit, Optimal1!V!BackInit
<1>2. Optimal1!V!ElimNext => ElimNext
  BY DEF ElimNext, StartColumn, FirstCandidate, EndElimination, Scan, Swap, Singular,
         PivotAccepted, EliminateRow, EndColumn, MoreColumns, NewMax, Exchanged,
         SwappedB, NeedsSwap, Refused, LeftAlone, NextColumn,
         Optimal1!V!ElimNext, Optimal1!V!StartColumn, Optimal1!V!FirstCandidate,
         Optimal1!V!EndElimination,
         Optimal1!V!Scan, Optimal1!V!Swap, Optimal1!V!Singular,
         Optimal1!V!PivotAccepted, Optimal1!V!EliminateRow,
         Optimal1!V!EndColumn, Optimal1!V!MoreColumns, Optimal1!V!NewMax,
         Optimal1!V!Exchanged, Optimal1!V!SwappedB, Optimal1!V!NeedsSwap,
         Optimal1!V!Refused, Optimal1!V!LeftAlone, Optimal1!V!NextColumn
<1> QED
  BY <1>1, <1>2

\* Where the columns are dealt out statically, its team does what that of
\* dgesv.c may do.
LEMMA SameTeam ==
  ASSUME \A th \in Threads : Share(th) = Sched!StaticShare(th)
  PROVE  Optimal1!V!BackNext => BackNext
<1> USE DEF Running, Threads, Tiny, Row, Col, Optimal1!V!Running,
            Optimal1!V!Threads, Optimal1!V!Tiny, Optimal1!V!Row, Optimal1!V!Col
<1>1. \A th \in Threads : Optimal1!Static(th) = Share(th)
  BY DEF Optimal1!Static, Sched!StaticShare, Optimal1!Sched!StaticShare,
         Sched!BlockStart, Optimal1!Sched!BlockStart
<1>2. ASSUME NEW th \in Threads PROVE Optimal1!V!Step(th) => Step(th)
  BY <1>1 DEF Step, Fetch, Arrive, LoadRow, ColumnDone, Inner, Test, Store,
              Remaining, InnerLoop, StartInner, Flag, NextRow, Optimal1!V!Step,
              Optimal1!V!Fetch, Optimal1!V!Arrive, Optimal1!V!LoadRow,
              Optimal1!V!ColumnDone, Optimal1!V!Inner, Optimal1!V!Test,
              Optimal1!V!Store, Optimal1!V!Remaining, Optimal1!V!InnerLoop,
              Optimal1!V!StartInner, Optimal1!V!Flag, Optimal1!V!NextRow
<1>3. Optimal1!V!Fork => Fork
  BY DEF Fork, Optimal1!V!Fork
<1>4. Optimal1!V!Join => Join
  BY DEF Join, Result, threadVars, Optimal1!V!Join, Optimal1!V!Result,
         Optimal1!V!threadVars
<1> QED
  BY <1>2, <1>3, <1>4 DEF BackNext, Optimal1!V!BackNext

\* The statically scheduled my_dgesv (dgesv-optimal1.c, lines 6-69) implements
\* LinearSolver as well, whatever the sizes of its team and of the blocks.
THEOREM Optimal1RefinesLinearSolver ==
  ASSUME \A th \in Threads : Share(th) = Sched!StaticShare(th)
  PROVE  Optimal1!Spec => Optimal1!SolvesOrGivesUp
<1>1. [Optimal1!Next]_(Optimal1!vars) => [Next]_vars
  <2>1. Optimal1!Eliminate => Eliminate
    BY SameElimination DEF Optimal1!Eliminate, Eliminate, regionVars, Optimal1!V!Eliminate, Optimal1!V!regionVars
  <2>2. Optimal1!BackSubstitute => BackSubstitute
    BY SameTeam DEF Optimal1!BackSubstitute,
      BackSubstitute, Later, eliminationVars, Optimal1!V!BackSubstitute,
        Optimal1!V!Later, Optimal1!V!eliminationVars
  <2>3. Optimal1!Returned \/ UNCHANGED Optimal1!vars => UNCHANGED vars
    BY DEF Optimal1!Returned, Optimal1!V!Returned, Optimal1!vars,
      vars, eliminationVars, regionVars, Optimal1!V!vars,
        Optimal1!V!eliminationVars, Optimal1!V!regionVars
  <2> QED
    BY <2>1, <2>2, <2>3 DEF Optimal1!Next, Next
<1>2. SolvesOrGivesUp => Optimal1!SolvesOrGivesUp
  <2> USE DEF Caller!Row, Caller!Col, Caller!MatrixB, Caller!Running,
              Caller!Vector, Caller!Dot, Caller!Solves, Caller!Column,
              Caller!IsSingular, Caller!Tiny, Optimal1!V!Caller!Row,
              Optimal1!V!Caller!Col, Optimal1!V!Caller!MatrixB,
              Optimal1!V!Caller!Running, Optimal1!V!Caller!Vector,
              Optimal1!V!Caller!Dot, Optimal1!V!Caller!Solves,
              Optimal1!V!Caller!Column, Optimal1!V!Caller!IsSingular,
              Optimal1!V!Caller!Tiny
  <2>1. Caller!Init => Optimal1!V!Caller!Init
    BY DEF Caller!Init, Optimal1!V!Caller!Init, Running, Optimal1!V!Running
  <2>2. [Caller!Next]_(Caller!vars) => [Optimal1!V!Caller!Next]_(Optimal1!V!Caller!vars)
    BY DEF Caller!Next, Caller!Solve, Caller!GiveUp, Caller!vars, Caller!ZeroThreshold,
           Optimal1!V!Caller!Next, Optimal1!V!Caller!Solve, Optimal1!V!Caller!GiveUp,
           Optimal1!V!Caller!vars, Optimal1!V!Caller!ZeroThreshold,
           Running, Optimal1!V!Running
  <2> QED
    BY <2>1, <2>2, PTL
       DEF SolvesOrGivesUp, Optimal1!SolvesOrGivesUp, Optimal1!V!SolvesOrGivesUp,
           Caller!Spec, Optimal1!V!Caller!Spec
<1> QED
  BY <1>1, <1>2, SameElimination, StepsRefine, PTL DEF Optimal1!Spec

-----------------------------------------------------------------------------
(* The serial loop that ParallelEqualsSerial compares with. *)

\* A triangular system that was not refused has a serial result: the premise
\* IsSerial of SerialResult holds of some matrix and some accumulators, the
\* sums that are left when a set of iterations of the k loop is done (dgesv.c,
\* lines 50-62).
THEOREM SerialLoopExists ==
  ASSUME NEW aa \in FiniteA, NEW bb \in FiniteB, \A w \in Row : ~Tiny(aa[w][w])
  PROVE  \E xx, st : IsSerial(aa, bb, xx, st)
<1> DEFINE Acc0(x, w, c, S) == Sub(bb[w][c], DotOver(S, aa[w], Column(x, c)))
           Value(x, w, c) == Div(Acc0(x, w, c, Above(w)), aa[w][w])
           Good(x, n) == \A w \in Row, c \in Col : w >= N - n => x[w][c] = Value(x, w, c)
           G == {n \in Nat : \E x \in FiniteB : Good(x, n)}
<1>0. /\ Row \subseteq Int /\ Col \subseteq Int
      /\ \A w \in Row : Above(w) \in SUBSET Row
  BY SizeAssumption DEF Row, Col, Above
<1>1. \A x \in FiniteB, c \in Col : Column(x, c) \in Vector
  BY DEF Column, Vector, FiniteB
<1>2. \A w \in Row : aa[w] \in Vector /\ aa[w][w] \in Fin
  BY DEF FiniteA, Vector
<1>3. \A x \in FiniteB, w \in Row, c \in Col, S \in SUBSET Row : Acc0(x, w, c, S) \in Fin
  BY <1>1, <1>2, SumFinite, FinClosed DEF FiniteB
<1>4. \A x \in FiniteB, w \in Row, c \in Col : Value(x, w, c) \in Fin
  BY <1>0, <1>2, <1>3, FinClosed
<1>5. ASSUME NEW x \in FiniteB, NEW y \in FiniteB, NEW w \in Row, NEW c \in Col,
             \A r \in Above(w) : x[r] = y[r]
      PROVE  Value(x, w, c) = Value(y, w, c)
  <2>1. \A r \in Above(w) : Column(x, c)[r] = Column(y, c)[r]
    BY <1>0, <1>5 DEF Column
  <2>2. DotOver(Above(w), aa[w], Column(x, c)) = DotOver(Above(w), aa[w], Column(y, c))
    BY <1>0, <1>1, <1>2, <2>1, SumSame
  <2> QED
    BY <2>2
<1> HIDE DEF Value
<1>6. 0 \in G
  <2>1. Good(bb, 0)
    BY SizeAssumption DEF Row
  <2> QED
    BY <2>1
<1>7. ASSUME NEW n \in Nat, n < N, n \in G PROVE n + 1 \in G
  <2>1. PICK x \in FiniteB : Good(x, n)
    BY <1>7
  <2>2. PICK w \in Row : w = N - (n + 1)
    BY <1>7, SizeAssumption DEF Row
  <2> DEFINE y == [x EXCEPT ![w] = [c \in Col |-> Value(x, w, c)]]
  <2>3. y \in FiniteB /\ y[w] = [c \in Col |-> Value(x, w, c)] /\ \A r \in Row \ {w} : y[r] = x[r]
    BY <1>4 DEF FiniteB
  <2> HIDE DEF y
  <2>4. ASSUME NEW v \in Row, NEW c \in Col, v >= N - (n + 1) PROVE y[v][c] = Value(y, v, c)
    <3>1. v \in Int /\ w \in Int /\ v >= w /\ \A r \in Above(v) : r \in Row \ {w}
      BY <1>0, <2>2, <2>4, SizeAssumption DEF Above, Row
    <3>a. \A r \in Above(v) : x[r] = y[r]
      BY <2>3, <3>1
    <3>2. Value(x, v, c) = Value(y, v, c)
      BY <1>5, <2>3, <3>a
    <3>3. CASE v = w
      BY <2>3, <3>2, <3>3
    <3>4. CASE v # w
      <4>1. v >= N - n
        BY <2>2, <3>1, <3>4, SizeAssumption
      <4> QED
        BY <2>1, <2>3, <3>2, <3>4, <4>1
    <3> QED
      BY <3>3, <3>4
  <2>5. Good(y, n + 1)
    BY <2>4
  <2> QED
    BY <2>3, <2>5
<1>8. N \in G
  <2> HIDE DEF G
  <2> QED
    BY <1>6, <1>7, UpTo, SizeAssumption
<1>9. PICK x \in FiniteB : \A w \in Row, c \in Col : x[w][c] = Value(x, w, c)
  BY <1>8, SizeAssumption DEF Row
<1> DEFINE st == [w \in Row |-> [c \in Col |-> [S \in SUBSET Above(w) |-> Acc0(x, w, c, S)]]]
<1>10. \A w \in Row, c \in Col : \A S \in SUBSET Above(w) : st[w][c][S] = Acc0(x, w, c, S)
  OBVIOUS
<1> HIDE DEF st
<1>11. ASSUME NEW w \in Row, NEW c \in Col
       PROVE  /\ st[w][c][{}] = bb[w][c]
              /\ \A S \in SUBSET Above(w) : \A q \in (Above(w) \ S) \cap Order(w, Above(w) \ S) :
                   st[w][c][S \cup {q}] = Sub(st[w][c][S], Mul(aa[w][q], x[q][c]))
              /\ x[w][c] = Div(st[w][c][Above(w)], aa[w][w])
  <2>1. bb[w][c] \in Fin /\ Zero \in Fin
    BY FinClosed DEF FiniteB
  <2>2. st[w][c][{}] = bb[w][c]
    <3>1. DotOver({}, aa[w], Column(x, c)) = Zero
      BY <1>1, <1>2, DotTerms
    <3>2. Sub(bb[w][c], Zero) \in Fin /\ Add(Sub(bb[w][c], Zero), Zero) = bb[w][c]
      BY <2>1, SubAdd, FinClosed
    <3>3. st[w][c][{}] = Sub(bb[w][c], Zero)
      BY <1>10, <3>1
    <3> QED
      BY <3>2, <3>3, FinAddition
  <2>3. ASSUME NEW S \in SUBSET Above(w), NEW q \in Above(w) \ S
        PROVE  st[w][c][S \cup {q}] = Sub(st[w][c][S], Mul(aa[w][q], x[q][c]))
    <3>1. S \in SUBSET Row /\ q \in Row \ S /\ S \cup {q} \in SUBSET Above(w)
      BY <1>0
    <3>2. Column(x, c)[q] = x[q][c] /\ x[q][c] \in Fin /\ aa[w][q] \in Fin
      BY <3>1 DEF Column, FiniteB, FiniteA
    <3>3. DotOver(S \cup {q}, aa[w], Column(x, c))
            = Add(DotOver(S, aa[w], Column(x, c)), Mul(aa[w][q], x[q][c]))
      BY <1>1, <1>2, <3>1, <3>2, DotTerms
    <3>4. DotOver(S, aa[w], Column(x, c)) \in Fin /\ Mul(aa[w][q], x[q][c]) \in Fin
      BY <1>1, <1>2, <3>1, <3>2, SumFinite, FinClosed
    <3>5. Acc0(x, w, c, S \cup {q}) = Sub(Acc0(x, w, c, S), Mul(aa[w][q], x[q][c]))
      BY <2>1, <3>3, <3>4, SubTwice
    <3> QED
      BY <1>10, <3>1, <3>5
  <2>4. x[w][c] = Div(st[w][c][Above(w)], aa[w][w])
    BY <1>9, <1>10 DEF Value
  <2> QED
    BY <2>2, <2>3, <2>4
<1>12. x \in MatrixB
  BY FinClosed DEF FiniteB, MatrixB
<1>13. IsSerial(aa, bb, x, st)
  BY <1>11, <1>12, Zenon DEF IsSerial
<1> QED
  BY <1>13, Zenon

\* In any arithmetic, with NaN and rounding, a k loop that is compiled as it is
\* written, from k = i + 1 up to n - 1 (dgesv.c, lines 54-56), has a serial
\* result: the premise of OrderedEqualsSerial holds.
THEOREM AscendingLoopExists ==
  ASSUME NEW aa \in MatrixA, NEW bb \in MatrixB,
         \A w, S : \A q \in Order(w, S) : S = q .. (N - 1)
  PROVE  \E xx, st : IsSerial(aa, bb, xx, st)
<1> DEFINE Acc(x, w, c, f) ==
             /\ f[w + 1] = bb[w][c]
             /\ \A q \in Above(w) : f[q + 1] = Sub(f[q], Mul(aa[w][q], x[q][c]))
           Value(x, w, c) == \E f \in [Nat -> Num] : /\ Acc(x, w, c, f)
                                                     /\ x[w][c] = Div(f[N], aa[w][w])
           Good(x, n) == \A w \in Row, c \in Col : w >= N - n => Value(x, w, c)
           G == {n \in Nat : \E x \in MatrixB : Good(x, n)}
<1>0. /\ N \in Nat /\ Row \subseteq Nat /\ \A w \in Row : w < N
      /\ \A w \in Row : \A q \in Above(w) : q \in Row /\ q > w /\ q < N
  BY SizeAssumption DEF Row, Above
<1>1. ASSUME NEW x \in MatrixB, NEW w \in Row, NEW c \in Col
      PROVE  \E f \in [Nat -> Num] : Acc(x, w, c, f)
  <2> DEFINE Part(f, n) == /\ f[w + 1] = bb[w][c]
                           /\ \A q \in Above(w) : q < w + 1 + n =>
                                f[q + 1] = Sub(f[q], Mul(aa[w][q], x[q][c]))
             H == {n \in Nat : \E f \in [Nat -> Num] : Part(f, n)}
  <2>0. w \in Nat /\ N \in Nat /\ \A q \in Above(w) : q \in Nat /\ q > w /\ q < N
    BY <1>0
  <2>1. 0 \in H
    <3> DEFINE f == [n \in Nat |-> bb[w][c]]
    <3>1. f \in [Nat -> Num] /\ w + 1 \in Nat
      BY <1>0 DEF MatrixB
    <3>2. Part(f, 0)
      BY <1>0, <3>1
    <3> QED
      BY <3>1, <3>2
  <2>2. ASSUME NEW n \in Nat, n < N, n \in H PROVE n + 1 \in H
    <3>1. PICK f \in [Nat -> Num] : Part(f, n)
      BY <2>2
    <3> DEFINE p == w + 1 + n
               v == Sub(f[p], Mul(aa[w][p], x[p][c]))
               g == [f EXCEPT ![p + 1] = v]
    <3>2. p \in Nat /\ p >= w + 1 /\ w \in Nat
      BY <1>0
    <3>3. CASE p \in Above(w)
      <4>1. v \in Num
        BY <1>0, <3>2, <3>3, NumClosed DEF MatrixA, MatrixB
      <4>2. g \in [Nat -> Num] /\ g[p + 1] = v /\ \A m \in Nat : m # p + 1 => g[m] = f[m]
        BY <3>2, <4>1
      <4> HIDE DEF g, v
      <4>3. g[w + 1] = bb[w][c]
        BY <3>1, <3>2, <4>2
      <4>4. ASSUME NEW q \in Above(w), q < w + 1 + (n + 1)
            PROVE  g[q + 1] = Sub(g[q], Mul(aa[w][q], x[q][c]))
        <5>0. q \in Nat /\ q <= p
          BY <2>0, <4>4
        <5>1. CASE q = p
          BY <3>2, <4>2, <5>1 DEF v
        <5>2. CASE q # p
          BY <3>1, <3>2, <4>2, <5>0, <5>2
        <5> QED
          BY <5>1, <5>2
      <4>5. Part(g, n + 1)
        BY <4>3, <4>4
      <4> QED
        BY <4>2, <4>5
    <3>4. CASE p \notin Above(w)
      <4>1. \A q \in Above(w) : q < w + 1 + (n + 1) => q < w + 1 + n
        BY <2>0, <3>4
      <4>2. Part(f, n + 1)
        BY <3>1, <4>1
      <4> QED
        BY <4>2
    <3> QED
      BY <3>3, <3>4
  <2>3. N \in H
    <3> HIDE DEF H
    <3>1. \A n \in 0 .. N : n \in H
      BY <2>0, <2>1, <2>2, UpTo, Zenon
    <3> QED
      BY <3>1, SizeAssumption
  <2>4. PICK f \in [Nat -> Num] : Part(f, N)
    BY <2>3
  <2>5. \A q \in Above(w) : q < w + 1 + N
    BY <2>0
  <2>6. Acc(x, w, c, f)
    BY <2>4, <2>5
  <2> QED
    BY <2>6
<1>2. 0 \in G
  <2>1. Good(bb, 0)
    BY <1>0
  <2> QED
    BY <2>1
<1>3. ASSUME NEW n \in Nat, n < N, n \in G PROVE n + 1 \in G
  <2>1. PICK x \in MatrixB : Good(x, n)
    BY <1>3
  <2>2. PICK w \in Row : w = N - (n + 1)
    BY <1>3, SizeAssumption DEF Row
  <2> DEFINE F(c) == CHOOSE f \in [Nat -> Num] : Acc(x, w, c, f)
  <2>3. \A c \in Col : F(c) \in [Nat -> Num] /\ Acc(x, w, c, F(c))
    <3> HIDE DEF Acc
    <3> QED
      BY <1>1
  <2> HIDE DEF F
  <2> DEFINE y == [x EXCEPT ![w] = [c \in Col |-> Div(F(c)[N], aa[w][w])]]
  <2>4. \A c \in Col : Div(F(c)[N], aa[w][w]) \in Num
    BY <1>0, <2>3, NumClosed DEF MatrixA
  <2>5. /\ y \in MatrixB /\ \A c \in Col : y[w][c] = Div(F(c)[N], aa[w][w])
        /\ \A r \in Row \ {w} : y[r] = x[r]
    BY <2>4 DEF MatrixB
  <2> HIDE DEF y
  <2>6. ASSUME NEW v \in Row, NEW c \in Col, v >= N - (n + 1) PROVE Value(y, v, c)
    <3>1. v >= w /\ \A q \in Above(v) : y[q] = x[q]
      BY <1>0, <2>2, <2>5, <2>6
    <3>2. \A f : Acc(x, v, c, f) => Acc(y, v, c, f)
      BY <3>1
    <3>3. CASE v = w
      BY <2>3, <2>5, <3>2, <3>3
    <3>4. CASE v # w
      <4>1. v >= N - n
        BY <1>0, <2>2, <3>1, <3>4
      <4>2. PICK f \in [Nat -> Num] : Acc(x, v, c, f) /\ x[v][c] = Div(f[N], aa[v][v])
        BY <2>1, <4>1
      <4>3. Acc(y, v, c, f) /\ y[v][c] = Div(f[N], aa[v][v])
        BY <2>5, <3>2, <3>4, <4>2
      <4> QED
        BY <4>3
    <3> QED
      BY <3>3, <3>4
  <2>7. Good(y, n + 1)
    BY <2>6
  <2> QED
    BY <2>5, <2>7
<1>4. N \in G
  <2> HIDE DEF G
  <2>1. \A n \in 0 .. N : n \in G
    BY <1>0, <1>2, <1>3, UpTo, Zenon
  <2> QED
    BY <2>1, SizeAssumption
<1>5. PICK x \in MatrixB : \A w \in Row, c \in Col : Value(x, w, c)
  <2> HIDE DEF Value
  <2>1. PICK x \in MatrixB : Good(x, N)
    BY <1>4
  <2>2. \A w \in Row : w >= N - N
    BY <1>0, SizeAssumption
  <2> QED
    BY <2>1, <2>2
<1> DEFINE A(w, c) == CHOOSE f \in [Nat -> Num] : /\ Acc(x, w, c, f)
                                                  /\ x[w][c] = Div(f[N], aa[w][w])
           \* The number of the iteration that follows those in S.
           Following(w, S) == CHOOSE q \in (w + 1) .. N : S = (w + 1) .. (q - 1)
           st == [w \in Row |-> [c \in Col |->
                    [S \in SUBSET Above(w) |-> A(w, c)[Following(w, S)]]]]
<1>6. ASSUME NEW w \in Row, NEW c \in Col
      PROVE  Acc(x, w, c, A(w, c)) /\ x[w][c] = Div(A(w, c)[N], aa[w][w])
  <2> HIDE DEF Acc
  <2> QED
    BY <1>5
<1>7. ASSUME NEW w \in Row, NEW q \in (w + 1) .. N
      PROVE  /\ (w + 1) .. (q - 1) \in SUBSET Above(w)
             /\ Following(w, (w + 1) .. (q - 1)) = q
  <2>0. w \in Nat /\ q \in Nat /\ w < N
    BY <1>0
  <2>1. ASSUME NEW p \in (w + 1) .. N, (w + 1) .. (q - 1) = (w + 1) .. (p - 1)
        PROVE  p = q
    <3>1. CASE p < q
      BY <1>0, <2>0, <2>1, <3>1
    <3>2. CASE q < p
      BY <1>0, <2>0, <2>1, <3>2
    <3> QED
      BY <1>0, <2>0, <3>1, <3>2
  <2>2. (w + 1) .. (q - 1) \in SUBSET Above(w)
    BY <1>0, <2>0 DEF Above
  <2> QED
    BY <2>1, <2>2
<1> HIDE DEF A, Following
<1>8. \A w \in Row, c \in Col : \A S \in SUBSET Above(w) :
        st[w][c][S] = A(w, c)[Following(w, S)]
  OBVIOUS
<1> HIDE DEF st
<1>9. ASSUME NEW w \in Row, NEW c \in Col
      PROVE  /\ st[w][c][{}] = bb[w][c]
             /\ \A S \in SUBSET Above(w) : \A q \in (Above(w) \ S) \cap Order(w, Above(w) \ S) :
                  st[w][c][S \cup {q}] = Sub(st[w][c][S], Mul(aa[w][q], x[q][c]))
             /\ x[w][c] = Div(st[w][c][Above(w)], aa[w][w])
  <2>0. w \in Nat /\ w < N /\ N \in Nat /\ w + 1 \in (w + 1) .. N /\ N \in (w + 1) .. N
    BY <1>0
  <2>1. ASSUME NEW q \in (w + 1) .. N PROVE st[w][c][(w + 1) .. (q - 1)] = A(w, c)[q]
    <3>1. /\ (w + 1) .. (q - 1) \in SUBSET Above(w)
          /\ Following(w, (w + 1) .. (q - 1)) = q
      BY <1>7
    <3> QED
      BY <1>8, <3>1
  <2>2. st[w][c][{}] = bb[w][c]
    <3>1. (w + 1) .. ((w + 1) - 1) = {}
      BY <2>0
    <3> QED
      BY <1>6, <2>0, <2>1, <3>1
  <2>3. x[w][c] = Div(st[w][c][Above(w)], aa[w][w])
    BY <1>6, <2>0, <2>1 DEF Above
  <2>4. ASSUME NEW S \in SUBSET Above(w), NEW q \in (Above(w) \ S) \cap Order(w, Above(w) \ S)
        PROVE  st[w][c][S \cup {q}] = Sub(st[w][c][S], Mul(aa[w][q], x[q][c]))
    <3>1. q \in Nat /\ q \in (w + 1) .. N /\ q + 1 \in (w + 1) .. N /\ q \in Above(w)
      BY <1>0, <2>0
    <3>2. Above(w) \ S = q .. (N - 1)
      OBVIOUS
    <3>3. S = (w + 1) .. (q - 1)
      <4>1. S = Above(w) \ (q .. (N - 1))
        BY <3>2
      <4> QED
        BY <2>0, <3>1, <4>1 DEF Above
    <3>4. S \cup {q} = (w + 1) .. ((q + 1) - 1)
      BY <2>0, <3>1, <3>3
    <3>5. st[w][c][S] = A(w, c)[q] /\ st[w][c][S \cup {q}] = A(w, c)[q + 1]
      BY <2>1, <3>1, <3>3, <3>4
    <3> QED
      BY <1>6, <3>1, <3>5
  <2> QED
    BY <2>2, <2>3, <2>4
<1>10. IsSerial(aa, bb, x, st)
  BY <1>5, <1>9, Zenon DEF IsSerial
<1> QED
  BY <1>10, Zenon

=============================================================================
