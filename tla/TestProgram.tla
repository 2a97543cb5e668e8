----------------------------- MODULE TestProgram -----------------------------
(***************************************************************************)
(* The test programs (test.c and task1/test.c, the same file): one system  *)
(* of order 3 is solved by LAPACKE_dgesv and by my_dgesv, and the results  *)
(* are printed next to each other.  In the main directory my_dgesv is that *)
(* of dgesv.c, in task1/ the serial one.  The arithmetic is that of the    *)
(* fractions.  Eps stands for 1e-10, which TLC's integers cannot hold with *)
(* room to compare: no number of these runs but 0 is between the two.      *)
(***************************************************************************)
EXTENDS Rationals

CONSTANT T          \* the size of the OpenMP team

VARIABLES
  build,            \* the my_dgesv it is linked with: "parallel" or "serial"
  mpc,              \* where main is
  A_copy, B_copy,   \* what LAPACKE_dgesv works on
  a, b, ret,        \* the arguments of my_dgesv, A and B of main; its result
  a0, b0, k, i, pc, \* local variables of both versions of my_dgesv
  maxIndex, maxVal, bIn, error_flag, region, pending, tpc, tj, ti, tk, tt,
  j, t              \* local variables of the serial one

mainVars == <<build, mpc, A_copy, B_copy>>
parallelVars == <<maxIndex, maxVal, bIn, error_flag, region, pending,
                  tpc, tj, ti, tk, tt>>
serialVars == <<j, t>>
solverVars == <<a, b, ret, a0, b0, k, i, pc, parallelVars, serialVars>>
vars == <<mainVars, solverVars>>

Index == 0 .. 2
Eps   == <<1, 1000>>

\* A matrix of whole numbers from its rows.
Matrix(rows) == [r \in Index |-> [c \in Index |-> <<rows[r + 1][c + 1], 1>>]]

A == Matrix(<<<<2, 3, -1>>, <<5, 2, 2>>, <<1, -1, 3>>>>)
B == Matrix(<<<<4, 1, -2>>, <<3, 5, 7>>, <<8, 2, 6>>>>)

Sum3(x, y, z) == QAdd(QAdd(x, y), z)
Dot(S, u, x) ==
  LET term(c) == IF c \in S THEN QMul(u[c], x[c]) ELSE <<0, 1>>
  IN  Sum3(term(0), term(1), term(2))
Dynamic(th) == Index

\* my_dgesv as called here.
Parallel == INSTANCE Dgesv
  WITH N <- 3, NRHS <- 3, Num <- {}, Fin <- {}, Zero <- <<0, 1>>,
       Add <- QAdd, Sub <- QSub, Mul <- QMul, Div <- QDiv, Neg <- QNeg,
       Abs <- QAbs, Less <- QLess, DotOver <- Dot, Share <- Dynamic,
       InputA <- {A}, InputB <- {B}
Serial == INSTANCE SerialDgesv
  WITH N <- 3, NRHS <- 3, Num <- {}, Fin <- {}, Zero <- <<0, 1>>,
       Add <- QAdd, Sub <- QSub, Mul <- QMul, Div <- QDiv, Neg <- QNeg,
       Abs <- QAbs, Less <- QLess, DotOver <- Dot,
       InputA <- {A}, InputB <- {B}

\* A and B are initialised; my_dgesv will be entered with them.
Init ==
  /\ build \in {"parallel", "serial"}
  /\ mpc = "start"
  /\ A_copy = A /\ B_copy = B
  /\ Parallel!Init
  /\ j = 0 /\ t = <<0, 1>>

\* The determinant, and Cramer's rule.
Det(m) ==
  LET P(c) == QMul(m[0][c], QMul(m[1][(c + 1) % 3], m[2][(c + 2) % 3]))
      Q(c) == QMul(m[0][c], QMul(m[1][(c + 2) % 3], m[2][(c + 1) % 3]))
  IN  QSub(Sum3(P(0), P(1), P(2)), Sum3(Q(0), Q(1), Q(2)))
Solution(m, rhs) ==
  [r \in Index |-> [c \in Index |->
     QDiv(Det([s \in Index |-> [m[s] EXCEPT ![r] = rhs[s][c]]]), Det(m))]]

\* The pivot array is allocated, or NULL, which LAPACKE_dgesv writes through;
\* it leaves the solution in B_copy.
LAPACKE_dgesv ==
  /\ mpc = "start"
  /\ \/ mpc' = "my_dgesv" /\ B_copy' = Solution(A_copy, B_copy)
     \/ mpc' = "crashed" /\ UNCHANGED B_copy
  /\ UNCHANGED <<build, A_copy, solverVars>>

\* my_dgesv runs; what it returns is not looked at.
my_dgesv ==
  /\ mpc = "my_dgesv"
  /\ \/ /\ build = "parallel"
        /\ Parallel!Eliminate \/ Parallel!BackSubstitute
        /\ UNCHANGED serialVars
     \/ build = "serial" /\ Serial!Next /\ UNCHANGED parallelVars
  /\ UNCHANGED mainVars

\* The entries of B and B_copy are printed in pairs, and main returns 0.
PrintResults ==
  /\ mpc = "my_dgesv"
  /\ ret # Parallel!Running
  /\ mpc' = "exit"
  /\ UNCHANGED <<build, A_copy, B_copy, solverVars>>

Next == LAPACKE_dgesv \/ my_dgesv \/ PrintResults

Ended == mpc \in {"exit", "crashed"} /\ UNCHANGED vars

Spec == Init /\ [][Next \/ Ended]_vars

-----------------------------------------------------------------------------
\* In every line that the program prints, the number is the expected one:
\* both versions of my_dgesv solve this system, whose matrix needs a row
\* exchange for partial pivoting and none without it.
PrintsTheExpected == mpc = "exit" => b = B_copy

=============================================================================
