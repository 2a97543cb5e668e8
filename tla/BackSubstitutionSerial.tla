------------------------ MODULE BackSubstitutionSerial ------------------------
(***************************************************************************)
(* The result of the parallel loop compared with the one a single thread   *)
(* computes, column after column.                                          *)
(*                                                                         *)
(* SerialX(a, b) is a candidate for the serial result and SerialT(a, b)    *)
(* for the values its accumulator t goes through: t once the iterations in *)
(* S of the k loop are done.  IsSerial says that they really are: they     *)
(* satisfy the recurrence of the loop body.                                *)
(*                                                                         *)
(* "omp simd" lets the compiler reorder the k loop.  Order(w, S) is what   *)
(* it may take next for row w when the iterations in S are left.  Where    *)
(* that is any of S, a T indexed by the set of iterations done exists only *)
(* if the order of the subtractions does not matter, as in exact           *)
(* arithmetic.  Where the code takes them one after the other, it exists   *)
(* in every arithmetic, that of the doubles included.                      *)
(***************************************************************************)
EXTENDS BackSubstitution

CONSTANTS SerialX(_, _), SerialT(_, _), Order(_, _)

Above(w) == (w + 1) .. (N - 1)

IsSerial(aa, bb, xx, st) ==
  /\ xx \in MatrixB
  /\ \A w \in Row, c \in Col :
       /\ st[w][c][{}] = bb[w][c]
       /\ \A S \in SUBSET Above(w) : \A k \in (Above(w) \ S) \cap Order(w, Above(w) \ S) :
            st[w][c][S \cup {k}] = Sub(st[w][c][S], Mul(aa[w][k], xx[k][c]))
       /\ xx[w][c] = Div(st[w][c][Above(w)], aa[w][w])

\* A step takes an iteration of the k loop only when its turn has come.
InOrder ==
  \A th \in Threads :
    tpc[th] = "inner" => tk[th] \ tk'[th] \subseteq Order(ti[th], tk[th])

\* The schedule, the number of threads and their interleaving do not change
\* the result: when my_dgesv leaves the parallel loop, b is what the serial
\* loop computes from the same a and b.
SerialResult ==
  (region = "after" /\ IsSerial(a, bIn, SerialX(a, bIn), SerialT(a, bIn)))
    => b = SerialX(a, bIn)

=============================================================================
