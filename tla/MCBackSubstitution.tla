-------------------------- MODULE MCBackSubstitution --------------------------
(* BackSubstitutionSerial over the integers modulo P. *)
EXTENDS BackSubstitutionSerial, FiniteField, FiniteSetsExt

Sched == INSTANCE OmpSchedules
MCDynamic(th) == Sched!DynamicShare(th)

\* The iterations of the k loop in any order.
MCOrder(w, S) == S

\* What the elimination leaves: zeros below the diagonal, and no zero on it
\* but perhaps the last entry.
MCInputA ==
  {m \in [Row -> [Row -> FField]] : \A w, c \in Row :
     /\ c < w => m[w][c] = 0
     /\ c = w /\ w < N - 1 => m[w][c] # 0}

\* Right-hand sides that are different in every column.
MCInputB ==
  {[w \in Row |-> [c \in Col |-> (w * s + c + 1) % P]] : s \in 1 .. 2}

\* The serial loop: row N-1 first, and the rows above from the ones below.
MCSerialT(aa, bb) ==
  LET t(x, w, c, S) == FoldSet(LAMBDA k, acc : FSub(acc, FMul(aa[w][k], x[k])),
                               bb[w][c], S)
      column(c) == LET x[w \in Row] == FDiv(t(x, w, c, Above(w)), aa[w][w]) IN x
  IN  [w \in Row |-> [c \in Col |-> LET x == column(c) IN
        [S \in SUBSET Above(w) |-> t(x, w, c, S)]]]

MCSerialX(aa, bb) ==
  [w \in Row |-> [c \in Col |-> FDiv(MCSerialT(aa, bb)[w][c][Above(w)], aa[w][w])]]

\* The premise of SerialResult holds for every input.
ASSUME \A aa \in InputA, bb \in InputB :
         IsSerial(aa, bb, MCSerialX(aa, bb), MCSerialT(aa, bb))
=============================================================================
