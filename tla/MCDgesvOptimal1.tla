--------------------------- MODULE MCDgesvOptimal1 ---------------------------
(* DgesvOptimal1 over the integers modulo P, for all matrices of order N. *)
EXTENDS DgesvOptimal1, FiniteField, FiniteSetsExt

MCInputA == [Row -> [Row -> FField]]
MCInputB == {[r \in Row |-> [c \in Col |-> (r + c + 1) % P]]}
MCDotOver(S, u, v) == FoldSet(LAMBDA c, acc : FAdd(acc, FMul(u[c], v[c])), 0, S)
=============================================================================
