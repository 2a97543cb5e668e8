------------------------- MODULE MCForwardElimination -------------------------
(* ForwardEliminationExact over the integers modulo P. *)
EXTENDS ForwardEliminationExact, FiniteField, FiniteSetsExt

MCInputA == [Row -> [Row -> FField]]

\* Two tiny values and one that is not (Eps = 2), where all values would be too
\* many; the elimination makes all others of them.
MCFewA == [Row -> [Row -> {0, 1, 3}]]

MCDotOver(S, u, v) == FoldSet(LAMBDA c, acc : FAdd(acc, FMul(u[c], v[c])), 0, S)

\* One right-hand side.
MCOneB == {[r \in Row |-> [c \in Col |-> (r + c + 1) % P]]}
=============================================================================
