------------------------------- MODULE MCDgesv -------------------------------
(* Dgesv over the integers modulo P, for all matrices of order N. *)
EXTENDS Dgesv, FiniteField, FiniteSetsExt

Sched == INSTANCE OmpSchedules
MCDynamic(th) == Sched!DynamicShare(th)

MCInputA == [Row -> [Row -> FField]]
MCInputB == {[r \in Row |-> [c \in Col |-> (r + c + 1) % P]]}
MCDotOver(S, u, v) == FoldSet(LAMBDA c, acc : FAdd(acc, FMul(u[c], v[c])), 0, S)
=============================================================================
