------------------------------ MODULE MCHarness ------------------------------
(* Harness over the integers modulo P, for all matrices of order N. *)
EXTENDS Harness, FiniteField, FiniteSetsExt

Sched == INSTANCE OmpSchedules
MCDynamic(th) == Sched!DynamicShare(th)

MCInputA == [Row -> [Row -> FField]]
MCInputB == {[r \in Row |-> [c \in Col |-> (r + c + 1) % P]]}
MCDotOver(S, u, v) == FoldSet(LAMBDA c, acc : FAdd(acc, FMul(u[c], v[c])), 0, S)

\* The comparison of representatives.
MCLessEq(x, y) == x <= y

\* Times below, at and above a millisecond (Kilo^2 ns) and a second (Kilo^3).
MCDurations == {0, 1, 3, 5, 9}
MCBoots == {0, 3}
=============================================================================
