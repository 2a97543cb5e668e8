-------------------------- MODULE MCSerialHarness --------------------------
(* SerialHarness over the integers modulo P, for all systems of order N. *)
EXTENDS SerialHarness, FiniteField, FiniteSetsExt

MCInputA == [Row -> [Row -> FField]]
MCInputB == [Row -> [Col -> FField]]
MCDotOver(S, u, v) == FoldSet(LAMBDA c, acc : FAdd(acc, FMul(u[c], v[c])), 0, S)

\* The comparison of representatives.
MCLessEq(x, y) == x <= y

\* A time below a millisecond (Kilo^2 ns) and one above it.
MCDurations == {1, 5}
MCBoots == {3}
=============================================================================
