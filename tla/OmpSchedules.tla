----------------------------- MODULE OmpSchedules -----------------------------
(***************************************************************************)
(* What the OpenMP schedule clauses of the two versions of my_dgesv let a  *)
(* thread of the team take.                                                *)
(***************************************************************************)
EXTENDS Integers

CONSTANTS NRHS, T

\* schedule(dynamic) of dgesv.c: any thread may be handed any column.
DynamicShare(th) == 0 .. (NRHS - 1)

\* dgesv-optimal1.c has no schedule clause, which means static: the columns
\* are cut into T consecutive blocks whose sizes differ by at most one.
BlockStart(th) ==
  LET q == NRHS \div T
      r == NRHS % T
  IN  th * q + (IF th < r THEN th ELSE r)
StaticShare(th) == BlockStart(th) .. (BlockStart(th + 1) - 1)

=============================================================================
