----------------------------- MODULE LinearSolver -----------------------------
(***************************************************************************)
(* What a caller of my_dgesv may rely on: the call returns 0 with the      *)
(* solution of a x = b in place of b, or -1 when a is singular, and it     *)
(* tells the two apart.  On -1 nothing is promised about b.  Where nonzero *)
(* numbers lie below the threshold 1e-10, a regular matrix may be refused, *)
(* but a singular one is still not called solved.                          *)
(***************************************************************************)
EXTENDS ExactArithmetic

CONSTANTS InputA, InputB

VARIABLES
  a0, b0,     \* the arguments of the call
  x,          \* what the caller finds in b
  ret         \* the result, Running before the return

vars == <<a0, b0, x, ret>>

\* The threshold tells zero from every other number.
ZeroThreshold == \A y \in Fin : Tiny(y) => y = Zero

Init ==
  /\ a0 \in InputA
  /\ b0 \in InputB
  /\ x = b0
  /\ ret = Running

Solve ==
  /\ ret = Running
  /\ Col # {} => ~IsSingular(a0)
  /\ ret' = 0
  /\ x' \in [Row -> [Col -> Fin]]
  /\ \A c \in Col : Solves(a0, b0, c, Column(x', c))
  /\ UNCHANGED <<a0, b0>>

GiveUp ==
  /\ ret = Running
  /\ ZeroThreshold => IsSingular(a0)
  /\ ret' = -1
  /\ x' \in MatrixB
  /\ UNCHANGED <<a0, b0>>

Next == Solve \/ GiveUp

Spec == Init /\ [][Next]_vars

=============================================================================
