------------------------------ MODULE Arithmetic ------------------------------
(***************************************************************************)
(* The arithmetic on doubles that my_dgesv uses, as a parameter.           *)
(*                                                                         *)
(* The solver's control flow depends on its numbers only through +, -, *,  *)
(* /, unary minus, fabs and <, so those are the constants of this module.  *)
(* What is assumed of them here is true of IEEE doubles, NaN and the       *)
(* infinities included: every operation returns a number, and < is a       *)
(* strict order in which a NaN is not related to anything.  No algebraic   *)
(* law is assumed; the results that need exact arithmetic say so in        *)
(* ExactArithmetic.                                                        *)
(***************************************************************************)
EXTENDS Integers

CONSTANTS
  Num,          \* the values a double can hold
  Zero,         \* 0.0
  Eps,          \* the literal 1e-10 that pivots are compared with
  Add(_, _), Sub(_, _), Mul(_, _), Div(_, _),
  Neg(_),
  Abs(_),       \* fabs
  Less(_, _)    \* the comparison <

ASSUME NumClosed ==
  /\ Zero \in Num
  /\ Eps \in Num
  /\ \A x \in Num : Neg(x) \in Num /\ Abs(x) \in Num
  /\ \A x, y \in Num : /\ Add(x, y) \in Num
                       /\ Sub(x, y) \in Num
                       /\ Mul(x, y) \in Num
                       /\ Div(x, y) \in Num

ASSUME LessOrder ==
  /\ \A x \in Num : ~Less(x, x)
  /\ \A x, y, z \in Num : Less(x, y) /\ Less(y, z) => Less(x, z)

\* fabs(x) < 1e-10: what the solver takes for a zero pivot.
Tiny(x) == Less(Abs(x), Eps)

=============================================================================
