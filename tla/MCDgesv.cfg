SPECIFICATION Spec
CONSTANTS
  P = 3
  N = 2
  NRHS = 3
  T = 2
  Num <- FNum
  Fin <- FField
  Zero = 0
  Eps = 1
  Add <- FAdd
  Sub <- FSub
  Mul <- FMul
  Div <- FDiv
  Neg <- FNeg
  Abs <- FAbs
  Less <- FLess
  DotOver <- MCDotOver
  Share <- MCDynamic
  InputA <- MCInputA
  InputB <- MCInputB
INVARIANT
  ZeroMeansSolved
PROPERTIES
  SolvesOrGivesUp
  Termination
