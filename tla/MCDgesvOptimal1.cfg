SPECIFICATION Spec
CONSTANTS
  P = 3
  N = 2
  NRHS = 2
  T = 3
  Num <- FNum
  Fin <- FField
  Zero = 0
  Eps = 1
  Add <- FAdd
  Sub <- FSub
  Mul <- FMul
  Div <- FDiv
  Neg <- FNeg
  Abs <- FAbs
  Less <- FLess
  DotOver <- MCDotOver
  InputA <- MCInputA
  InputB <- MCInputB
PROPERTIES
  SolvesOrGivesUp
  Termination
