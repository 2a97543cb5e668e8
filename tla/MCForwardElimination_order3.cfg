SPECIFICATION ElimSpec
CONSTANTS
  P = 3
  N = 3
  NRHS = 1
  Num <- FNum
  Fin <- FField
  Zero = 0
  Eps = 1
  Add <- FAdd
  Sub <- FSub
  Mul <- FMul
  Div <- FDiv
  Neg <- FNeg
  Abs <- FAbs
  Less <- FLess
  DotOver <- MCDotOver
  InputA <- MCInputA
  InputB <- MCOneB
INVARIANTS
  PivotDominates
  Echelon
  SolutionsPreserved
