SPECIFICATION ElimSpec
CONSTANTS
  P = 5
  N = 3
  NRHS = 1
  Num <- FNum
  Fin <- FField
  Zero = 0
  Eps = 2
  Add <- FAdd
  Sub <- FSub
  Mul <- FMul
  Div <- FDiv
  Neg <- FNeg
  Abs <- FAbs
  Less <- FLess
  DotOver <- MCDotOver
  InputA <- MCFewA
  InputB <- MCOneB
INVARIANTS
  ElimTypeOK
  PivotsNotTiny
  StaysFinite
  GivesUpOnSingular
