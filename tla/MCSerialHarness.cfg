SPECIFICATION HarnessSpec
CONSTANTS
  P = 3
  N = 2
  NRHS = 2
  Num <- FNum
  Fin <- FField
  Zero = 0
  Eps = 1
  Add <- FAdd
  Sub <- FSub
  Mul <- FMul
  Div <- FDiv
  Neg <- FNeg
  Abs <- FAbs
  Less <- FLess
  DotOver <- MCDotOver
  InputA <- MCInputA
  InputB <- MCInputB
  RelEps = 1
  LessEq <- MCLessEq
  NaNCompares = {TRUE, FALSE}
  Durations <- MCDurations
  Boots <- MCBoots
  Kilo = 2
  MaxClock = 100
INVARIANTS
  VerdictIsRight
  OkOfSingular
PROPERTY
  MainEnds
