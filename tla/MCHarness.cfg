SPECIFICATION HarnessSpec
CONSTANTS
  P = 3
  N = 2
  NRHS = 2
  T = 2
  Num <- FNum
  Fin <- FField
  Zero = 0
  Eps = 2
  Add <- FAdd
  Sub <- FSub
  Mul <- FMul
  Div <- FDiv
  Neg <- FNeg
  Abs <- FAbs
  Less <- FLess
  DotOver <- MCDotOver
  Share <- MCDynamic
  InputA <- MCInputA
  InputB <- MCInputB
  RelEps = 0
  LessEq <- MCLessEq
  NaNCompares = {TRUE, FALSE}
  Durations <- MCDurations
  Boots <- MCBoots
  Kilo = 2
  MaxClock = 100
INVARIANTS
  RegularIsOk
  VerdictIsRight
  OkOfSingular
  TimesAreOwn
PROPERTY
  MainEnds
