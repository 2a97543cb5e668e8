SPECIFICATION BackSpec
CONSTANTS
  P = 2
  N = 3
  NRHS = 3
  T = 2
  Num <- FNum
  Zero = 0
  Eps = 1
  Add <- FAdd
  Sub <- FSub
  Mul <- FMul
  Div <- FDiv
  Neg <- FNeg
  Abs <- FAbs
  Less <- FLess
  Share <- MCDynamic
  InputA <- MCInputA
  InputB <- MCInputB
  SerialX <- MCSerialX
  SerialT <- MCSerialT
  Order <- MCOrder
INVARIANT
  AlignedAsAsserted
