SPECIFICATION Spec
CONSTANT
  W8 = 16
INVARIANTS
  LoopsInBounds
  SmallIsDefined
  OkCoversSystem
