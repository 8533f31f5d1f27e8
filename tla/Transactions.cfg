SPECIFICATION Spec
CONSTANTS
  a = a
  b = b
  v1 = v1
  v2 = v2
  Names <- TwoNames
  Values <- TwoValues
  Disciplined = TRUE
  MaxSavepoints = 4
  MaxStack = 6
INVARIANT ConnectionInv
PROPERTY ImplementsScopes
