SPECIFICATION Spec
CONSTANTS
  f1 = f1
  f2 = f2
  c1 = c1
  c2 = c2
  a = a
  b = b
  Fun <- MCFun
  Code <- MCCode
  Val <- MCVal
  Message = Message
  None = None
  TopAfterCall = FALSE
  MaxStack = 7
  MaxResults = 2
INVARIANT ExecutesGiven
SYMMETRY Symmetric
