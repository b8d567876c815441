SPECIFICATION Spec
CONSTANTS
  v1 = v1
  v2 = v2
  v3 = v3
  VM <- MCVM
  Null = Null
  MaxCalls = 2
INVARIANT
  ErrorReported
