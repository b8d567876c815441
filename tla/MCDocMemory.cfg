SPECIFICATION Spec
CONSTANTS
  x = x
  y = y
  Block = {b1, b2, b3, b4}
  Cbuf = {c1, c2}
  Byte = {x, y}
  Scripts <- MCScripts
  Junk = Junk
  Free = Free
  Null = Null
  None = None
  InitSpace = 2
  IntMax = 7
  MaxAlloc = 8
  MaxRefused = 1
INVARIANT WriterErrorsReported
