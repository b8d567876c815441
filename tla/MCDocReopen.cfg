SPECIFICATION Spec
CONSTANTS
  a = a
  dot = dot
  num = num
  g = g
  r1 = r1
  r2 = r2
  Nil = Nil
  Message = Message
  Ref = {g, r1, r2}
  Globals = g
  Name = {a}
  Extent = 1
  Scalar = {num}
  Tbl = {t1}
  Dot = dot
  Names <- MCNames
  InitHeaps <- MCHeaps
  Args <- MCArgs
  MaxDepth = 2
  MaxLvls = 3
  MaxRuns = 0
  ScriptKeys = {}
PROPERTY
  ReopenCountsOpened
