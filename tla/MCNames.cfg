SPECIFICATION FairSpec
CONSTANTS
  a = a
  dot = dot
  num = num
  g = g
  r1 = r1
  r2 = r2
  Nil = Nil
  Message = Message
  Ref = {g, r1, r2}
  Globals = g
  Name = {a}
  Extent = 2
  Scalar = {num}
  Tbl = {t1}
  Dot = dot
  Names <- MCNames
  InitHeaps <- MCHeaps
  Args <- TblArg
  MaxDepth = 2
  MaxLvls = 2
  MaxRuns = 1
  ScriptKeys = {a}
INVARIANTS
  TypeOK
  HandlesNested
  LevelsCounted
  OpenTableIsSafe
  ArrayFrame
  HandlesValid
  SlotsOwned
  OpenedLinked
PROPERTIES
  ArrayCallRestores
  ArrayCallKeeps
  CallsEnd
  ReadsPreserve
  CallsReturn
