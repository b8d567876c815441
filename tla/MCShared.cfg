SPECIFICATION Spec
CONSTANTS
  a = a
  dot = dot
  num = num
  g = g
  r1 = r1
  r2 = r2
  Nil = Nil
  Message = Message
  Ref = {g, r1, r2}
  Globals = g
  Name = {a}
  Extent = 1
  Scalar = {num}
  Tbl = {t1, t2}
  Dot = dot
  Names <- FewNames
  InitHeaps <- OneHeap
  Args <- NoArgs
  MaxDepth = 2
  MaxLvls = 1
  MaxRuns = 1
  ScriptKeys = {}
INVARIANTS
  HandleInv
  StackAccounted
PROPERTIES
  HandlesStable
  OpensStayApart
  ImplementsCursor
SYMMETRY Symmetric
