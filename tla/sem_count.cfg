SPECIFICATION Spec
INVARIANTS
  OneInside
  TableCounted

  
CONSTANTS
  p1 = p1
  p2 = p2
  p3 = p3
  Proc <- ThreeProcs
  MAXSEMS = 1
  Values <- ZeroOrOne
  MaxBox = 4
  MaxValue = 1
CHECK_DEADLOCK FALSE
