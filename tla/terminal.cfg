SPECIFICATION FairSpec
INVARIANTS
  TypeOK
  LinesInOrder
  WriterPaired
  LineShown
PROPERTIES
  WritesEnd
CONSTANTS
  p1 = p1
  p2 = p2
  User = {p1, p2}
  Sizes <- SomeSizes
  MAXLINE = 2
  LineSlots = 1
  MaxTyped = 3
  Newlines <- TheFirst
