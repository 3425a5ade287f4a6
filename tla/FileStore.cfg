CONSTANTS
  w1 = w1
  w2 = w2
  r1 = r1
  short = short
  long = long
  Writers = {w1, w2}
  Readers = {r1}
  Values <- TwoValues
  Size <- Sizes
  Inodes = {1, 2, 3}
  NoFile = NoFile
  Nothing = Nothing
  Torn = Torn
CHECK_DEADLOCK FALSE
SPECIFICATION Spec
INVARIANTS
  TypeOK
PROPERTIES
  OnlyDeleteRemoves
  ImplementsStore
