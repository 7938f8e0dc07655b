CONSTANTS
  main = main
  g1 = g1
  g2 = g2
  Main = main
  Greenlets = {main, g1, g2}
  Word <- Words
  traced = traced
  nested = nested
  Funcs = {traced, nested}
  FilterResult <- Filter
  a1 = a1
  a2 = a2
  a3 = a3
  Addresses = {a1, a2, a3}
  MaxDepth = 2
  MaxSuspends = 1
  MaxUnsets = 1
SPECIFICATION Spec
SYMMETRY AddressSymmetry
CONSTRAINT OneAtATime
INVARIANTS
  RightGreenlet
  DepthPaired
  NestedSilent
  OnlyNestedSilent
  NoLeftOverStorage
  NoDanglingStorage
