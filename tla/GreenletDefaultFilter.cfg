CONSTANTS
  main = main
  g1 = g1
  Main = main
  Greenlets = {main, g1}
  Word <- Words
  traced = traced
  nested = nested
  Funcs = {traced}
  FilterResult <- FilterAll
  a1 = a1
  a2 = a2
  a3 = a3
  Addresses = {a1, a2, a3}
  MaxDepth = 2
  MaxSuspends = 0
  MaxUnsets = 2
SPECIFICATION Spec
SYMMETRY AddressSymmetry
INVARIANT
  AllCallsLogged
