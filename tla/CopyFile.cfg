\* One copier, tried again and again, cut short anywhere; the source edited and the power lost, twice each.
SPECIFICATION Spec
CONSTANTS
  c1 = c1  c2 = c2  i1 = i1  i2 = i2
  None = None
  Size = 3
  Copiers = {c1}
  Inodes = {i1, i2}
  Stoppable = {c1}
  MaxEdits = 2
  MaxLosses = 2
SYMMETRY InodeSymmetry
INVARIANTS TypeOK FinalIsWhole
PROPERTIES FinalIsKept HashIsOfFile
