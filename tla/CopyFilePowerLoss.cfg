\* A power loss blanks the middle of a partial; the copy is resumed.
SPECIFICATION Spec
CONSTANTS
  c1 = c1  c2 = c2  i1 = i1  i2 = i2
  None = None
  Size = 3
  Copiers = {c1}
  Inodes = {i1, i2}
  Stoppable = {}
  MaxEdits = 0
  MaxLosses = 1
INVARIANTS FinalIsComplete
