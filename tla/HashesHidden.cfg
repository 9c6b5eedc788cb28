\* A change that neither the size nor the sparse identity shows.
SPECIFICATION Spec
CONSTANTS
  spool = spool
  nas = nas
  nas2 = nas2
  card = card
  orig = orig
  edit = edit
  other = other
  None = None
  Original = orig
  Versions = {orig, edit, other}
  Order <- OneNAS
  Size <- OtherHides
  Sparse <- OtherHides
  Removable = {}
  MaxWrites = 1
  MaxFaults = 0
PROPERTY BadIsNeverSafe
CHECK_DEADLOCK FALSE
