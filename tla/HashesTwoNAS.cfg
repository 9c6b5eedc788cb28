\* Two NASes and one edit; nothing fails.
SPECIFICATION Spec
CONSTANTS
  spool = spool
  nas = nas
  nas2 = nas2
  card = card
  orig = orig
  edit = edit
  other = other
  None = None
  Original = orig
  Versions = {orig, edit, other}
  Order <- TwoNASes
  Size <- EverySizeDiffers
  Sparse <- EverySizeDiffers
  Removable = {}
  MaxWrites = 1
  MaxFaults = 0
INVARIANT EditsAreKept
CHECK_DEADLOCK FALSE
