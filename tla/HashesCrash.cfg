\* One edit, and a kill.
SPECIFICATION Spec
CONSTANTS
  spool = spool
  nas = nas
  nas2 = nas2
  card = card
  orig = orig
  edit = edit
  other = other
  None = None
  Original = orig
  Versions = {orig, edit, other}
  Order <- OneNAS
  Size <- EverySizeDiffers
  Sparse <- EverySizeDiffers
  Removable = {}
  MaxWrites = 1
  MaxFaults = 1
INVARIANT AdoptedIsKept
CHECK_DEADLOCK FALSE
