\* One NAS that may be unplugged; an edit that changes the size, one that neither size nor ends show; a kill or an unplugging.
SPECIFICATION Spec
CONSTANTS
  spool = spool
  nas = nas
  nas2 = nas2
  card = card
  orig = orig
  edit = edit
  other = other
  None = None
  Original = orig
  Versions = {orig, edit, other}
  Order <- OneNAS
  Size <- OtherHides
  Sparse <- OtherHides
  Removable = {nas}
  MaxWrites = 2
  MaxFaults = 1
INVARIANTS TypeOK EditsAreKept
PROPERTIES FlushHeedsVerify
CONSTRAINT TwoEvents
CHECK_DEADLOCK FALSE
