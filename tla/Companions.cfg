\* One sidecar and one proxy, one NAS, one command at a time, two faults; edits begin when the card is out for good.
SPECIFICATION Spec
CONSTANTS
  xmp = xmp  proxy = proxy  p1 = p1  p2 = p2  spool = spool  nas = nas  nas2 = nas2  card = card
  None = None
  Comps = {xmp, proxy}
  Regenerable = {proxy}
  Order <- MCOrder
  MaxVersion = 3
  MaxFaults = 2
  CardOut = TRUE
  Procs = {p1}
INVARIANTS TypeOK EditsAreKept EditorSeesNewest ArchiveKeepsNASCurrent
PROPERTIES FlushSecuresSidecar
