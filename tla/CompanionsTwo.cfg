\* Two commands at once, one sidecar, no faults: a fetch to the spool beside a sweep.
SPECIFICATION Spec
CONSTANTS
  xmp = xmp  proxy = proxy  p1 = p1  p2 = p2  spool = spool  nas = nas  nas2 = nas2  card = card
  None = None
  Comps = {xmp}
  Regenerable = {}
  Order <- MCOrder
  MaxVersion = 2
  MaxFaults = 0
  CardOut = TRUE
  Procs = {p1, p2}
INVARIANTS EditsAreKept
