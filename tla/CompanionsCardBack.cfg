\* The card stays in, or comes back, while its sidecar is edited; no faults.
SPECIFICATION Spec
CONSTANTS
  xmp = xmp  proxy = proxy  p1 = p1  p2 = p2  spool = spool  nas = nas  nas2 = nas2  card = card
  None = None
  Comps = {xmp, proxy}
  Regenerable = {proxy}
  Order <- MCOrder
  MaxVersion = 3
  MaxFaults = 0
  CardOut = FALSE
  Procs = {p1}
INVARIANTS EditsAreKept
