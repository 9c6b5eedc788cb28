\* Two NASes, one sidecar, one command at a time, no faults.
SPECIFICATION Spec
CONSTANTS
  xmp = xmp  proxy = proxy  p1 = p1  p2 = p2  spool = spool  nas = nas  nas2 = nas2  card = card
  None = None
  Comps = {xmp}
  Regenerable = {}
  Order <- MCTwoNASes
  MaxVersion = 2
  MaxFaults = 0
  CardOut = TRUE
  Procs = {p1}
INVARIANTS EditsAreKept
