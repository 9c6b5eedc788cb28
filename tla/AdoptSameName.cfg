\* A card with another still of the name that the library's is renamed to; no faults.
SPECIFICATION Spec
CONSTANTS
  clip = clip  still = still  twin = twin  other = other  mov = mov  img = img
  misc = misc  day = day  nested = nested  None = None
  Legacy = legacy
  LegacyDay = day
  Contents = {still, twin}
  Stills = {still, twin}
  Dirs = {misc, day, nested}
  Library <- MCOneStill
  Beside = {}
  Depth <- MCDepth
  DirDay <- MCDirDay
  CaptureDay <- MCCaptureDay
  Parts <- MCParts
  CardName <- MCSameName
  OnCard = {twin}
  CardBeside = {}
  Suffixes = 3
  MaxFaults = 0
  Mixed = FALSE
INVARIANT RowsAreTrue
