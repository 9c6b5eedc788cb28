\* The clip's proxy is on a card that is imported while its library is renamed; no faults.
SPECIFICATION Spec
CONSTANTS
  clip = clip  still = still  twin = twin  other = other  mov = mov  img = img
  misc = misc  day = day  nested = nested  None = None
  Legacy = legacy
  LegacyDay = day
  Contents = {clip, still, twin}
  Stills = {still, twin}
  Dirs = {misc, day, nested}
  Library <- MCLibrary
  Beside <- MCBeside
  Depth <- MCDepth
  DirDay <- MCDirDay
  CaptureDay <- MCCaptureDay
  Parts <- MCParts
  CardName <- MCCardName
  OnCard = {clip, twin}
  CardBeside = {clip}
  Suffixes = 3
  MaxFaults = 0
  Mixed = FALSE
PROPERTY CompanionsAreKept
